------------------------------- MODULE Panel -------------------------------
(***************************************************************************)
(* The display task beside the WiFi manager: every 50 ms it asks for the   *)
(* mode and, outside provisioning, polls the front button.                 *)
(***************************************************************************)
EXTENDS Wifi

CONSTANT DEBOUNCE_TICKS

ASSUME PanelAssumption == DEBOUNCE_TICKS \in Nat \ {0}

VARIABLES
    s_btn_last_raw, s_btn_last_stable, s_btn_debounce,
    pressed,    \* what the last poll reported
    readings,   \* history: the last DEBOUNCE_TICKS + 1 readings
    released    \* history: those readings were once all up since the last press

buttonVars == <<s_btn_last_raw, s_btn_last_stable, s_btn_debounce, pressed, readings, released>>

PanelTypeOK ==
    /\ TypeOK
    /\ s_btn_debounce \in 0 .. DEBOUNCE_TICKS
    /\ {s_btn_last_raw, s_btn_last_stable, pressed, released} \subseteq BOOLEAN
    /\ readings \in [1 .. DEBOUNCE_TICKS + 1 -> BOOLEAN]

\* Before the first poll the button counts as up.
ButtonUp ==
    /\ s_btn_last_raw = FALSE /\ s_btn_last_stable = FALSE /\ s_btn_debounce = 0
    /\ pressed = FALSE /\ released = TRUE
    /\ readings = [i \in 1 .. DEBOUNCE_TICKS + 1 |-> FALSE]

PanelInit == Init /\ ButtonUp

ButtonReset ==
    /\ s_btn_last_raw' = FALSE /\ s_btn_last_stable' = FALSE /\ s_btn_debounce' = 0
    /\ pressed' = FALSE /\ released' = TRUE
    /\ readings' = [i \in 1 .. DEBOUNCE_TICKS + 1 |-> FALSE]
-----------------------------------------------------------------------------
KeepCounting(raw) == IF s_btn_debounce < DEBOUNCE_TICKS THEN s_btn_debounce + 1 ELSE s_btn_debounce
Unbounded(raw)    == IF raw # s_btn_last_raw THEN 0 ELSE s_btn_debounce + 1
Debounce(raw) ==
    IF raw # s_btn_last_raw THEN 0
    ELSE IF s_btn_debounce < DEBOUNCE_TICKS THEN s_btn_debounce + 1 ELSE s_btn_debounce

Stable(raw) == IF Debounce(raw) >= DEBOUNCE_TICKS THEN raw ELSE s_btn_last_stable

Window(raw) == Append(Tail(readings), raw)
All(window, raw) == \A i \in DOMAIN window : window[i] = raw

\* button_pressed; raw is the level of the pin.
button_pressed(raw) ==
    /\ s_btn_debounce' = Debounce(raw)
    /\ s_btn_last_raw' = raw
    /\ s_btn_last_stable' = Stable(raw)
    /\ pressed' = (Stable(raw) /\ ~s_btn_last_stable)
    /\ readings' = Window(raw)
    /\ released' = (~pressed' /\ (released \/ All(Window(raw), FALSE)))

\* An iteration of display_task, which is started when init has returned.  In
\* provisioning mode the button is not even read.
Poll ==
    /\ boot \in Decided /\ s_mode # "PROVISIONING"
    /\ \E raw \in BOOLEAN : button_pressed(raw)
    /\ UNCHANGED wifiVars

Restarts == PowerLoss \/ Restart
Runs == Disconnects \/ Connects \/ sta_event_handler \/ init
            \/ (\E network \in Networks : ConnectStarts(network)) \/ SaveSsid \/ SavePass

PanelNext == (Restarts /\ ButtonReset) \/ (Runs /\ UNCHANGED buttonVars) \/ Poll

PanelSpec == PanelInit /\ [][PanelNext]_<<wifiVars, buttonVars>> /\ WF_wifiVars(init /\ UNCHANGED buttonVars)
-----------------------------------------------------------------------------
\* display.h:29: a press is reported once and debounced.  At a report the button
\* has been down for DEBOUNCE_TICKS + 1 polls in a row, and between two reports
\* it has been up for as many, however it bounces and however often the mode
\* changes suspend the polling.
OncePerPress ==
    [][Poll /\ pressed' => All(readings', TRUE) /\ released]_<<wifiVars, buttonVars>>
=============================================================================
