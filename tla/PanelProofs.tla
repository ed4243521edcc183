----------------------------- MODULE PanelProofs -----------------------------
(***************************************************************************)
(* Proofs about Panel: the button, for any debounce time, and the WiFi     *)
(* manager, for any retry limit, stored and compiled-in credentials.       *)
(***************************************************************************)
EXTENDS Panel, TLAPS

\* The window of readings slides by one.
LEMMA Slide ==
    ASSUME NEW k \in Nat \ {0}, NEW S, NEW w \in [1 .. k + 1 -> S], NEW x \in S
    PROVE  /\ Append(Tail(w), x) \in [1 .. k + 1 -> S]
           /\ Append(Tail(w), x)[k + 1] = x
           /\ \A i \in 1 .. k : Append(Tail(w), x)[i] = w[i + 1]
<1>1. w \in Seq(S) /\ Len(w) = k + 1
  BY SMT
<1>2. Tail(w) \in Seq(S) /\ Len(Tail(w)) = k /\ \A i \in 1 .. k : Tail(w)[i] = w[i + 1]
  BY <1>1
<1> DEFINE t == Tail(w)
<1>3. t \in Seq(S) /\ Len(t) = k /\ \A i \in 1 .. k : t[i] = w[i + 1]
  BY <1>2
<1> HIDE DEF t
<1>4. Append(t, x) \in Seq(S) /\ Len(Append(t, x)) = k + 1
  BY <1>3
<1>5. Append(t, x)[k + 1] = x /\ \A i \in 1 .. k : Append(t, x)[i] = t[i]
  BY <1>3
<1>6. Append(t, x) \in [1 .. k + 1 -> S]
  <2> DEFINE a == Append(t, x)
  <2> HIDE DEF a
  <2>1. a \in Seq(S) /\ Len(a) = k + 1
    BY <1>4 DEF a
  <2>2. \A s \in Seq(S) : s \in [1 .. Len(s) -> S]
    BY SMT
  <2>3. a \in [1 .. k + 1 -> S]
    BY <2>1, <2>2
  <2> QED
    BY <2>3 DEF a
<1> QED
  BY <1>3, <1>5, <1>6 DEF t

\* The counter says how many readings before the last one agree with it.
Agree(window, count, raw) ==
    \A i \in (DEBOUNCE_TICKS + 1 - count) .. (DEBOUNCE_TICKS + 1) : window[i] = raw

\* While the button counts as up, it was released since the last report.
ButtonInv ==
    /\ readings \in [1 .. DEBOUNCE_TICKS + 1 -> BOOLEAN]
    /\ s_btn_debounce \in 0 .. DEBOUNCE_TICKS
    /\ s_btn_last_raw \in BOOLEAN /\ s_btn_last_stable \in BOOLEAN
    /\ Agree(readings, s_btn_debounce, s_btn_last_raw)
    /\ s_btn_last_stable \/ released

LEMMA CountsAgreement ==
    ASSUME ButtonInv, NEW raw \in BOOLEAN
    PROVE  /\ Window(raw) \in [1 .. DEBOUNCE_TICKS + 1 -> BOOLEAN]
           /\ Debounce(raw) \in 0 .. DEBOUNCE_TICKS
           /\ Agree(Window(raw), Debounce(raw), raw)
<1>0. DEBOUNCE_TICKS \in Nat \ {0}
  BY PanelAssumption
<1>1. /\ Window(raw) \in [1 .. DEBOUNCE_TICKS + 1 -> BOOLEAN]
      /\ Window(raw)[DEBOUNCE_TICKS + 1] = raw
      /\ \A i \in 1 .. DEBOUNCE_TICKS : Window(raw)[i] = readings[i + 1]
  <2>1. readings \in [1 .. DEBOUNCE_TICKS + 1 -> BOOLEAN]
    BY Zenon DEF ButtonInv
  <2> QED
    BY <1>0, <2>1, Slide DEF Window
<1>2. s_btn_debounce \in 0 .. DEBOUNCE_TICKS
  BY DEF ButtonInv
<1>3. CASE raw # s_btn_last_raw
  <2>1. Debounce(raw) = 0
    BY <1>3, Zenon DEF Debounce
  <2>2. \A i \in (DEBOUNCE_TICKS + 1 - 0) .. (DEBOUNCE_TICKS + 1) : i = DEBOUNCE_TICKS + 1
    BY <1>0
  <2>3. Agree(Window(raw), 0, raw)
    BY <1>1, <2>2, Zenon DEF Agree
  <2>4. 0 \in 0 .. DEBOUNCE_TICKS
    BY <1>0
  <2> QED
    BY <1>1, <2>1, <2>3, <2>4, Zenon
<1>4. CASE raw = s_btn_last_raw
  <2> DEFINE count == IF s_btn_debounce < DEBOUNCE_TICKS THEN s_btn_debounce + 1 ELSE s_btn_debounce
  <2>1. Debounce(raw) = count
    BY <1>4, Zenon DEF Debounce
  <2>2. count \in 0 .. DEBOUNCE_TICKS /\ count <= s_btn_debounce + 1
    BY <1>0, <1>2
  <2> HIDE DEF count
  <2>3. \A i \in (DEBOUNCE_TICKS + 1 - s_btn_debounce) .. (DEBOUNCE_TICKS + 1) : readings[i] = raw
    BY <1>4, Zenon DEF ButtonInv, Agree
  <2>4. \A i \in (DEBOUNCE_TICKS + 1 - count) .. (DEBOUNCE_TICKS + 1) :
          \/ i = DEBOUNCE_TICKS + 1
          \/ i \in 1 .. DEBOUNCE_TICKS
             /\ i + 1 \in (DEBOUNCE_TICKS + 1 - s_btn_debounce) .. (DEBOUNCE_TICKS + 1)
    BY <1>0, <1>2, <2>2
  <2>5. Agree(Window(raw), count, raw)
    BY <1>1, <2>3, <2>4, Zenon DEF Agree
  <2> QED
    BY <1>1, <2>1, <2>2, <2>5, Zenon
<1> QED
  BY <1>3, <1>4

\* A full counter means that the whole window agrees.
LEMMA FullWindow ==
    ASSUME ButtonInv, NEW raw \in BOOLEAN, Debounce(raw) >= DEBOUNCE_TICKS
    PROVE  All(Window(raw), raw)
<1>1. Debounce(raw) = DEBOUNCE_TICKS
  BY CountsAgreement, PanelAssumption
<1>2. \A i \in 1 .. DEBOUNCE_TICKS + 1 :
        i \in (DEBOUNCE_TICKS + 1 - DEBOUNCE_TICKS) .. (DEBOUNCE_TICKS + 1)
  BY PanelAssumption
<1>3. Agree(Window(raw), DEBOUNCE_TICKS, raw) /\ DOMAIN Window(raw) = 1 .. DEBOUNCE_TICKS + 1
  BY <1>1, CountsAgreement
<1> QED
  BY <1>2, <1>3, Zenon DEF Agree, All

LEMMA PollStep ==
    ASSUME ButtonInv, NEW raw \in BOOLEAN, button_pressed(raw)
    PROVE  ButtonInv' /\ (pressed' => All(readings', TRUE) /\ released)
<1>1. /\ readings' = Window(raw) /\ s_btn_debounce' = Debounce(raw) /\ s_btn_last_raw' = raw
      /\ s_btn_last_stable' = Stable(raw) /\ pressed' = (Stable(raw) /\ ~s_btn_last_stable)
      /\ released' = (~pressed' /\ (released \/ All(Window(raw), FALSE)))
  BY Zenon DEF button_pressed
<1>2. Debounce(raw) >= DEBOUNCE_TICKS => All(Window(raw), raw)
  BY FullWindow, Zenon
<1>3. Stable(raw) = raw \/ Stable(raw) = s_btn_last_stable
  BY Zenon DEF Stable
<1>4. Stable(raw) # s_btn_last_stable => Stable(raw) = raw /\ All(Window(raw), raw)
  BY <1>2, Zenon DEF Stable
<1>5. Stable(raw) \in BOOLEAN /\ s_btn_last_stable \in BOOLEAN /\ (s_btn_last_stable \/ released)
  BY <1>3, Zenon DEF ButtonInv
<1>6. pressed' => All(readings', TRUE) /\ released
  <2> SUFFICES ASSUME pressed' PROVE All(readings', TRUE) /\ released
    OBVIOUS
  <2>1. Stable(raw) = TRUE /\ s_btn_last_stable = FALSE
    BY <1>1, <1>5, Zenon
  <2>2. raw = TRUE /\ All(Window(raw), raw)
    BY <1>4, <2>1, Zenon
  <2> QED
    BY <1>1, <1>5, <2>1, <2>2, Zenon
<1>7. Stable(raw) \/ released'
  <2> SUFFICES ASSUME Stable(raw) = FALSE PROVE released'
    BY <1>5, Zenon
  <2>1. ~pressed'
    BY <1>1, Zenon
  <2>2. CASE s_btn_last_stable = FALSE
    BY <1>1, <1>5, <2>1, <2>2, Zenon
  <2>3. CASE s_btn_last_stable = TRUE
    BY <1>1, <1>4, <2>1, <2>3, Zenon
  <2> QED
    BY <1>5, <2>2, <2>3, Zenon
<1> QED
  BY <1>1, <1>5, <1>6, <1>7, CountsAgreement, Zenon DEF ButtonInv

LEMMA UpAgain ==
    ASSUME NEW w, w = [i \in 1 .. DEBOUNCE_TICKS + 1 |-> FALSE]
    PROVE  /\ w \in [1 .. DEBOUNCE_TICKS + 1 -> BOOLEAN] /\ 0 \in 0 .. DEBOUNCE_TICKS
           /\ Agree(w, 0, FALSE)
<1>1. 0 \in 0 .. DEBOUNCE_TICKS
  BY PanelAssumption
<1>2. \A i \in (DEBOUNCE_TICKS + 1 - 0) .. (DEBOUNCE_TICKS + 1) : i \in 1 .. DEBOUNCE_TICKS + 1
  BY PanelAssumption
<1> QED
  BY <1>1, <1>2, Zenon DEF Agree

LEMMA ButtonInvariant == PanelSpec => []ButtonInv
<1>1. PanelInit => ButtonInv
  BY UpAgain, Zenon DEF PanelInit, ButtonUp, ButtonInv
<1>2. ButtonInv /\ [PanelNext]_<<wifiVars, buttonVars>> => ButtonInv'
  <2> SUFFICES ASSUME ButtonInv, [PanelNext]_<<wifiVars, buttonVars>> PROVE ButtonInv'
    OBVIOUS
  <2>1. CASE ButtonReset
    BY <2>1, UpAgain, Zenon DEF ButtonReset, ButtonInv
  <2>2. CASE UNCHANGED buttonVars
    BY <2>2, Zenon DEF buttonVars, ButtonInv, Agree
  <2>3. CASE Poll
    BY <2>3, PollStep, Zenon DEF Poll
  <2> QED
    BY <2>1, <2>2, <2>3, Zenon DEF PanelNext
<1> QED
  BY <1>1, <1>2, PTL DEF PanelSpec

\* For every debounce time, bounce pattern and suspension of the polling, a
\* press is reported only when it has lasted for the debounce time and the
\* button had been up for as long since the report before.
THEOREM PressIsReportedOnce == PanelSpec => OncePerPress
<1>1. ButtonInv /\ [PanelNext]_<<wifiVars, buttonVars>>
        => [Poll /\ pressed' => All(readings', TRUE) /\ released]_<<wifiVars, buttonVars>>
  BY PollStep, Zenon DEF Poll
<1> QED
  BY <1>1, ButtonInvariant, PTL DEF PanelSpec, OncePerPress
-----------------------------------------------------------------------------
(***************************************************************************)
(* The event queue of Wifi                                                 *)
(***************************************************************************)
Event == {"STA_START", "DISCONNECTED", "GOT_IP"}

\* A queued event other than GOT_IP can make the station connect; a station
\* that connects or is connected will post one of these.  There are at most
\* two such chances about at a time, so at most so many in the queue.
Chance(queue, i) == queue[i] # "GOT_IP"
NoChance(queue) == \A i \in 1 .. Len(queue) : ~Chance(queue, i)
AtMost1(queue)  == \A i, j \in 1 .. Len(queue) : Chance(queue, i) /\ Chance(queue, j) => i = j
AtMost2(queue) ==
    \A i, j, k \in 1 .. Len(queue) :
        Chance(queue, i) /\ Chance(queue, j) /\ Chance(queue, k) => i = j \/ j = k \/ i = k

\* Two addresses are not obtained without a disconnection between them.
Spaced(queue) == \A i \in 1 .. (Len(queue) - 1) : Chance(queue, i) \/ Chance(queue, i + 1)
EndsInChance(queue) == Len(queue) > 0 => Chance(queue, Len(queue))

LEMMA FewEvents ==
    ASSUME NEW q \in Seq(Event), AtMost2(q), Spaced(q)
    PROVE  Len(q) <= 5
<1> SUFFICES ASSUME Len(q) >= 6 PROVE FALSE
  OBVIOUS
<1>1. /\ Chance(q, 1) \/ Chance(q, 1 + 1)
      /\ Chance(q, 3) \/ Chance(q, 3 + 1)
      /\ Chance(q, 5) \/ Chance(q, 5 + 1)
  BY DEF Spaced
<1>2. PICK i \in {1, 2}, j \in {3, 4}, k \in {5, 6} : Chance(q, i) /\ Chance(q, j) /\ Chance(q, k)
  BY <1>1
<1> QED
  BY <1>2 DEF AtMost2

LEMMA PostChance ==
    ASSUME NEW q \in Seq(Event), NEW e \in Event \ {"GOT_IP"}, Spaced(q)
    PROVE  /\ Append(q, e) \in Seq(Event) /\ Spaced(Append(q, e)) /\ EndsInChance(Append(q, e))
           /\ NoChance(q) => AtMost1(Append(q, e))
           /\ AtMost1(q) => AtMost2(Append(q, e))
<1> DEFINE a == Append(q, e)
<1>1. /\ a \in Seq(Event) /\ Len(a) = Len(q) + 1 /\ a[Len(q) + 1] = e
      /\ \A i \in 1 .. Len(q) : a[i] = q[i]
  OBVIOUS
<1> HIDE DEF a
<1>2. Spaced(a) /\ EndsInChance(a)
  BY <1>1 DEF Spaced, EndsInChance, Chance
<1>3. NoChance(q) => AtMost1(a)
  BY <1>1 DEF NoChance, AtMost1, Chance
<1>4. AtMost1(q) => AtMost2(a)
  BY <1>1 DEF AtMost1, AtMost2, Chance
<1> QED
  BY <1>1, <1>2, <1>3, <1>4 DEF a

LEMMA PostAddress ==
    ASSUME NEW q \in Seq(Event), Spaced(q), EndsInChance(q)
    PROVE  /\ Append(q, "GOT_IP") \in Seq(Event) /\ Spaced(Append(q, "GOT_IP"))
           /\ NoChance(q) => NoChance(Append(q, "GOT_IP"))
           /\ AtMost1(q) => AtMost1(Append(q, "GOT_IP"))
<1> DEFINE a == Append(q, "GOT_IP")
<1>1. /\ a \in Seq(Event) /\ Len(a) = Len(q) + 1 /\ a[Len(q) + 1] = "GOT_IP"
      /\ \A i \in 1 .. Len(q) : a[i] = q[i]
  BY DEF Event
<1> HIDE DEF a
<1>2. Spaced(a)
  BY <1>1 DEF Spaced, EndsInChance, Chance
<1>3. NoChance(q) => NoChance(a)
  BY <1>1 DEF NoChance, Chance
<1>4. AtMost1(q) => AtMost1(a)
  BY <1>1 DEF AtMost1, Chance
<1> QED
  BY <1>1, <1>2, <1>3, <1>4 DEF a

LEMMA TakeEvent ==
    ASSUME NEW q \in Seq(Event), q # <<>>, Spaced(q)
    PROVE  /\ Head(q) \in Event /\ Tail(q) \in Seq(Event) /\ Spaced(Tail(q))
           /\ EndsInChance(q) => EndsInChance(Tail(q))
           /\ NoChance(q) => NoChance(Tail(q)) /\ Head(q) = "GOT_IP"
           /\ AtMost1(q) => AtMost1(Tail(q)) /\ (Head(q) # "GOT_IP" => NoChance(Tail(q)))
           /\ AtMost2(q) => AtMost2(Tail(q)) /\ (Head(q) # "GOT_IP" => AtMost1(Tail(q)))
<1> DEFINE t == Tail(q)
<1>1. /\ t \in Seq(Event) /\ Len(q) = Len(t) + 1 /\ Head(q) = q[1] /\ Head(q) \in Event
      /\ \A i \in 1 .. Len(t) : t[i] = q[i + 1]
  OBVIOUS
<1> HIDE DEF t
<1>2. Spaced(t) /\ (EndsInChance(q) => EndsInChance(t))
  BY <1>1 DEF Spaced, EndsInChance, Chance
<1>3. NoChance(q) => NoChance(t) /\ Head(q) = "GOT_IP"
  BY <1>1 DEF NoChance, Chance
<1>4. AtMost1(q) => AtMost1(t) /\ (Head(q) # "GOT_IP" => NoChance(t))
  BY <1>1 DEF AtMost1, NoChance, Chance
<1>5. AtMost2(q) => AtMost2(t) /\ (Head(q) # "GOT_IP" => AtMost1(t))
  <2> SUFFICES ASSUME AtMost2(q) PROVE AtMost2(t) /\ (Head(q) # "GOT_IP" => AtMost1(t))
    OBVIOUS
  <2>1. AtMost2(t)
    BY <1>1 DEF AtMost2, Chance
  <2>2. ASSUME Head(q) # "GOT_IP", NEW i \in 1 .. Len(t), NEW j \in 1 .. Len(t), Chance(t, i), Chance(t, j)
        PROVE  i = j
    <3>1. Chance(q, 1) /\ Chance(q, i + 1) /\ Chance(q, j + 1)
      BY <1>1, <2>2 DEF Chance
    <3>2. 1 \in 1 .. Len(q) /\ i + 1 \in 1 .. Len(q) /\ j + 1 \in 1 .. Len(q)
      BY <1>1
    <3> QED
      BY <3>1, <3>2 DEF AtMost2
  <2> QED
    BY <2>1, <2>2 DEF AtMost1
<1> QED
  BY <1>1, <1>2, <1>3, <1>4, <1>5 DEF t

-----------------------------------------------------------------------------
(***************************************************************************)
(* The WiFi manager                                                        *)
(***************************************************************************)
\* TypeOK but for the queue.
Typed ==
    /\ nvs \in Credentials /\ config \in Credentials
    /\ powerLosses \in 0 .. MaxPowerLoss
    /\ boot \in {"load", "wait", "ntp", "stop", "provision", "startAp", "serve"} \cup Decided
    /\ connect \in [step : {"none", "ssid", "pass", "restart"}, for : Networks \cup {None}]
    /\ s_mode \in {"IDLE", "CONNECTING", "CONNECTED", "PROVISIONING"}
    /\ s_retry_count \in 0 .. MAX_RETRY
    /\ s_ip_str \in {"0.0.0.0", "leased"}
    /\ s_event_group \subseteq {"CONNECTED_BIT", "FAIL_BIT"}
    /\ sta \in {"stopped", "idle", "connecting", "connected"}
    /\ failed \in 0 .. MAX_RETRY + 1

QueueOK == events \in Seq(Event) /\ Spaced(events) /\ (sta # "connected" => EndsInChance(events))

IsEmpty(queue) == Len(queue) = 0
IsOnly(queue, event) == Len(queue) = 1 /\ queue[1] = event
IsAddressThenLoss(queue) ==
    Len(queue) = 2 /\ queue[1] = "GOT_IP" /\ queue[2] = "DISCONNECTED"

\* While init tries to connect and while the application runs, there is one
\* chance about: station, queue and counter are in one of these states.
Station ==
    \/ sta = "connecting" /\ IsEmpty(events) /\ failed = s_retry_count
    \/ sta = "connected" /\ IsOnly(events, "GOT_IP") /\ failed = 0
    \/ sta = "connected" /\ IsEmpty(events) /\ failed = 0 /\ s_retry_count = 0
    \/ sta = "idle" /\ IsOnly(events, "STA_START") /\ failed = 0 /\ s_retry_count = 0
    \/ sta = "idle" /\ IsOnly(events, "DISCONNECTED") /\ failed = s_retry_count + 1
    \/ sta = "idle" /\ IsAddressThenLoss(events) /\ failed = 1
    \/ sta = "idle" /\ IsEmpty(events) /\ failed = MAX_RETRY + 1

Phases ==
    /\ boot = "load" => sta = "stopped" /\ events = <<>> /\ failed = 0
    /\ boot \in {"wait", "ntp", "app", "stop"} => config.ssid # None /\ Station
    /\ boot \in {"provision", "startAp"} => sta = "stopped" /\ AtMost1(events)
    /\ boot \in {"serve", "portal", "closed"} =>
         sta # "stopped" /\ AtMost2(events) /\ (sta # "idle" => AtMost1(events))

WifiInv == Typed /\ QueueOK /\ Phases

LEMMA ShortQueue ==
    ASSUME NEW q \in Seq(Event)
    PROVE  /\ IsEmpty(q) => NoChance(q) /\ AtMost1(q)
           /\ \A e : IsOnly(q, e) => AtMost1(q)
           /\ IsOnly(q, "GOT_IP") => NoChance(q)
           /\ IsAddressThenLoss(q) => AtMost1(q)
           /\ AtMost1(q) => AtMost2(q)
<1>1. IsEmpty(q) => NoChance(q) /\ AtMost1(q)
  BY DEF IsEmpty, NoChance, AtMost1
<1>2. \A e : IsOnly(q, e) => AtMost1(q)
  BY DEF IsOnly, AtMost1
<1>3. IsOnly(q, "GOT_IP") => NoChance(q)
  BY DEF IsOnly, NoChance, Chance
<1>4. IsAddressThenLoss(q) => AtMost1(q)
  BY DEF IsAddressThenLoss, AtMost1, Chance
<1>5. AtMost1(q) => AtMost2(q)
  BY DEF AtMost1, AtMost2
<1> QED
  BY <1>1, <1>2, <1>3, <1>4, <1>5

\* How the queues Station names grow and shrink.
LEMMA ShortQueueSteps ==
    ASSUME NEW q \in Seq(Event), NEW e \in Event
    PROVE  /\ IsEmpty(q) => IsOnly(Append(q, e), e)
           /\ IsOnly(q, "GOT_IP") => IsAddressThenLoss(Append(q, "DISCONNECTED"))
           /\ IsOnly(q, e) => Head(q) = e /\ IsEmpty(Tail(q))
           /\ IsAddressThenLoss(q) => Head(q) = "GOT_IP" /\ IsOnly(Tail(q), "DISCONNECTED")
<1> USE DEF IsEmpty, IsOnly, IsAddressThenLoss
<1>1. IsEmpty(q) => IsOnly(Append(q, e), e)
  OBVIOUS
<1>2. IsOnly(q, "GOT_IP") => IsAddressThenLoss(Append(q, "DISCONNECTED"))
  <2> DEFINE a == Append(q, "DISCONNECTED")
  <2>1. "DISCONNECTED" \in Event
    BY DEF Event
  <2>2. Len(a) = Len(q) + 1 /\ a[Len(q) + 1] = "DISCONNECTED" /\ \A i \in 1 .. Len(q) : a[i] = q[i]
    BY <2>1
  <2> HIDE DEF a
  <2>3. IsOnly(q, "GOT_IP") => IsAddressThenLoss(a)
    BY <2>2
  <2> QED
    BY <2>3 DEF a
<1>3. IsOnly(q, e) => Head(q) = e /\ IsEmpty(Tail(q))
  OBVIOUS
<1>4. IsAddressThenLoss(q) => Head(q) = "GOT_IP" /\ IsOnly(Tail(q), "DISCONNECTED")
  OBVIOUS
<1> QED
  BY <1>1, <1>2, <1>3, <1>4

\* What Station says of the queue.
LEMMA StationQueue ==
    ASSUME WifiInv, boot \in {"wait", "ntp", "app", "stop"}
    PROVE  /\ sta \in {"idle", "connecting", "connected"}
           /\ AtMost1(events) /\ (sta # "idle" => NoChance(events))
<1>1. Station /\ events \in Seq(Event)
  BY DEF WifiInv, Phases, QueueOK
<1> QED
  BY <1>1, ShortQueue DEF Station

LEMMA QueueStays5 ==
    ASSUME WifiInv
    PROVE  TypeOK
<1>0. events \in Seq(Event) /\ Spaced(events)
  BY DEF WifiInv, QueueOK
<1>1. AtMost2(events)
  <2>1. CASE boot \in {"serve", "portal", "closed"}
    BY <2>1 DEF WifiInv, Phases
  <2>2. CASE boot \in {"provision", "startAp"}
    BY <1>0, <2>2, ShortQueue DEF WifiInv, Phases
  <2>3. CASE boot \in {"wait", "ntp", "app", "stop"}
    BY <1>0, <2>3, ShortQueue, StationQueue
  <2>4. CASE boot = "load"
    <3>1. Len(events) = 0
      BY <2>4 DEF WifiInv, Phases
    <3> QED
      BY <1>0, <3>1, ShortQueue DEF IsEmpty
  <2> QED
    BY <2>1, <2>2, <2>3, <2>4 DEF WifiInv, Typed, Decided
<1>2. Len(events) <= 5 /\ events \in Seq({"STA_START", "DISCONNECTED", "GOT_IP"})
  BY <1>0, <1>1, FewEvents DEF Event
<1> QED
  BY <1>2 DEF WifiInv, Typed, TypeOK

LEMMA ResetInv ==
    ASSUME WifiInv, Reset, powerLosses' \in 0 .. MaxPowerLoss
    PROVE  WifiInv'
<1>1. Typed'
  BY WifiAssumption DEF WifiInv, Typed, Reset, Credentials, NoCredentials, Decided
<1>2. QueueOK'
  <2>1. events' = <<>>
    BY DEF Reset
  <2>2. events' \in Seq(Event) /\ Len(events') = 0
    BY <2>1
  <2> QED
    BY <2>2 DEF QueueOK, Spaced, EndsInChance
<1>3. Phases'
  BY DEF Reset, Phases
<1> QED
  BY <1>1, <1>2, <1>3 DEF WifiInv

LEMMA DriverInv ==
    ASSUME WifiInv, Disconnects \/ Connects
    PROVE  WifiInv'
<1> USE DEF WifiInv
<1>0. QueueOK /\ Spaced(events) /\ events \in Seq(Event)
  BY DEF QueueOK
<1>1. CASE Disconnects
  <2>1. /\ sta \in {"connecting", "connected"} /\ sta' = "idle"
        /\ events' = Append(events, "DISCONNECTED")
        /\ failed' = IF failed <= MAX_RETRY THEN failed + 1 ELSE failed
        /\ UNCHANGED <<nvs, powerLosses, boot, connect, config, s_mode, s_retry_count, s_ip_str, s_event_group>>
    BY <1>1 DEF Disconnects, Post, flashVars, sharedVars
  <2>2. Typed'
    BY <2>1, WifiAssumption DEF Typed
  <2>3. QueueOK'
    BY <1>0, <2>1, PostChance DEF QueueOK, Event
  <2>4. ASSUME Station PROVE Station'
    <3>1. CASE sta = "connecting" \/ (sta = "connected" /\ IsEmpty(events))
      <4>1. IsEmpty(events) /\ failed = s_retry_count
        BY <2>1, <2>4, <3>1 DEF Station, IsEmpty, IsOnly
      <4>2. IsOnly(events', "DISCONNECTED")
        BY <1>0, <2>1, <4>1, ShortQueueSteps DEF Event
      <4> QED
        BY <2>1, <4>1, <4>2, WifiAssumption DEF Station, Typed
    <3>2. CASE sta = "connected" /\ IsOnly(events, "GOT_IP")
      <4>1. IsAddressThenLoss(events') /\ failed = 0
        BY <1>0, <2>1, <2>4, <3>2, ShortQueueSteps DEF Station, Event
      <4> QED
        BY <2>1, <4>1, WifiAssumption DEF Station
    <3> QED
      BY <2>1, <2>4, <3>1, <3>2 DEF Station
  <2>5. AtMost1(events) => AtMost2(events)'
    BY <1>0, <2>1, PostChance DEF Event
  <2> QED
    BY <2>1, <2>2, <2>3, <2>4, <2>5 DEF Phases
<1>2. CASE Connects
  <2>1. /\ sta = "connecting" /\ sta' = "connected" /\ events' = Append(events, "GOT_IP") /\ failed' = 0
        /\ UNCHANGED <<nvs, powerLosses, boot, connect, config, s_mode, s_retry_count, s_ip_str, s_event_group>>
    BY <1>2 DEF Connects, Post, flashVars, sharedVars
  <2>2. Typed'
    BY <2>1, WifiAssumption DEF Typed
  <2>3. EndsInChance(events)
    BY <2>1 DEF QueueOK
  <2>4. QueueOK'
    BY <1>0, <2>1, <2>3, PostAddress DEF QueueOK
  <2>5. Station => Station'
    BY <1>0, <2>1, ShortQueueSteps DEF Station, Event
  <2>6. AtMost1(events) => AtMost1(events)'
    BY <1>0, <2>1, <2>3, PostAddress
  <2>7. AtMost1(events)' => AtMost2(events)'
    BY <2>4 DEF AtMost1, AtMost2, QueueOK
  <2> QED
    BY <2>1, <2>2, <2>4, <2>5, <2>6, <2>7 DEF Phases
<1> QED
  BY <1>1, <1>2

LEMMA HandlerInv ==
    ASSUME WifiInv, sta_event_handler
    PROVE  WifiInv'
<1> USE DEF WifiInv
<1>0. events \in Seq(Event) /\ Spaced(events) /\ events # <<>> /\ events' = Tail(events)
  BY DEF QueueOK, sta_event_handler
<1>1. UNCHANGED <<nvs, powerLosses, boot, connect, config, failed>>
  BY DEF sta_event_handler, flashVars
<1>2. /\ sta' \in {sta, Connect} /\ (sta' # sta => Head(events) # "GOT_IP")
      /\ s_mode' \in {s_mode, "CONNECTING", "CONNECTED"} /\ s_ip_str' \in {s_ip_str, "leased"}
      /\ s_retry_count' \in 0 .. MAX_RETRY
      /\ s_event_group' \subseteq {"CONNECTED_BIT", "FAIL_BIT"}
  <2>1. CASE HandleStart
    BY <2>1 DEF HandleStart, sharedVars, Typed
  <2>2. CASE HandleDisconnected
    <3>1. /\ Head(events) # "GOT_IP" /\ s_mode' = "CONNECTING" /\ s_ip_str' = s_ip_str
          /\ \/ s_retry_count < MAX_RETRY /\ sta' = Connect /\ s_retry_count' = s_retry_count + 1
                  /\ s_event_group' = s_event_group
             \/ sta' = sta /\ s_retry_count' = s_retry_count
                  /\ s_event_group' = s_event_group \cup {"FAIL_BIT"}
      BY <2>2 DEF HandleDisconnected, RetriesLeft, ModeAfterLoss
    <3>2. s_retry_count \in 0 .. MAX_RETRY /\ s_event_group \subseteq {"CONNECTED_BIT", "FAIL_BIT"}
      BY DEF Typed
    <3>3. s_retry_count' \in 0 .. MAX_RETRY
      BY <3>1, <3>2, WifiAssumption
    <3>4. s_event_group' \subseteq {"CONNECTED_BIT", "FAIL_BIT"}
      BY <3>1, <3>2
    <3> QED
      BY <3>1, <3>3, <3>4
  <2>3. CASE HandleGotIp
    BY <2>3, WifiAssumption DEF HandleGotIp, CountAfterIp, Typed
  <2> QED
    BY <2>1, <2>2, <2>3 DEF sta_event_handler
<1>3. /\ sta' # sta => sta = "idle" /\ sta' = "connecting"
      /\ sta' = Connect /\ config.ssid # None => sta' # "idle"
  BY <1>2 DEF Connect
<1>4. Typed'
  BY <1>1, <1>2, <1>3 DEF Typed
<1>5. QueueOK'
  BY <1>0, <1>3, TakeEvent DEF QueueOK
<1>6. boot \in {"serve", "portal", "closed"} => Phases'
  BY <1>0, <1>1, <1>2, <1>3, TakeEvent DEF Phases
<1>7. boot \in {"provision", "startAp"} => Phases'
  BY <1>0, <1>1, <1>3, TakeEvent DEF Phases
<1>8. boot # "load"
  BY <1>0 DEF Phases
<1>9. ASSUME boot \in {"wait", "ntp", "app", "stop"} PROVE Phases'
  <2>1. Station /\ config.ssid # None
    BY <1>9 DEF Phases
  <2>2. Station'
    <3>1. CASE IsOnly(events, "STA_START")
      <4>1. Head(events) = "STA_START" /\ IsEmpty(events')
        BY <1>0, <3>1, ShortQueueSteps DEF Event
      <4>2. sta = "idle" /\ failed = s_retry_count
        BY <2>1, <3>1, WifiAssumption DEF Station, IsOnly, IsEmpty, IsAddressThenLoss
      <4>3. sta' = "connecting" /\ UNCHANGED sharedVars
        BY <2>1, <4>1, <4>2 DEF sta_event_handler, HandleStart, HandleDisconnected, HandleGotIp, Connect
      <4> QED
        BY <1>1, <4>1, <4>2, <4>3 DEF Station, sharedVars
    <3>2. CASE IsOnly(events, "DISCONNECTED")
      <4>1. Head(events) = "DISCONNECTED" /\ IsEmpty(events')
        BY <1>0, <3>2, ShortQueueSteps DEF Event
      <4>2. sta = "idle" /\ failed = s_retry_count + 1
        BY <2>1, <3>2 DEF Station, IsOnly, IsEmpty, IsAddressThenLoss
      <4>3. HandleDisconnected
        BY <4>1 DEF sta_event_handler, HandleStart, HandleGotIp
      <4>4. CASE s_retry_count < MAX_RETRY
        <5>1. sta' = "connecting" /\ s_retry_count' = s_retry_count + 1
          BY <2>1, <4>2, <4>3, <4>4 DEF HandleDisconnected, RetriesLeft, Connect
        <5> QED
          BY <1>1, <4>1, <4>2, <5>1 DEF Station
      <4>5. CASE ~(s_retry_count < MAX_RETRY)
        <5>1. sta' = sta
          BY <4>3, <4>5 DEF HandleDisconnected, RetriesLeft
        <5>2. failed = MAX_RETRY + 1
          BY <4>2, <4>5, WifiAssumption DEF Typed
        <5> QED
          BY <1>1, <4>1, <4>2, <5>1, <5>2 DEF Station
      <4> QED
        BY <4>4, <4>5
    <3>3. CASE IsOnly(events, "GOT_IP") \/ IsAddressThenLoss(events)
      <4>1. /\ Head(events) = "GOT_IP"
            /\ IsOnly(events, "GOT_IP") => IsEmpty(events')
            /\ IsAddressThenLoss(events) => IsOnly(events', "DISCONNECTED")
        BY <1>0, <3>3, ShortQueueSteps DEF Event
      <4>2. /\ IsOnly(events, "GOT_IP") => sta = "connected" /\ failed = 0
            /\ IsAddressThenLoss(events) => sta = "idle" /\ failed = 1
        BY <2>1 DEF Station, IsOnly, IsEmpty, IsAddressThenLoss
      <4>3. sta' = sta /\ s_retry_count' = 0
        BY <4>1 DEF sta_event_handler, HandleStart, HandleDisconnected, HandleGotIp, CountAfterIp
      <4> QED
        BY <1>1, <3>3, <4>1, <4>2, <4>3 DEF Station
    <3>4. ~IsEmpty(events)
      BY <1>0 DEF IsEmpty
    <3> QED
      BY <2>1, <3>1, <3>2, <3>3, <3>4 DEF Station
  <2> QED
    BY <1>1, <1>9, <2>1, <2>2 DEF Phases
<1>10. Phases'
  BY <1>6, <1>7, <1>8, <1>9 DEF Typed, Decided
<1> QED
  BY <1>4, <1>5, <1>10

LEMMA InitInv ==
    ASSUME WifiInv, init
    PROVE  WifiInv'
<1> USE DEF WifiInv
<1>0. events \in Seq(Event) /\ Spaced(events)
  BY DEF QueueOK
<1>1. CASE LoadCredentials
  <2>1. CASE Loaded.ssid # None
    <3>1. /\ boot = "load" /\ boot' = "wait" /\ s_mode' = "CONNECTING" /\ s_retry_count' = 0
          /\ config' = Loaded /\ sta' = "idle" /\ events' = Append(events, "STA_START")
          /\ UNCHANGED <<nvs, powerLosses, connect, s_ip_str, s_event_group, failed>>
      BY <1>1, <2>1 DEF LoadCredentials, StartStation, Post, flashVars
    <3>2. Loaded \in Credentials
      BY KconfigAssumption DEF Loaded, Credentials, Known, NoCredentials, Typed
    <3>3. IsEmpty(events) /\ failed = 0
      BY <3>1 DEF Phases, IsEmpty
    <3>4. Typed'
      BY <3>1, <3>2, WifiAssumption DEF Typed
    <3>5. QueueOK'
      BY <1>0, <3>1, PostChance DEF QueueOK, Event
    <3>6. Station'
      BY <1>0, <3>1, <3>3, ShortQueueSteps DEF Station, Event
    <3>7. Phases'
      BY <2>1, <3>1, <3>6 DEF Phases
    <3> QED
      BY <3>4, <3>5, <3>7
  <2>2. CASE Loaded.ssid = None
    <3>1. /\ boot = "load" /\ boot' = "provision"
          /\ UNCHANGED <<nvs, powerLosses, connect, s_mode, s_retry_count, s_ip_str, s_event_group,
                         config, sta, events, failed>>
      BY <1>1, <2>2 DEF LoadCredentials, flashVars
    <3>2. IsEmpty(events) /\ sta = "stopped"
      BY <3>1 DEF Phases, IsEmpty
    <3> QED
      BY <1>0, <3>1, <3>2, ShortQueue DEF Typed, QueueOK, Phases
  <2> QED
    BY <2>1, <2>2
<1>2. CASE WaitReturns \/ StartNtp
  <2>1. /\ boot \in {"wait", "ntp"} /\ boot' \in {"ntp", "stop", "app"}
        /\ s_event_group' \subseteq {"CONNECTED_BIT", "FAIL_BIT"}
        /\ UNCHANGED <<nvs, powerLosses, connect, s_mode, s_retry_count, s_ip_str, config, sta,
                       events, failed>>
    BY <1>2 DEF WaitReturns, StartNtp, flashVars, sharedVars, driverVars, Typed
  <2>2. Station' <=> Station
    BY <2>1 DEF Station
  <2> QED
    BY <2>1, <2>2 DEF Typed, Decided, QueueOK, Phases
<1>3. CASE StopSta
  <2>1. /\ boot = "stop" /\ boot' = "provision" /\ sta' = "stopped"
        /\ \/ sta \in {"connecting", "connected"} /\ events' = Append(events, "DISCONNECTED")
           \/ sta # "connected" /\ events' = events
        /\ UNCHANGED <<nvs, powerLosses, connect, s_mode, s_retry_count, s_ip_str, s_event_group,
                       config, failed>>
    BY <1>3 DEF StopSta, StopStation, Post, flashVars, sharedVars
  <2>2. AtMost1(events) /\ (sta # "idle" => NoChance(events))
    BY <2>1, StationQueue
  <2>3. QueueOK' /\ AtMost1(events)'
    BY <1>0, <2>1, <2>2, PostChance DEF QueueOK, Event
  <2> QED
    BY <2>1, <2>3 DEF Typed, Phases
<1>4. CASE Provision
  <2>1. /\ boot = "provision" /\ boot' = "startAp" /\ s_mode' = "PROVISIONING"
        /\ UNCHANGED <<nvs, powerLosses, connect, s_retry_count, s_ip_str, s_event_group,
                       config, sta, events, failed>>
    BY <1>4 DEF Provision, flashVars, driverVars
  <2> QED
    BY <2>1 DEF Typed, QueueOK, Phases
<1>5. CASE StartAp
  <2>1. /\ boot = "startAp" /\ boot' = "serve" /\ sta' = "idle"
        /\ events' = Append(events, "STA_START")
        /\ UNCHANGED <<nvs, powerLosses, connect, s_mode, s_retry_count, s_ip_str, s_event_group,
                       config, failed>>
    BY <1>5 DEF StartAp, StartStation, Post, flashVars, sharedVars
  <2>2. QueueOK' /\ AtMost2(events)'
    BY <1>0, <2>1, PostChance DEF QueueOK, Phases, Event
  <2> QED
    BY <2>1, <2>2 DEF Typed, Phases
<1>6. CASE StartPortal
  <2>1. /\ boot = "serve" /\ boot' \in {"portal", "closed"}
        /\ UNCHANGED <<nvs, powerLosses, connect, s_mode, s_retry_count, s_ip_str, s_event_group,
                       config, sta, events, failed>>
    BY <1>6 DEF StartPortal, flashVars, sharedVars, driverVars
  <2> QED
    BY <2>1 DEF Typed, Decided, QueueOK, Phases
<1> QED
  BY <1>1, <1>2, <1>3, <1>4, <1>5, <1>6 DEF init

LEMMA ConnectInv ==
    ASSUME WifiInv, (\E network \in Networks : ConnectStarts(network)) \/ SaveSsid \/ SavePass
    PROVE  WifiInv'
<1> USE DEF WifiInv
<1>1. UNCHANGED <<powerLosses, boot, s_mode, s_retry_count, s_ip_str, s_event_group, config, sta,
                  events, failed>>
  BY DEF ConnectStarts, SaveSsid, SavePass, flashVars, sharedVars, driverVars
<1>2. connect' \in [step : {"none", "ssid", "pass", "restart"}, for : Networks \cup {None}]
      /\ nvs' \in Credentials
  BY DEF ConnectStarts, SaveSsid, SavePass, flashVars, Typed, Credentials
<1>3. Station' <=> Station
  BY <1>1 DEF Station
<1> QED
  BY <1>1, <1>2, <1>3 DEF Typed, QueueOK, Phases

LEMMA WifiStep ==
    ASSUME WifiInv, [Next]_wifiVars
    PROVE  WifiInv'
<1>1. CASE PowerLoss \/ Restart
  <2>1. Reset /\ powerLosses' \in 0 .. MaxPowerLoss
    BY <1>1, WifiAssumption DEF PowerLoss, Restart, WifiInv, Typed
  <2> QED
    BY <2>1, ResetInv
<1>2. CASE UNCHANGED wifiVars
  <2>1. UNCHANGED <<nvs, powerLosses, boot, connect, s_mode, s_retry_count, s_ip_str, s_event_group,
                    config, sta, events, failed>>
    BY <1>2 DEF wifiVars, flashVars, sharedVars, driverVars
  <2>2. Station' <=> Station
    BY <2>1 DEF Station
  <2> QED
    BY <2>1, <2>2 DEF WifiInv, Typed, QueueOK, Phases
<1> QED
  BY <1>1, <1>2, DriverInv, HandlerInv, InitInv, ConnectInv DEF Next, handle_connect

LEMMA WifiInvariant == PanelSpec => []WifiInv
<1>1. Init => WifiInv
  <2> SUFFICES ASSUME Init PROVE WifiInv
    OBVIOUS
  <2>1. Typed
    BY WifiAssumption DEF Init, PowerOn, Typed, Credentials, NoCredentials
  <2>2. events \in Seq(Event) /\ Len(events) = 0
    BY DEF Init, PowerOn
  <2>3. QueueOK
    BY <2>2 DEF QueueOK, Spaced, EndsInChance
  <2>4. Phases
    BY DEF Init, PowerOn, Phases
  <2> QED
    BY <2>1, <2>3, <2>4 DEF WifiInv
<1>2. WifiInv /\ [PanelNext]_<<wifiVars, buttonVars>> => WifiInv'
  <2>1. [PanelNext]_<<wifiVars, buttonVars>> => [Next]_wifiVars
    BY Zenon DEF PanelNext, Restarts, Runs, Poll, Next, handle_connect
  <2> QED
    BY <2>1, WifiStep, Zenon
<1> QED
  BY <1>1, <1>2, PTL DEF PanelSpec, PanelInit

\* In every reachable state the variables of the WiFi manager and of the button
\* have their types; in particular no more than five station events wait for
\* sta_event_handler, whatever the network does and however many retries there
\* are.
THEOREM PanelTypeCorrect == PanelSpec => []PanelTypeOK
<1>1. DEFINE Flags == pressed \in BOOLEAN /\ released \in BOOLEAN
<1>2. PanelInit => Flags
  BY Zenon DEF PanelInit, ButtonUp
<1>3. Flags /\ ButtonInv /\ [PanelNext]_<<wifiVars, buttonVars>> => Flags'
  BY Zenon DEF PanelNext, ButtonReset, buttonVars, Poll, button_pressed
<1>4. Flags /\ ButtonInv /\ WifiInv => PanelTypeOK
  BY QueueStays5, Zenon DEF ButtonInv, PanelTypeOK
<1> QED
  BY <1>2, <1>3, <1>4, ButtonInvariant, WifiInvariant, PTL DEF PanelSpec

\* What the application relies on once the queue is empty.
LEMMA Settled ==
    ASSUME WifiInv, boot = "app", events = <<>>
    PROVE  sta = "idle" => failed = MAX_RETRY + 1
<1>1. Station /\ Len(events) = 0
  BY DEF WifiInv, Phases
<1> QED
  BY <1>1 DEF Station, IsOnly, IsAddressThenLoss

\* For every retry limit, the application is left without a connection and
\* without an attempt at one only after a full series of failed attempts:
\* sta_event_handler never loses its chance to reconnect, and the failures
\* before a connection do not count against a later outage.
THEOREM NeverAbandonedEarly == PanelSpec => []AbandonedOnlyAfterMax
<1>1. WifiInv => AbandonedOnlyAfterMax
  BY Settled, WifiAssumption DEF AbandonedOnlyAfterMax
<1> QED
  BY <1>1, WifiInvariant, PTL

-----------------------------------------------------------------------------
(***************************************************************************)
(* The mode                                                                *)
(***************************************************************************)
\* Every event a is followed by a later b.
Answered(queue, a, b) ==
    \A i \in 1 .. Len(queue) : queue[i] = a => \E j \in i + 1 .. Len(queue) : queue[j] = b

\* Of the address and loss events that wait, the last one tells the truth; and
\* the mode is true already, or will be when it is handled.
ModeInv ==
    /\ sta # "connected" => Answered(events, "GOT_IP", "DISCONNECTED")
    /\ sta = "connected" => Answered(events, "DISCONNECTED", "GOT_IP")
    /\ ModeIsTrue

\* A queue that grows keeps what waits in it, and its last event answers any other.
LEMMA PostAnswers ==
    ASSUME NEW q \in Seq(Event), NEW e \in Event, NEW a \in Event, NEW b \in Event
    PROVE  /\ \E i \in 1 .. Len(Append(q, e)) : Append(q, e)[i] = e
           /\ (\E i \in 1 .. Len(q) : q[i] = b) =>
                  \E i \in 1 .. Len(Append(q, e)) : Append(q, e)[i] = b
           /\ Answered(q, a, b) /\ e # a => Answered(Append(q, e), a, b)
           /\ a # e => Answered(Append(q, e), a, e)
<1> DEFINE g == Append(q, e)
<1>1. /\ Len(q) \in Nat /\ Len(g) = Len(q) + 1 /\ g[Len(q) + 1] = e
      /\ \A i \in 1 .. Len(q) : g[i] = q[i]
  OBVIOUS
<1> HIDE DEF g
<1>2. \E i \in 1 .. Len(g) : g[i] = e
  BY <1>1
<1>3. (\E i \in 1 .. Len(q) : q[i] = b) => \E i \in 1 .. Len(g) : g[i] = b
  BY <1>1
<1>4. ASSUME Answered(q, a, b), e # a, NEW i \in 1 .. Len(g), g[i] = a
      PROVE  \E j \in i + 1 .. Len(g) : g[j] = b
  <2>1. i \in 1 .. Len(q) /\ q[i] = a
    BY <1>1, <1>4
  <2>2. PICK j \in i + 1 .. Len(q) : q[j] = b
    BY <1>4, <2>1 DEF Answered
  <2> QED
    BY <1>1, <2>1, <2>2
<1>5. ASSUME a # e, NEW i \in 1 .. Len(g), g[i] = a
      PROVE  \E j \in i + 1 .. Len(g) : g[j] = e
  <2>1. i \in 1 .. Len(q)
    BY <1>1, <1>5
  <2> QED
    BY <1>1, <2>1
<1> QED
  BY <1>2, <1>3, <1>4, <1>5 DEF Answered, g

\* A queue whose head is taken keeps the answers, the head's own included.
LEMMA TakeAnswers ==
    ASSUME NEW q \in Seq(Event), q # <<>>, NEW a, NEW b
    PROVE  /\ Answered(q, a, b) => Answered(Tail(q), a, b)
           /\ Answered(q, a, b) /\ Head(q) = a => \E i \in 1 .. Len(Tail(q)) : Tail(q)[i] = b
           /\ (\E i \in 1 .. Len(q) : q[i] = b) /\ Head(q) # b =>
                  \E i \in 1 .. Len(Tail(q)) : Tail(q)[i] = b
<1> DEFINE t == Tail(q)
<1>1. /\ Len(t) \in Nat /\ Len(q) = Len(t) + 1 /\ Head(q) = q[1]
      /\ \A i \in 1 .. Len(t) : t[i] = q[i + 1]
  OBVIOUS
<1> HIDE DEF t
<1>2. ASSUME NEW k \in 2 .. Len(q), q[k] = b PROVE \E i \in 1 .. Len(t) : t[i] = b
  <2>1. k - 1 \in 1 .. Len(t) /\ t[k - 1] = q[k]
    BY <1>1
  <2> QED
    BY <1>2, <2>1
<1>3. ASSUME Answered(q, a, b), NEW i \in 1 .. Len(t), t[i] = a
      PROVE  \E j \in i + 1 .. Len(t) : t[j] = b
  <2>1. i + 1 \in 1 .. Len(q) /\ q[i + 1] = a
    BY <1>1, <1>3
  <2>2. PICK k \in i + 2 .. Len(q) : q[k] = b
    BY <1>3, <2>1 DEF Answered
  <2>3. k - 1 \in i + 1 .. Len(t) /\ t[k - 1] = q[k]
    BY <1>1, <2>2
  <2> QED
    BY <2>2, <2>3
<1>4. Answered(q, a, b) /\ Head(q) = a => \E i \in 1 .. Len(t) : t[i] = b
  <2> SUFFICES ASSUME Answered(q, a, b), Head(q) = a PROVE \E i \in 1 .. Len(t) : t[i] = b
    OBVIOUS
  <2>1. PICK k \in 2 .. Len(q) : q[k] = b
    BY <1>1 DEF Answered
  <2> QED
    BY <1>2, <2>1
<1>5. (\E i \in 1 .. Len(q) : q[i] = b) /\ Head(q) # b => \E i \in 1 .. Len(t) : t[i] = b
  <2> SUFFICES ASSUME NEW i \in 1 .. Len(q), q[i] = b, Head(q) # b
               PROVE  \E j \in 1 .. Len(t) : t[j] = b
    OBVIOUS
  <2>1. i \in 2 .. Len(q)
    BY <1>1
  <2> QED
    BY <1>2, <2>1
<1> QED
  BY <1>3, <1>4, <1>5 DEF Answered, t

LEMMA ModeStep ==
    ASSUME WifiInv, ModeInv, [Next]_wifiVars
    PROVE  ModeInv'
<1> DEFINE loss == "DISCONNECTED"
           address == "GOT_IP"
<1>0. /\ events \in Seq(Event) /\ {loss, address, "STA_START"} \subseteq Event /\ loss # address
      /\ "STA_START" \notin {loss, address}
  BY DEF WifiInv, QueueOK, Event
<1> USE DEF ModeInv, ModeIsTrue, Waiting
<1>1. CASE Reset
  <2>1. sta' = "stopped" /\ s_mode' = "IDLE" /\ Len(events') = 0
    BY <1>1 DEF Reset
  <2> QED
    BY <2>1 DEF Answered
<1>2. CASE Disconnects \/ (StopSta /\ events' # events)
  <2>1. /\ sta' # "connected" /\ events' = Append(events, loss)
        /\ s_mode' = s_mode /\ s_ip_str' = s_ip_str
    BY <1>2 DEF Disconnects, StopSta, StopStation, Post, sharedVars
  <2> QED
    BY <1>0, <2>1, PostAnswers
<1>3. CASE Connects
  <2>1. /\ sta' = "connected" /\ events' = Append(events, address)
        /\ s_mode' = s_mode /\ s_ip_str' = s_ip_str
    BY <1>3 DEF Connects, Post, sharedVars
  <2> QED
    BY <1>0, <2>1, PostAnswers
<1>4. CASE sta_event_handler
  <2>1. events # <<>> /\ events' = Tail(events)
    BY <1>4 DEF sta_event_handler
  <2>2. sta' = "connected" <=> sta = "connected"
    BY <1>4 DEF sta_event_handler, HandleStart, HandleDisconnected, HandleGotIp, Connect
  <2>3. /\ sta' # "connected" => Answered(events, address, loss)'
        /\ sta' = "connected" => Answered(events, loss, address)'
    BY <1>0, <2>1, <2>2, TakeAnswers
  <2>4. CASE Head(events) = "STA_START"
    <3>1. s_mode' = s_mode /\ s_ip_str' = s_ip_str
      BY <1>4, <2>4 DEF sta_event_handler, HandleStart, HandleDisconnected, HandleGotIp, sharedVars
    <3> QED
      BY <1>0, <2>1, <2>2, <2>3, <2>4, <3>1, TakeAnswers
  <2>5. CASE Head(events) = loss
    <3>1. s_mode' = "CONNECTING"
      BY <1>4, <2>5 DEF sta_event_handler, HandleStart, HandleDisconnected, HandleGotIp, ModeAfterLoss
    <3>2. sta = "connected" => Waiting(address)'
      BY <1>0, <2>1, <2>5, TakeAnswers
    <3> QED
      BY <2>2, <2>3, <3>1, <3>2
  <2>6. CASE Head(events) = address
    <3>1. s_mode' = "CONNECTED" /\ s_ip_str' = "leased"
      BY <1>4, <2>6 DEF sta_event_handler, HandleStart, HandleDisconnected, HandleGotIp
    <3>2. sta # "connected" => Waiting(loss)'
      BY <1>0, <2>1, <2>6, TakeAnswers
    <3> QED
      BY <2>2, <2>3, <3>1, <3>2
  <2> QED
    BY <1>4, <2>4, <2>5, <2>6 DEF sta_event_handler, HandleStart, HandleDisconnected, HandleGotIp
<1>5. CASE LoadCredentials /\ Loaded.ssid # None
  <2>1. /\ sta' = "idle" /\ s_mode' = "CONNECTING" /\ events' = Append(events, "STA_START")
        /\ sta = "stopped"
    BY <1>5 DEF LoadCredentials, StartStation, Post, WifiInv, Phases
  <2> QED
    BY <1>0, <2>1, PostAnswers
<1>6. CASE StartAp
  <2>1. /\ sta = "stopped" /\ sta' = "idle" /\ events' = Append(events, "STA_START")
        /\ s_mode' = s_mode /\ s_ip_str' = s_ip_str
    BY <1>6 DEF StartAp, StartStation, Post, WifiInv, Phases, sharedVars
  <2> QED
    BY <1>0, <2>1, PostAnswers
<1>7. CASE Provision
  <2>1. sta = "stopped" /\ sta' = sta /\ events' = events /\ s_mode' = "PROVISIONING"
    BY <1>7 DEF Provision, driverVars, WifiInv, Phases
  <2> QED
    BY <2>1 DEF Answered
<1>8. CASE StopSta /\ events' = events
  <2>1. sta # "connected" /\ sta' # "connected" /\ s_mode' = s_mode /\ s_ip_str' = s_ip_str
    <3>1. sta # "connected"
      <4>1. Append(events, loss) # events
        BY <1>0
      <4> QED
        BY <1>8, <4>1 DEF StopSta, StopStation, Post
    <3> QED
      BY <1>8, <3>1 DEF StopSta, StopStation, sharedVars
  <2> QED
    BY <1>8, <2>1 DEF Answered
<1>9. CASE \/ UNCHANGED wifiVars \/ WaitReturns \/ StartNtp \/ StartPortal \/ SaveSsid \/ SavePass
           \/ (LoadCredentials /\ Loaded.ssid = None)
           \/ \E network \in Networks : ConnectStarts(network)
  <2>1. sta' = sta /\ events' = events /\ s_mode' = s_mode /\ s_ip_str' = s_ip_str
    BY <1>9 DEF WaitReturns, StartNtp, StartPortal, SaveSsid, SavePass, LoadCredentials,
       ConnectStarts, wifiVars, sharedVars, driverVars
  <2> QED
    BY <2>1 DEF Answered
<1> HIDE DEF ModeInv, ModeIsTrue, Waiting
<1> QED
  BY <1>1, <1>2, <1>3, <1>4, <1>5, <1>6, <1>7, <1>8, <1>9
  DEF Next, init, handle_connect, PowerLoss, Restart

\* For every retry limit and in every interleaving of init, sta_event_handler,
\* driver, portal and resets, the mode that /api/status and the display show says
\* CONNECTED exactly while the station is connected, except while the event that
\* will correct it waits.  It does not say that the portal is shown as such.
THEOREM ModeIsTrueAlways == PanelSpec => []ModeIsTrue
<1>1. Init => ModeInv
  <2> SUFFICES ASSUME Init PROVE ModeInv
    OBVIOUS
  <2>1. sta = "stopped" /\ s_mode = "IDLE" /\ Len(events) = 0
    BY DEF Init, PowerOn
  <2> QED
    BY <2>1 DEF ModeInv, ModeIsTrue, Answered
<1>2. WifiInv /\ ModeInv /\ [PanelNext]_<<wifiVars, buttonVars>> => ModeInv'
  <2>1. [PanelNext]_<<wifiVars, buttonVars>> => [Next]_wifiVars
    BY Zenon DEF PanelNext, Restarts, Runs, Poll, Next, handle_connect
  <2> QED
    BY <2>1, ModeStep, Zenon
<1>3. ModeInv => ModeIsTrue
  BY DEF ModeInv
<1> QED
  BY <1>1, <1>2, <1>3, WifiInvariant, PTL DEF PanelSpec, PanelInit
=============================================================================
