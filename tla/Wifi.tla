-------------------------------- MODULE Wifi --------------------------------
(***************************************************************************)
(* The WiFi manager: wifi::init in the main task, sta_event_handler in the *)
(* event task, the captive portal's connect handler in the httpd task, the *)
(* credentials in flash, restarts and power loss.                          *)
(*                                                                         *)
(* The driver and the network are modelled from their use: an attempt to   *)
(* connect may fail at any time, and succeeds only with the network's own  *)
(* credentials; a connection may break at any time.                        *)
(***************************************************************************)
EXTENDS Sequences, Integers

CONSTANTS
    MAX_RETRY,
    Kconfig,        \* network whose credentials are compiled in, or None
    None,           \* no string stored
    MaxPowerLoss    \* bound on power losses

ASSUME WifiAssumption == MAX_RETRY \in Nat /\ MaxPowerLoss \in Nat

\* A network's name also stands for its password; "home" is the one in reach.
Networks == {"home", "other"}
ASSUME KconfigAssumption == Kconfig \in Networks \cup {None}

VARIABLES
    nvs,            \* NVS namespace "wifi_creds"
    powerLosses,    \* how often power was lost
    boot,           \* how far wifi::init has come, or what it ended in
    connect,        \* step of handle_connect
    \* Shared between the tasks
    s_mode, s_retry_count, s_ip_str, s_event_group,
    \* Driver
    config,         \* credentials set with esp_wifi_set_config
    sta,            \* what the station does
    events,         \* posted and not yet handled
    failed          \* history: failures since the last connection

flashVars  == <<nvs, powerLosses>>
sharedVars == <<s_mode, s_retry_count, s_ip_str, s_event_group>>
driverVars == <<config, sta, events, failed>>
wifiVars   == <<flashVars, boot, connect, sharedVars, driverVars>>

Credentials == [ssid : Networks \cup {None}, pass : Networks \cup {None}]
NoCredentials == [ssid |-> None, pass |-> None]
Known(network) == [ssid |-> network, pass |-> network]

\* What init ends in: ESP_OK, ESP_ERR_NOT_FINISHED with the portal, or without
\* it because httpd_start failed.
Decided == {"app", "portal", "closed"}

TypeOK ==
    /\ nvs \in Credentials /\ config \in Credentials
    /\ powerLosses \in 0 .. MaxPowerLoss
    /\ boot \in {"load", "wait", "ntp", "stop", "provision", "startAp", "serve"} \cup Decided
    /\ connect \in [step : {"none", "ssid", "pass", "restart"}, for : Networks \cup {None}]
    /\ s_mode \in {"IDLE", "CONNECTING", "CONNECTED", "PROVISIONING"}
    /\ s_retry_count \in 0 .. MAX_RETRY
    /\ s_ip_str \in {"0.0.0.0", "leased"}
    /\ s_event_group \subseteq {"CONNECTED_BIT", "FAIL_BIT"}
    /\ sta \in {"stopped", "idle", "connecting", "connected"}
    /\ events \in Seq({"STA_START", "DISCONNECTED", "GOT_IP"}) /\ Len(events) <= 5
    /\ failed \in 0 .. MAX_RETRY + 1

PowerOn ==
    /\ boot = "load"
    /\ connect = [step |-> "none", for |-> None]
    /\ s_mode = "IDLE" /\ s_retry_count = 0 /\ s_ip_str = "0.0.0.0" /\ s_event_group = {}
    /\ config = NoCredentials /\ sta = "stopped" /\ events = <<>> /\ failed = 0

Init == nvs = NoCredentials /\ powerLosses = 0 /\ PowerOn

\* Everything but the flash starts over.
Reset ==
    /\ boot' = "load"
    /\ connect' = [step |-> "none", for |-> None]
    /\ s_mode' = "IDLE" /\ s_retry_count' = 0 /\ s_ip_str' = "0.0.0.0" /\ s_event_group' = {}
    /\ config' = NoCredentials /\ sta' = "stopped" /\ events' = <<>> /\ failed' = 0
    /\ UNCHANGED nvs

\* Power is lost, or a panic restarts the chip.
PowerLoss ==
    /\ powerLosses < MaxPowerLoss /\ powerLosses' = powerLosses + 1
    /\ Reset
-----------------------------------------------------------------------------
(***************************************************************************)
(* The driver and the network                                              *)
(***************************************************************************)
Post(event) == events' = Append(events, event)

\* esp_wifi_start
StartStation == sta' = "idle" /\ Post("STA_START")

\* esp_wifi_stop reports the end of a connection, and perhaps of an attempt.
StopStation ==
    /\ sta' = "stopped"
    /\ \/ sta \in {"connecting", "connected"} /\ Post("DISCONNECTED")
       \/ sta # "connected" /\ UNCHANGED events

\* esp_wifi_connect: refused unless there is a configuration and nothing to do.
Connect == IF sta = "idle" /\ config.ssid # None THEN "connecting" ELSE sta

\* An attempt fails, or a connection breaks.
Disconnects ==
    /\ sta \in {"connecting", "connected"} /\ sta' = "idle"
    /\ Post("DISCONNECTED")
    /\ failed' = IF failed <= MAX_RETRY THEN failed + 1 ELSE failed
    /\ UNCHANGED <<flashVars, boot, connect, sharedVars, config>>

\* Association and DHCP succeed.
Connects ==
    /\ sta = "connecting" /\ config = Known("home") /\ sta' = "connected"
    /\ Post("GOT_IP")
    /\ failed' = 0
    /\ UNCHANGED <<flashVars, boot, connect, sharedVars, config>>
-----------------------------------------------------------------------------
(***************************************************************************)
(* sta_event_handler                                                       *)
(***************************************************************************)
RetriesNotConnected == s_retry_count < MAX_RETRY /\ s_mode # "CONNECTED"
OneMoreRetry == s_retry_count <= MAX_RETRY
RetriesLeft == s_retry_count < MAX_RETRY

HandleStart ==
    /\ Head(events) = "STA_START"
    /\ sta' = Connect
    /\ UNCHANGED sharedVars

KeepMode == s_mode
ModeAfterLoss == "CONNECTING"
HandleDisconnected ==
    /\ Head(events) = "DISCONNECTED"
    /\ s_mode' = ModeAfterLoss
    /\ \/ /\ RetriesLeft
          /\ sta' = Connect /\ s_retry_count' = s_retry_count + 1
          /\ UNCHANGED s_event_group
       \/ /\ ~RetriesLeft
          /\ s_event_group' = s_event_group \cup {"FAIL_BIT"}
          /\ UNCHANGED <<s_retry_count, sta>>
    /\ UNCHANGED s_ip_str

KeepCount == s_retry_count
CountAfterIp == 0
HandleGotIp ==
    /\ Head(events) = "GOT_IP"
    /\ s_ip_str' = "leased" /\ s_retry_count' = CountAfterIp /\ s_mode' = "CONNECTED"
    /\ s_event_group' = s_event_group \cup {"CONNECTED_BIT"}
    /\ UNCHANGED sta

sta_event_handler ==
    /\ events # <<>> /\ events' = Tail(events)
    /\ HandleStart \/ HandleDisconnected \/ HandleGotIp
    /\ UNCHANGED <<flashVars, boot, connect, config, failed>>
-----------------------------------------------------------------------------
(***************************************************************************)
(* init                                                                    *)
(***************************************************************************)
\* load_credentials: without a password the network is taken to be open; and
\* the fallback to the compiled-in credentials.
Loaded == IF nvs.ssid # None THEN nvs
          ELSE IF Kconfig # None THEN Known(Kconfig) ELSE NoCredentials

\* With credentials try_sta, up to the wait; without them provisioning.
LoadCredentials ==
    /\ boot = "load"
    /\ \/ /\ Loaded.ssid # None
          /\ s_mode' = "CONNECTING" /\ s_retry_count' = 0
          /\ config' = Loaded /\ StartStation
          /\ boot' = "wait"
       \/ /\ Loaded.ssid = None /\ boot' = "provision"
          /\ UNCHANGED <<s_mode, s_retry_count, config, sta, events>>
    /\ UNCHANGED <<flashVars, connect, s_ip_str, s_event_group, failed>>

AnyBit == s_event_group # {}
Joined == "CONNECTED_BIT" \in s_event_group
\* xEventGroupWaitBits for at most STA_TIMEOUT_MS; it clears what it waited for
\* unless it timed out.
NoTimeout == FALSE
TimedOut == s_event_group = {}
WaitReturns ==
    /\ boot = "wait"
    /\ s_event_group # {} \/ TimedOut
    /\ boot' = IF Joined THEN "ntp" ELSE "stop"
    /\ s_event_group' = {}
    /\ UNCHANGED <<flashVars, connect, s_mode, s_retry_count, s_ip_str, driverVars>>

\* start_mdns, and start_ntp's at most ten seconds
StartNtp ==
    /\ boot = "ntp" /\ boot' = "app"
    /\ UNCHANGED <<flashVars, connect, sharedVars, driverVars>>

StopSta ==
    /\ boot = "stop" /\ boot' = "provision"
    /\ StopStation
    /\ UNCHANGED <<flashVars, connect, sharedVars, config, failed>>

\* start_provisioning: the mode, the access point beside the station, the
\* servers.  Events that were posted before are handled in between.
Provision ==
    /\ boot = "provision" /\ boot' = "startAp"
    /\ s_mode' = "PROVISIONING"
    /\ UNCHANGED <<flashVars, connect, s_retry_count, s_ip_str, s_event_group, driverVars>>

StartAp ==
    /\ boot = "startAp" /\ boot' = "serve"
    /\ StartStation
    /\ UNCHANGED <<flashVars, connect, sharedVars, config, failed>>

StartPortal ==
    /\ boot = "serve" /\ boot' \in {"portal", "closed"}
    /\ UNCHANGED <<flashVars, connect, sharedVars, driverVars>>

init == LoadCredentials \/ WaitReturns \/ StartNtp \/ StopSta \/ Provision \/ StartAp \/ StartPortal
-----------------------------------------------------------------------------
(***************************************************************************)
(* handle_connect.  nvs_set_str stores at once; its result, nvs_open's and *)
(* nvs_commit's are ignored.                                               *)
(***************************************************************************)
ConnectStarts(network) ==
    /\ boot = "portal" /\ connect.step = "none"
    /\ \/ connect' = [step |-> "ssid", for |-> network]
       \/ connect' = [step |-> "restart", for |-> network]
    /\ UNCHANGED <<flashVars, boot, sharedVars, driverVars>>

SaveSsid ==
    /\ connect.step = "ssid" /\ connect' = [connect EXCEPT !.step = "pass"]
    /\ nvs' \in {nvs, [nvs EXCEPT !.ssid = connect.for]}
    /\ UNCHANGED <<powerLosses, boot, sharedVars, driverVars>>

SavePass ==
    /\ connect.step = "pass" /\ connect' = [connect EXCEPT !.step = "restart"]
    /\ nvs' \in {nvs, [nvs EXCEPT !.pass = connect.for]}
    /\ UNCHANGED <<powerLosses, boot, sharedVars, driverVars>>

Restart == connect.step = "restart" /\ Reset /\ UNCHANGED powerLosses

handle_connect == (\E network \in Networks : ConnectStarts(network)) \/ SaveSsid \/ SavePass \/ Restart
-----------------------------------------------------------------------------
Next == PowerLoss \/ Disconnects \/ Connects \/ sta_event_handler \/ init \/ handle_connect

\* init's task is scheduled and all its waits have timeouts.  Nothing is
\* assumed of the network or the user.
Fairness == WF_wifiVars(init)

Spec == Init /\ [][Next]_wifiVars /\ Fairness
-----------------------------------------------------------------------------
(***************************************************************************)
(* Properties                                                              *)
(***************************************************************************)
\* While the application runs, it is without a connection and without an
\* attempt at one only after MAX_RETRY retries in a row have failed; breaks
\* and reconnections before do not count against a later outage.
AbandonedOnlyAfterMax ==
    boot = "app" /\ sta = "idle" /\ events = <<>> => failed > MAX_RETRY

Waiting(event) == \E i \in 1 .. Len(events) : events[i] = event

\* In every phase, the portal's included, the mode says CONNECTED exactly when
\* the station is connected, except while the event that will correct it still
\* waits for its handler; and with CONNECTED there is an address to show.
ModeIsTrue ==
    /\ s_mode = "CONNECTED" /\ sta # "connected" => Waiting("DISCONNECTED")
    /\ sta = "connected" /\ s_mode # "CONNECTED" => Waiting("GOT_IP")
    /\ s_mode = "CONNECTED" => s_ip_str = "leased"

\* wifi_manager.h:16: init ends, connected or provisioning, whatever the network
\* does.  Credentials that are not the network's, such as a new name stored beside
\* an old password or none when power was lost between the two writes, always end
\* in the portal (or its failure), where they can be corrected.
BootDecides ==
    /\ boot = "load" ~> boot \in Decided
    /\ boot = "load" /\ Loaded # Known("home") ~> boot \in {"portal", "closed"}

\* wifi_manager.h:13 says of PROVISIONING "SoftAP captive portal active".
\* While the portal serves, this is the mode.
PortalMode == boot = "portal" => s_mode = "PROVISIONING"
=============================================================================
