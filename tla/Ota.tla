-------------------------------- MODULE Ota --------------------------------
(***************************************************************************)
(* Firmware updates: the OTA manager's state machine, the task that        *)
(* downloads an image, the HTTP handler that receives one, app_main's      *)
(* start-up order, restarts and power loss at any step.                    *)
(*                                                                         *)
(* Two slots hold images; the boot record ("otadata") says for each slot   *)
(* what became of it.  The bootloader (CONFIG_BOOTLOADER_APP_ROLLBACK_     *)
(* ENABLE) and the esp_ota functions are ESP-IDF's and modelled from their *)
(* use here.  status_mutex is only held for the statements of one step.    *)
(***************************************************************************)
EXTENDS Integers

CONSTANT Images   \* kinds of image on offer: "good", "bad" (crashes at start)

ASSUME OtaAssumption == Images \subseteq {"good", "bad"}

VARIABLES
    \* Flash
    slot,       \* content of ota_0 and ota_1
    otadata,    \* image state of each slot's boot record, "none" if it has none
    newest,     \* the slot selected last
    \* The running system
    running,    \* slot of the running image
    phase,      \* how far app_main has come
    state,      \* ota_status.state
    \* Tasks
    upload,     \* step of handle_ota_upload or handle_ota_reboot
    download,   \* step of ota_task
    restarting  \* an ota_task waits three seconds to restart

flashVars == <<slot, otadata, newest>>
taskVars  == <<upload, download, restarting>>
vars      == <<flashVars, running, phase, state, taskVars>>

Slots == {0, 1}
Other(s) == 1 - s
SameSlot(s) == s
\* esp_ota_get_next_update_partition(nullptr)
UpdateSlot(s) == Other(s)

Uploading   == {"begin", "recv", "end", "setBoot", "restart"}
Downloading == {"begin", "perform"}
Verifying   == {"finish"}

TypeOK ==
    /\ slot \in [Slots -> {"good", "bad", "partial"}]
    /\ otadata \in [Slots -> {"none", "new", "pending", "valid", "aborted"}]
    /\ newest \in Slots /\ running \in Slots
    /\ phase \in {"boot", "portal", "http", "init", "up"}
    /\ state \in {"IDLE", "UPLOADING", "DOWNLOADING", "VERIFYING", "READY_TO_REBOOT", "FAILED"}
    /\ upload \in {"none", "reboot"} \cup Uploading
    /\ download \in {"none"} \cup Downloading \cup Verifying
    /\ restarting \in BOOLEAN
    /\ slot[running] # "partial"

\* A board flashed over USB: ota_0 holds the image, there is no boot record.
Init ==
    /\ slot = [s \in Slots |-> IF s = 0 THEN "good" ELSE "partial"]
    /\ otadata = [s \in Slots |-> "none"] /\ newest = 0
    /\ running = 0 /\ phase = "boot" /\ state = "IDLE"
    /\ upload = "none" /\ download = "none" /\ restarting = FALSE

-----------------------------------------------------------------------------
(***************************************************************************)
(* The bootloader                                                          *)
(***************************************************************************)
\* An image that was on trial at the reset has failed.
Failed(records) == [s \in Slots |-> IF records[s] = "pending" THEN "aborted" ELSE records[s]]

\* The slot selected last whose record is usable, else ota_0.
Selected(records, last) ==
    LET usable == {s \in Slots : records[s] \in {"new", "valid"}} IN
    IF last \in usable THEN last ELSE IF Other(last) \in usable THEN Other(last) ELSE 0

OnTrial(records, s) == [records EXCEPT ![s] = IF @ = "new" THEN "pending" ELSE @]
Loadable(content, s) == IF content[s] = "partial" THEN Other(s) ELSE s

Reset ==
    LET records == Failed(otadata)
        s == Selected(records, newest) IN
    /\ otadata' = OnTrial(records, s)
    /\ running' = Loadable(slot, s)
    /\ phase' = "boot" /\ state' = "IDLE"
    /\ upload' = "none" /\ download' = "none" /\ restarting' = FALSE
    /\ UNCHANGED <<slot, newest>>

\* Power may be lost at any time.
PowerLoss == Reset
-----------------------------------------------------------------------------
(***************************************************************************)
(* app_main                                                                *)
(***************************************************************************)
\* A bad image panics or hangs until the watchdog fires, at the latest before
\* it has brought up WiFi and the HTTP server.
BadImageFails == slot[running] = "bad" /\ phase = "boot" /\ Reset

\* wifi::init: connected, or the captive portal (until somebody restarts the
\* device), or an error, after which nothing but the display runs either.
WifiResult ==
    /\ slot[running] = "good" /\ phase = "boot"
    /\ phase' \in {"http", "portal"}
    /\ UNCHANGED <<flashVars, running, state, taskVars>>

\* ESP_ERROR_CHECK(api::init()) aborts; and from here on the server accepts
\* requests, but status_mutex is created only in ota_mgr_init: an OTA request
\* in between makes xSemaphoreTake assert.
FailsInHttp == phase = "http" /\ Reset

OtaInit ==
    /\ phase = "http"
    /\ phase' = "init"
    /\ UNCHANGED <<flashVars, running, state, taskVars>>

EarlyPhase == "boot"
MarkPhase == "init"
\* ota_mgr_mark_valid, then sniffer::init.  A record that could not be written
\* goes unnoticed.
MarkValid ==
    /\ phase = MarkPhase
    /\ \/ otadata' = [otadata EXCEPT ![running] = IF @ = "pending" THEN "valid" ELSE @]
       \/ UNCHANGED otadata
    /\ phase' = IF phase = "init" THEN "up" ELSE phase
    /\ UNCHANGED <<slot, newest, running, state, taskVars>>

Boot == BadImageFails \/ WifiResult \/ FailsInHttp \/ OtaInit \/ MarkValid
-----------------------------------------------------------------------------
(***************************************************************************)
(* Starting an update                                                      *)
(***************************************************************************)
Serving == phase \in {"init", "up"} /\ upload = "none"

AllButVerifying == {"UPLOADING", "DOWNLOADING"}
Busy == {"UPLOADING", "DOWNLOADING", "VERIFYING"}

\* POST /api/ota/update with an allowed URL, or /api/ota/github: start_update.
\* The task may not get its stack.
StartUpdate ==
    /\ Serving /\ state \notin Busy
    /\ \/ state' = "DOWNLOADING" /\ download' = "begin"
       \/ state' = "FAILED" /\ UNCHANGED download
    /\ UNCHANGED <<flashVars, running, phase, upload, restarting>>

\* POST /api/ota/upload: try_lock_upload
StartUpload ==
    /\ Serving /\ state \notin Busy
    /\ state' = "UPLOADING" /\ upload' = "begin"
    /\ UNCHANGED <<flashVars, running, phase, download, restarting>>

\* POST /api/ota/reboot: half a second later the chip restarts.
StartReboot ==
    /\ Serving
    /\ upload' = "reboot"
    /\ UNCHANGED <<flashVars, running, phase, state, download, restarting>>
-----------------------------------------------------------------------------
(***************************************************************************)
(* handle_ota_upload                                                       *)
(***************************************************************************)
\* esp_ota_begin erases the other slot, but not while the running image is on
\* trial.
MayErase == otadata[running] # "pending"
Erase == slot' = [slot EXCEPT ![UpdateSlot(running)] = "partial"]

\* esp_ota_end or esp_https_ota_finish: a complete image of some kind.
Complete == \E image \in Images : slot' = [slot EXCEPT ![UpdateSlot(running)] = image]
SetBoot == /\ otadata' = [otadata EXCEPT ![UpdateSlot(running)] = "new"]
           /\ newest' = UpdateSlot(running)

\* unlock_upload and an error response.
FailLocked(step) ==
    /\ upload = step /\ upload' = "none"
    /\ UNCHANGED <<flashVars, running, phase, state, download, restarting>>
FailUpload(step) ==
    /\ upload = step /\ upload' = "none"
    /\ state' = IF state = "UPLOADING" THEN "IDLE" ELSE state
    /\ UNCHANGED <<flashVars, running, phase, download, restarting>>

\* No partition, or esp_ota_begin fails, or there is no memory (in which case
\* the slot is erased already and the handle is aborted).
UploadBegin ==
    \/ FailUpload("begin")
    \/ /\ upload = "begin" /\ MayErase
       /\ Erase /\ upload' = "recv"
       /\ UNCHANGED <<otadata, newest, running, phase, state, download, restarting>>

\* The loop over httpd_req_recv ends with the body, or with a receive error, a
\* timeout, a wrong first byte or a failed write.
UploadRecv ==
    \/ FailUpload("recv")
    \/ /\ upload = "recv" /\ upload' = "end"
       /\ UNCHANGED <<flashVars, running, phase, state, download, restarting>>

\* esp_ota_end validates the image.
UploadEnd ==
    \/ FailUpload("end")
    \/ /\ upload = "end" /\ Complete /\ upload' = "setBoot"
       /\ UNCHANGED <<otadata, newest, running, phase, state, download, restarting>>

UploadSetBoot ==
    \/ FailUpload("setBoot")
    \/ /\ upload = "setBoot" /\ SetBoot /\ upload' = "restart"
       /\ UNCHANGED <<slot, running, phase, state, download, restarting>>

\* The handler sleeps in the httpd task and restarts; the lock is kept.
HandlerRestarts == upload \in {"restart", "reboot"} /\ Reset

Upload == UploadBegin \/ UploadRecv \/ UploadEnd \/ UploadSetBoot \/ HandlerRestarts
-----------------------------------------------------------------------------
(***************************************************************************)
(* ota_task                                                                *)
(***************************************************************************)
\* A failing call: abort, status FAILED, the task deletes itself; in the last
\* step the image may be complete and only its selection have failed.
FailDownload ==
    /\ download # "none" /\ download' = "none"
    /\ state' = "FAILED"
    /\ UNCHANGED slot \/ (download \in Verifying /\ Complete)
    /\ UNCHANGED <<otadata, newest, running, phase, upload, restarting>>

DownloadBegin ==
    /\ download = "begin" /\ MayErase
    /\ Erase /\ download' = "perform"
    /\ UNCHANGED <<otadata, newest, running, phase, state, upload, restarting>>

\* esp_https_ota_perform returned ESP_OK: all of the image, or so it seems.  As
\* long as it returns IN_PROGRESS, after a read that timed out too, the loop
\* goes round and nothing changes here.
DownloadPerform ==
    /\ download = "perform" /\ download' = "finish"
    /\ state' = "VERIFYING"
    /\ UNCHANGED <<flashVars, running, phase, upload, restarting>>

DownloadFinish ==
    /\ download = "finish" /\ download' = "none"
    /\ Complete /\ SetBoot
    /\ state' = "READY_TO_REBOOT" /\ restarting' = TRUE
    /\ UNCHANGED <<running, phase, upload>>

TaskRestarts == restarting /\ Reset

Download == FailDownload \/ DownloadBegin \/ DownloadPerform \/ DownloadFinish \/ TaskRestarts

Next == PowerLoss \/ Boot \/ StartUpdate \/ StartUpload \/ StartReboot \/ Upload \/ Download

\* What ota_task does by itself: all but getting out of the download loop.
OwnStep == DownloadBegin \/ DownloadFinish \/ (download # "perform" /\ FailDownload)

\* The tasks are scheduled, and the calls they make return.  An upload ends: a
\* receive that times out ends it, any other brings a part of a finite body.
\* Nothing bounds the download loop, so its end is not assumed.
Fairness == WF_vars(Upload) /\ WF_vars(OwnStep) /\ WF_vars(TaskRestarts) /\ WF_vars(Boot)

Spec == Init /\ [][Next]_vars /\ Fairness
-----------------------------------------------------------------------------
(***************************************************************************)
(* Properties                                                              *)
(***************************************************************************)
\* The status tells what is going on: an upload or a download, never both, and
\* no failure leaves it busy (or free) for good.
StateTellsWork ==
    /\ state = "UPLOADING" <=> upload \in Uploading
    /\ state = "DOWNLOADING" <=> download \in Downloading
    /\ state = "VERIFYING" <=> download \in Verifying

\* sdkconfig.defaults:25: at any moment, a reset boots a good image, or a bad
\* one after whose failure the next reset boots a good one.
Recoverable ==
    LET first  == Failed(otadata)
        s      == Selected(first, newest)
        second == Failed(OnTrial(first, s))
    IN  \/ slot[Loadable(slot, s)] = "good"
        \/ slot[Loadable(slot, Selected(second, newest))] = "good"

\* An update that has started ends: it fails, or is done, or the chip restarts.
\* One thing alone can keep the status busy for good, a download that its
\* server never finishes.
UpdateTerminates == state \in Busy ~> (state \notin Busy \/ [](download = "perform"))

\* Updating and rolling back is what Firmware promises.
Promise == INSTANCE Firmware WITH runs <- slot[running],
                                  onTrial <- otadata[running] = "pending"
ImplementsFirmware == Promise!Spec
=============================================================================
