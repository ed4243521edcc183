----------------------------- MODULE OtaProofs -----------------------------
(***************************************************************************)
(* Proofs about Ota: its type invariant, that the status tells what runs,  *)
(* that the device can always be started, and that updating and rolling    *)
(* back implement Firmware.                                                *)
(***************************************************************************)
EXTENDS Ota, TLAPS

other == Other(running)
Record == {"none", "new", "pending", "valid", "aborted"}

\* The image that runs has proved itself, and its record says so, or it is on
\* trial and the one in the other slot has.
RunningKnown ==
    /\ otadata[running] \in {"valid", "pending"} \/ (otadata[running] = "none" /\ running = 0)
    /\ otadata[running] # "pending" \/ phase # "boot" => slot[running] = "good"
    /\ otadata[running] = "pending" =>
         /\ newest = running
         /\ slot[other] = "good"
         /\ otadata[other] = "valid" \/ (otadata[other] = "none" /\ other = 0)

\* What the other slot's record lets the bootloader do when the running image
\* is not on trial: a slot that may be erased or half written is selected only
\* when a new image was put there.
OtherKnown ==
    /\ otadata[other] = "new" => newest = other
    /\ otadata[other] = "valid" /\ otadata[running] # "pending" =>
         newest = running /\ otadata[running] = "valid"
    /\ otadata[other] = "new" \/ upload = "setBoot" => slot[other] \in Images \cup {"partial"}

\* The other slot is written only when the running image is not on trial.
Writing == upload \in {"recv", "end", "setBoot"} \/ download \in {"perform", "finish"}
WritesWhenProved == Writing => otadata[running] # "pending"

SlotsKnown == RunningKnown /\ OtherKnown /\ WritesWhenProved
OtaInv == TypeOK /\ StateTellsWork /\ SlotsKnown

-----------------------------------------------------------------------------
LEMMA OtherSlot == \A s \in Slots : Other(s) \in Slots /\ Other(s) # s /\ Other(Other(s)) = s
  BY DEF Slots, Other

\* What the bootloader makes of the records it finds.
LEMMA BootRecords ==
    ASSUME NEW records \in [Slots -> Record], NEW s \in Slots
    PROVE  /\ Failed(records) \in [Slots -> Record]
           /\ OnTrial(records, s) \in [Slots -> Record]
           /\ \A t \in Slots :
                /\ Failed(records)[t] = IF records[t] = "pending" THEN "aborted" ELSE records[t]
                /\ OnTrial(records, s)[t] =
                     IF t = s /\ records[t] = "new" THEN "pending" ELSE records[t]
  BY DEF Failed, OnTrial, Record

LEMMA BootSelects ==
    ASSUME NEW records \in [Slots -> Record], NEW last \in Slots
    PROVE  /\ Selected(records, last) \in Slots
           /\ records[last] \in {"new", "valid"} => Selected(records, last) = last
           /\ records[last] \notin {"new", "valid"} /\ records[Other(last)] \in {"new", "valid"}
                => Selected(records, last) = Other(last)
           /\ records[last] \notin {"new", "valid"} /\ records[Other(last)] \notin {"new", "valid"}
                => Selected(records, last) = 0
  BY OtherSlot DEF Selected, Slots

\* The bootloader starts the proved image, or a new one that was selected; it
\* falls back to the proved one when the new one was overwritten.
LEMMA BootChoice ==
    ASSUME TypeOK, RunningKnown, OtherKnown,
           NEW records, records = Failed(otadata),
           NEW s, s = Selected(records, newest)
    PROVE  /\ s \in Slots
           /\ otadata[running] = "pending" => s = other
           /\ otadata[running] # "pending" => s = running \/ (s = other /\ otadata[other] = "new")
<1>1. /\ otadata \in [Slots -> Record] /\ newest \in Slots /\ running \in Slots
      /\ other \in Slots /\ other # running /\ Other(other) = running
  BY OtherSlot DEF TypeOK, Record, other
<1>2. /\ records \in [Slots -> Record]
      /\ \A t \in Slots : records[t] = IF otadata[t] = "pending" THEN "aborted" ELSE otadata[t]
  BY <1>1, BootRecords
<1>3. newest = running \/ newest = other
  BY <1>1 DEF Slots
<1>4. CASE otadata[running] = "pending"
  <2>1. newest = running /\ records[newest] \notin {"new", "valid"}
    BY <1>1, <1>2, <1>4 DEF RunningKnown
  <2>2. CASE otadata[other] = "valid"
    BY <1>1, <1>2, <1>4, <2>1, <2>2, BootSelects DEF other
  <2>3. CASE otadata[other] = "none" /\ other = 0
    BY <1>1, <1>2, <1>4, <2>1, <2>3, BootSelects DEF other
  <2> QED
    BY <1>4, <2>2, <2>3, <1>1 DEF RunningKnown
<1>5. CASE otadata[running] # "pending"
  <2>1. CASE newest = other /\ otadata[other] = "new"
    BY <1>1, <1>2, <1>5, <2>1, BootSelects
  <2>2. CASE ~(newest = other /\ otadata[other] = "new")
    <3>1. records[other] \notin {"new", "valid"} \/ (newest = running /\ otadata[running] = "valid")
      BY <1>1, <1>2, <1>5, <2>2 DEF OtherKnown
    <3>2. CASE otadata[running] = "valid"
      BY <1>1, <1>2, <1>3, <1>5, <3>1, <3>2, BootSelects DEF other
    <3>3. CASE otadata[running] = "none" /\ running = 0
      BY <1>1, <1>2, <1>3, <1>5, <3>1, <3>3, BootSelects DEF other
    <3> QED
      BY <1>5, <3>2, <3>3 DEF RunningKnown
  <2> QED
    BY <2>1, <2>2
<1> QED
  BY <1>1, <1>2, <1>4, <1>5, BootSelects

LEMMA ResetKeeps ==
    ASSUME OtaInv, Reset
    PROVE  OtaInv'
<1> DEFINE records == Failed(otadata)
           s == Selected(records, newest)
<1>1. /\ otadata \in [Slots -> Record] /\ newest \in Slots /\ running \in Slots
      /\ other \in Slots /\ other # running /\ Other(other) = running
      /\ \A t \in Slots : t = running \/ t = other
      /\ slot \in [Slots -> {"good", "bad", "partial"}] /\ slot[running] # "partial"
  BY OtherSlot DEF OtaInv, TypeOK, Record, other, Slots
<1>2. /\ records \in [Slots -> Record]
      /\ \A t \in Slots : records[t] = IF otadata[t] = "pending" THEN "aborted" ELSE otadata[t]
  BY <1>1, BootRecords
<1>3. /\ s \in Slots
      /\ otadata[running] = "pending" => s = other
      /\ otadata[running] # "pending" => s = running \/ (s = other /\ otadata[other] = "new")
  BY BootChoice DEF OtaInv, SlotsKnown
<1>4. /\ otadata' \in [Slots -> Record]
      /\ \A t \in Slots : otadata'[t] = IF t = s /\ records[t] = "new" THEN "pending" ELSE records[t]
  BY <1>2, <1>3, BootRecords DEF Reset
<1>5. /\ slot' = slot /\ newest' = newest /\ phase' = "boot" /\ state' = "IDLE"
      /\ upload' = "none" /\ download' = "none" /\ restarting' = FALSE
      /\ running' = IF slot[s] = "partial" THEN Other(s) ELSE s
  BY DEF Reset, Loadable
<1> HIDE DEF records, s
<1>6. TypeOK'
  <2>1. running' \in Slots /\ slot'[running'] # "partial"
    BY <1>1, <1>3, <1>5, OtherSlot
  <2> QED
    BY <1>1, <1>4, <1>5, <2>1 DEF TypeOK, Record
<1>7. StateTellsWork'
  BY <1>5 DEF StateTellsWork, Uploading, Downloading, Verifying
<1>8. WritesWhenProved'
  BY <1>5 DEF WritesWhenProved, Writing
<1>9. RunningKnown' /\ OtherKnown'
  <2>1. CASE s = running
    <3>1. running' = running /\ other' = other /\ otadata[running] # "pending"
      BY <1>1, <1>3, <1>5, <2>1 DEF other
    <3>2. otadata'[running] = otadata[running]
          /\ otadata'[other] \in {otadata[other], "aborted"}
      BY <1>1, <1>2, <1>4, <2>1, <3>1 DEF OtaInv, SlotsKnown, RunningKnown
    <3> QED
      BY <1>1, <1>5, <3>1, <3>2 DEF OtaInv, SlotsKnown, RunningKnown, OtherKnown
  <2>2. CASE s = other /\ otadata[running] = "pending"
    <3>1. running' = other /\ other' = running
      BY <1>1, <1>5, <2>2 DEF other, OtaInv, SlotsKnown, RunningKnown
    <3>2. /\ otadata'[other] = otadata[other] /\ otadata'[running] = "aborted"
          /\ slot[other] = "good"
          /\ otadata[other] = "valid" \/ (otadata[other] = "none" /\ other = 0)
      BY <1>1, <1>2, <1>4, <2>2 DEF OtaInv, SlotsKnown, RunningKnown
    <3> QED
      BY <1>1, <1>5, <3>1, <3>2 DEF RunningKnown, OtherKnown
  <2>3. CASE s = other /\ otadata[running] # "pending" /\ otadata[other] = "new"
    <3>1. /\ otadata'[other] = "pending" /\ otadata'[running] = otadata[running]
          /\ newest = other /\ slot[running] = "good"
          /\ otadata[running] = "valid" \/ (otadata[running] = "none" /\ running = 0)
      BY <1>1, <1>2, <1>4, <2>3 DEF OtaInv, SlotsKnown, RunningKnown, OtherKnown
    <3>2. CASE slot[other] = "partial"
      <4>1. running' = running /\ other' = other
        BY <1>1, <1>5, <2>3, <3>2 DEF other
      <4> QED
        BY <1>1, <1>5, <3>1, <4>1 DEF RunningKnown, OtherKnown
    <3>3. CASE slot[other] # "partial"
      <4>1. running' = other /\ other' = running
        BY <1>1, <1>5, <2>3, <3>3 DEF other
      <4> QED
        BY <1>1, <1>5, <3>1, <4>1 DEF RunningKnown, OtherKnown
    <3> QED
      BY <3>2, <3>3
  <2> QED
    BY <1>3, <2>1, <2>2, <2>3
<1> QED
  BY <1>6, <1>7, <1>8, <1>9 DEF OtaInv, SlotsKnown

-----------------------------------------------------------------------------
LEMMA InitEstablishes == Init => OtaInv
<1> SUFFICES ASSUME Init PROVE OtaInv
  OBVIOUS
<1>1. TypeOK
  BY DEF Init, TypeOK, Slots
<1>2. StateTellsWork
  BY DEF Init, StateTellsWork, Uploading, Downloading, Verifying
<1>3. SlotsKnown
  BY DEF Init, SlotsKnown, RunningKnown, OtherKnown, WritesWhenProved, Writing, other, Other, Slots
<1> QED
  BY <1>1, <1>2, <1>3 DEF OtaInv

\* A step that touches neither the flash nor the running slot and enters no
\* step that writes the other slot keeps what is known of the slots.
LEMMA SlotsUntouched ==
    ASSUME SlotsKnown, UNCHANGED <<flashVars, running>>,
           phase' # "boot" => phase # "boot" \/ slot[running] = "good",
           Writing' => Writing \/ otadata[running] # "pending",
           upload' = "setBoot" => upload = "setBoot"
    PROVE  SlotsKnown'
<1>1. other' = other
  BY DEF other
<1> QED
  BY <1>1 DEF SlotsKnown, RunningKnown, OtherKnown, WritesWhenProved, flashVars

LEMMA BootKeeps ==
    ASSUME OtaInv, Boot
    PROVE  OtaInv'
<1> USE DEF OtaInv
<1>1. CASE BadImageFails \/ FailsInHttp
  BY <1>1, ResetKeeps DEF BadImageFails, FailsInHttp
<1>2. CASE WifiResult \/ OtaInit
  <2>1. TypeOK' /\ StateTellsWork'
    BY <1>2 DEF WifiResult, OtaInit, flashVars, taskVars, TypeOK, StateTellsWork
  <2>2. SlotsKnown'
    BY <1>2, SlotsUntouched DEF WifiResult, OtaInit, taskVars, Writing
  <2> QED
    BY <2>1, <2>2
<1>3. CASE MarkValid
  <2>1. running \in Slots /\ other \in Slots /\ other # running
    BY OtherSlot DEF TypeOK, other
  <2>2. /\ otadata' \in [Slots -> Record]
        /\ otadata'[other] = otadata[other]
        /\ otadata'[running] = otadata[running]
           \/ (otadata[running] = "pending" /\ otadata'[running] = "valid")
    <3>1. CASE UNCHANGED otadata
      BY <3>1 DEF TypeOK, Record
    <3>2. CASE otadata' = [otadata EXCEPT ![running] = IF @ = "pending" THEN "valid" ELSE @]
      BY <2>1, <3>2 DEF TypeOK, Record
    <3> QED
      BY <1>3, <3>1, <3>2 DEF MarkValid
  <2>3. phase = "init" /\ phase' = "up" /\ slot' = slot /\ newest' = newest /\ running' = running
        /\ state' = state /\ upload' = upload /\ download' = download /\ restarting' = restarting
        /\ other' = other
    BY <1>3 DEF MarkValid, MarkPhase, taskVars, other
  <2>4. TypeOK' /\ StateTellsWork'
    BY <2>2, <2>3 DEF TypeOK, Record, StateTellsWork
  <2>5. RunningKnown' /\ OtherKnown' /\ WritesWhenProved'
    BY <2>2, <2>3 DEF SlotsKnown, RunningKnown, OtherKnown, WritesWhenProved, Writing
  <2> QED
    BY <2>4, <2>5 DEF SlotsKnown
<1> QED
  BY <1>1, <1>2, <1>3 DEF Boot

LEMMA StartKeeps ==
    ASSUME OtaInv, StartUpdate \/ StartUpload \/ StartReboot
    PROVE  OtaInv'
<1> USE DEF OtaInv, Serving
<1>1. TypeOK'
  BY DEF StartUpdate, StartUpload, StartReboot, flashVars, TypeOK, Uploading, Downloading
<1>2. StateTellsWork'
  BY DEF StartUpdate, StartUpload, StartReboot, TypeOK, StateTellsWork, Busy,
         Uploading, Downloading, Verifying
<1>3. SlotsKnown'
  BY SlotsUntouched DEF StartUpdate, StartUpload, StartReboot, Writing
<1> QED
  BY <1>1, <1>2, <1>3

\* Writing the other slot while the running image is not on trial.
LEMMA WriteKeeps ==
    ASSUME TypeOK, SlotsKnown, otadata[running] # "pending",
           NEW image \in Images \cup {"partial"},
           slot' = [slot EXCEPT ![UpdateSlot(running)] = image],
           UNCHANGED <<otadata, newest, running, phase>>
    PROVE  /\ slot' \in [Slots -> {"good", "bad", "partial"}] /\ slot'[running'] # "partial"
           /\ SlotsKnown' /\ slot'[other'] = image
<1>1. /\ running \in Slots /\ other \in Slots /\ other # running /\ other' = other
      /\ slot' = [slot EXCEPT ![other] = image]
  BY OtherSlot DEF TypeOK, other, UpdateSlot
<1>2. slot'[other] = image /\ slot'[running] = slot[running]
  BY <1>1 DEF TypeOK
<1>3. slot' \in [Slots -> {"good", "bad", "partial"}] /\ slot'[running'] # "partial"
  BY <1>1, <1>2, OtaAssumption DEF TypeOK
<1>4. RunningKnown' /\ OtherKnown' /\ WritesWhenProved'
  BY <1>1, <1>2 DEF SlotsKnown, RunningKnown, OtherKnown, WritesWhenProved
<1> QED
  BY <1>1, <1>2, <1>3, <1>4 DEF SlotsKnown

\* Selecting the other slot, which holds an image.
LEMMA SelectKeeps ==
    ASSUME TypeOK, SlotsKnown, otadata[running] # "pending", SetBoot,
           slot'[other] \in Images \cup {"partial"}, slot'[running] = slot[running],
           UNCHANGED <<running, phase>>
    PROVE  otadata' \in [Slots -> Record] /\ newest' \in Slots /\ SlotsKnown'
<1>1. /\ running \in Slots /\ other \in Slots /\ other # running /\ other' = other
      /\ otadata' = [otadata EXCEPT ![other] = "new"] /\ newest' = other
  BY OtherSlot DEF TypeOK, other, UpdateSlot, SetBoot
<1>2. otadata'[other] = "new" /\ otadata'[running] = otadata[running]
  BY <1>1 DEF TypeOK
<1>3. otadata' \in [Slots -> Record] /\ newest' \in Slots
  BY <1>1 DEF TypeOK, Record
<1>4. RunningKnown' /\ OtherKnown' /\ WritesWhenProved'
  BY <1>1, <1>2 DEF SlotsKnown, RunningKnown, OtherKnown, WritesWhenProved
<1> QED
  BY <1>3, <1>4 DEF SlotsKnown

LEMMA UploadFailureKeeps ==
    ASSUME OtaInv, NEW step \in Uploading, FailUpload(step)
    PROVE  OtaInv'
<1>1. TypeOK' /\ StateTellsWork'
  BY DEF FailUpload, flashVars, OtaInv, TypeOK, StateTellsWork, Uploading, Downloading, Verifying
<1>2. SlotsKnown'
  BY SlotsUntouched DEF FailUpload, OtaInv, Writing
<1> QED
  BY <1>1, <1>2 DEF OtaInv

LEMMA UploadKeeps ==
    ASSUME OtaInv, Upload
    PROVE  OtaInv'
<1> USE DEF OtaInv
<1>1. CASE \E step \in {"begin", "recv", "end", "setBoot"} : FailUpload(step)
  BY <1>1, UploadFailureKeeps DEF Uploading
<1>2. CASE /\ upload = "begin" /\ MayErase /\ Erase /\ upload' = "recv"
           /\ UNCHANGED <<otadata, newest, running, phase, state, download, restarting>>
  <2>1. otadata[running] # "pending" /\ slot' = [slot EXCEPT ![UpdateSlot(running)] = "partial"]
    BY <1>2 DEF MayErase, Erase
  <2>2. /\ slot' \in [Slots -> {"good", "bad", "partial"}] /\ slot'[running'] # "partial"
        /\ SlotsKnown'
    BY <1>2, <2>1, WriteKeeps
  <2> QED
    BY <1>2, <2>2 DEF TypeOK, StateTellsWork, Uploading
<1>3. CASE /\ upload = "recv" /\ upload' = "end"
           /\ UNCHANGED <<flashVars, running, phase, state, download, restarting>>
  <2>1. TypeOK' /\ StateTellsWork'
    BY <1>3 DEF flashVars, TypeOK, StateTellsWork, Uploading
  <2>2. SlotsKnown'
    BY <1>3, SlotsUntouched DEF Writing
  <2> QED
    BY <2>1, <2>2
<1>4. CASE /\ upload = "end" /\ Complete /\ upload' = "setBoot"
           /\ UNCHANGED <<otadata, newest, running, phase, state, download, restarting>>
  <2>1. otadata[running] # "pending"
    BY <1>4 DEF SlotsKnown, WritesWhenProved, Writing
  <2>2. PICK image \in Images : slot' = [slot EXCEPT ![UpdateSlot(running)] = image]
    BY <1>4 DEF Complete
  <2>3. /\ slot' \in [Slots -> {"good", "bad", "partial"}] /\ slot'[running'] # "partial"
        /\ SlotsKnown'
    BY <1>4, <2>1, <2>2, WriteKeeps
  <2> QED
    BY <1>4, <2>3 DEF TypeOK, StateTellsWork, Uploading
<1>5. CASE /\ upload = "setBoot" /\ SetBoot /\ upload' = "restart"
           /\ UNCHANGED <<slot, running, phase, state, download, restarting>>
  <2>1. otadata[running] # "pending" /\ slot[other] \in Images \cup {"partial"}
    BY <1>5 DEF SlotsKnown, OtherKnown, WritesWhenProved, Writing
  <2>2. otadata' \in [Slots -> Record] /\ newest' \in Slots /\ SlotsKnown'
    BY <1>5, <2>1, SelectKeeps
  <2> QED
    BY <1>5, <2>2 DEF TypeOK, Record, StateTellsWork, Uploading
<1>6. CASE HandlerRestarts
  BY <1>6, ResetKeeps DEF HandlerRestarts
<1> QED
  BY <1>1, <1>2, <1>3, <1>4, <1>5, <1>6
     DEF Upload, UploadBegin, UploadRecv, UploadEnd, UploadSetBoot

LEMMA DownloadKeeps ==
    ASSUME OtaInv, Download
    PROVE  OtaInv'
<1> USE DEF OtaInv
<1>1. CASE FailDownload /\ UNCHANGED slot
  <2>1. TypeOK' /\ StateTellsWork'
    BY <1>1 DEF FailDownload, TypeOK, StateTellsWork, Uploading, Downloading, Verifying
  <2>2. SlotsKnown'
    BY <1>1, SlotsUntouched DEF FailDownload, flashVars, Writing
  <2> QED
    BY <2>1, <2>2
<1>2. CASE FailDownload /\ download \in Verifying /\ Complete
  <2>1. otadata[running] # "pending"
    BY <1>2 DEF SlotsKnown, WritesWhenProved, Writing, Verifying
  <2>2. PICK image \in Images : slot' = [slot EXCEPT ![UpdateSlot(running)] = image]
    BY <1>2 DEF Complete
  <2>3. UNCHANGED <<otadata, newest, running, phase, upload, restarting>>
        /\ download' = "none" /\ state' = "FAILED"
    BY <1>2 DEF FailDownload
  <2>4. /\ slot' \in [Slots -> {"good", "bad", "partial"}] /\ slot'[running'] # "partial"
        /\ SlotsKnown'
    BY <2>1, <2>2, <2>3, WriteKeeps
  <2> QED
    BY <1>2, <2>3, <2>4 DEF TypeOK, StateTellsWork, Downloading, Verifying
<1>3. CASE DownloadBegin
  <2>1. /\ otadata[running] # "pending"
        /\ slot' = [slot EXCEPT ![UpdateSlot(running)] = "partial"]
        /\ download = "begin" /\ download' = "perform"
        /\ UNCHANGED <<otadata, newest, running, phase, state, upload, restarting>>
    BY <1>3 DEF DownloadBegin, MayErase, Erase
  <2>2. /\ slot' \in [Slots -> {"good", "bad", "partial"}] /\ slot'[running'] # "partial"
        /\ SlotsKnown'
    BY <2>1, WriteKeeps
  <2> QED
    BY <2>1, <2>2 DEF TypeOK, StateTellsWork, Downloading, Verifying
<1>4. CASE DownloadPerform
  <2>1. TypeOK' /\ StateTellsWork'
    BY <1>4 DEF DownloadPerform, flashVars, TypeOK, StateTellsWork, Uploading, Downloading, Verifying
  <2>2. SlotsKnown'
    BY <1>4, SlotsUntouched DEF DownloadPerform, Writing
  <2> QED
    BY <2>1, <2>2
<1>5. CASE DownloadFinish
  <2>1. /\ download = "finish" /\ download' = "none" /\ SetBoot /\ Complete
        /\ state' = "READY_TO_REBOOT" /\ restarting' = TRUE
        /\ UNCHANGED <<running, phase, upload>>
    BY <1>5 DEF DownloadFinish
  <2>2. otadata[running] # "pending"
    BY <2>1 DEF SlotsKnown, WritesWhenProved, Writing
  <2>3. PICK image \in Images : slot' = [slot EXCEPT ![other] = image]
    BY <2>1 DEF Complete, UpdateSlot, other
  <2>4. /\ slot' \in [Slots -> {"good", "bad", "partial"}]
        /\ slot'[other] \in Images /\ slot'[running] = slot[running]
    BY <2>3, OtherSlot, OtaAssumption DEF TypeOK, other
  <2>5. otadata' \in [Slots -> Record] /\ newest' \in Slots /\ SlotsKnown'
    BY <2>1, <2>2, <2>4, SelectKeeps
  <2> QED
    BY <2>1, <2>4, <2>5 DEF TypeOK, Record, StateTellsWork, Downloading, Verifying, Uploading
<1>6. CASE TaskRestarts
  BY <1>6, ResetKeeps DEF TaskRestarts
<1> QED
  BY <1>1, <1>2, <1>3, <1>4, <1>5, <1>6 DEF Download, FailDownload

\* The inductive invariant.
LEMMA OtaInvariant == Spec => []OtaInv
<1>1. Init => OtaInv
  BY InitEstablishes
<1>2. OtaInv /\ [Next]_vars => OtaInv'
  <2> SUFFICES ASSUME OtaInv, [Next]_vars PROVE OtaInv'
    OBVIOUS
  <2>1. CASE Next
    BY <2>1, ResetKeeps, BootKeeps, StartKeeps, UploadKeeps, DownloadKeeps DEF Next, PowerLoss
  <2>2. CASE UNCHANGED vars
    <3>1. UNCHANGED <<slot, otadata, newest, running, phase, state, upload, download, restarting>>
      BY <2>2 DEF vars, flashVars, taskVars
    <3>2. TypeOK' /\ StateTellsWork'
      BY <3>1 DEF OtaInv, TypeOK, StateTellsWork
    <3>3. SlotsKnown'
      BY <3>1, SlotsUntouched DEF OtaInv, flashVars, Writing
    <3> QED
      BY <3>2, <3>3 DEF OtaInv
  <2> QED
    BY <2>1, <2>2
<1> QED
  BY <1>1, <1>2, PTL DEF Spec

-----------------------------------------------------------------------------
\* Every variable keeps its type, and the running slot a complete image,
\* through every reset and every write of the other slot.
THEOREM TypeCorrect == Spec => []TypeOK
  BY OtaInvariant, PTL DEF OtaInv

\* ota_status.state says whether an upload or a download is under way, so the
\* two never write the other slot at the same time, and after a failure, or
\* between two updates, it is not busy.
THEOREM StateIsTrue == Spec => []StateTellsWork
  BY OtaInvariant, PTL DEF OtaInv

LEMMA InvariantRecovers == OtaInv => Recoverable
<1> SUFFICES ASSUME OtaInv PROVE Recoverable
  OBVIOUS
<1> DEFINE first  == Failed(otadata)
           s      == Selected(first, newest)
           trial  == OnTrial(first, s)
           second == Failed(trial)
<1>1. /\ otadata \in [Slots -> Record] /\ newest \in Slots /\ running \in Slots
      /\ other \in Slots /\ other # running /\ Other(other) = running /\ Other(running) = other
  BY OtherSlot DEF OtaInv, TypeOK, Record, other
<1>2. /\ first \in [Slots -> Record]
      /\ \A t \in Slots : first[t] = IF otadata[t] = "pending" THEN "aborted" ELSE otadata[t]
  BY <1>1, BootRecords
<1>3. /\ s \in Slots
      /\ otadata[running] = "pending" => s = other
      /\ otadata[running] # "pending" => s = running \/ (s = other /\ otadata[other] = "new")
  BY BootChoice DEF OtaInv, SlotsKnown
<1>4. trial \in [Slots -> Record]
      /\ \A t \in Slots : trial[t] = IF t = s /\ first[t] = "new" THEN "pending" ELSE first[t]
  BY <1>2, <1>3, BootRecords
<1> HIDE DEF trial
<1>5. second \in [Slots -> Record]
      /\ \A t \in Slots : second[t] =
            IF trial[t] = "pending" THEN "aborted" ELSE trial[t]
  BY <1>3, <1>4, BootRecords
<1> HIDE DEF first, s, second
<1>6. slot[Loadable(slot, s)] = "good" \/ slot[Loadable(slot, Selected(second, newest))] = "good"
  <2>1. CASE otadata[running] = "pending"
    BY <1>3, <2>1 DEF OtaInv, SlotsKnown, RunningKnown, Loadable
  <2>2. CASE otadata[running] # "pending" /\ s = running
    BY <2>2 DEF OtaInv, SlotsKnown, RunningKnown, Loadable
  <2>3. CASE otadata[running] # "pending" /\ s = other /\ otadata[other] = "new"
    <3>1. newest = other /\ slot[running] = "good"
      BY <2>3 DEF OtaInv, SlotsKnown, RunningKnown, OtherKnown
    <3>2. second[other] = "aborted" /\ second[running] = otadata[running]
      BY <1>1, <1>2, <1>4, <1>5, <2>3
    <3>3. Selected(second, newest) = running
      BY <1>1, <1>5, <3>1, <3>2, <2>3, BootSelects DEF OtaInv, SlotsKnown, RunningKnown
    <3> QED
      BY <3>1, <3>3 DEF Loadable
  <2> QED
    BY <1>3, <2>1, <2>2, <2>3
<1> QED
  BY <1>6 DEF Recoverable, first, s, trial, second

\* Whenever power is lost, and whatever image was offered, the device starts a
\* good image at the next reset or the one after: no update bricks it.
THEOREM NeverBricked == Spec => []Recoverable
  BY OtaInvariant, InvariantRecovers, PTL

-----------------------------------------------------------------------------
\* A reset keeps the proved image, tries a new one, or leaves one on trial.
LEMMA ResetPromised ==
    ASSUME OtaInv, Reset
    PROVE  [Promise!Try \/ Promise!Confirm \/ Promise!Rollback]_<<slot[running], otadata[running] = "pending">>
<1> DEFINE records == Failed(otadata)
           s == Selected(records, newest)
<1>1. /\ otadata \in [Slots -> Record] /\ newest \in Slots /\ running \in Slots
      /\ other \in Slots /\ other # running /\ Other(other) = running
      /\ slot[running] # "partial"
  BY OtherSlot DEF OtaInv, TypeOK, Record, other
<1>2. /\ records \in [Slots -> Record]
      /\ \A t \in Slots : records[t] = IF otadata[t] = "pending" THEN "aborted" ELSE otadata[t]
  BY <1>1, BootRecords
<1>3. /\ s \in Slots
      /\ otadata[running] = "pending" => s = other
      /\ otadata[running] # "pending" => s = running \/ (s = other /\ otadata[other] = "new")
  BY BootChoice DEF OtaInv, SlotsKnown
<1>4. \A t \in Slots : otadata'[t] = IF t = s /\ records[t] = "new" THEN "pending" ELSE records[t]
  BY <1>2, <1>3, BootRecords DEF Reset
<1>5. slot' = slot /\ running' = IF slot[s] = "partial" THEN Other(s) ELSE s
  BY DEF Reset, Loadable
<1> HIDE DEF records, s
<1>6. CASE otadata[running] = "pending"
  <2>1. running' = other /\ slot[other] = "good" /\ otadata'[other] # "pending"
    BY <1>1, <1>2, <1>3, <1>4, <1>5, <1>6 DEF OtaInv, SlotsKnown, RunningKnown
  <2> QED
    BY <1>5, <1>6, <2>1 DEF Promise!Rollback
<1>7. CASE otadata[running] # "pending" /\ s = running
  <2>1. running' = running /\ otadata'[running] # "pending"
    BY <1>1, <1>2, <1>4, <1>5, <1>7 DEF OtaInv, SlotsKnown, RunningKnown
  <2> QED
    BY <1>5, <1>7, <2>1
<1>8. CASE otadata[running] # "pending" /\ s = other /\ otadata[other] = "new"
  <2>1. CASE slot[other] = "partial"
    <3>1. running' = running /\ otadata'[running] # "pending"
      BY <1>1, <1>2, <1>4, <1>5, <1>8, <2>1
    <3> QED
      BY <1>5, <1>8, <3>1
  <2>2. CASE slot[other] # "partial"
    <3>1. running' = other /\ otadata'[other] = "pending" /\ slot[other] \in Images
      BY <1>1, <1>2, <1>4, <1>5, <1>8, <2>2 DEF OtaInv, SlotsKnown, OtherKnown
    <3> QED
      BY <1>5, <1>8, <3>1 DEF Promise!Try
  <2> QED
    BY <2>1, <2>2
<1> QED
  BY <1>3, <1>6, <1>7, <1>8

\* Every other step leaves the running image alone, or marks it valid.
LEMMA StepPromised ==
    ASSUME OtaInv, [Next]_vars
    PROVE  [Promise!Try \/ Promise!Confirm \/ Promise!Rollback]_<<slot[running], otadata[running] = "pending">>
<1>1. running \in Slots /\ UpdateSlot(running) # running
  BY OtherSlot DEF OtaInv, TypeOK, UpdateSlot
<1>2. CASE Reset
  BY <1>2, ResetPromised
<1>3. CASE MarkValid
  <2>1. slot[running] = "good" /\ slot' = slot /\ running' = running
    BY <1>3 DEF MarkValid, MarkPhase, OtaInv, SlotsKnown, RunningKnown
  <2>2. CASE UNCHANGED otadata
    BY <2>1, <2>2
  <2>3. CASE otadata' = [otadata EXCEPT ![running] = IF @ = "pending" THEN "valid" ELSE @]
    <3>1. otadata'[running] # "pending"
      BY <1>1, <2>3 DEF OtaInv, TypeOK
    <3> QED
      BY <2>1, <3>1 DEF Promise!Confirm
  <2> QED
    BY <1>3, <2>2, <2>3 DEF MarkValid
<1>4. ASSUME Next, ~Reset, ~MarkValid
      PROVE  running' = running /\ slot'[running] = slot[running] /\ otadata'[running] = otadata[running]
  <2>1. CASE WifiResult \/ OtaInit \/ StartUpdate \/ StartUpload \/ StartReboot
    BY <2>1 DEF WifiResult, OtaInit, StartUpdate, StartUpload, StartReboot, flashVars
  <2>2. CASE Upload
    BY <1>1, <1>4, <2>2 DEF Upload, UploadBegin, UploadRecv, UploadEnd, UploadSetBoot, HandlerRestarts,
       FailUpload, Erase, Complete, SetBoot, flashVars, OtaInv, TypeOK
  <2>3. CASE Download
    BY <1>1, <1>4, <2>3 DEF Download, FailDownload, DownloadBegin, DownloadPerform, DownloadFinish,
       TaskRestarts, Erase, Complete, SetBoot, flashVars, OtaInv, TypeOK
  <2> QED
    BY <1>4, <2>1, <2>2, <2>3 DEF Next, PowerLoss, Boot, BadImageFails, FailsInHttp
<1> QED
  BY <1>2, <1>3, <1>4 DEF vars, flashVars

\* The detailed machine, with its slots, records, tasks and resets, does what
\* Firmware promises of updates with rollback.
THEOREM ImplementsThePromise == Spec => ImplementsFirmware
<1>1. Init => Promise!Init
  BY DEF Init, Promise!Init, Slots
<1>2. OtaInv /\ [Next]_vars =>
        [Promise!Try \/ Promise!Confirm \/ Promise!Rollback]_<<slot[running], otadata[running] = "pending">>
  BY StepPromised
<1> QED
  BY <1>1, <1>2, OtaInvariant, PTL DEF Spec, ImplementsFirmware, Promise!Spec
=============================================================================
