# Formal model of arctic-sniffer

`arctic-sniffer` is ESP32 firmware that listens passively to the RS-485 bus
between an Arctic heat pump and its controller, reassembles the Tuya-style frames
on it, pairs read requests with their responses, and offers the transactions,
counters, register snapshots and recordings over an HTTP/WebSocket API.  This
directory holds TLA+ modules that model the firmware's control logic, the TLC
configurations that check them on small instances, and TLAPS proofs of the main
safety results for all sizes.  Every definition is translated from the sources
named beside it in `PROJECT.json` (`map`).

Run, in this directory:

    tlc -workers 2 -config SnifferStream.cfg  MCSniffer.tla     # 2.6 M states, 1-2 min
    tlc -workers 2 -config SnifferTiming.cfg  MCSniffer.tla     # 142 k states, 40 s
    tlc -workers 2 -config SnifferContext.cfg MCSniffer.tla     # ends in a violation
    tlc -workers 2 -config Recorder.cfg       MCRecorder.tla
    tlc -workers 2 -config RecorderFull.cfg   MCRecorder.tla    # ends in a violation
    tlc -workers 2 -config Reconfig.cfg       Reconfig.tla      # 2.8 M states, 1 min
    tlc -workers 2 -config ReconfigBaseline.cfg Reconfig.tla    # ends in a violation
    tlc -workers 2 -config CaptureAccess.cfg  CaptureAccess.tla # 3.3 M states, 1 min
    tlc -workers 2 -config Fanout.cfg         Fanout.tla        # 490 k states, 1 min
    tlc -workers 2 -config Ota.cfg            Ota.tla
    tlc -workers 2 -config Panel.cfg          Panel.tla         # 723 k states, 30 s
    tlc -workers 2 -config WifiPortal.cfg     Wifi.tla          # ends in a violation
    tlapm SnifferProofs.tla                                     # 1 min
    tlapm SnifferTimingProofs.tla                               # 2-3 min; likewise RecorderProofs,
                                                                # ReconfigProofs, FanoutProofs, OtaProofs,
                                                                # CaptureAccessProofs, PanelProofs

## 1. The system

### Tasks and what they share

| Task | Code | Touches |
|---|---|---|
| sniffer (core 1, priority 10) | `sniffer_task`, `modbus_sniffer.cpp:462` | all sniffer state, recorder, log ring, WebSocket clients |
| httpd | handlers in `api_server.cpp` | recorder, sniffer settings and counters (no lock), log ring, clients, OTA, credentials |
| display (core 0, priority 2) | `display_task`, `main.cpp:26` | recorder, WiFi mode |
| OTA tasks | `ota_manager.cpp` | update state, flash partitions, restart |
| event loop | `wifi_manager.cpp` event handler | WiFi mode, retry counter, event group |
| DNS | `dns_server.cpp` | its socket only |

### Components

**UART reassembly and framing** (`modbus_sniffer.cpp:342-560`).  State: the driver's
2048-byte ring and 20-entry event queue, the 512-byte `s_blob`, the frame, error and
resync counters, the context of the last frame and the ring of skipped bytes.
Operations: receive one driver event (data, ring full, FIFO overflow, none), drain,
extract frames (`try_extract_frames`, at most 32 iterations), resynchronise.  Hard:
the byte stream is split arbitrarily, damaged, cut by overflows; five paths consume
bytes.  Correct when no byte is lost or repeated, every frame is counted once, no
buffer outgrows its size, and resynchronisation costs no good frame.

**Request/response pairing** (`process_frame`, `:257-336`, timeout `:533`).  State: the
one pending request, transaction counter.  Called by framing for each frame, calls the
transaction callback.  Hard: three ways to close a request (answer, next request,
timeout) and a match by window only.  Correct when every request is reported once,
with its own answer or as unanswered, and not as unanswered when the answer was there.

**Capture tables** (`:119-209`).  State: fc=0x06 command ring, raw snapshot, unknown
registers.  Written by the sniffer task, read and cleared by httpd without a lock.
Correct when readers see entries that were written and clears leave a consistent table.

**UART reconfiguration** (`:660-860`).  `set_baud_rate`, `set_parity`,
`set_stop_bits`, `set_rx_inverted`, `reset_stats`, called by httpd, change the driver
and reset sniffer state the sniffer task is using.  Hard: every access is a plain load
or store on another core.  Correct when a reset takes effect and no length wraps.

**Tuya codec.**  A git submodule; its sources are not in the repository.

**Recorder** (`recorder.cpp`).  State: flag, buffer fill, entry count, under a mutex
(except `is_recording()`).  Operations: `start`, `stop`, `clear`, `add`, `add_raw`,
`get_*`.  Used by three tasks.  Hard: filling up in the middle of a line; check and
call are separate.  Correct when the free space never wraps, only the last line is
truncated, a stopped recording stays as it is.

**HTTP API, log ring, WebSocket fan-out** (`api_server.cpp`).  State: log ring and
client list with a mutex each.  Hard: sends under a lock the sniffer task needs, socket
numbers reused, a download without the lock.  Correct when each client gets each line
at most once and in order, and no task waits for ever.

**OTA manager and upload** (`ota_manager.cpp`, upload handler).  State: status, upload
lock, boot partition.  Hard: two ways to start an update, failure at each step, a
three-second window before the reboot.  Correct when at most one writer touches the
partition and only a validated image is booted.

**Boot and rollback** (`main.cpp:70-140`).  The order of initialisation, `mark_valid`.
Correct when an image that cannot sniff is rolled back.

**WiFi manager and provisioning** (`wifi_manager.cpp`).  State: mode, retry counter,
event group, credentials in NVS.  Hard: events racing with `init`'s wait, giving up
after five retries, a restart between two NVS writes.  Correct when the mode reflects
the connection and credentials are never a mixture.

**Display and button** (`display.cpp`, `main.cpp:26-65`).  Debounce, recording toggle;
drawing is output.  **Captive DNS**: answers every query, stateless.  **Dashboard,
portal, build**: no run-time control logic of the firmware.

The behaviours a test would hardly reach are listed, each at its line, under `hazards`
in `PROJECT.json`, with the properties that cover them or the reason why none does.

## 2. Modules

| Module | Models |
|---|---|
| `Framing` | frames, bytes, and what the codec may answer about a buffer |
| `CaptureTables` | the three capture tables as operators on a record |
| `Pairing` | abstract: what the sniffer promises its transaction callback |
| `Sniffer` | bus, UART driver and sniffer task; implements `Pairing` |
| `MCSniffer` | instances of `Sniffer` |
| `SnifferProofs` | proofs about `Sniffer` and the refinement |
| `SnifferTimingProofs` | proofs about `Sniffer` on a bus the task keeps up with |
| `Recorder`, `MCRecorder`, `RecorderProofs` | the recorder with its three tasks, its instance, its proofs |
| `Reconfig`, `ReconfigProofs` | the settings changed over HTTP against the sniffer task, load by load and store by store |
| `CaptureAccess`, `CaptureAccessProofs` | the capture tables read and cleared over HTTP while the sniffer task writes them |
| `Fanout`, `FanoutProofs` | log ring, WebSocket clients, and the mutexes held while sending |
| `Firmware` | abstract: what updates with rollback promise |
| `Ota`, `OtaProofs` | updates, `app_main`'s order, boot records, resets; implements `Firmware` |
| `Wifi` | WiFi manager: `init`, events, provisioning, credentials in flash |
| `Panel`, `PanelProofs` | `Wifi` with the display task's polling and the debounced button |

A module that is checked on few values (everything after the recorder) has no MC module
of its own: its `.cfg` gives the constants numbers and strings directly.

### Framing: the codec from outside

The codec is modelled from its use in `modbus_sniffer.cpp` and from
`tests/test_tuya_codec.cpp`.  A byte is *a position in the frame that was transmitted*
or `Noise`; its value never matters, what matters is which frame a buffer is aligned
on.  This makes the alignment questions exact (a blob glued from two frames is seen to
be glued) at the cost of two assumptions: a payload never spells a header, and a
checksum never accepts a glued frame.  Where the codec's answer is not determined by
its callers the model allows all of them: `find_frame_start` may stop at a header that
is incomplete, of an unknown window or of an impossible length, or pass over it, and
the length read from a header glued from two transmissions may be anything.

### Sniffer: state and actions

Variables keep the names of the code (`s_blob`, `s_pending`, `s_frame_count`, ...).
`s_have_pending` is `s_pending # None`; the request's age stands for
`esp_timer_get_time() - s_pending_ts`, counted to one tick past the timeout.
`s_skipped_total` always equals `s_resync_bytes` and is left out, as are the time gaps
stored with skipped bytes.  `rx` and `s_uart_queue` are the driver's.  `line`, `owed`,
`polls`, `faults`, `gap` are the bus.  `acct` is history: where bytes and frames went.

One iteration of `sniffer_task` is `pc = "wait"` (one action per driver event) then
`"extract"` (one action per way through the body of the `while` loop) then
`"deadline"`.  Arrivals, overruns, transmissions and the clock interleave between any
two of these.

| Action | Code |
|---|---|
| `HandleData`, `HandleBufferFull`, `HandleFifoOvf`, `NoEvent` | `sniffer_task:470-518` |
| `DropUnframed`, `SkipGarbage`, `DropInsane`, `AwaitRest`, `TakeFrame`, `ExtractDone` | `try_extract_frames:400-456` |
| `RejectFrame`, `ProcessCommand`, `ProcessRequest`, `ProcessOrphan`, `ProcessResponse` (within `TakeFrame`) | `process_frame:257-336` |
| `GiveUp`, `KeepWaiting` | `sniffer_task:533-544` |
| `BusRequest`, `BusReply`, `Arrive`, `Overrun`, `Tick` | the environment |

The driver posts a data event per chunk and a ring-full event when a chunk does not
fit; an event that finds the queue full is dropped.  Parity-error, frame-error and
other events (`:519-526`) only write a log line and change no state of the task, so
the model does not queue them: they act as an iteration without an event, except that
each takes a place of the 20-entry queue while it waits.  This module describes runs in
which no setting is changed; `Reconfig` has the others.

### Recorder: state and actions

Lines are their lengths, computed as `format_jsonl` and `add_raw` compute them: a line
is header, values (the loop stops 16 bytes before the end) and three closing characters
counted regardless of the room.  `Remaining` is a `size_t`, taken modulo `SizeMod`.
Each operation runs under `s_mutex` and is one action; the unlocked `is_recording()` of
`sniffer_task` and the transaction callback (`SeeRecording`) and of the button
(`ButtonPress`) is a step of its own.  The button's `clear(); start();` are two steps.
`init`'s allocation is taken to have succeeded; time stamps have up to 13 digits in
`format_jsonl` (until the year 2286), which bounds its header by 61 characters.  The
sniffer only ever delivers fc=3 transactions, so the other formats are left out.

### Reconfig: two tasks on plain variables

`s_blob_len` and `s_have_pending` are ordinary globals that two tasks on two cores read
and write.  Each load and each store of them whose order against the other task matters is
one action: `s_blob_len += got` is
`AddLoad` then `AddStore`, `consume_front` is `ConsumeLoad` (the comparison and the
`memmove`) then `ConsumeStore`, which stores the difference to the length as loaded *or*
as loaded again, since the compiler may do either.  `off`, `n`, `blob_start` are the
task's registers.  Parsing is left open (`ExtractTest` may find a frame anywhere); it reads `s_blob_len`
several times in one step where the code has a load for each comparison, which can differ
only if a reset falls between them, a race the properties on lengths and bytes exclude.  Bytes
carry only their age relative to the setter at work: `"old"` arrived before its flush,
`"late"` after the flush but under the previous setting, `"fresh"` since.

| Action | Code in `modbus_sniffer.cpp` |
|---|---|
| `TakeEvent`, `DrainTest`, `DrainRead`, `AddLoad`, `AddStore`, `BurstTest`, `BurstEmit` | `sniffer_task:470-518` |
| `ExtractTest`, `DropUnframed`, `ConsumeLoad`, `ConsumeStore` | `try_extract_frames`, `consume_front` |
| `Request`, `NewRequest`, `Response`, `RspClear`, `RspReport`, `Deadline`, `TimeoutReport`, `TimeoutClear` | `process_frame`, `:533-544` |
| `SetHardware`, `FlushInput`, `SetFails`, `ResetBlob`, `ResetPending` | the four setters, in their two orders |
| `PostConfig`, `NextSetter` | `POST /api/baud` and `/api/config` in `api_server.cpp` |

### CaptureAccess: readers and clears without a lock

Again a step per field.  The register tables are arrays whose elements do not depend on
each other and are visited one by one, so one element stands for all; the ring of
commands and that of skipped bytes are complete.  The k-th command or skipped byte *is*
the number k, so that what a reader returns says which entry it was.  `published`,
`sightings`, `wire`, `resetAt`, `start` are history; `torn` names the tables whose clear
has overlapped a write since.

### Fanout: mutexes held while sending

`broadcast_transaction` runs in the sniffer task (`LogAdd`, `WsLock`, one `WsSend` per
client, `WsUnlock`); everything else is the httpd task, which serves one request or
closes one socket at a time: `LogLock`, `LogChunk`, `LogEnd` are `handle_log`; `AddClient`
and `RemoveClient` are the list operations of `handle_ws` and of the close callback, which
closes the socket only afterwards (`CloseSocket`).  A send may fail at any time, which the
code only logs.  A `LogAdd` is one step because nothing else can run inside the mutex.

### Ota: tasks, flash, boot records

`state` is `ota_status.state`; `upload` and `download` are the positions of
`handle_ota_upload` and `ota_task`; `slot`, `otadata`, `newest` survive a reset; `phase` is
how far `app_main` has come.  Every call can fail (`FailUpload`, `FailDownload`), power can
be lost between any two steps, and a bad image never gets beyond `"boot"`.  A boot record that `mark_valid` fails to write goes unnoticed, as in the code
(`ota_manager.cpp:233`).  The download loop (`:374`) goes round while `esp_https_ota_perform`
answers IN_PROGRESS, also after a read that timed out; a round changes nothing modelled, so
only leaving the loop is a step (`DownloadPerform`, `FailDownload`).  The bootloader
(`Reset`) is ESP-IDF's with `CONFIG_BOOTLOADER_APP_ROLLBACK_ENABLE`: it takes the slot
selected last whose record is usable, puts a new one on trial and gives up one that was
still on trial at the reset.  An image is `"good"` (it comes up), `"bad"` or `"partial"`.
The refinement maps `runs` to the content of the running slot and `onTrial` to its record.

### Wifi and Panel

`boot` is the position of `wifi::init`, `connect` that of the portal's connect handler,
`nvs` what flash keeps, `events` the queue of the event task, `sta` the driver's station.
The event queue delays what the driver reports, which is what lets a late `DISCONNECTED`
arrive after the mode was changed.  A network's name stands also for its password; the
two are stored in two writes that may each be lost.  The driver refuses `esp_wifi_connect`
only without a configuration, or when it is connecting or connected already; that it never
refuses for a reason of its own, which the code would not notice, is an assumption about
ESP-IDF on which `AbandonedOnlyAfterMax` rests.  `Panel` adds an iteration of
`display_task`: it asks for the mode and, outside provisioning, polls the button
(`button_pressed`: raw level, counter, stable level).  A restart resets the button as well.

## 3. What the runs check

**`sniffer_stream`** (`SnifferStream.cfg`): any splitting of the byte stream, driver
ring and event queue of 4 bytes and 2 events (both overflow), a blob of 5 bytes with
frames of 3 and 4, an iteration budget of 2, a fault that is an impossible length or a
FIFO overrun, two requests, a task of any speed.
- `BytesConserved`: every byte read from the driver is in a counted frame, in
  `s_resync_bytes`, one of the two dropped for an insane length, cleared on overflow, or
  in the blob.
- `FramesAccounted`: frames and insane lengths = errors + commands + requests + answers.
- `ReportedOnce`, `ImplementsPairing`: the refinement of `Pairing`, with `open` the
  pending request without its age, `reported` the last report, and the two counters.
- `TypeOK`: among other things, no buffer outgrows its size.

**`sniffer_timing`** (`SnifferTiming.cfg`): whole transmissions and a task that keeps
up (`WholeFrames`, `Prompt`), checksum errors, unknown windows, lost transmissions and
noise bursts shorter and longer than a header (two faults), reads of two windows and
writes, replies up to `ReplyBy` ticks late.  The constants satisfy `KeptUp`, from which the
first four properties are proved (section 5).
- `AnswerOfThisPoll`: the code compares windows only; that a response is nevertheless
  never paired with an earlier poll of the same window rests on the timeout being
  shorter than the polling gap.
- `NoFalseTimeout`: no report "unanswered" while the answer stands in the buffers.
- `NoFrameSkipped`: resynchronisation discards stray bytes and unknown windows only.
- `CleanBusNoErrors`: without faults no error is ever counted.
- `RequestResolved`: a pending request does not stay pending.

**`recorder`** (`Recorder.cfg`): the firmware's line lengths (47- and 59-character
headers, short and long values, raw bursts of 1, 9 and 67 bytes) in a buffer of 400
bytes, at most 12 lines, three tasks.  `TypeOK` (at most 32 bytes beyond the buffer),
`RemainingNeverWraps`, `NothingAfterTruncated`, `StoppedIsFinal`.

**`reconfig`** (`Reconfig.cfg`): a blob of 3 bytes with frames of 2 and more, a ring of 2,
`size_t` of 3 bits, and one setter of each order (`baud` sets the hardware and then
flushes, `parity` flushes first), alone or both in one request, any number of times.
- `CleanUnlessRaced`: if the reset of `s_blob_len` met the sniffer task holding no
  register, then a setter that succeeded leaves nothing that arrived before its flush, be
  it bytes or a pending request; `set_baud_rate` leaves nothing of the old rate at all.
- `LengthInBounds`: under the same condition no length leaves the buffer.
- `ReportedAtMostOnce`, `DroppedStaysSilent`: without any condition, no request is
  reported twice or after a setter dropped it.

**`capture`** (`CaptureAccess.cfg`): rings of 2, three things recorded, one request after
another of any kind.
- `SnapshotReadTrue`: a value returned was on the wire while the request was served.
- `CommandsInOrder`: the commands returned are those counted when the count was read, but
  for the last, if it was being written, and for as many of the oldest as were counted
  since.
- `SkippedReal`: nothing from before the last reset, and in order, but for overwritten
  ones.
- `UnknownAddsUp`: the unknown-register entry agrees with the wire at rest, and a request
  sees its two counters no further apart than the sightings that overlap it.

The first, third and fourth hold as long as no clear of the same table has overlapped a
write (`torn`).  After such an overlap a register can be left valid with value 0, and the
count can disagree with the table, until the next clear: the condition is part of what is
known about the code, not of the instance.

**`fanout`** (`Fanout.cfg`): three sockets, a log of 2 entries, three transactions.
- `LogRecent`, `ResponseIsWindow`: the ring is the latest transactions, and a log response
  one run of them however slowly it is sent.
- `ClientsAreOpen`: the list holds open WebSockets, each once, although socket numbers are
  reused: `on_close` takes the number off the list before `close`.
- `NothingMissed`: subscribing and then fetching the log leaves no gap, because
  `broadcast_transaction` logs first and sends second.
- `BroadcastCompletes`: the sniffer task returns from every broadcast.

**`ota`** (`Ota.cfg`): good and bad images, any number of updates, resets and losses of
power; the state space is finite without a bound.
- `StateTellsWork`: an upload and a download never overlap and no failure leaves the status
  busy.
- `Recoverable`: at any moment a good image starts at the next reset or the one after.
  `ota_status` does not count READY_TO_REBOOT as busy, so a new upload may erase the slot
  just selected; this holds nevertheless, since the bootloader falls back.
- `UpdateTerminates`: an upload ends whatever fails and however slow its client is, and so
  does a download outside the loop at `ota_manager.cpp:374`.  That loop has no bound of its
  own, so the property excepts, and the fairness leaves open, a download whose server never
  finishes it: the status then stays DOWNLOADING, and other updates are refused, until a reset.
- `ImplementsFirmware`: the refinement of `Firmware`.

**`panel`** (`Panel.cfg`): five retries, a compiled-in network out of reach beside the one
in reach, one loss of power, a debounce of three polls.
- `AbandonedOnlyAfterMax`: the application gives up reconnecting only after all retries of
  one outage.
- `ModeIsTrue`: in every phase, the portal's included, the mode is CONNECTED exactly while the
  station is connected, except while the event that corrects it waits; then an address is
  known.  That the portal is shown as PROVISIONING is another matter (`wifi_portal` below).
- `BootDecides`: `init` ends, whatever the network does; with credentials that are not the
  network's, a half-written pair among them, it ends in the portal, where they can be
  corrected.
- `OncePerPress`: a press is reported after its full debounce and once, however often the
  mode suspends the polling.

Deadlock is not checked here: a device that gave up its portal or its network and whose
power may not be lost again has nothing left to do.

### Four disagreements with what the source says

**`skipped_context`** violates `SkippedAfterValidFrame`.  The comment at
`modbus_sniffer.cpp:55` promises the geometry of the last *valid* frame before each
skipped byte; `:450` stores that of every frame consumed.  In the trace a transmission
is cut short, the frame glued from it and its successor fails to parse, and the bytes
skipped next carry its geometry.

**`recorder_full`** violates `FitsBuffer`.  `add` accepts a line with 32 bytes free,
the header alone needs 47, and `format_jsonl` counts what it would have written and
closes the line at that offset: the recording ends beyond the buffer, which
`recorder.h:35` says stops it when full and whose size `recorder.h:59` calls a maximum.
`TypeOK` and its proof bound the excess by 32 bytes.

**`reconfig_baseline`** violates `CleanBaseline`.  `modbus_sniffer.cpp:683` clears the
buffer "to get clean readings at new rate"; the store of 0 at `:685` can fall between the
load and the store of `s_blob_len += got` (`:493`) or of `consume_front` (`:349`), or between
`uart_read_bytes` and the update, and the sniffer task's store then brings the old bytes
back.  In the trace bytes of the old rate are in the blob after the setter returned true.

**`wifi_portal`** violates `PortalMode`.  `wifi_manager.h:13` says of `PROVISIONING` that the
captive portal is active; `start_provisioning` sets the mode once, but the station keeps
running beside the access point and its next `DISCONNECTED` event sets the mode to
`CONNECTING` (`wifi_manager.cpp:115`) for good.  The display then shows the ordinary screen
instead of the access point's name, and the button is polled.

### Bounds, and why they are enough

The properties are about alignment, counters and order, none of which depends on how
long a frame is beyond header/payload/nothing or how large a buffer is beyond "one
frame and a bit": sizes are chosen so that every buffer overflows, a frame can span two
drains, and the iteration budget runs out with frames left.  `MaxPolls = 2` is the least
number with an earlier request to confuse a later answer with; poll ids alternate, so
consecutive polls are distinct.  `MaxFaults` is 1 or 2.  Every action fires in the
passing runs.

In `Reconfig` and `CaptureAccess` what matters is which two accesses overlap, not how much
there is: a blob that can hold a frame and a byte, a ring that wraps at the third entry,
and a requester that may come again at any point of the task's loop.  Three recorded
things are enough to fill a ring, overwrite its oldest entry and have one more in flight.
`MaxTxns = 3` with a log of 2 does the same for `Fanout`, and three sockets allow one
client to be closed while another subscribes and a third fetches the log.  `MAX_RETRY` and
`DEBOUNCE_TICKS` have the values of the code; `MaxPowerLoss = 1` is enough to start from
every content of the flash, because the connect handler restarts without a bound.
All invariants and action properties of the passing runs are in addition proved for all
sizes (section 5).

## 4. Fairness

`RequestResolved` uses `WF(Task)`, `WF(Arrive)` and `SF(Tick)`.  The sniffer task runs
at priority 10, pinned to a core no other application task is pinned to, and its own
waits (`xQueueReceive`, `uart_read_bytes`) have timeouts, so it always takes its next
step: weak fairness.  This takes the transaction callback to return, which
`BroadcastCompletes` shows of its part in the HTTP server.
Bytes on the wire arrive.  Time passes: `Tick` needs strong fairness because under
`Prompt` it is enabled only between two iterations of the task, again and again.
Nothing is assumed of the controller or the heat pump: the bus may fall silent for
ever.  `Prompt` and `WholeFrames` are assumptions about load (a tick is much longer
than a loop iteration), made in this run and in `SnifferTimingProofs` alone; every property
of `sniffer_stream` and everything in `SnifferProofs` is free of them.

`BroadcastCompletes` assumes that a send returns, if only by the socket's send timeout,
that the httpd task goes on with the handler it is in (weak fairness of `Handlers`, which
contains no new request), and strong fairness of the two places where the sniffer task
takes a mutex: FreeRTOS hands a mutex to its highest-priority waiter, and the sniffer task
(priority 10) is above the httpd task (5).

`UpdateTerminates` assumes weak fairness of the upload handler, of `app_main`, of the three
seconds before a restart (`TaskRestarts`), and of `ota_task` except in the download loop
(`OwnStep`).  An upload is bounded: a receive that times out ends it, and any other brings at
least a byte of a body whose length is given.  Connecting for a download, erasing, verifying
and selecting the slot are calls that return.  The download loop is not: nothing assumes that
it is ever left.  `BootDecides` assumes weak fairness of `init`
alone, whose waits are all bounded; nothing is assumed of the network, the event task or
the user.

## 5. What is proved

The eight proof modules are checked by TLAPS for every value of the constants satisfying
`FramingAssumption`, `NoiseAssumption`, `TablesAssumption`, `SnifferAssumption`,
`RecorderAssumption`, `ReconfigAssumption`, `CaptureAccessAssumption`, `FanoutAssumption`,
`OtaAssumption`, `WifiAssumption`, `KconfigAssumption` and `PanelAssumption`: sizes are
positive, a blob holds a longest frame, noise is no byte of a frame, the register span is
finite, `None` is no request; for the recorder the capacity is at least 32 and fits a
`size_t`; twice a blob fits a `size_t`.

`SnifferProofs`:
- `TypeCorrect`: `TypeOK` is inductive.  It is proved part by part (`BusOK`,
  `DriverOK`, `BlobOK`, `ResyncOK`, `PairingOK`, `CountersOK`), each with one case per
  action.  `FrontFrame` and `LoopingBlob` say what stands at the front of the blob when
  the loop looks at it (a frame's byte, at least three bytes, so dropping two is safe),
  `ConsumeType` what `consume_front` leaves, `SkipType` that the skipped ring keeps its
  size, `DrainBounds` that draining stops at `MAX_BLOB`.
- `BytesAreConserved`, `FramesAreAccounted`, `RequestsReportedOnce`: each inductive with
  `TypeOK`; `FrameBooked` shows that `process_frame` books a frame under exactly one
  heading.
- `ImplementsThePromise`: `Spec => Promise!Spec`.  `ProcessRequest` is an `Ask`,
  `ProcessResponse` an `Answer`, `GiveUp` a `GiveUp`, everything else leaves `Pairing`'s
  variables unchanged, the clock included, since ages are not part of them.

`SnifferTimingProofs`: what `sniffer_timing` checks of one instance, for every one that
satisfies `KeptUp`: whole transmissions and a prompt task as in that run (`WholeFrames`,
`Prompt`); the heat pump stops answering no later than the deadline (`ReplyBy <=
RespTimeout`), which is over before the next poll (`RespTimeout + 1 < PollGap`); an event
queue of 2, a loop budget of 5, and room in ring and blob for a request and its answer with
a burst of noise each behind less than a frame.  The last three the firmware's sizes (20
events, 32 iterations, 512 and 2048 bytes) have for bursts of up to about a hundred bytes;
the first two are about load and about the bus.  `MCSniffer` has TLC check that the run's
constants satisfy `KeptUp` (`PromptInstance`).
- The invariant is `Timed`: while the damage done leaves frames whole (`Whole`), the
  contents of blob, ring and line are those of one exchange, that of some frame `q`.
  `BytesInv`: each buffer consists of whole frames and of bytes whose frame began in it
  (`Intact`, `Anchored`); `ExchangeInv(q)`: blob, ring and line together (`Stream`) hold at
  most one request and one response, both of `q`, the request first; a request not yet
  consumed is as young as its poll and nothing is pending, and on a clean bus an answer on
  its way finds its request pending or ahead of it; `PaceInv`: there is room for the answer
  that is owed, the events queued are data events, the loop's budget covers what is left in
  the blob (`Left`), and once the heat pump no longer answers all is received and handled
  (`Settled`).  `AnswerOfThisPoll` alone is far from inductive: that no request is pending
  when the next one arrives needs the timing, the timing needs that a tick finds the blob
  empty of frames, that needs the loop's budget, and the budget the contents of the blob.
- `StaysTimed` has one lemma for each action (`RequestTiming` ... `DeadlineTiming`).  Where
  frames stand is followed through concatenation and `consume_front` by `SoundJoin`,
  `SoundRest`, `LinedMore`, `LinedRest` and `StreamRest`; what `DamagedBy` makes of a frame
  by `LineCarries`; what `find_frame_start` passes over by `PassedOver`; `FrontIsFrame` shows
  that no length is insane and no frame incomplete.
- `CleanBusHasNoErrors` is a part of it and holds up to the first damage of any kind.
  `AnswersAreOfTheirPoll`, `NoTimeoutIsFalse` and `NoFrameIsSkipped` are for buses that damage
  checksums and windows, lose transmissions and add noise, as that run's does (`Faults
  \subseteq WholeKinds`): after a cut, a claimed length or an overrun pieces of frames stay
  in the blob, and a frame behind them can be swallowed.

`RecorderProofs`: `TypeOK` is not inductive; `RecorderInv` adds `RoomLeft` (while
recording, 13 bytes are free: what is left of the 2·len+48 that `add_raw` asks for; `add`
stops at 32) and `TruncatedIsStopped` (a truncated line has stopped the recording,
because it ends at least 13 bytes before the end, beyond the limit of the check after
the write).  From it follow `TypeCorrect`, `NeverWraps`, `TruncatedIsLast` and
`StoppedStaysPut`.

`ReconfigProofs`:
- `TypeCorrect` from `TypeInv`: raced resets included, lengths stay words of `size_t`, and
  ring and blob hold no more than they can.  `TypeOK` lacks that a register was loaded before
  it is used (`Parsing`).  A length that wrapped does not get past the comparisons that read
  it next.
- `ToldAtMostOnce`, `DroppedIsSilent` from `RequestInv`: a request that was told is no
  longer pending, except in the two steps between the report and the store that replaces or
  clears it (`NotYetTold`); a dropped request is not pending and no step that would report
  it is under way (`DroppedIsGone`).  Neither property is inductive without the other part.
- `LengthsStayInBounds` from `LengthInv`: unless a reset raced, the registers agree with
  the variable and what is about to be stored fits the buffer (`RegistersAgree`); then the
  `size_t` arithmetic is that of the integers (`WrappedSmall`).
- `SettersLeaveCleanBaseline` from `CleanInv`, which adds what a setter has achieved after
  each of its steps (`SetterProgress`): a ring of fresh bytes after the flush, fresh or late
  ones after the hardware call; after an undisturbed reset also no older byte in the blob,
  behind its end or in a frame being handled (`BytesOnly`).  The sniffer task keeps each
  (`RingStep`, `ReceivingKeepsBytes`, `ExtractingKeepsBytes`), which needs the registers to
  agree (`RegistersAgree`): with a stale `off` old bytes would be counted again.

`FanoutProofs`: `LogIsRecent` and `ResponseIsOneRun` from `LogInv`: until it is full the ring
is filled from its first place; then entry i from the head is transaction `logged -
LogCapacity + i` (`RingOK`); what has been sent is a prefix of that, and the mutex keeps the
ring as it is meanwhile (`ResponseOK`).  `RingEntryIs` evaluates the index modulo the capacity.
`TypeCorrect`, `SendsToOpenSockets` (`OpenInv`: a socket on the client list or being sent to
is open, until the close that removes it) and `LogAndStreamMeet` (`MissInv`: who is on the
list has what was told since the log he fetched) need to know what `Without` leaves of the
list.  It is a recursive function over the list's prefixes; `KeptExists` shows by induction
on the numbers that there is such a function, `WithoutOthers` that what it keeps are the
other clients in their order.  The induction is over a set of numbers without a least
counterexample (`AllNumbers`, from the well-founded order of the library), since the
library's induction rule takes an operator.

`OtaProofs`: `OtaInv` adds to `TypeOK` and `StateTellsWork` what is known of the slots.  The
running image is valid and good, or on trial with a proved one in the other slot
(`RunningKnown`); the other slot's record is "new" only if it was selected last, and
"valid" only if the bootloader does not prefer it (`OtherKnown`); the other slot is written
only when the running image is not on trial (`WritesWhenProved`).  `BootChoice` concludes
which slot the bootloader takes, `ResetKeeps` that a reset re-establishes all of it, with one
lemma for each group of other steps.  `TypeCorrect`, `StateIsTrue`, `NeverBricked` and
`ImplementsThePromise` follow; in the last a reset is a `Try`, a `Rollback` or a stutter,
`MarkValid` a `Confirm` or, if the record is not written, a stutter, as is every other step.

`CaptureAccessProofs`: both tasks at the grain of a single load or store.  `TypeInv` bounds
indices and counters at every step, `HistoryInv` relates a request's start to what the wire
has shown since; upon these stands one invariant for each table.
- `SnapshotIsTrue` from `SnapInv`: a valid register has a value that was seen, unless a clear
  fell between its two stores (`Meeting`, `TornStays`).
- `UnknownTableAddsUp` from `UnkInv`: at rest, while an entry is filled for the first time,
  while it is updated and while it is cleared, what the counters are off by is known
  (`Entry`), and what a request has read so far lies between the start and now
  (`ReadSoFar`).
- `CommandsComeInOrder` from `CmdInv`: place k of the ring is the latest command of its slot,
  but for the one being written (`RingHolds`); the copies made so far are those of their
  places or were overwritten meanwhile (`ReadingCommands`).
- `SkippedAreReal` from `SkipInv`, likewise with the head moving last.

`PanelProofs`: `PressIsReportedOnce` from `ButtonInv`: the counter says how many readings
before the last one agree with it (`Agree`), and while the button counts as up it has been
released since the last report.  A full counter then is a full window (`FullWindow`).
`PanelTypeCorrect` and `NeverAbandonedEarly` follow from `WifiInv`.  An
event that can make the station connect, an attempt under way and a connection are a
*chance*; at any time there is at most one while `init` tries (`Station` lists the seven
states the station, queue and counter can be in), and two while the portal is served.
Addresses need a disconnection between them (`Spaced`), so that at most five events ever
wait (`FewEvents`): the queue of the event loop does not overflow.  `ModeIsTrueAlways` follows
from `ModeInv`, in all phases: while the station is connected each loss that waits has an
address behind it, otherwise each address a loss (`Answered`), so that the last of them sets
the mode right.  It needs of `WifiInv` that the station is stopped when the portal starts.

Only model-checked: liveness under fairness, out of this prover's reach (`RequestResolved`,
`BroadcastCompletes`, `UpdateTerminates`, `BootDecides`).  Every invariant and every action
property of the passing runs is stated by a theorem.  The four claims of the source that the
code does not keep (section 3) are refuted by counterexamples, not proved.

## 6. Not modelled, and the plan

Not modelled, with the reason:

- `GET /api/record/download` reads the buffer without the lock while the button may clear
  and restart the recording, so a download may be a mixture of two recordings; the
  recorder's module represents lengths, not bytes, and no statement of the code says what
  a download contains.
- `GET /api/state` (`get_macon_state`) copies the snapshot as `get_register_snapshot` does
  and hands it to a decoder whose sources are not in the repository.
- The release check of the OTA manager (query, JSON, version comparison) only fills what
  the dashboard shows; the progress percentage likewise.
- `handle_scan` lists networks for the portal page; `erase_credentials` has no caller;
  `s_ip_str` is never reset, so that it can show the last address while disconnected,
  against `wifi_manager.h:29`: there is no assignment to model.  An SSID of 32 characters
  loses its last one in `try_sta`; names are atoms here.
- Whether frames survive when transmissions arrive in pieces behind stray bytes: of these and
  the first bytes of a header `modbus_sniffer.cpp:407` keeps the last byte alone, so that a
  frame is lost.  The comment there accounts for one byte, nothing promises more;
  `sniffer_timing` is about transmissions delivered whole, `sniffer_stream` about the accounts.
- DNS server, web pages, drawing and JSON formatting (output without state), the codec
  (no sources), build and CI.
