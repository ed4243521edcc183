------------------------------- MODULE Sniffer -------------------------------
(***************************************************************************)
(* The sniffer of modbus_sniffer.cpp: the RS-485 bus it listens to, the    *)
(* UART driver's ring buffer and event queue, and the sniffer task that    *)
(* drains the driver, splits the byte stream into frames and pairs read    *)
(* requests with their responses.                                          *)
(*                                                                         *)
(* The bus and the driver are outside src/ (the heat pump, ESP-IDF); they  *)
(* may lose, damage or delay anything Faults allows.  One loop iteration   *)
(* of sniffer_task is  wait -> extract (once per while iteration) ->       *)
(* deadline -> wait.  Reconfiguration from the HTTP task is not part of    *)
(* this module.                                                            *)
(***************************************************************************)
EXTENDS Framing, CaptureTables

CONSTANTS
    RxBufSz,         \* driver ring (UART_BUF_SZ * 2 = 2048)
    UartQueueSz,     \* UART_QUEUE_SZ (20)
    MaxBlob,         \* MAX_BLOB (512)
    MaxIters,        \* while-loop budget of try_extract_frames (32)
    RespTimeout,     \* RESP_TIMEOUT_MS, in clock ticks
    SkippedRingSz,   \* SKIPPED_RING_SZ (256)
    WinRegs,         \* the registers a response of each window carries
    None,            \* no request pending, no reply owed, no report yet
    \* The environment
    Traffic,         \* the <<fc, window>> pairs the controller sends
    Faults,          \* kinds of damage: those of DamagedBy, and "overrun"
    NoiseBursts,     \* lengths of a burst of stray bytes
    CutPoints,       \* where a transmission may be cut in two, one part lost
    MaxFaults,       \* bound: how often it does so
    MaxPolls,        \* bound: requests the controller sends
    PollGap,         \* ticks between two requests, at least
    ReplyBy,         \* ticks after which the heat pump no longer answers
    WholeFrames,     \* TRUE: the driver delivers transmissions undivided
    Prompt           \* TRUE: the task keeps up with the bus and the clock

Request == [win : Windows, id : Ids]
Pending == [win : Windows, id : Ids, age : 0..(RespTimeout + 1)]
Command == [dir : {"req", "rsp"}, selector : Windows \cup {StrayWindow}]

ASSUME SnifferAssumption ==
    /\ RxBufSz \in Nat \ {0}
    /\ UartQueueSz \in Nat \ {0}
    /\ MaxBlob \in Nat /\ MaxFrameLen <= MaxBlob
    /\ MaxIters \in Nat \ {0}
    /\ SkippedRingSz \in Nat \ {0}
    /\ RespTimeout \in Nat /\ PollGap \in Nat /\ ReplyBy \in Nat
    /\ MaxPolls \in Nat /\ MaxFaults \in Nat
    /\ Ids \subseteq Raw
    /\ WinRegs \in [Windows -> SUBSET Regs]
    /\ Traffic \subseteq {"read", "cmd"} \X Windows
    /\ NoiseBursts \subseteq Nat /\ CutPoints \subseteq Nat
    /\ None \notin Request \cup Pending

VARIABLES
    \* The bus
    line,      \* bytes of the current transmission that have not arrived
    owed,      \* the response the heat pump still owes, or None
    polls,     \* requests sent
    faults,    \* damage done
    gap,       \* ticks since the last request
    \* The UART driver
    rx,        \* its ring buffer
    s_uart_queue,
    \* The sniffer task
    pc, iters, s_blob, s_pending, s_last_frame, s_skipped,
    s_frame_count, s_parse_errors, s_resync_bytes, s_txn_count,
    tables,    \* command ring, snapshot, unknown registers
    report,    \* the last transaction handed to s_callback
    acct       \* history: where bytes and frames went

busVars     == <<line, owed, polls, faults, gap>>
driverVars  == <<rx, s_uart_queue>>
counterVars == <<s_frame_count, s_parse_errors, s_resync_bytes, s_txn_count>>
resyncVars  == <<s_last_frame, s_skipped>>
pairingVars == <<s_pending, report, tables>>
taskVars    == <<pc, iters, s_blob, counterVars, resyncVars, pairingVars, acct>>
vars        == <<busVars, driverVars, taskVars>>

\* s_last_frame_len/dir/fc; "valid" remembers whether parse_frame accepted it.
Context   == [len : 0..MaxFrameLen, dir : {"req", "rsp"}, fc : {"read", "cmd"},
              valid : BOOLEAN]
NoContext == [len |-> 0, dir |-> "none", fc |-> "none", valid |-> TRUE]

DropFront(s, n) == SubSeq(s, n + 1, Len(s))

\* Mutant of consume_front: the memmove takes one byte too many.
consume_one_more(n) == s_blob' = DropFront(s_blob, n + 1)

consume_front(n) == s_blob' = DropFront(s_blob, n)

-----------------------------------------------------------------------------
Init ==
    /\ line = <<>> /\ owed = None /\ polls = 0 /\ faults = 0 /\ gap = PollGap
    /\ rx = <<>> /\ s_uart_queue = <<>>
    /\ pc = "wait" /\ iters = 0 /\ s_blob = <<>>
    /\ s_pending = None /\ s_last_frame = NoContext /\ s_skipped = <<>>
    /\ s_frame_count = 0 /\ s_parse_errors = 0
    /\ s_resync_bytes = 0 /\ s_txn_count = 0
    /\ tables = EmptyTables
    /\ report = None
    /\ acct = [drained |-> 0, framed |-> 0, insane |-> 0, cleared |-> 0,
               asked |-> 0, answered |-> 0]

-----------------------------------------------------------------------------
(* The bus: one controller polling, one heat pump answering, half duplex. *)

\* What may arrive of f after damage of one kind.
DamagedBy(kind, f) ==
    CASE kind = "checksum" -> {OnWire([f EXCEPT !.good = FALSE])}
      [] kind = "length"   -> {OnWire([f EXCEPT !.good = FALSE, !.count = MaxFrameLen])}
      [] kind = "window"   -> {OnWire([f EXCEPT !.win = StrayWindow])}
      [] kind = "lost"     -> {<<>>}
      [] kind = "cut"      -> UNION {{SubSeq(OnWire(f), 1, k), DropFront(OnWire(f), k)}
                                       : k \in CutPoints \cap 1..Len(OnWire(f))}
      [] kind = "noise"    -> UNION {{[i \in 1..k |-> Noise] \o OnWire(f),
                                      OnWire(f) \o [i \in 1..k |-> Noise]}
                                       : k \in NoiseBursts}
      [] OTHER             -> {}

Transmit(f) ==
    \/ line' = OnWire(f) /\ UNCHANGED faults
    \/ /\ faults < MaxFaults
       /\ faults' = faults + 1
       /\ \E kind \in Faults : line' \in DamagedBy(kind, f)

\* The controller polls a window or writes a setpoint; it no longer waits for
\* an earlier answer.
BusRequest ==
    /\ line = <<>>
    /\ polls < MaxPolls
    /\ gap >= PollGap
    /\ \E t \in Traffic :
         LET f == [dir |-> "req", fc |-> t[1], win |-> t[2], count |-> PayloadLen,
                   good |-> TRUE, id |-> polls % 2]
         IN Transmit(f) /\ owed' = [f EXCEPT !.dir = "rsp"]
    /\ polls' = polls + 1
    /\ gap' = 0
    /\ UNCHANGED <<driverVars, taskVars>>

BusReply ==
    /\ line = <<>>
    /\ owed # None
    /\ gap <= ReplyBy
    /\ Transmit(owed)
    /\ owed' = None
    /\ UNCHANGED <<polls, gap, driverVars, taskVars>>

\* Mutants of Overdue: the deadline is never checked; >= for >.
OverdueNever == FALSE

OverdueEarly == s_pending # None /\ s_pending.age >= RespTimeout

Overdue == s_pending # None /\ s_pending.age > RespTimeout

\* Ages beyond the timeout are all alike.
Ages == s_pending # None /\ s_pending.age <= RespTimeout

\* The clock.  A prompt task has handled everything received, and every
\* deadline, within one tick, and a transmission takes less than a tick.
Tick ==
    /\ Prompt => /\ line = <<>> /\ s_uart_queue = <<>>
                 /\ pc = "wait" /\ ~Overdue
    /\ gap < PollGap \/ Ages
    /\ gap' = IF gap < PollGap THEN gap + 1 ELSE gap
    /\ s_pending' = IF Ages THEN [s_pending EXCEPT !.age = @ + 1] ELSE s_pending
    /\ UNCHANGED <<line, owed, polls, faults, driverVars, pc, iters, s_blob,
                   counterVars, resyncVars, report, tables, acct>>

-----------------------------------------------------------------------------
(* The UART driver (ESP-IDF): received bytes go to the ring, an event to   *)
(* the queue; an event that finds the queue full is dropped.               *)

Post(e) == s_uart_queue' = IF Len(s_uart_queue) < UartQueueSz
                           THEN Append(s_uart_queue, e) ELSE s_uart_queue

Arrive ==
    /\ line # <<>>
    /\ \E k \in IF WholeFrames THEN {Len(line)} ELSE 1..Len(line) :
         /\ line' = DropFront(line, k)
         /\ IF Len(rx) + k <= RxBufSz
            THEN rx' = rx \o SubSeq(line, 1, k) /\ Post("UART_DATA")
            ELSE rx' = rx /\ Post("UART_BUFFER_FULL")
    /\ UNCHANGED <<owed, polls, faults, gap, taskVars>>

\* The hardware FIFO overflows before the driver gets to it.
Overrun ==
    /\ "overrun" \in Faults /\ faults < MaxFaults
    /\ line # <<>>
    /\ \E k \in 1..Len(line) : line' = DropFront(line, k)
    /\ faults' = faults + 1
    /\ Post("UART_FIFO_OVF")
    /\ UNCHANGED <<owed, polls, gap, rx, taskVars>>

-----------------------------------------------------------------------------
(* sniffer_task: receive one driver event *)

StartExtracting == pc' = "extract" /\ UNCHANGED iters

\* The loop counter is local to try_extract_frames.
StopExtracting == pc' = "deadline" /\ iters' = 0

\* Mutants of DrainCount: no limit at MAX_BLOB; the last byte is left behind.
DrainAll == Len(rx)

DrainAllButOne == IF Len(rx) > 1 THEN Len(rx) - 1 ELSE Len(rx)

DrainCount == LET room == MaxBlob - Len(s_blob)
              IN IF Len(rx) < room THEN Len(rx) ELSE room

\* UART_DATA: drain the ring until it is empty or the blob is full.  The bytes
\* counted as drained are those offered to recorder::add_raw.
HandleData ==
    /\ pc = "wait"
    /\ s_uart_queue # <<>> /\ Head(s_uart_queue) = "UART_DATA"
    /\ s_uart_queue' = Tail(s_uart_queue)
    /\ s_blob' = s_blob \o SubSeq(rx, 1, DrainCount)
    /\ rx' = DropFront(rx, DrainCount)
    /\ acct' = [acct EXCEPT !.drained = @ + DrainCount]
    /\ StartExtracting
    /\ UNCHANGED <<busVars, counterVars, resyncVars, pairingVars>>

\* UART_BUFFER_FULL: the ring is flushed, the blob stays.
HandleBufferFull ==
    /\ pc = "wait"
    /\ s_uart_queue # <<>> /\ Head(s_uart_queue) = "UART_BUFFER_FULL"
    /\ s_uart_queue' = Tail(s_uart_queue)
    /\ rx' = <<>>
    /\ StartExtracting
    /\ UNCHANGED <<busVars, s_blob, counterVars, resyncVars, pairingVars, acct>>

\* UART_FIFO_OVF: ring, event queue and blob are all emptied.
HandleFifoOvf ==
    /\ pc = "wait"
    /\ s_uart_queue # <<>> /\ Head(s_uart_queue) = "UART_FIFO_OVF"
    /\ s_uart_queue' = <<>>
    /\ rx' = <<>>
    /\ s_blob' = <<>>
    /\ acct' = [acct EXCEPT !.cleared = @ + Len(s_blob)]
    /\ StartExtracting
    /\ UNCHANGED <<busVars, counterVars, resyncVars, pairingVars>>

\* xQueueReceive timed out.
NoEvent ==
    /\ pc = "wait"
    /\ s_uart_queue = <<>>
    /\ StartExtracting
    /\ UNCHANGED <<busVars, driverVars, s_blob, counterVars, resyncVars,
                   pairingVars, acct>>

-----------------------------------------------------------------------------
(* process_frame: what a complete frame does to pairing, tables, counters. *)

Deliver(txn) == /\ report' = txn
                /\ s_txn_count' = s_txn_count + 1

NoDelivery == UNCHANGED <<report, s_txn_count>>

Unanswered(p) == [req |-> [win |-> p.win, id |-> p.id], ans |-> None]

CountError == s_parse_errors' = s_parse_errors + 1

RejectFrame(n) ==
    /\ ~ParseOK(s_blob, n)
    /\ CountError
    /\ NoDelivery
    /\ UNCHANGED <<s_pending, tables>>
    /\ acct' = [acct EXCEPT !.framed = @ + n]

\* Mutant of ProcessCommand: no return after record_command, so a command
\* frame is looked at as a response too.
CommandFallsThrough(f, n) ==
    /\ ParseOK(s_blob, n) /\ f.fc = "cmd"
    /\ tables' = RecordCommand(tables, [dir |-> f.dir, selector |-> f.win])
    /\ CountError
    /\ NoDelivery
    /\ UNCHANGED s_pending
    /\ acct' = [acct EXCEPT !.framed = @ + n]

ProcessCommand(f, n) ==
    /\ ParseOK(s_blob, n) /\ f.fc = "cmd"
    /\ tables' = RecordCommand(tables, [dir |-> f.dir, selector |-> f.win])
    /\ NoDelivery
    /\ UNCHANGED <<s_pending, s_parse_errors>>
    /\ acct' = [acct EXCEPT !.framed = @ + n]

\* Mutants of ProcessRequest: the new request is stored before the one still
\* pending is reported; a request still pending is overwritten silently.
StoreThenReport(f, n) ==
    /\ ParseOK(s_blob, n) /\ f.fc = "read" /\ f.dir = "req"
    /\ s_pending' = [win |-> f.win, id |-> f.id, age |-> 0]
    /\ IF s_pending # None THEN Deliver(Unanswered(s_pending')) ELSE NoDelivery
    /\ UNCHANGED <<s_parse_errors, tables>>
    /\ acct' = [acct EXCEPT !.framed = @ + n, !.asked = @ + 1]

ForgetPending(f, n) ==
    /\ ParseOK(s_blob, n) /\ f.fc = "read" /\ f.dir = "req"
    /\ NoDelivery
    /\ s_pending' = [win |-> f.win, id |-> f.id, age |-> 0]
    /\ UNCHANGED <<s_parse_errors, tables>>
    /\ acct' = [acct EXCEPT !.framed = @ + n, !.asked = @ + 1]

ProcessRequest(f, n) ==
    /\ ParseOK(s_blob, n) /\ f.fc = "read" /\ f.dir = "req"
    /\ IF s_pending # None THEN Deliver(Unanswered(s_pending)) ELSE NoDelivery
    /\ s_pending' = [win |-> f.win, id |-> f.id, age |-> 0]
    /\ UNCHANGED <<s_parse_errors, tables>>
    /\ acct' = [acct EXCEPT !.framed = @ + n, !.asked = @ + 1]

Matches(p, f) == p # None /\ p.win = f.win

ProcessOrphan(f, n) ==
    /\ ParseOK(s_blob, n) /\ f.fc = "read" /\ f.dir = "rsp"
    /\ ~Matches(s_pending, f)
    /\ CountError
    /\ NoDelivery
    /\ UNCHANGED <<s_pending, tables>>
    /\ acct' = [acct EXCEPT !.framed = @ + n]

ProcessResponse(f, n) ==
    /\ ParseOK(s_blob, n) /\ f.fc = "read" /\ f.dir = "rsp"
    /\ Matches(s_pending, f)
    /\ tables' = StoreResponse(tables, [r \in WinRegs[f.win] |-> f.id])
    /\ s_pending' = None
    /\ Deliver([req |-> [win |-> s_pending.win, id |-> s_pending.id],
                ans |-> [win |-> f.win, id |-> f.id]])
    /\ UNCHANGED s_parse_errors
    /\ acct' = [acct EXCEPT !.framed = @ + n, !.answered = @ + 1]

process_frame(f, n) ==
    \/ RejectFrame(n)
    \/ ProcessCommand(f, n)
    \/ ProcessRequest(f, n)
    \/ ProcessOrphan(f, n)
    \/ ProcessResponse(f, n)

-----------------------------------------------------------------------------
(* try_extract_frames: one action per way through the while loop's body *)

Looping == pc = "extract" /\ Len(s_blob) >= MinFrameLen /\ iters < MaxIters

\* record_skipped of the first n bytes of the blob: the newest entries stay.
Skip(n) ==
    LET entry(i) == [byte |-> s_blob[i], prev |-> s_last_frame]
        all      == s_skipped \o [i \in 1..n |-> entry(i)]
        excess   == Len(all) - SkippedRingSz
    IN /\ s_skipped' = IF excess > 0 THEN DropFront(all, excess) ELSE all
       /\ s_resync_bytes' = s_resync_bytes + n

\* The loop condition fails.
ExtractDone ==
    /\ pc = "extract"
    /\ Len(s_blob) < MinFrameLen \/ iters = MaxIters
    /\ StopExtracting
    /\ UNCHANGED <<busVars, driverVars, s_blob, counterVars, resyncVars,
                   pairingVars, acct>>

\* No frame start anywhere: drop everything but the last byte and return.
DropUnframed ==
    /\ Looping
    /\ Len(s_blob) \in FrameStarts(s_blob)
    /\ Skip(Len(s_blob) - 1)
    /\ consume_front(Len(s_blob) - 1)
    /\ StopExtracting
    /\ UNCHANGED <<busVars, driverVars, s_frame_count, s_parse_errors,
                   s_txn_count, s_last_frame, pairingVars, acct>>

\* Garbage before the next frame start: drop it and go round again.
SkipGarbage ==
    /\ Looping
    /\ \E start \in FrameStarts(s_blob) \cap 1..(Len(s_blob) - 1) :
         /\ Skip(start)
         /\ consume_front(start)
    /\ iters' = iters + 1
    /\ UNCHANGED <<busVars, driverVars, pc, s_frame_count, s_parse_errors,
                   s_txn_count, s_last_frame, pairingVars, acct>>

\* A frame start at offset 0 whose length fields claim n bytes.
FrameOfLen(n) == Looping /\ 0 \in FrameStarts(s_blob) /\ n \in ClaimedLens(s_blob)

\* "Insane" length: drop the two magic bytes.
DropInsane ==
    /\ \E n \in ClaimedLens(s_blob) : FrameOfLen(n) /\ n > MaxFrameLen
    /\ CountError
    /\ consume_front(2)
    /\ iters' = iters + 1
    /\ acct' = [acct EXCEPT !.insane = @ + 1]
    /\ UNCHANGED <<busVars, driverVars, pc, s_frame_count, s_resync_bytes,
                   s_txn_count, resyncVars, pairingVars>>

AwaitRest ==
    /\ \E n \in ClaimedLens(s_blob) :
         FrameOfLen(n) /\ n <= MaxFrameLen /\ n > Len(s_blob)
    /\ StopExtracting
    /\ UNCHANGED <<busVars, driverVars, s_blob, counterVars, resyncVars,
                   pairingVars, acct>>

\* A complete frame: count it, process it, remember its geometry, consume it.
TakeFrame ==
    /\ \E n \in ClaimedLens(s_blob) :
         /\ FrameOfLen(n) /\ n <= MaxFrameLen /\ n <= Len(s_blob)
         /\ process_frame(s_blob[1][1], n)
         /\ s_last_frame' = [len |-> n, dir |-> s_blob[1][1].dir,
                             fc |-> s_blob[1][1].fc, valid |-> ParseOK(s_blob, n)]
         /\ consume_front(n)
    /\ s_frame_count' = s_frame_count + 1
    /\ iters' = iters + 1
    /\ UNCHANGED <<busVars, driverVars, pc, s_resync_bytes, s_skipped>>

-----------------------------------------------------------------------------
(* The response timeout *)

GiveUp ==
    /\ pc = "deadline"
    /\ Overdue
    /\ Deliver(Unanswered(s_pending))
    /\ s_pending' = None
    /\ pc' = "wait"
    /\ UNCHANGED <<busVars, driverVars, iters, s_blob, s_frame_count,
                   s_parse_errors, s_resync_bytes, resyncVars, tables, acct>>

KeepWaiting ==
    /\ pc = "deadline"
    /\ ~Overdue
    /\ pc' = "wait"
    /\ UNCHANGED <<busVars, driverVars, iters, s_blob, counterVars, resyncVars,
                   pairingVars, acct>>

-----------------------------------------------------------------------------
Bus      == BusRequest \/ BusReply \/ Tick
Driver   == Arrive \/ Overrun
Receive  == HandleData \/ HandleBufferFull \/ HandleFifoOvf \/ NoEvent
Extract  == ExtractDone \/ DropUnframed \/ SkipGarbage \/ DropInsane
            \/ AwaitRest \/ TakeFrame
Deadline == GiveUp \/ KeepWaiting
Task     == Receive \/ Extract \/ Deadline

Next == Bus \/ Driver \/ Task

Spec == Init /\ [][Next]_vars

\* The task has its core to itself, bytes on the wire arrive, and time passes.
FairSpec == Spec /\ WF_vars(Task) /\ WF_vars(Arrive) /\ SF_vars(Tick)

-----------------------------------------------------------------------------
(* Properties *)

BusOK ==
    /\ line \in Seq(Byte)
    /\ owed \in Frame \cup {None}
    /\ polls \in 0..MaxPolls /\ faults \in 0..MaxFaults /\ gap \in 0..PollGap

DriverOK ==
    /\ rx \in Seq(Byte) /\ Len(rx) <= RxBufSz
    /\ s_uart_queue \in Seq({"UART_DATA", "UART_BUFFER_FULL", "UART_FIFO_OVF"})
    /\ Len(s_uart_queue) <= UartQueueSz

BlobOK ==
    /\ pc \in {"wait", "extract", "deadline"} /\ iters \in 0..MaxIters
    /\ s_blob \in Seq(Byte) /\ Len(s_blob) <= MaxBlob

ResyncOK ==
    /\ s_last_frame \in Context \cup {NoContext}
    /\ s_skipped \in Seq([byte : Byte, prev : Context \cup {NoContext}])
    /\ Len(s_skipped) <= SkippedRingSz

PairingOK ==
    /\ s_pending \in Pending \cup {None}
    /\ report \in [req : Request, ans : Request \cup {None}] \cup {None}
    /\ tables \in Tables(Command)

CountersOK ==
    /\ s_frame_count \in Nat /\ s_parse_errors \in Nat
    /\ s_resync_bytes \in Nat /\ s_txn_count \in Nat
    /\ acct \in [drained : Nat, framed : Nat, insane : Nat, cleared : Nat,
                 asked : Nat, answered : Nat]

\* Every variable keeps its type; in particular the blob never outgrows
\* MAX_BLOB, the driver's buffers their sizes and the skipped ring its own.
TypeOK == BusOK /\ DriverOK /\ BlobOK /\ ResyncOK /\ PairingOK /\ CountersOK

\* Every byte read out of the driver is accounted for: it was part of a
\* counted frame, counted in s_resync_bytes, one of the two bytes dropped for
\* an insane length (in no counter), cleared after a FIFO overflow, or is
\* still in the blob.  No path through try_extract_frames loses or repeats one.
BytesConserved ==
    acct.drained = acct.framed + s_resync_bytes + 2 * acct.insane
                   + acct.cleared + Len(s_blob)

\* The counters of /api/status reconcile: each frame extracted is a parse
\* error, a command, a request or an answer, and nothing else is an error
\* but an insane length.
FramesAccounted ==
    s_frame_count + acct.insane =
        s_parse_errors + tables.cmdCount + acct.asked + acct.answered

\* A request is reported exactly once: by its answer, by the next request or
\* by the timeout, whichever comes first, and never by two of them.
ReportedOnce == acct.asked = s_txn_count + (IF s_pending = None THEN 0 ELSE 1)

OpenRequest == IF s_pending = None THEN None
               ELSE [win |-> s_pending.win, id |-> s_pending.id]

Promise == INSTANCE Pairing
    WITH Requests  <- Request,
         Answers   <- Request,
         open      <- OpenRequest,
         reported  <- report,
         nAsked    <- acct.asked,
         nReported <- s_txn_count

\* The sniffer implements the abstract pairing service: whatever the bus and
\* the driver do, its reports are those of Pairing.
ImplementsPairing == Promise!Spec

-----------------------------------------------------------------------------
(* Properties of a bus the task keeps up with (Prompt, WholeFrames) *)

\* What else it takes: the heat pump answers before the deadline, the deadline
\* expires before the next request, and the buffers, the event queue and the
\* loop's budget hold a request and its answer, each with a burst of noise.
KeptUp ==
    /\ WholeFrames /\ Prompt
    /\ ReplyBy <= RespTimeout /\ RespTimeout + 1 < PollGap
    /\ UartQueueSz >= 2 /\ MaxIters >= 5
    /\ \A j, k \in NoiseBursts \cup {0} :
         LET most == HdrLen + 2 * MinFrameLen + PayloadLen + j + k
         IN most <= MaxBlob /\ most <= RxBufSz

\* A response is reported only for the very poll it answers, although the
\* code compares no more than the window: with a request lost on the wire,
\* only the timeout keeps its answer from being paired with an older request.
AnswerOfThisPoll == report # None /\ report.ans # None => report.ans = report.req

\* The pending request's answer stands intact in the buffers.
AnswerReceived ==
    LET b == s_blob \o rx
        a == OnWire([dir |-> "rsp", fc |-> "read", win |-> s_pending.win,
                     count |-> PayloadLen, good |-> TRUE, id |-> s_pending.id])
    IN \E k \in 0..(Len(b) - Len(a)) : SubSeq(b, k + 1, k + Len(a)) = a

\* A request is not reported as unanswered when the heat pump answered in time
\* and the answer has been received.
NoFalseTimeout ==
    [][report' # report /\ report'.ans = None => ~AnswerReceived]_vars

\* Resynchronisation discards stray bytes and frames of unknown windows only,
\* never part of a command or of a frame of a known window.
Discardable(byte) ==
    byte = Noise \/ (byte[1].fc = "read" /\ byte[1].win \notin Windows)

NoFrameSkipped ==
    [][\A i \in 1..(s_resync_bytes' - s_resync_bytes) : Discardable(s_blob[i])]_vars

\* On a bus that does no damage the error counters stay at zero, whatever the
\* timing of replies, commands and missing answers.
CleanBusNoErrors == faults = 0 => s_parse_errors = 0 /\ s_resync_bytes = 0

IsPending(r) == /\ s_pending # None
                /\ s_pending.win = r.win /\ s_pending.id = r.id

\* A request does not stay pending for ever, even if the bus falls silent.
RequestResolved == \A r \in Request : IsPending(r) ~> ~IsPending(r)

-----------------------------------------------------------------------------
(* What the source says of the program and the code does not do *)

\* "the length / dir / fc of the last VALID frame consumed immediately BEFORE
\* each skipped byte" (modbus_sniffer.cpp:55).
SkippedAfterValidFrame ==
    \A i \in DOMAIN s_skipped : s_skipped[i].prev.valid
=============================================================================
