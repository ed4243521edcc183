------------------------------ MODULE Reconfig ------------------------------
(***************************************************************************)
(* Changing the UART's settings over HTTP while the sniffer task runs.     *)
(*                                                                         *)
(* set_baud_rate and the three line setters run in the httpd task and      *)
(* write s_blob_len and s_have_pending, plain variables the sniffer task   *)
(* reads, keeps in registers and writes back, with no lock between them.   *)
(* Every load and every store of the two variables is a step of its own;   *)
(* where the compiler may reuse a loaded value or load again, both happen. *)
(*                                                                         *)
(* Module Sniffer has the parsing this module leaves open: here a frame    *)
(* may be found at any place of the blob.  What matters is how old bytes   *)
(* are, relative to the setting being changed (see Age).                   *)
(***************************************************************************)
EXTENDS Integers, Sequences, SequencesExt

CONSTANTS
    MaxBlob,   \* MAX_BLOB
    MinFrame,  \* MIN_FRAME_LEN
    RxSz,      \* the driver's ring
    WordSz,    \* size_t arithmetic is modulo WordSz
    Knobs      \* the settings the clients change, of those in ConfigOrder

ConfigOrder == <<"invert_rx", "parity", "baud", "stop_bits">>

ASSUME ReconfigAssumption ==
    /\ MinFrame \in Nat \ {0} /\ MaxBlob \in Nat /\ MinFrame <= MaxBlob
    /\ RxSz \in Nat \ {0}
    /\ WordSz \in Nat /\ 2 * MaxBlob < WordSz
    /\ Knobs \subseteq Range(ConfigOrder)

\* How old a byte is: it arrived before the latest setter's flush ("old"),
\* after that flush but under the previous setting ("late"), or under the
\* present setting ("fresh").
Age == {"fresh", "late", "old"}

\* "age" is that of the oldest byte of the request; "told" counts the times it
\* was handed to s_callback; "dropped": a setter cleared s_have_pending while
\* the sniffer task was not looking.
Transaction == [age : Age, told : 0..2, dropped : BOOLEAN]

VARIABLES
    rx,             \* the driver's ring buffer
    s_blob_buf, s_blob_len,
    s_have_pending, s_pending,
    \* The sniffer task
    pc,
    off,            \* s_blob_len as loaded
    n,              \* bytes read, or to be consumed
    blob_start,     \* s_blob_len when the burst began
    frame,          \* age of the frame in process_frame
    after,          \* where consume_front returns to
    \* The httpd task
    hpc,
    todo,           \* settings the request still has to change
    \* History
    baseline,       \* the setter that last succeeded, "none" once another runs
    raced           \* its s_blob_len = 0 met the sniffer task holding a register

sharedVars == <<s_blob_len, s_have_pending>>
dataVars   == <<rx, s_blob_buf, s_pending, sharedVars>>
regVars    == <<off, n, blob_start, frame, after>>
httpdVars  == <<hpc, todo, baseline, raced>>
vars       == <<dataVars, pc, regVars, httpdVars>>

\* Where the sniffer task holds nothing it read from the shared variables, and
\* is not between the two halves of an update of them.
Quiet == {"wait", "drain", "burst", "test", "deadline"}

Oldest(ages) == IF "old" \in ages THEN "old"
                ELSE IF "late" \in ages THEN "late" ELSE "fresh"
Live == {s_blob_buf[i] : i \in 1..(IF s_blob_len < MaxBlob THEN s_blob_len ELSE MaxBlob)}

UnwrappedLength(x) == x
Wrapped(x) == x % WordSz

TypeOK ==
    /\ rx \in Seq(Age) /\ Len(rx) <= RxSz
    /\ s_blob_buf \in [1..MaxBlob -> Age]
    /\ s_blob_len \in 0..(WordSz - 1)
    /\ s_have_pending \in BOOLEAN /\ s_pending \in Transaction
    /\ pc \in Quiet \cup {"read", "add", "added", "emit", "drop", "request",
                          "newRequest", "response", "rspClear", "rspReport",
                          "consume", "zero", "shrink", "timeout", "expire", "wild"}
    /\ off \in 0..(WordSz - 1) /\ n \in 0..(WordSz - 1)
    /\ blob_start \in 0..(WordSz - 1)
    /\ frame \in Age /\ after \in {"test", "deadline"}
    /\ hpc \in {"idle", "next", "set", "flush", "blob", "pending"}
    /\ todo \in Seq(Knobs)
    /\ baseline \in Knobs \cup {"none"} /\ raced \in BOOLEAN

Init ==
    /\ rx = <<>> /\ s_blob_buf = [i \in 1..MaxBlob |-> "old"] /\ s_blob_len = 0
    /\ s_have_pending = FALSE
    /\ s_pending = [age |-> "old", told |-> 0, dropped |-> FALSE]
    /\ pc = "wait" /\ off = 0 /\ n = 0 /\ blob_start = 0
    /\ frame = "fresh" /\ after = "test"
    /\ hpc = "idle" /\ todo = <<>>
    /\ baseline = "none" /\ raced = FALSE

-----------------------------------------------------------------------------
(***************************************************************************)
(* The sniffer task: receiving                                             *)
(***************************************************************************)
\* The receive interrupt moves a byte to the driver's ring.
Arrive ==
    /\ Len(rx) < RxSz
    /\ rx' = Append(rx, "fresh")
    /\ UNCHANGED <<s_blob_buf, s_pending, sharedVars, pc, regVars, httpdVars>>

\* The event queue outlives a flush of the ring, so UART_DATA may come with
\* nothing buffered, and any event may come at any time.
TakeEvent ==
    /\ pc = "wait"
    /\ \/ pc' = "drain" /\ blob_start' = s_blob_len           \* UART_DATA
          /\ UNCHANGED <<rx, s_blob_len>>
       \/ pc' = "test" /\ UNCHANGED <<rx, s_blob_len, blob_start>>   \* none
       \/ pc' = "test" /\ rx' = <<>>                        \* UART_BUFFER_FULL
          /\ UNCHANGED <<s_blob_len, blob_start>>
       \/ pc' = "test" /\ rx' = <<>> /\ s_blob_len' = 0        \* UART_FIFO_OVF
          /\ UNCHANGED blob_start
    /\ UNCHANGED <<s_blob_buf, s_pending, s_have_pending, off, n, frame, after,
                   httpdVars>>

AnyRoom(len) == MaxBlob
Room(len) == MaxBlob - len

DrainTest ==
    /\ pc = "drain"
    /\ IF rx # <<>> /\ s_blob_len < MaxBlob
         THEN pc' = "read" /\ off' = s_blob_len
         ELSE pc' = "burst" /\ UNCHANGED off
    /\ UNCHANGED <<dataVars, n, blob_start, frame, after, httpdVars>>

\* uart_read_bytes copies to s_blob_buf + off; a flush may have emptied rx.
DrainRead ==
    /\ pc = "read"
    /\ \/ /\ rx = <<>>
          /\ pc' = "burst"
          /\ UNCHANGED <<rx, s_blob_buf, n>>
       \/ \E got \in 1..Len(rx) :
            /\ got <= Room(off)
            /\ n' = got
            /\ s_blob_buf' = [i \in 1..MaxBlob |->
                 IF i - off \in 1..got THEN rx[i - off] ELSE s_blob_buf[i]]
            /\ rx' = SubSeq(rx, got + 1, Len(rx))
            /\ pc' = "add"
    /\ UNCHANGED <<s_pending, sharedVars, off, blob_start, frame, after, httpdVars>>

\* s_blob_len += got: a load ...
AddLoad ==
    /\ pc = "add"
    /\ off' = s_blob_len
    /\ pc' = "added"
    /\ UNCHANGED <<dataVars, n, blob_start, frame, after, httpdVars>>
\* ... and a store.
AddStore ==
    /\ pc = "added"
    /\ s_blob_len' = Wrapped(off + n)
    /\ pc' = "drain" /\ off' = 0 /\ n' = 0
    /\ UNCHANGED <<rx, s_blob_buf, s_pending, s_have_pending, blob_start, frame,
                   after, httpdVars>>

\* While recording, the burst goes to add_raw: s_blob_len is compared with
\* blob_start here and subtracted from after the clock is read.
BurstTest ==
    /\ pc = "burst"
    /\ \/ pc' = "test" /\ blob_start' = 0                \* not recording
       \/ s_blob_len > blob_start /\ pc' = "emit" /\ UNCHANGED blob_start
    /\ UNCHANGED <<dataVars, off, n, frame, after, httpdVars>>

\* add_raw reads as many bytes as it is told, off the buffer's end if need be.
BurstEmit ==
    /\ pc = "emit"
    /\ pc' = IF blob_start + Wrapped(s_blob_len - blob_start) <= MaxBlob
               THEN "test" ELSE "wild"
    /\ blob_start' = 0
    /\ UNCHANGED <<dataVars, off, n, frame, after, httpdVars>>
-----------------------------------------------------------------------------
(***************************************************************************)
(* The sniffer task: extraction                                            *)
(***************************************************************************)
Consume(k, return) == n' = k /\ after' = return /\ pc' = "consume"

\* One test of the while loop and what the iteration finds in the blob.
ExtractTest ==
    /\ pc = "test"
    /\ \/ /\ s_blob_len <= MaxBlob        \* too little, or part of a frame
          /\ pc' = "deadline"
          /\ UNCHANGED <<n, after, frame>>
       \/ /\ s_blob_len > MaxBlob         \* reads beyond s_blob_buf
          /\ pc' = "wild"
          /\ UNCHANGED <<n, after, frame>>
       \/ /\ s_blob_len \in MinFrame..MaxBlob
          /\ \/ pc' = "drop" /\ UNCHANGED <<n, after, frame>>
             \/ \E start \in 1..(s_blob_len - 1) :
                  Consume(start, "test") /\ UNCHANGED frame
             \/ \E flen \in MinFrame..s_blob_len :
                  /\ n' = flen /\ after' = "test"
                  /\ frame' = Oldest({s_blob_buf[i] : i \in 1..flen})
                  /\ pc' \in {"request", "response", "consume"}
    /\ UNCHANGED <<dataVars, off, blob_start, httpdVars>>

\* No frame start: all but one byte go, s_blob_len - 1 being computed again
\* after the skipped bytes were recorded.
DropUnframed ==
    /\ pc = "drop"
    /\ Consume(Wrapped(s_blob_len - 1), "deadline")
    /\ UNCHANGED <<dataVars, off, blob_start, frame, httpdVars>>

\* consume_front compares n with the length ...
ConsumeLoad ==
    /\ pc = "consume"
    /\ IF n >= s_blob_len
         THEN pc' = "zero" /\ UNCHANGED <<s_blob_buf, off>>
         ELSE /\ s_blob_buf' = [i \in 1..MaxBlob |->
                   IF i + n <= s_blob_len THEN s_blob_buf[i + n] ELSE s_blob_buf[i]]
              /\ off' = s_blob_len
              /\ pc' = "shrink"
    /\ UNCHANGED <<rx, s_pending, sharedVars, n, blob_start, frame, after, httpdVars>>

\* ... and stores what is left: 0, or the difference to the length as loaded
\* or as it is now.
ConsumeStore ==
    /\ \/ pc = "zero" /\ s_blob_len' = 0
       \/ pc = "shrink" /\ s_blob_len' \in {off - n, Wrapped(s_blob_len - n)}
    /\ pc' = after
    /\ off' = 0 /\ n' = 0 /\ after' = "test" /\ frame' = "fresh"
    /\ UNCHANGED <<rx, s_blob_buf, s_pending, s_have_pending, blob_start, httpdVars>>
-----------------------------------------------------------------------------
(***************************************************************************)
(* The sniffer task: the pending request                                   *)
(***************************************************************************)
Tell == s_pending' = [s_pending EXCEPT !.told = IF @ < 2 THEN @ + 1 ELSE 2]

\* process_frame for a request: an open one is reported as missed ...
Request ==
    /\ pc = "request"
    /\ IF s_have_pending THEN Tell ELSE UNCHANGED s_pending
    /\ pc' = "newRequest"
    /\ UNCHANGED <<rx, s_blob_buf, sharedVars, regVars, httpdVars>>

\* ... and the new one takes its place.
NewRequest ==
    /\ pc = "newRequest"
    /\ s_pending' = [age |-> frame, told |-> 0, dropped |-> FALSE]
    /\ s_have_pending' = TRUE
    /\ pc' = "consume"
    /\ UNCHANGED <<rx, s_blob_buf, s_blob_len, regVars, httpdVars>>

\* process_frame for a response: it may match only while a request is pending.
Response ==
    /\ pc = "response"
    /\ pc' = IF s_have_pending THEN "rspClear" ELSE "consume"
    /\ UNCHANGED <<dataVars, regVars, httpdVars>>

RspClear ==
    /\ pc = "rspClear"
    /\ s_have_pending' = FALSE
    /\ pc' = "rspReport"
    /\ UNCHANGED <<rx, s_blob_buf, s_pending, s_blob_len, regVars, httpdVars>>

RspReport ==
    /\ pc = "rspReport"
    /\ Tell
    /\ pc' = "consume"
    /\ UNCHANGED <<rx, s_blob_buf, sharedVars, regVars, httpdVars>>

\* The response timeout: RESP_TIMEOUT_MS may or may not be over.
Deadline ==
    /\ pc = "deadline"
    /\ pc' \in {"wait"} \cup IF s_have_pending THEN {"timeout"} ELSE {}
    /\ UNCHANGED <<dataVars, regVars, httpdVars>>

TimeoutReport ==
    /\ pc = "timeout"
    /\ Tell
    /\ pc' = "expire"
    /\ UNCHANGED <<rx, s_blob_buf, sharedVars, regVars, httpdVars>>

KeepTimedOut == pc = "expire" /\ pc' = "wait"
    /\ UNCHANGED <<dataVars, regVars, httpdVars>>
TimeoutClear ==
    /\ pc = "expire"
    /\ s_have_pending' = FALSE
    /\ pc' = "wait"
    /\ UNCHANGED <<rx, s_blob_buf, s_pending, s_blob_len, regVars, httpdVars>>

SnifferTask ==
    \/ TakeEvent \/ DrainTest \/ DrainRead \/ AddLoad \/ AddStore
    \/ BurstTest \/ BurstEmit
    \/ ExtractTest \/ DropUnframed \/ ConsumeLoad \/ ConsumeStore
    \/ Request \/ NewRequest \/ Response \/ RspClear \/ RspReport
    \/ Deadline \/ TimeoutReport \/ TimeoutClear
-----------------------------------------------------------------------------
(***************************************************************************)
(* The httpd task: POST /api/baud and POST /api/config                     *)
(***************************************************************************)
taskVars == <<pc, regVars>>

\* The request names some of the settings; they are changed in ConfigOrder.
IfNamed(i, ks) == IF ConfigOrder[i] \in ks THEN <<ConfigOrder[i]>> ELSE <<>>
PostConfig ==
    /\ hpc = "idle"
    /\ \E ks \in SUBSET Knobs \ {{}} :
         todo' = IfNamed(1, ks) \o IfNamed(2, ks) \o IfNamed(3, ks) \o IfNamed(4, ks)
    /\ hpc' = "next"
    /\ UNCHANGED <<dataVars, taskVars, baseline, raced>>

\* set_baud_rate sets the hardware first and flushes afterwards, the line
\* setters (parity, stop bits, inversion) flush first.
AlwaysFlushFirst(knob) == TRUE
FlushesFirst(knob) == knob # "baud"

\* handle_config goes on to the next setting whether or not a setter failed.
NextSetter ==
    /\ hpc = "next"
    /\ IF todo = <<>>
         THEN hpc' = "idle" /\ UNCHANGED baseline
         ELSE /\ hpc' = IF FlushesFirst(Head(todo)) THEN "flush" ELSE "set"
              /\ baseline' = "none"
    /\ UNCHANGED <<dataVars, taskVars, todo, raced>>

\* The hardware call fails: the setter returns false, whatever it did before.
SetFails ==
    /\ hpc = "set"
    /\ todo' = Tail(todo) /\ hpc' = "next"
    /\ UNCHANGED <<dataVars, taskVars, baseline, raced>>

\* The hardware takes the new setting; what arrived before is not fresh now.
SetHardware ==
    LET aged(a) == IF a = "fresh" THEN "late" ELSE a IN
    /\ hpc = "set"
    /\ hpc' = IF FlushesFirst(Head(todo)) THEN "blob" ELSE "flush"
    /\ rx' = [i \in DOMAIN rx |-> aged(rx[i])]
    /\ s_blob_buf' = [i \in 1..MaxBlob |-> aged(s_blob_buf[i])]
    /\ s_pending' = [s_pending EXCEPT !.age = aged(@)]
    /\ frame' = aged(frame)
    /\ UNCHANGED <<sharedVars, pc, off, n, blob_start, after, todo, baseline, raced>>

\* uart_flush_input empties the ring; what was read before is old now.
FlushInput ==
    /\ hpc = "flush"
    /\ hpc' = IF FlushesFirst(Head(todo)) THEN "set" ELSE "blob"
    /\ rx' = <<>>
    /\ s_blob_buf' = [i \in 1..MaxBlob |-> "old"]
    /\ s_pending' = [s_pending EXCEPT !.age = "old"]
    /\ frame' = "old"
    /\ UNCHANGED <<sharedVars, pc, off, n, blob_start, after, todo, baseline, raced>>

\* s_blob_len = 0
ResetBlob ==
    /\ hpc = "blob"
    /\ s_blob_len' = 0
    /\ raced' = (pc \notin Quiet)
    /\ hpc' = "pending"
    /\ UNCHANGED <<rx, s_blob_buf, s_pending, s_have_pending, taskVars, todo, baseline>>

KeepPending == hpc = "pending" /\ hpc' = "next" /\ todo' = Tail(todo)
    /\ s_pending' = [s_pending EXCEPT !.dropped = @ \/ (pc \in Quiet /\ s_have_pending)]
    /\ baseline' = Head(todo)
    /\ UNCHANGED <<rx, s_blob_buf, sharedVars, taskVars, raced>>
\* s_have_pending = false, reset_counters(), return true
ResetPending ==
    /\ hpc = "pending"
    /\ s_have_pending' = FALSE
    /\ s_pending' = [s_pending EXCEPT !.dropped = @ \/ (pc \in Quiet /\ s_have_pending)]
    /\ baseline' = Head(todo)
    /\ todo' = Tail(todo) /\ hpc' = "next"
    /\ UNCHANGED <<rx, s_blob_buf, s_blob_len, taskVars, raced>>

HttpdTask == \/ PostConfig \/ NextSetter \/ SetFails \/ SetHardware
             \/ FlushInput \/ ResetBlob \/ ResetPending

\* A task that read beyond the buffer ("wild") takes no further step here.
Next == Arrive \/ SnifferTask \/ HttpdTask

Spec == Init /\ [][Next]_vars
-----------------------------------------------------------------------------
(***************************************************************************)
(* Properties                                                              *)
(***************************************************************************)
\* The setter that last ran has returned true and no other runs.
Settled == baseline # "none" /\ hpc \in {"idle", "next"}

NothingOlderThan(ages) ==
    /\ Range(rx) \cup Live \subseteq ages
    /\ s_have_pending => s_pending.age \in ages

\* If the sniffer task held no register when a setter reset s_blob_len, then,
\* whatever it does while the pending request is dropped, the setter leaves a
\* clean baseline: nothing that arrived before its flush is parsed afterwards,
\* neither as bytes nor as a pending request; and after set_baud_rate, which
\* flushes last, nothing received at the old rate.
CleanUnlessRaced ==
    Settled /\ ~raced =>
        NothingOlderThan(IF baseline = "baud" THEN {"fresh"} ELSE {"fresh", "late"})

\* s_blob_len never leaves the buffer, and no length derived from it does,
\* unless a reset met the sniffer task between reading and writing it.
LengthInBounds == ~raced => s_blob_len <= MaxBlob /\ pc # "wild"

\* Whatever the httpd task does to s_have_pending in between, no request is
\* handed to s_callback twice, by its answer, the next request or the timeout.
ReportedAtMostOnce == s_pending.told <= 1

\* A request dropped by a setter while the sniffer task was not looking at it
\* is never reported.
DroppedStaysSilent ==
    [][s_pending.dropped /\ s_pending'.dropped => s_pending'.told = s_pending.told]_vars

\* modbus_sniffer.cpp:683: "Clear buffer and reset stats to get clean readings
\* at new rate".  The reset can be undone by the sniffer task.
CleanBaseline == Settled /\ baseline = "baud" => NothingOlderThan({"fresh"})
=============================================================================
