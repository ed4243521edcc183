------------------------------ MODULE Recorder -------------------------------
(***************************************************************************)
(* recorder.cpp: one in-memory JSONL recording, shared by                  *)
(*   - the sniffer task, which appends raw bursts and transactions,        *)
(*   - the httpd task (/api/record/start, stop and DELETE /api/record),    *)
(*   - the display task, whose button toggles the recording.               *)
(*                                                                         *)
(* Every operation runs under s_mutex and is one action; is_recording() is *)
(* read without it, so a caller's check and its call are separate steps.   *)
(* Lines are represented by their lengths: what counts is how the buffer   *)
(* fills.  All lengths below are the firmware's, only Capacity is small.   *)
(***************************************************************************)
EXTENDS Integers

CONSTANTS
    Capacity,    \* s_buffer_cap, after a successful allocation (4 MB)
    HeaderLens,  \* lengths of the {"t":..."values":[ part format_jsonl writes
    TextLens,    \* lengths of the values of a transaction, commas included
    BurstLens,   \* bytes in one raw burst
    StampLens,   \* digits of a millisecond time stamp
    SizeMod,     \* size_t counts modulo this (2^32 on the ESP32)
    MaxEntries   \* bound: lines recorded between two clears

ASSUME RecorderAssumption ==
    /\ Capacity \in Nat /\ Capacity >= 32
    /\ SizeMod \in Nat /\ Capacity < SizeMod
    /\ HeaderLens \subseteq 1..61
    /\ TextLens \subseteq Nat
    /\ BurstLens \subseteq Nat \ {0}
    /\ StampLens \subseteq 1..19
    /\ MaxEntries \in Nat

VARIABLES
    s_recording, s_buffer_used, s_entry_count,
    truncated,   \* history: the newest line lacks some of its values
    sniffer,     \* what the sniffer task is about to call
    button       \* what the display task is about to call

recVars == <<s_recording, s_buffer_used, s_entry_count, truncated>>
vars    == <<recVars, sniffer, button>>

Init == /\ s_recording = FALSE
        /\ s_buffer_used = 0
        /\ s_entry_count = 0
        /\ truncated = FALSE
        /\ sniffer = "idle"
        /\ button = "idle"

-----------------------------------------------------------------------------
(* format_jsonl *)

\* The space left, as the size_t the code computes it in.
Remaining == (Capacity - s_buffer_used) % SizeMod

\* Where the values loop of format_jsonl stops: it writes value after value,
\* at most 6 characters each, while the offset is below room - 16.
ValuesEnd(room, header, text) ==
    IF header >= room - 16 THEN {header}
    ELSE IF header + text < room - 16 THEN {header + text}
    ELSE {o \in (room - 16)..(room - 11) : o <= header + text}

\* The 3 characters that close the line are written and counted regardless of
\* the room left.
LineEnd(o) == o + 3

-----------------------------------------------------------------------------
(* The operations, each under s_mutex *)

start == /\ s_recording' = TRUE
         /\ s_buffer_used' = 0
         /\ s_entry_count' = 0
         /\ truncated' = FALSE

stop == /\ s_recording' = FALSE
        /\ UNCHANGED <<s_buffer_used, s_entry_count, truncated>>

clear == /\ s_buffer_used' = 0
         /\ s_entry_count' = 0
         /\ truncated' = FALSE
         /\ UNCHANGED s_recording

Append(n, short) == /\ s_buffer_used' = s_buffer_used + n
                    /\ s_entry_count' = s_entry_count + 1
                    /\ truncated' = short

\* Mutant of the check after a write: it is missing.
NeverNearlyFull(used) == FALSE

NearlyFull(used) == used >= Capacity - 32

\* Mutant of MayAppend: the check under the lock relies on the caller's.
AlwaysAppend == TRUE

MayAppend == s_recording

add ==
    \/ ~MayAppend /\ UNCHANGED recVars
    \/ MayAppend /\ Remaining < 32 /\ stop
    \/ /\ MayAppend /\ Remaining >= 32
       /\ \E header \in HeaderLens, text \in TextLens :
            \E o \in ValuesEnd(Remaining, header, text) :
              /\ Append(LineEnd(o), o < header + text)
              /\ s_recording' = IF NearlyFull(s_buffer_used + LineEnd(o))
                                THEN FALSE ELSE s_recording

\* {"t":<stamp>,"raw":"<2 hex digits a byte>"}: 16 characters beside them.
add_raw ==
    \/ ~MayAppend /\ UNCHANGED recVars
    \/ /\ MayAppend
       /\ \E len \in BurstLens, stamp \in StampLens :
            IF Remaining < 2 * len + 48
            THEN stop
            ELSE Append(13 + stamp + 2 * len + 3, FALSE) /\ UNCHANGED s_recording

-----------------------------------------------------------------------------
(* The sniffer task *)

\* sniffer_task and the transaction callback look at is_recording() first.
SeeRecording ==
    /\ sniffer = "idle"
    /\ s_recording
    /\ sniffer' \in {"add", "add_raw"}
    /\ UNCHANGED <<recVars, button>>

AddTransaction == /\ sniffer = "add"
                  /\ s_entry_count < MaxEntries
                  /\ add
                  /\ sniffer' = "idle"
                  /\ UNCHANGED button

AddBurst == /\ sniffer = "add_raw"
            /\ s_entry_count < MaxEntries
            /\ add_raw
            /\ sniffer' = "idle"
            /\ UNCHANGED button

(* The httpd task *)

ApiStart == start /\ UNCHANGED <<sniffer, button>>
ApiStop  == stop  /\ UNCHANGED <<sniffer, button>>
ApiClear == clear /\ UNCHANGED <<sniffer, button>>

(* The display task: a press stops a recording, or clears and starts one *)

ButtonPress ==
    /\ button = "idle"
    /\ button' = IF s_recording THEN "stop" ELSE "clear"
    /\ UNCHANGED <<recVars, sniffer>>

ButtonStop  == button = "stop"  /\ stop  /\ button' = "idle"  /\ UNCHANGED sniffer
ButtonClear == button = "clear" /\ clear /\ button' = "start" /\ UNCHANGED sniffer
ButtonStart == button = "start" /\ start /\ button' = "idle"  /\ UNCHANGED sniffer

Next == \/ SeeRecording \/ AddTransaction \/ AddBurst
        \/ ApiStart \/ ApiStop \/ ApiClear
        \/ ButtonPress \/ ButtonStop \/ ButtonClear \/ ButtonStart

Spec == Init /\ [][Next]_vars

-----------------------------------------------------------------------------
(* Properties *)

\* Types, and how far a line may reach beyond the buffer: format_jsonl writes
\* a header of up to 61 characters and the closing 3 where 32 bytes are free.
TypeOK ==
    /\ s_recording \in BOOLEAN
    /\ s_buffer_used \in 0..(Capacity + 32)
    /\ s_entry_count \in 0..MaxEntries
    /\ truncated \in BOOLEAN
    /\ sniffer \in {"idle", "add", "add_raw"}
    /\ button \in {"idle", "stop", "clear", "start"}

\* While recording, the free space is not negative: the unsigned subtraction
\* s_buffer_cap - s_buffer_used at the head of add and add_raw never wraps.
RemainingNeverWraps == s_recording => Remaining = Capacity - s_buffer_used

\* Only the last line of a recording can lack values: writing a truncated line
\* ends the recording, so nothing is appended behind it.
NothingAfterTruncated ==
    [][truncated => s_entry_count' <= s_entry_count]_vars

\* A stopped recording stays as it is until it is cleared or restarted, even
\* though is_recording() is read without the lock before add and add_raw.
StoppedIsFinal ==
    [][~s_recording => s_buffer_used' \in {s_buffer_used, 0}
                       /\ s_entry_count' \in {s_entry_count, 0}]_vars

(* What the source says of the program and the code does not do *)

\* "Auto-stops recording if the buffer is full" (recorder.h:35), "maximum
\* buffer capacity in bytes" (recorder.h:59): the recording fits the buffer.
FitsBuffer == s_buffer_used <= Capacity
=============================================================================
