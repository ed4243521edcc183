---------------------------- MODULE RecorderProofs ----------------------------
(***************************************************************************)
(* Proofs about Recorder, for every capacity and all line lengths that     *)
(* RecorderAssumption allows.                                              *)
(*                                                                         *)
(* TypeOK is not inductive: that a line reaches at most 32 bytes beyond    *)
(* the buffer needs that a running recording has not reached the end, and  *)
(* that nothing follows a truncated line needs that such a line has ended  *)
(* the recording.  RecorderInv adds both.                                  *)
(***************************************************************************)
EXTENDS Recorder, TLAPS

\* A running recording leaves room: at least the 32 bytes add checks for after
\* its write, or the 13 left over from the 2*len+48 that add_raw asks for.
RoomLeft == s_recording => s_buffer_used <= Capacity - 13

TruncatedIsStopped == truncated => ~s_recording

RecorderInv == TypeOK /\ RoomLeft /\ TruncatedIsStopped

USE DEF MayAppend, LineEnd, NearlyFull

-----------------------------------------------------------------------------
\* What format_jsonl adds: with 32 bytes of room a line ends at most 32 bytes
\* behind the buffer, and a line cut short leaves less than 32 bytes free.
LEMMA LineBounds ==
    ASSUME NEW room \in Nat, room >= 32, NEW header \in HeaderLens,
           NEW text \in TextLens, NEW o \in ValuesEnd(room, header, text)
    PROVE  /\ o \in Nat
           /\ o + 3 <= room + 32
           /\ o < header + text => o + 3 >= room - 13
<1>1. header \in 1..61 /\ text \in Nat
  BY RecorderAssumption
<1>2. CASE header >= room - 16
  BY <1>1, <1>2 DEF ValuesEnd
<1>3. CASE header < room - 16 /\ header + text < room - 16
  BY <1>1, <1>3 DEF ValuesEnd
<1>4. CASE header < room - 16 /\ ~(header + text < room - 16)
  BY <1>1, <1>4 DEF ValuesEnd
<1> QED
  BY <1>1, <1>2, <1>3, <1>4

\* While recording, size_t arithmetic is that of the integers.
LEMMA RemainingIsFree ==
    ASSUME RecorderInv, s_recording
    PROVE  Remaining = Capacity - s_buffer_used
<1>1. Capacity - s_buffer_used \in 0..(SizeMod - 1)
  BY RecorderAssumption DEF RecorderInv, TypeOK, RoomLeft
<1> QED
  BY <1>1, RecorderAssumption DEF Remaining

\* add, called with room for one more entry.
LEMMA AddKeeps ==
    ASSUME RecorderInv, s_entry_count < MaxEntries, add
    PROVE  /\ s_recording' \in BOOLEAN /\ truncated' \in BOOLEAN
           /\ s_buffer_used' \in 0..(Capacity + 32)
           /\ s_entry_count' \in 0..MaxEntries
           /\ RoomLeft' /\ TruncatedIsStopped'
<1> USE RecorderAssumption DEF RecorderInv, TypeOK, RoomLeft, TruncatedIsStopped
<1>1. CASE UNCHANGED recVars
  BY <1>1 DEF recVars
<1>2. CASE stop
  BY <1>2 DEF stop
<1>3. CASE /\ s_recording /\ Remaining >= 32
           /\ \E header \in HeaderLens, text \in TextLens :
                \E o \in ValuesEnd(Remaining, header, text) :
                  /\ Append(LineEnd(o), o < header + text)
                  /\ s_recording' = IF NearlyFull(s_buffer_used + LineEnd(o))
                                    THEN FALSE ELSE s_recording
  <2>1. PICK header \in HeaderLens, text \in TextLens :
          \E o \in ValuesEnd(Remaining, header, text) :
             /\ Append(LineEnd(o), o < header + text)
             /\ s_recording' = IF NearlyFull(s_buffer_used + LineEnd(o))
                               THEN FALSE ELSE s_recording
    BY <1>3
  <2>2. PICK o \in ValuesEnd(Remaining, header, text) :
             /\ Append(LineEnd(o), o < header + text)
             /\ s_recording' = IF NearlyFull(s_buffer_used + LineEnd(o))
                               THEN FALSE ELSE s_recording
    BY <2>1
  <2>3. /\ o \in Nat
        /\ o + 3 <= Remaining + 32
        /\ o < header + text => o + 3 >= Remaining - 13
    <3>1. Remaining \in Nat /\ Remaining >= 32
      BY <1>3, RemainingIsFree
    <3> QED
      BY <3>1, <2>2, LineBounds
  <2>4. /\ s_buffer_used' = s_buffer_used + o + 3
        /\ s_entry_count' = s_entry_count + 1
        /\ truncated' = (o < header + text)
        /\ Remaining = Capacity - s_buffer_used
    BY <1>3, <2>2, <2>3, RemainingIsFree DEF Append
  <2>5. s_buffer_used' \in 0..(Capacity + 32) /\ s_entry_count' \in 0..MaxEntries
    BY <2>3, <2>4
  <2>6. truncated' \in BOOLEAN
    BY <2>4
  <2>7. CASE s_buffer_used + (o + 3) >= Capacity - 32
    <3>1. s_recording' = FALSE
      BY <2>2, <2>7
    <3> QED
      BY <3>1, <2>5, <2>6
  <2>8. CASE ~(s_buffer_used + (o + 3) >= Capacity - 32)
    <3>1. s_recording' = s_recording
      BY <2>2, <2>8
    <3>2. s_buffer_used' <= Capacity - 13
      BY <2>3, <2>4, <2>8
    <3>3. ~(o < header + text)
      BY <2>3, <2>4, <2>8
    <3> QED
      BY <3>1, <3>2, <3>3, <2>4, <2>5, <2>6
  <2> QED
    BY <2>7, <2>8
<1> QED
  BY <1>1, <1>2, <1>3 DEF add

\* add_raw, called with room for one more entry.
LEMMA AddRawKeeps ==
    ASSUME RecorderInv, s_entry_count < MaxEntries, add_raw
    PROVE  /\ s_recording' \in BOOLEAN /\ truncated' \in BOOLEAN
           /\ s_buffer_used' \in 0..(Capacity + 32)
           /\ s_entry_count' \in 0..MaxEntries
           /\ RoomLeft' /\ TruncatedIsStopped'
<1> USE RecorderAssumption DEF RecorderInv, TypeOK, RoomLeft, TruncatedIsStopped
<1>1. CASE UNCHANGED recVars
  BY <1>1 DEF recVars
<1>2. CASE s_recording /\ \E len \in BurstLens, stamp \in StampLens :
             IF Remaining < 2 * len + 48
             THEN stop
             ELSE Append(13 + stamp + 2 * len + 3, FALSE) /\ UNCHANGED s_recording
  <2>1. PICK len \in BurstLens, stamp \in StampLens :
             IF Remaining < 2 * len + 48
             THEN stop
             ELSE Append(13 + stamp + 2 * len + 3, FALSE) /\ UNCHANGED s_recording
    BY <1>2
  <2>2. CASE Remaining < 2 * len + 48
    BY <2>1, <2>2 DEF stop
  <2>3. CASE ~(Remaining < 2 * len + 48)
    <3>1. /\ s_buffer_used' = s_buffer_used + (13 + stamp + 2 * len + 3)
          /\ s_entry_count' = s_entry_count + 1
          /\ truncated' = FALSE
          /\ s_recording' = s_recording
          /\ Remaining = Capacity - s_buffer_used
      BY <1>2, <2>1, <2>3, RemainingIsFree DEF Append
    <3>2. len \in Nat /\ stamp \in 1..19
      OBVIOUS
    <3>3. /\ s_buffer_used' \in 0..(Capacity + 32)
          /\ s_entry_count' \in 0..MaxEntries
          /\ s_buffer_used' <= Capacity - 13
      BY <2>3, <3>1, <3>2
    <3> QED
      BY <3>1, <3>3
  <2> QED
    BY <2>2, <2>3
<1> QED
  BY <1>1, <1>2 DEF add_raw

-----------------------------------------------------------------------------
\* An empty recording is within all the bounds.
LEMMA EmptyFits ==
    0 \in 0..(Capacity + 32) /\ 0 \in 0..MaxEntries /\ 0 <= Capacity - 13
  BY RecorderAssumption

LEMMA InvInit == Init => RecorderInv
  BY EmptyFits DEF Init, RecorderInv, TypeOK, RoomLeft, TruncatedIsStopped

LEMMA InvNext == RecorderInv /\ [Next]_vars => RecorderInv'
<1> SUFFICES ASSUME RecorderInv, [Next]_vars
             PROVE  RecorderInv'
  OBVIOUS
<1> USE DEF RecorderInv, TypeOK, RoomLeft, TruncatedIsStopped
<1>1. CASE SeeRecording
  BY <1>1 DEF SeeRecording, recVars
<1>2. CASE AddTransaction
  BY <1>2, AddKeeps DEF AddTransaction
<1>3. CASE AddBurst
  BY <1>3, AddRawKeeps DEF AddBurst
<1>4. CASE ApiStart \/ ButtonStart
  BY <1>4, EmptyFits DEF ApiStart, ButtonStart, start
<1>5. CASE ApiStop \/ ButtonStop
  BY <1>5 DEF ApiStop, ButtonStop, stop
<1>6. CASE ApiClear \/ ButtonClear
  BY <1>6, EmptyFits DEF ApiClear, ButtonClear, clear
<1>7. CASE ButtonPress
  BY <1>7 DEF ButtonPress, recVars
<1>8. CASE UNCHANGED vars
  BY <1>8 DEF vars, recVars
<1> QED
  BY <1>1, <1>2, <1>3, <1>4, <1>5, <1>6, <1>7, <1>8 DEF Next

LEMMA InvAlways == Spec => []RecorderInv
  BY InvInit, InvNext, PTL DEF Spec

-----------------------------------------------------------------------------
\* Every variable keeps its type; the recording never reaches further than 32
\* bytes beyond the buffer, whatever the capacity.
THEOREM TypeCorrect == Spec => []TypeOK
<1>1. RecorderInv => TypeOK
  BY DEF RecorderInv
<1> QED
  BY <1>1, InvAlways, PTL

\* The unsigned subtraction at the head of add and add_raw never wraps.
THEOREM NeverWraps == Spec => []RemainingNeverWraps
<1>1. RecorderInv => RemainingNeverWraps
  BY RemainingIsFree DEF RemainingNeverWraps
<1> QED
  BY <1>1, InvAlways, PTL

\* add and add_raw append at all only while recording; every other operation
\* empties the recording or leaves it alone.
LEMMA AppendsOnlyWhileRecording ==
    ASSUME RecorderInv, [Next]_vars, ~s_recording
    PROVE  /\ s_buffer_used' \in {s_buffer_used, 0}
           /\ s_entry_count' \in {s_entry_count, 0}
<1>1. CASE AddTransaction
  BY <1>1 DEF AddTransaction, add, recVars
<1>2. CASE AddBurst
  BY <1>2 DEF AddBurst, add_raw, recVars
<1>3. CASE SeeRecording \/ ButtonPress \/ UNCHANGED vars
  BY <1>3 DEF SeeRecording, ButtonPress, recVars, vars
<1>4. CASE ApiStart \/ ApiStop \/ ApiClear \/ ButtonStop \/ ButtonClear \/ ButtonStart
  BY <1>4 DEF ApiStart, ApiStop, ApiClear, ButtonStop, ButtonClear, ButtonStart,
              start, stop, clear
<1> QED
  BY <1>1, <1>2, <1>3, <1>4 DEF Next

\* Nothing is appended behind a truncated line.
THEOREM TruncatedIsLast == Spec => NothingAfterTruncated
<1>1. RecorderInv /\ [Next]_vars
        => [truncated => s_entry_count' <= s_entry_count]_vars
  <2> SUFFICES ASSUME RecorderInv, [Next]_vars, truncated
               PROVE  s_entry_count' <= s_entry_count
    OBVIOUS
  <2>1. ~s_recording
    BY DEF RecorderInv, TruncatedIsStopped
  <2>2. s_entry_count' \in {s_entry_count, 0}
    BY <2>1, AppendsOnlyWhileRecording
  <2>3. s_entry_count \in Nat
    BY RecorderAssumption DEF RecorderInv, TypeOK
  <2> QED
    BY <2>2, <2>3
<1> QED
  BY <1>1, InvAlways, PTL DEF Spec, NothingAfterTruncated

\* A stopped recording is not appended to, although is_recording() is read
\* without the lock.
THEOREM StoppedStaysPut == Spec => StoppedIsFinal
<1>1. RecorderInv /\ [Next]_vars
        => [~s_recording => s_buffer_used' \in {s_buffer_used, 0}
                            /\ s_entry_count' \in {s_entry_count, 0}]_vars
  BY AppendsOnlyWhileRecording
<1> QED
  BY <1>1, InvAlways, PTL DEF Spec, StoppedIsFinal
=============================================================================
