--------------------------- MODULE ReconfigProofs ---------------------------
(***************************************************************************)
(* Proofs about Reconfig, for buffers, rings and size_t of any size.       *)
(***************************************************************************)
EXTENDS Reconfig, TLAPS

LEMMA SmallMod ==
    ASSUME NEW c \in Nat \ {0}, NEW a \in Int, 0 <= a, a < c
    PROVE  a % c = a
  BY SMT

-----------------------------------------------------------------------------
(***************************************************************************)
(* The pending request                                                     *)
(***************************************************************************)
\* A request that was reported is not pending any more, or is about to be
\* replaced or cleared by the step that reported it.
NotYetTold ==
    /\ s_have_pending /\ pc \notin {"newRequest", "expire"} => s_pending.told = 0
    /\ pc = "rspReport" => ~s_have_pending
    /\ pc \in {"rspClear", "rspReport", "timeout"} => s_pending.told = 0

\* A dropped request is not pending, and no step is under way that reports it.
DroppedIsGone ==
    s_pending.dropped => ~s_have_pending /\ pc \notin {"rspClear", "rspReport", "timeout"}

RequestInv ==
    /\ s_have_pending \in BOOLEAN /\ s_pending \in Transaction
    /\ frame \in Age /\ after \in {"test", "deadline"}
    /\ s_pending.told <= 1 /\ NotYetTold /\ DroppedIsGone

LEMMA TellEffect ==
    ASSUME s_pending \in Transaction, Tell, s_pending.told = 0
    PROVE  s_pending' \in Transaction /\ s_pending'.told = 1
               /\ s_pending'.dropped = s_pending.dropped
  BY DEF Tell, Transaction, Age

LEMMA AgeEffect ==
    ASSUME s_pending \in Transaction, NEW a \in Age, s_pending' = [s_pending EXCEPT !.age = a]
    PROVE  /\ s_pending' \in Transaction
           /\ s_pending'.told = s_pending.told /\ s_pending'.dropped = s_pending.dropped
  BY DEF Transaction

LEMMA DropEffect ==
    ASSUME s_pending \in Transaction, NEW d \in BOOLEAN,
               s_pending' = [s_pending EXCEPT !.dropped = d]
    PROVE  /\ s_pending' \in Transaction
           /\ s_pending'.told = s_pending.told /\ s_pending'.dropped = d
  BY DEF Transaction

\* The steps of the sniffer task before process_frame and after it.
LEMMA ParsingKeepsRequest ==
    ASSUME RequestInv,
           Arrive \/ TakeEvent \/ DrainTest \/ DrainRead \/ AddLoad \/ AddStore \/ BurstTest
             \/ BurstEmit \/ ExtractTest \/ DropUnframed \/ ConsumeLoad \/ ConsumeStore
    PROVE  RequestInv' /\ s_pending' = s_pending
<1> DEFINE Reports == {"newRequest", "expire", "rspClear", "rspReport", "timeout"}
<1>1. CASE Arrive \/ TakeEvent \/ DrainTest \/ DrainRead \/ AddLoad \/ AddStore \/ BurstTest
               \/ BurstEmit
  <2>1. UNCHANGED <<s_pending, s_have_pending, frame, after>>
    BY <1>1 DEF Arrive, TakeEvent, DrainTest, DrainRead, AddLoad, AddStore, BurstTest, BurstEmit,
                dataVars, sharedVars, regVars
  <2>2. pc' = pc \/ (pc \notin Reports /\ pc' \notin Reports)
    BY <1>1 DEF Arrive, TakeEvent, DrainTest, DrainRead, AddLoad, AddStore, BurstTest, BurstEmit
  <2> QED
    BY <2>1, <2>2 DEF RequestInv, NotYetTold, DroppedIsGone
<1>2. CASE ExtractTest
  <2>1. UNCHANGED <<s_pending, s_have_pending>>
    BY <1>2 DEF ExtractTest, dataVars, sharedVars
  <2>2. pc \notin Reports /\ pc' \notin Reports
    BY <1>2 DEF ExtractTest, Consume
  <2>3. frame' \in Age /\ after' \in {"test", "deadline"}
    BY <1>2 DEF RequestInv, ExtractTest, Consume, Oldest, Age
  <2> QED
    BY <2>1, <2>2, <2>3 DEF RequestInv, NotYetTold, DroppedIsGone
<1>3. CASE DropUnframed \/ ConsumeLoad \/ ConsumeStore
  <2>1. UNCHANGED <<s_pending, s_have_pending>>
    BY <1>3 DEF DropUnframed, ConsumeLoad, ConsumeStore, dataVars, sharedVars
  <2>2. pc \notin Reports /\ pc' \notin Reports
    BY <1>3 DEF RequestInv, DropUnframed, ConsumeLoad, ConsumeStore, Consume
  <2>3. frame' \in Age /\ after' \in {"test", "deadline"}
    BY <1>3 DEF RequestInv, DropUnframed, ConsumeLoad, ConsumeStore, Consume, Age
  <2> QED
    BY <2>1, <2>2, <2>3 DEF RequestInv, NotYetTold, DroppedIsGone
<1> QED
  BY <1>1, <1>2, <1>3

LEMMA FrameKeepsRequest ==
    ASSUME RequestInv,
           Request \/ NewRequest \/ Response \/ RspClear \/ RspReport
             \/ Deadline \/ TimeoutReport \/ TimeoutClear
    PROVE  /\ RequestInv'
           /\ s_pending.dropped /\ s_pending'.dropped => s_pending'.told = s_pending.told
<1> USE DEF RequestInv, NotYetTold, DroppedIsGone
<1>1. CASE Request
  <2>1. CASE s_have_pending
    <3>1. s_pending.told = 0 /\ Tell
      BY <1>1, <2>1 DEF Request
    <3> QED
      BY <1>1, <2>1, <3>1, TellEffect DEF Request, regVars, sharedVars
  <2>2. CASE ~s_have_pending
    BY <1>1, <2>2 DEF Request, regVars, sharedVars
  <2> QED
    BY <2>1, <2>2
<1>2. CASE NewRequest
  <2>1. /\ s_pending' \in Transaction /\ s_pending'.told = 0 /\ s_pending'.dropped = FALSE
    BY <1>2 DEF NewRequest, Transaction
  <2> QED
    BY <1>2, <2>1 DEF NewRequest, regVars
<1>3. CASE Response \/ Deadline
  <2>1. /\ s_pending' = s_pending /\ s_have_pending' = s_have_pending /\ frame' = frame
               /\ after' = after
        /\ pc \in {"response", "deadline"}
        /\ pc' \in IF s_have_pending THEN {"rspClear", "timeout", "wait"} ELSE {"consume", "wait"}
    BY <1>3 DEF Response, Deadline, dataVars, sharedVars, regVars
  <2> QED
    BY <2>1
<1>5. CASE RspClear \/ TimeoutClear
  <2>1. /\ s_pending' = s_pending /\ s_have_pending' = FALSE /\ frame' = frame /\ after' = after
        /\ (pc = "rspClear" /\ pc' = "rspReport") \/ pc' = "wait"
    BY <1>5 DEF RspClear, TimeoutClear, dataVars, sharedVars, regVars
  <2> QED
    BY <2>1
<1>4. CASE RspReport \/ TimeoutReport
  <2>1. s_pending.told = 0 /\ Tell
    BY <1>4 DEF RspReport, TimeoutReport
  <2>2. s_pending.dropped = FALSE
    BY <1>4 DEF RspReport, TimeoutReport, Transaction
  <2>3. /\ s_have_pending' = s_have_pending /\ frame' = frame /\ after' = after
        /\ (pc = "rspReport" /\ pc' = "consume" /\ ~s_have_pending) \/ pc' = "expire"
    BY <1>4 DEF RspReport, TimeoutReport, regVars, sharedVars
  <2> QED
    BY <2>1, <2>2, <2>3, TellEffect
<1> QED
  BY <1>1, <1>2, <1>3, <1>4, <1>5

LEMMA SettersKeepRequest ==
    ASSUME RequestInv, HttpdTask
    PROVE  RequestInv' /\ s_pending'.told = s_pending.told
<1> USE DEF RequestInv, NotYetTold, DroppedIsGone
<1>1. CASE PostConfig \/ NextSetter \/ SetFails \/ ResetBlob
  <2>1. UNCHANGED <<s_pending, s_have_pending, pc, frame, after>>
    BY <1>1 DEF PostConfig, NextSetter, SetFails, ResetBlob, dataVars, sharedVars, taskVars, regVars
  <2> QED
    BY <2>1
<1>2. CASE SetHardware \/ FlushInput
  <2>1. PICK a \in Age : s_pending' = [s_pending EXCEPT !.age = a]
    BY <1>2 DEF SetHardware, FlushInput, Transaction, Age
  <2>2. frame' \in Age /\ after' = after /\ s_have_pending' = s_have_pending /\ pc' = pc
    BY <1>2 DEF SetHardware, FlushInput, Age, sharedVars
  <2> QED
    BY <2>1, <2>2, AgeEffect
<1>3. CASE ResetPending
  <2> DEFINE d == s_pending.dropped \/ (pc \in Quiet /\ s_have_pending)
  <2>1. d \in BOOLEAN /\ s_pending' = [s_pending EXCEPT !.dropped = d]
    BY <1>3 DEF ResetPending, Transaction
  <2>2. d => pc \notin {"rspClear", "rspReport", "timeout"}
    BY DEF Quiet
  <2>3. s_have_pending' = FALSE /\ pc' = pc /\ frame' = frame /\ after' = after
    BY <1>3 DEF ResetPending, taskVars, regVars
  <2> HIDE DEF d
  <2>4. s_pending' \in Transaction /\ s_pending'.told = s_pending.told /\ s_pending'.dropped = d
    BY <2>1, DropEffect
  <2> QED
    BY <2>2, <2>3, <2>4
<1> QED
  BY <1>1, <1>2, <1>3 DEF HttpdTask

LEMMA RequestStep ==
    ASSUME RequestInv, [Next]_vars
    PROVE  /\ RequestInv'
           /\ s_pending.dropped /\ s_pending'.dropped => s_pending'.told = s_pending.told
<1>1. CASE Arrive \/ SnifferTask
  BY <1>1, ParsingKeepsRequest, FrameKeepsRequest DEF SnifferTask
<1>2. CASE HttpdTask
  BY <1>2, SettersKeepRequest
<1>3. CASE UNCHANGED vars
  BY <1>3 DEF vars, dataVars, sharedVars, regVars, RequestInv, NotYetTold, DroppedIsGone
<1> QED
  BY <1>1, <1>2, <1>3 DEF Next

LEMMA RequestInvariant == Spec => []RequestInv
<1>1. Init => RequestInv
  <2> SUFFICES ASSUME Init PROVE RequestInv
    OBVIOUS
  <2>1. s_pending \in Transaction /\ s_pending.told = 0 /\ s_pending.dropped = FALSE
    BY DEF Init, Transaction, Age
  <2>2. s_have_pending = FALSE /\ pc = "wait" /\ frame \in Age /\ after = "test"
    BY DEF Init, Age
  <2>3. s_pending.told <= 1 /\ NotYetTold
    BY <2>1, <2>2 DEF NotYetTold
  <2>4. DroppedIsGone
    BY <2>1, Zenon DEF DroppedIsGone
  <2> QED
    BY <2>1, <2>2, <2>3, <2>4 DEF RequestInv
<1> QED
  BY <1>1, RequestStep, PTL DEF Spec

\* No interleaving of the setters with process_frame and the timeout makes a
\* request be reported twice.
THEOREM ToldAtMostOnce == Spec => []ReportedAtMostOnce
<1>1. RequestInv => ReportedAtMostOnce
  BY DEF RequestInv, ReportedAtMostOnce
<1> QED
  BY <1>1, RequestInvariant, PTL

\* A request that a setter dropped outside process_frame and the timeout is
\* never reported afterwards.
THEOREM DroppedIsSilent == Spec => DroppedStaysSilent
<1>1. RequestInv /\ [Next]_vars =>
        [s_pending.dropped /\ s_pending'.dropped => s_pending'.told = s_pending.told]_vars
  BY RequestStep
<1> QED
  BY <1>1, RequestInvariant, PTL DEF Spec, DroppedStaysSilent

-----------------------------------------------------------------------------
(***************************************************************************)
(* The length of the blob                                                  *)
(***************************************************************************)
\* What the sniffer task has in registers is what the variable holds, and what
\* it is about to store fits the buffer.
RegistersAgree ==
    /\ s_blob_len <= MaxBlob /\ pc # "wild"
    /\ pc \in {"read", "added", "shrink"} => off = s_blob_len
    /\ pc = "add" => s_blob_len + n <= MaxBlob
    /\ pc = "added" => off + n <= MaxBlob
    /\ pc = "emit" => blob_start < s_blob_len
    /\ pc = "drop" => s_blob_len >= 1

LengthInv ==
    /\ s_blob_len \in Nat /\ off \in Nat /\ n \in Nat /\ blob_start \in Nat
    /\ after \in {"test", "deadline"} /\ raced \in BOOLEAN
    /\ pc = "shrink" => n < off
    /\ raced \/ RegistersAgree

LEMMA WrappedType == \A x \in Int : Wrapped(x) \in Nat
<1>1. WordSz \in Nat \ {0}
  BY ReconfigAssumption
<1>2. \A x \in Int, c \in Nat \ {0} : x % c \in Nat
  BY SMT
<1> QED
  BY <1>1, <1>2 DEF Wrapped

LEMMA WrappedSmall == \A x \in 0..MaxBlob : Wrapped(x) = x
<1>1. WordSz \in Nat \ {0} /\ MaxBlob \in Nat /\ MaxBlob < WordSz
  BY ReconfigAssumption
<1> QED
  BY <1>1, SmallMod DEF Wrapped

LEMMA ReceivingKeepsLength ==
    ASSUME LengthInv,
           Arrive \/ TakeEvent \/ DrainTest \/ DrainRead \/ AddLoad \/ AddStore \/ BurstTest
               \/ BurstEmit
    PROVE  LengthInv'
<1> USE DEF LengthInv, RegistersAgree
<1>0. MaxBlob \in Nat /\ MaxBlob < WordSz
  BY ReconfigAssumption
<1>1. CASE Arrive
  BY <1>1 DEF Arrive, sharedVars, regVars, httpdVars
<1>2. CASE TakeEvent
  BY <1>0, <1>2 DEF TakeEvent, httpdVars
<1>3. CASE DrainTest
  BY <1>3 DEF DrainTest, dataVars, sharedVars, httpdVars
<1>4. CASE DrainRead
  <2>1. UNCHANGED <<s_blob_len, off, blob_start, after, raced>> /\ pc = "read"
    BY <1>4 DEF DrainRead, sharedVars, httpdVars
  <2>2. \/ pc' = "burst" /\ n' = n
        \/ pc' = "add" /\ n' \in Nat /\ n' <= MaxBlob - off
    BY <1>0, <1>4 DEF DrainRead, Room
  <2> QED
    BY <1>0, <2>1, <2>2
<1>5. CASE AddLoad
  BY <1>5 DEF AddLoad, dataVars, sharedVars, httpdVars
<1>6. CASE AddStore
  <2>1. UNCHANGED <<blob_start, after, raced>> /\ pc = "added" /\ pc' = "drain" /\ off' = 0
            /\ n' = 0
        /\ s_blob_len' = Wrapped(off + n)
    BY <1>6 DEF AddStore, httpdVars
  <2>2. Wrapped(off + n) \in Nat /\ (off + n <= MaxBlob => Wrapped(off + n) = off + n)
    BY <1>0, WrappedType, WrappedSmall
  <2> QED
    BY <2>1, <2>2
<1>7. CASE BurstTest
  BY <1>7 DEF BurstTest, dataVars, sharedVars, httpdVars
<1>8. CASE BurstEmit
  <2>1. UNCHANGED <<s_blob_len, off, n, after, raced>> /\ pc = "emit" /\ blob_start' = 0
        /\ pc' = IF blob_start + Wrapped(s_blob_len - blob_start) <= MaxBlob THEN "test" ELSE "wild"
    BY <1>8 DEF BurstEmit, dataVars, sharedVars, httpdVars
  <2>2. CASE raced
    BY <2>1, <2>2
  <2>3. CASE RegistersAgree
    <3>1. blob_start < s_blob_len /\ s_blob_len <= MaxBlob
      BY <2>1, <2>3
    <3>2. Wrapped(s_blob_len - blob_start) = s_blob_len - blob_start
      BY <1>0, <3>1, WrappedSmall
    <3>3. pc' = "test"
      BY <2>1, <3>1, <3>2
    <3> QED
      BY <2>1, <3>3, <2>3
  <2> QED
    BY <2>2, <2>3
<1> QED
  BY <1>1, <1>2, <1>3, <1>4, <1>5, <1>6, <1>7, <1>8

LEMMA ExtractingKeepsLength ==
    ASSUME LengthInv, ExtractTest \/ DropUnframed \/ ConsumeLoad \/ ConsumeStore
    PROVE  LengthInv'
<1> USE DEF LengthInv, RegistersAgree
<1>0. MaxBlob \in Nat /\ MaxBlob < WordSz /\ MinFrame \in Nat \ {0}
  BY ReconfigAssumption
<1>1. CASE ExtractTest
  <2>1. UNCHANGED <<s_blob_len, off, blob_start, raced>> /\ pc = "test"
    BY <1>1 DEF ExtractTest, dataVars, sharedVars, httpdVars
  <2>2. \/ pc' = "deadline" /\ UNCHANGED <<n, after>>
        \/ s_blob_len > MaxBlob /\ pc' = "wild" /\ UNCHANGED <<n, after>>
        \/ s_blob_len \in MinFrame..MaxBlob /\ pc' = "drop" /\ UNCHANGED <<n, after>>
        \/ \E start \in 1..(s_blob_len - 1) : Consume(start, "test")
        \/ \E flen \in MinFrame..s_blob_len :
             n' = flen /\ after' = "test" /\ pc' \in {"request", "response", "consume"}
    BY <1>1, Zenon DEF ExtractTest
  <2>3. n' \in Nat /\ after' \in {"test", "deadline"}
    BY <1>0, <2>2 DEF Consume
  <2>4. \/ pc' \in {"deadline", "consume", "request", "response"}
        \/ pc' = "wild" /\ s_blob_len > MaxBlob
        \/ pc' = "drop" /\ s_blob_len >= 1
    BY <1>0, <2>2 DEF Consume
  <2>5. pc' # "shrink" /\ (RegistersAgree => RegistersAgree')
    BY <1>0, <2>1, <2>4
  <2> QED
    BY <2>1, <2>3, <2>5
<1>2. CASE DropUnframed
  <2>1. UNCHANGED <<s_blob_len, off, blob_start, raced>> /\ pc' = "consume" /\ after' = "deadline"
        /\ n' = Wrapped(s_blob_len - 1)
    BY <1>2 DEF DropUnframed, Consume, dataVars, sharedVars, httpdVars
  <2>2. n' \in Nat
    BY <2>1, WrappedType
  <2> QED
    BY <2>1, <2>2
<1>3. CASE ConsumeLoad
  BY <1>3 DEF ConsumeLoad, sharedVars, httpdVars
<1>4. CASE ConsumeStore
  <2>1. UNCHANGED <<blob_start, raced>> /\ pc' \in {"test", "deadline"} /\ off' = 0 /\ n' = 0
        /\ after' = "test"
    BY <1>4 DEF ConsumeStore, httpdVars
  <2>2. \/ s_blob_len' = 0
        \/ pc = "shrink" /\ s_blob_len' \in {off - n, Wrapped(s_blob_len - n)}
    BY <1>4 DEF ConsumeStore
  <2>3. s_blob_len' \in Nat
    BY <2>2, WrappedType
  <2>4. RegistersAgree => s_blob_len' <= MaxBlob
    <3> SUFFICES ASSUME RegistersAgree, pc = "shrink" PROVE s_blob_len' <= MaxBlob
      BY <1>0, <2>2
    <3>1. off = s_blob_len /\ n < off /\ off <= MaxBlob
      OBVIOUS
    <3>2. s_blob_len - n \in 0..MaxBlob
      BY <1>0, <3>1
    <3>3. Wrapped(s_blob_len - n) = s_blob_len - n
      BY <3>2, WrappedSmall
    <3> QED
      BY <1>0, <2>2, <3>1, <3>2, <3>3
  <2> QED
    BY <2>1, <2>3, <2>4
<1> QED
  BY <1>1, <1>2, <1>3, <1>4

LEMMA RequestKeepsLength ==
    ASSUME LengthInv,
           Request \/ NewRequest \/ Response \/ RspClear \/ RspReport
             \/ Deadline \/ TimeoutReport \/ TimeoutClear
    PROVE  LengthInv'
<1>1. UNCHANGED <<s_blob_len, regVars, raced>>
  BY DEF Request, NewRequest, Response, RspClear, RspReport, Deadline, TimeoutReport, TimeoutClear,
         dataVars, sharedVars, httpdVars
<1>2. pc' \in {"newRequest", "consume", "rspClear", "rspReport", "wait", "timeout", "expire"}
  BY DEF Request, NewRequest, Response, RspClear, RspReport, Deadline, TimeoutReport, TimeoutClear
<1> QED
  BY <1>1, <1>2 DEF LengthInv, RegistersAgree, regVars

LEMMA SettersKeepLength ==
    ASSUME LengthInv, HttpdTask
    PROVE  LengthInv'
<1>1. CASE ResetBlob
  <2>1. UNCHANGED <<pc, off, n, blob_start, after>> /\ s_blob_len' = 0 /\ raced' = (pc \notin Quiet)
    BY <1>1 DEF ResetBlob, taskVars, regVars
  <2>2. raced' \in BOOLEAN
    BY <2>1, Zenon
  <2>3. CASE pc \in Quiet
    BY <2>1, <2>2, <2>3, ReconfigAssumption DEF LengthInv, RegistersAgree, Quiet
  <2>4. CASE pc \notin Quiet
    <3>1. raced' = TRUE
      BY <2>1, <2>4, Zenon
    <3> QED
      BY <2>1, <3>1 DEF LengthInv
  <2> QED
    BY <2>3, <2>4
<1>2. CASE PostConfig \/ NextSetter \/ SetFails \/ SetHardware \/ FlushInput \/ ResetPending
  <2>1. UNCHANGED <<pc, s_blob_len, off, n, blob_start, after, raced>>
    BY <1>2 DEF PostConfig, NextSetter, SetFails, SetHardware, FlushInput, ResetPending,
                dataVars, sharedVars, taskVars, regVars
  <2> QED
    BY <2>1 DEF LengthInv, RegistersAgree
<1> QED
  BY <1>1, <1>2 DEF HttpdTask

LEMMA LengthInvariant == Spec => []LengthInv
<1>1. Init => LengthInv
  <2> SUFFICES ASSUME Init PROVE LengthInv
    OBVIOUS
  <2>1. /\ s_blob_len = 0 /\ pc = "wait" /\ off = 0 /\ n = 0 /\ blob_start = 0
        /\ after = "test" /\ raced = FALSE
    BY DEF Init
  <2>2. RegistersAgree /\ {s_blob_len, off, n, blob_start} \subseteq Nat
    BY <2>1, ReconfigAssumption DEF RegistersAgree
  <2> QED
    BY <2>1, <2>2, Zenon DEF LengthInv
<1>2. LengthInv /\ [Next]_vars => LengthInv'
  <2> SUFFICES ASSUME LengthInv, [Next]_vars PROVE LengthInv'
    OBVIOUS
  <2>1. CASE Arrive \/ SnifferTask
    BY <2>1, ReceivingKeepsLength, ExtractingKeepsLength, RequestKeepsLength DEF SnifferTask
  <2>2. CASE HttpdTask
    BY <2>2, SettersKeepLength
  <2>3. CASE UNCHANGED vars
    BY <2>3 DEF vars, dataVars, sharedVars, regVars, httpdVars, LengthInv, RegistersAgree
  <2> QED
    BY <2>1, <2>2, <2>3 DEF Next
<1> QED
  BY <1>1, <1>2, PTL DEF Spec

\* Unless a setter's reset fell between a load and a store of the sniffer task,
\* s_blob_len stays within the buffer and no length derived from it leaves it.
THEOREM LengthsStayInBounds == Spec => []LengthInBounds
<1>1. LengthInv => LengthInBounds
  BY DEF LengthInv, RegistersAgree, LengthInBounds
<1> QED
  BY <1>1, LengthInvariant, PTL

-----------------------------------------------------------------------------
(***************************************************************************)
(* The clean baseline                                                      *)
(***************************************************************************)
AgesAfter(knob) == IF knob = "baud" THEN {"fresh"} ELSE {"fresh", "late"}

\* Everything that is or will be parsed has one of the ages: the ring, the
\* blob, bytes read behind its end but not counted yet, a frame being handled.
RingOnly(ages) == \A i \in 1..Len(rx) : rx[i] \in ages
BytesOnly(ages) ==
    /\ RingOnly(ages)
    /\ \A i \in 1..s_blob_len : s_blob_buf[i] \in ages
    /\ pc \in {"add", "added"} =>
         \A i \in (s_blob_len + 1)..(s_blob_len + n) : s_blob_buf[i] \in ages
    /\ pc \in {"request", "newRequest"} => frame \in ages
PendingOnly(ages) == s_have_pending => s_pending.age \in ages

\* What a setter has achieved after each of its steps.
SetterProgress ==
    /\ hpc \notin {"idle", "next"} => baseline = "none"
    /\ hpc = "set" /\ FlushesFirst(Head(todo)) => RingOnly({"fresh"})
    /\ hpc = "blob" => RingOnly(AgesAfter(Head(todo)))
    /\ hpc = "pending" /\ ~raced => BytesOnly(AgesAfter(Head(todo)))
    /\ Settled /\ ~raced => BytesOnly(AgesAfter(baseline)) /\ PendingOnly(AgesAfter(baseline))

CleanInv == rx \in Seq(Age) /\ RequestInv /\ LengthInv /\ SetterProgress

\* The ages a setter may leave: always fresh, possibly late.
BaselineAges == {{"fresh"}, {"fresh", "late"}}

LEMMA OldestOf == \A S : Oldest(S) \in S \cup {"fresh"}
  BY DEF Oldest

LEMMA AgedRing ==
    ASSUME rx \in Seq(Age), SetHardware
    PROVE  rx' \in Seq(Age) /\ (RingOnly({"fresh"}) => RingOnly({"fresh", "late"})')
<1> DEFINE aged(a) == IF a = "fresh" THEN "late" ELSE a
<1>1. rx' = [i \in 1..Len(rx) |-> aged(rx[i])]
  BY DEF SetHardware
<1>2. \A i \in 1..Len(rx) : aged(rx[i]) \in Age
  BY DEF Age
<1>3. aged("fresh") = "late"
  OBVIOUS
<1> HIDE DEF aged
<1>4. rx' \in Seq(Age) /\ Len(rx') = Len(rx)
  BY <1>1, <1>2
<1> QED
  BY <1>1, <1>3, <1>4 DEF RingOnly

\* The ring gains only fresh bytes and loses some to the sniffer task.
LEMMA RingStep ==
    ASSUME rx \in Seq(Age), NEW ages \in BaselineAges, Arrive \/ SnifferTask
    PROVE  rx' \in Seq(Age) /\ (RingOnly(ages) => RingOnly(ages)')
<1> USE DEF RingOnly
<1>1. CASE Arrive
  <2>1. rx' = Append(rx, "fresh") /\ "fresh" \in Age /\ "fresh" \in ages
    BY <1>1 DEF Arrive, Age, BaselineAges
  <2> QED
    BY <2>1
<1>2. CASE rx' = rx \/ rx' = <<>>
  <2>1. CASE rx' = rx
    BY <2>1
  <2>2. CASE rx' = <<>>
    <3>1. rx' \in Seq(Age) /\ Len(rx') = 0
      BY <2>2
    <3> QED
      BY <3>1
  <2> QED
    BY <1>2, <2>1, <2>2
<1>3. CASE DrainRead
  <2>1. CASE rx = <<>>
    BY <1>3, <2>1 DEF DrainRead
  <2>2. CASE rx # <<>>
    <3>1. PICK got \in 1..Len(rx) : rx' = SubSeq(rx, got + 1, Len(rx))
      BY <1>3, <2>2 DEF DrainRead
    <3> QED
      BY <3>1
  <2> QED
    BY <2>1, <2>2
<1>4. CASE SnifferTask /\ ~DrainRead
  <2>1. rx' = rx \/ rx' = <<>>
    BY <1>4 DEF SnifferTask, dataVars, TakeEvent, DrainTest, AddLoad, AddStore, BurstTest,
        BurstEmit, ExtractTest, DropUnframed, ConsumeLoad, ConsumeStore, Request, NewRequest,
        Response, RspClear, RspReport, Deadline, TimeoutReport, TimeoutClear
  <2> QED
    BY <2>1, <1>2
<1> QED
  BY <1>1, <1>3, <1>4

LEMMA SameBytes ==
    ASSUME NEW ages \in BaselineAges, BytesOnly(ages), RingOnly(ages)', s_blob_buf' = s_blob_buf,
           s_blob_len' = s_blob_len \/ s_blob_len' = 0, pc' \notin {"add", "added"},
           pc' \in {"request", "newRequest"} => frame' \in ages
    PROVE  BytesOnly(ages)'
  BY DEF BytesOnly

\* Receiving puts fresh bytes behind those of the blob and counts what it put.
LEMMA ReceivingKeepsBytes ==
    ASSUME rx \in Seq(Age), LengthInv, RegistersAgree, NEW ages \in BaselineAges, BytesOnly(ages),
           Arrive \/ TakeEvent \/ DrainTest \/ DrainRead \/ AddLoad \/ AddStore \/ BurstTest
               \/ BurstEmit
    PROVE  BytesOnly(ages)'
<1>0. RingOnly(ages) /\ RingOnly(ages)'
  BY RingStep DEF BytesOnly, SnifferTask
<1>1. CASE Arrive
  BY <1>0, <1>1 DEF Arrive, BytesOnly, sharedVars, regVars
<1>2. CASE TakeEvent \/ DrainTest \/ BurstTest \/ BurstEmit
  <2>1. s_blob_buf' = s_blob_buf /\ (s_blob_len' = s_blob_len \/ s_blob_len' = 0)
    BY <1>2 DEF TakeEvent, DrainTest, BurstTest, BurstEmit, dataVars, sharedVars
  <2>2. pc' \notin {"add", "added", "request", "newRequest"}
    BY <1>2 DEF TakeEvent, DrainTest, BurstTest, BurstEmit
  <2> QED
    BY <1>0, <2>1, <2>2, SameBytes
<1>3. CASE DrainRead
  <2>0. UNCHANGED <<s_blob_len, frame>> /\ off = s_blob_len /\ pc = "read"
    BY <1>3 DEF DrainRead, sharedVars, RegistersAgree
  <2>1. CASE rx = <<>>
    <3>1. s_blob_buf' = s_blob_buf /\ pc' = "burst"
      BY <1>3, <2>1 DEF DrainRead
    <3> QED
      BY <1>0, <2>0, <3>1, SameBytes
  <2>2. CASE rx # <<>>
    <3>1. PICK got \in 1..Len(rx) :
            /\ got <= MaxBlob - off /\ n' = got /\ pc' = "add"
            /\ s_blob_buf' = [i \in 1..MaxBlob |->
                 IF i - off \in 1..got THEN rx[i - off] ELSE s_blob_buf[i]]
      BY <1>3, <2>2 DEF DrainRead, Room
    <3>2. \A i \in 1..s_blob_len : s_blob_buf'[i] = s_blob_buf[i]
      BY <2>0, <3>1, ReconfigAssumption DEF LengthInv, RegistersAgree
    <3>3. \A i \in (s_blob_len + 1)..(s_blob_len + got) :
            s_blob_buf'[i] = rx[i - off] /\ i - off \in 1..Len(rx)
      BY <2>0, <3>1, ReconfigAssumption DEF LengthInv
    <3> QED
      BY <1>0, <2>0, <3>1, <3>2, <3>3 DEF BytesOnly, RingOnly
  <2> QED
    BY <2>1, <2>2
<1>4. CASE AddLoad
  BY <1>0, <1>4 DEF AddLoad, BytesOnly, dataVars, sharedVars
<1>5. CASE AddStore
  <2>1. UNCHANGED <<s_blob_buf, frame>> /\ pc = "added" /\ pc' = "drain"
            /\ s_blob_len' = Wrapped(off + n)
    BY <1>5 DEF AddStore
  <2>2. s_blob_len' = s_blob_len + n
    BY <2>1, WrappedSmall, ReconfigAssumption DEF LengthInv, RegistersAgree
  <2> QED
    BY <1>0, <2>1, <2>2 DEF BytesOnly, LengthInv
<1> QED
  BY <1>1, <1>2, <1>3, <1>4, <1>5

\* A frame is made of blob bytes; consuming moves the rest of them up.
LEMMA ExtractingKeepsBytes ==
    ASSUME rx \in Seq(Age), LengthInv, RegistersAgree, NEW ages \in BaselineAges, BytesOnly(ages),
           ExtractTest \/ DropUnframed \/ ConsumeLoad \/ ConsumeStore
    PROVE  BytesOnly(ages)'
<1>0. RingOnly(ages)' /\ MaxBlob \in Nat /\ "fresh" \in ages
  <2>1. RingOnly(ages)'
    BY RingStep DEF BytesOnly, SnifferTask
  <2> QED
    BY <2>1, ReconfigAssumption DEF BaselineAges
<1>1. CASE ExtractTest
  <2>1. UNCHANGED <<s_blob_buf, s_blob_len>>
    BY <1>1 DEF ExtractTest, dataVars, sharedVars
  <2>2. pc' \notin {"add", "added"}
    BY <1>1 DEF ExtractTest, Consume
  <2>3. CASE pc' \notin {"request", "newRequest"}
    BY <1>0, <2>1, <2>2, <2>3, SameBytes
  <2>4. CASE pc' \in {"request", "newRequest"}
    <3>1. PICK flen \in MinFrame..s_blob_len : frame' = Oldest({s_blob_buf[i] : i \in 1..flen})
      BY <1>1, <2>4, Zenon DEF ExtractTest, Consume
    <3>2. flen <= s_blob_len /\ flen \in Nat
      BY ReconfigAssumption, <3>1 DEF LengthInv
    <3>3. \A i \in 1..flen : s_blob_buf[i] \in ages
      BY <3>2 DEF BytesOnly, LengthInv
    <3>4. {s_blob_buf[i] : i \in 1..flen} \subseteq ages
      BY <3>3
    <3>5. frame' \in ages
      BY <1>0, <3>1, <3>4, OldestOf
    <3> QED
      BY <1>0, <2>1, <2>2, <3>5, SameBytes
  <2> QED
    BY <2>3, <2>4
<1>2. CASE DropUnframed
  <2>1. UNCHANGED <<s_blob_buf, s_blob_len>> /\ pc' = "consume"
    BY <1>2 DEF DropUnframed, Consume, dataVars, sharedVars
  <2> QED
    BY <1>0, <2>1, SameBytes
<1>3. CASE ConsumeLoad
  <2>1. s_blob_len' = s_blob_len /\ pc' \in {"zero", "shrink"}
    BY <1>3 DEF ConsumeLoad, sharedVars
  <2>2. CASE n >= s_blob_len
    BY <1>0, <1>3, <2>1, <2>2, SameBytes DEF ConsumeLoad
  <2>3. CASE ~(n >= s_blob_len)
    <3>1. s_blob_buf' = [i \in 1..MaxBlob |->
            IF i + n <= s_blob_len THEN s_blob_buf[i + n] ELSE s_blob_buf[i]]
      BY <1>3, <2>3 DEF ConsumeLoad
    <3>2. \A i \in 1..s_blob_len : s_blob_buf'[i] \in ages
      BY <1>0, <3>1 DEF BytesOnly, LengthInv, RegistersAgree
    <3> QED
      BY <1>0, <2>1, <3>2 DEF BytesOnly
  <2> QED
    BY <2>2, <2>3
<1>4. CASE ConsumeStore
  <2>1. s_blob_buf' = s_blob_buf /\ pc' \in {"test", "deadline"}
    BY <1>4 DEF ConsumeStore, LengthInv
  <2>2. CASE s_blob_len' = 0
    BY <1>0, <2>1, <2>2, SameBytes
  <2>3. CASE pc = "shrink" /\ s_blob_len' \in {off - n, Wrapped(s_blob_len - n)}
    <3>1. off = s_blob_len /\ n < off /\ s_blob_len - n \in 0..MaxBlob
      BY <1>0, <2>3 DEF LengthInv, RegistersAgree
    <3>2. s_blob_len' = s_blob_len - n
      BY <2>3, <3>1, WrappedSmall
    <3> QED
      BY <1>0, <2>1, <3>1, <3>2 DEF BytesOnly, LengthInv
  <2> QED
    BY <1>4, <2>2, <2>3 DEF ConsumeStore
<1> QED
  BY <1>1, <1>2, <1>3, <1>4

LEMMA RequestKeepsBytes ==
    ASSUME rx \in Seq(Age), NEW ages \in BaselineAges, BytesOnly(ages),
           Request \/ NewRequest \/ Response \/ RspClear \/ RspReport
             \/ Deadline \/ TimeoutReport \/ TimeoutClear
    PROVE  BytesOnly(ages)'
<1>1. UNCHANGED <<rx, s_blob_buf, s_blob_len, regVars>>
  BY DEF Request, NewRequest, Response, RspClear, RspReport, Deadline, TimeoutReport, TimeoutClear,
         dataVars, sharedVars
<1>2. pc' \in {"newRequest", "consume", "rspClear", "rspReport", "wait", "timeout", "expire"}
      /\ (pc' = "newRequest" => pc = "request")
  BY DEF Request, NewRequest, Response, RspClear, RspReport, Deadline, TimeoutReport, TimeoutClear
<1> QED
  BY <1>1, <1>2 DEF BytesOnly, RingOnly, regVars

\* Only a request frame becomes the pending request.
LEMMA SnifferKeepsPending ==
    ASSUME RequestInv, NEW ages \in BaselineAges, BytesOnly(ages), PendingOnly(ages),
           Arrive \/ SnifferTask
    PROVE  PendingOnly(ages)'
<1> USE DEF PendingOnly
<1>1. CASE NewRequest
  BY <1>1 DEF NewRequest, BytesOnly
<1>2. CASE Request \/ RspReport \/ TimeoutReport
  <2>1. s_have_pending' = s_have_pending /\ (s_pending' = s_pending \/ Tell)
    BY <1>2 DEF Request, RspReport, TimeoutReport, sharedVars
  <2>2. s_pending'.age = s_pending.age
    BY <2>1 DEF Tell, RequestInv, Transaction
  <2> QED
    BY <2>1, <2>2
<1>3. CASE (Arrive \/ SnifferTask) /\ ~(NewRequest \/ Request \/ RspReport \/ TimeoutReport)
  <2>1. s_pending' = s_pending /\ (s_have_pending' = s_have_pending \/ ~s_have_pending')
    BY <1>3, Zenon DEF Arrive, SnifferTask, dataVars, sharedVars, TakeEvent, DrainTest, DrainRead,
           AddLoad,
        AddStore, BurstTest, BurstEmit, ExtractTest, DropUnframed, ConsumeLoad, ConsumeStore,
        Response, RspClear, Deadline, TimeoutClear
  <2> QED
    BY <2>1
<1> QED
  BY <1>1, <1>2, <1>3

LEMMA SnifferKeepsClean ==
    ASSUME CleanInv, Arrive \/ SnifferTask
    PROVE  SetterProgress'
<1> USE DEF CleanInv
<1>0. UNCHANGED <<hpc, todo, baseline, raced>>
  BY DEF Arrive, SnifferTask, httpdVars, TakeEvent, DrainTest, DrainRead, AddLoad, AddStore,
         BurstTest,
      BurstEmit, ExtractTest, DropUnframed, ConsumeLoad, ConsumeStore, Request, NewRequest,
      Response, RspClear, RspReport, Deadline, TimeoutReport, TimeoutClear
<1>1. \A k : AgesAfter(k) \in BaselineAges
  BY DEF AgesAfter, BaselineAges
<1>2. {"fresh"} \in BaselineAges
  BY DEF BaselineAges
<1>3. \A ages \in BaselineAges : RingOnly(ages) => RingOnly(ages)'
  BY RingStep
<1>4. \A ages \in BaselineAges : ~raced /\ BytesOnly(ages) => BytesOnly(ages)'
  <2> SUFFICES ASSUME NEW ages \in BaselineAges, ~raced, BytesOnly(ages) PROVE BytesOnly(ages)'
    OBVIOUS
  <2>1. RegistersAgree
    BY Zenon DEF LengthInv
  <2> QED
    BY <2>1, ReceivingKeepsBytes, ExtractingKeepsBytes, RequestKeepsBytes DEF SnifferTask
<1>5. \A ages \in BaselineAges : BytesOnly(ages) /\ PendingOnly(ages) => PendingOnly(ages)'
  BY SnifferKeepsPending
<1>6. (hpc = "set" /\ FlushesFirst(Head(todo)) => RingOnly({"fresh"}))'
  BY <1>0, <1>2, <1>3 DEF SetterProgress, FlushesFirst
<1>7. (hpc = "blob" => RingOnly(AgesAfter(Head(todo))))'
  <2> SUFFICES ASSUME hpc' = "blob" PROVE RingOnly(AgesAfter(Head(todo)))'
    OBVIOUS
  <2>1. RingOnly(AgesAfter(Head(todo)))
    BY <1>0 DEF SetterProgress
  <2> QED
    BY <1>0, <1>1, <1>3, <2>1 DEF RingOnly, AgesAfter
<1>8. (hpc = "pending" /\ ~raced => BytesOnly(AgesAfter(Head(todo))))'
  <2> SUFFICES ASSUME hpc' = "pending", ~raced' PROVE BytesOnly(AgesAfter(Head(todo)))'
    OBVIOUS
  <2>1. ~raced /\ BytesOnly(AgesAfter(Head(todo)))
    BY <1>0 DEF SetterProgress
  <2> QED
    BY <1>0, <1>1, <1>4, <2>1 DEF BytesOnly, RingOnly, AgesAfter
<1>9. (Settled /\ ~raced => BytesOnly(AgesAfter(baseline)) /\ PendingOnly(AgesAfter(baseline)))'
  <2> SUFFICES ASSUME Settled', ~raced'
               PROVE  BytesOnly(AgesAfter(baseline))' /\ PendingOnly(AgesAfter(baseline))'
    OBVIOUS
  <2>1. ~raced /\ BytesOnly(AgesAfter(baseline)) /\ PendingOnly(AgesAfter(baseline))
    BY <1>0 DEF SetterProgress, Settled
  <2> QED
    BY <1>0, <1>1, <1>4, <1>5, <2>1 DEF BytesOnly, RingOnly, PendingOnly, AgesAfter
<1>10. (hpc \notin {"idle", "next"} => baseline = "none")'
  BY <1>0 DEF SetterProgress
<1> QED
  BY <1>6, <1>7, <1>8, <1>9, <1>10 DEF SetterProgress

LEMMA SettersGetClean ==
    ASSUME CleanInv, HttpdTask
    PROVE  rx' \in Seq(Age) /\ SetterProgress'
<1> USE DEF CleanInv
<1>1. CASE PostConfig \/ NextSetter \/ SetFails
  <2>1. UNCHANGED <<rx, s_blob_buf, s_blob_len, s_have_pending, s_pending, pc, n, frame, raced>>
    BY <1>1 DEF PostConfig, NextSetter, SetFails, dataVars, sharedVars, taskVars, regVars
  <2>2. CASE hpc' \in {"next", "idle"} /\ baseline' = baseline /\ (Settled' => Settled)
    <3>1. (Settled /\ ~raced => BytesOnly(AgesAfter(baseline)) /\ PendingOnly(AgesAfter(baseline)))'
      BY <2>1, <2>2 DEF SetterProgress, BytesOnly, RingOnly, PendingOnly, AgesAfter
    <3> QED
      BY <2>1, <2>2, <3>1 DEF SetterProgress
  <2>3. CASE hpc' = "flush" /\ baseline' = "none"
    BY <2>1, <2>3 DEF SetterProgress, Settled
  <2>4. CASE hpc' = "set" /\ todo' = todo /\ ~FlushesFirst(Head(todo)) /\ baseline' = "none"
    BY <2>1, <2>4 DEF SetterProgress, Settled, FlushesFirst
  <2>5. \/ hpc' \in {"next", "idle"} /\ baseline' = baseline /\ (Settled' => Settled)
        \/ hpc' = "flush" /\ baseline' = "none"
        \/ hpc' = "set" /\ todo' = todo /\ ~FlushesFirst(Head(todo)) /\ baseline' = "none"
    BY <1>1 DEF PostConfig, NextSetter, SetFails, Settled, SetterProgress
  <2> QED
    BY <2>1, <2>2, <2>3, <2>4, <2>5
<1>2. CASE SetHardware
  <2>1. /\ hpc = "set" /\ UNCHANGED <<todo, baseline>>
        /\ hpc' = IF FlushesFirst(Head(todo)) THEN "blob" ELSE "flush"
    BY <1>2 DEF SetHardware
  <2>2. rx' \in Seq(Age) /\ (RingOnly({"fresh"}) => RingOnly({"fresh", "late"})')
    BY <1>2, AgedRing
  <2>3. FlushesFirst(Head(todo)) => RingOnly({"fresh"}) /\ AgesAfter(Head(todo)) = {"fresh", "late"}
    BY <2>1 DEF SetterProgress, FlushesFirst, AgesAfter
  <2>4. (hpc = "blob" => RingOnly(AgesAfter(Head(todo))))'
    BY <2>1, <2>2, <2>3 DEF RingOnly, AgesAfter
  <2> QED
    BY <2>1, <2>2, <2>4 DEF SetterProgress, Settled
<1>3. CASE FlushInput
  <2>1. /\ hpc = "flush" /\ UNCHANGED <<todo, baseline>> /\ rx' = <<>>
        /\ hpc' \in {"set", "blob"}
    BY <1>3 DEF FlushInput
  <2>2. rx' \in Seq(Age) /\ Len(rx') = 0
    BY <2>1
  <2>3. RingOnly({"fresh"})' /\ RingOnly(AgesAfter(Head(todo)))'
    BY <2>2 DEF RingOnly
  <2> QED
    BY <2>1, <2>2, <2>3 DEF SetterProgress, Settled
<1>4. CASE ResetBlob
  <2>1. /\ hpc = "blob" /\ hpc' = "pending" /\ s_blob_len' = 0
        /\ UNCHANGED <<rx, s_blob_buf, pc, n, frame, todo, baseline>>
    BY <1>4 DEF ResetBlob, taskVars, regVars
  <2>2. ~raced' => pc \in Quiet
    BY <1>4, Zenon DEF ResetBlob
  <2>3. RingOnly(AgesAfter(Head(todo)))
    BY <2>1 DEF SetterProgress
  <2>4. pc \in Quiet => BytesOnly(AgesAfter(Head(todo)))'
    BY <2>1, <2>3 DEF BytesOnly, RingOnly, Quiet, AgesAfter
  <2> QED
    BY <2>1, <2>2, <2>4 DEF SetterProgress, Settled
<1>5. CASE ResetPending
  <2>1. /\ hpc = "pending" /\ hpc' = "next" /\ baseline' = Head(todo) /\ ~s_have_pending'
        /\ UNCHANGED <<rx, s_blob_buf, s_blob_len, pc, n, frame, raced>>
    BY <1>5 DEF ResetPending, taskVars, regVars
  <2>2. ~raced => BytesOnly(AgesAfter(Head(todo)))
    BY <2>1 DEF SetterProgress
  <2>3. (~raced => BytesOnly(AgesAfter(baseline)) /\ PendingOnly(AgesAfter(baseline)))'
    BY <2>1, <2>2 DEF BytesOnly, RingOnly, PendingOnly, AgesAfter
  <2> QED
    BY <2>1, <2>3 DEF SetterProgress
<1> QED
  BY <1>1, <1>2, <1>3, <1>4, <1>5 DEF HttpdTask

LEMMA CleanInvariant == Spec => []CleanInv
<1>1. Init => rx \in Seq(Age) /\ SetterProgress
  <2> SUFFICES ASSUME Init PROVE rx \in Seq(Age) /\ SetterProgress
    OBVIOUS
  <2>1. rx = <<>> /\ hpc = "idle" /\ baseline = "none"
    BY DEF Init
  <2> QED
    BY <2>1 DEF SetterProgress, Settled
<1>2. RequestInv /\ LengthInv /\ rx \in Seq(Age) /\ SetterProgress /\ [Next]_vars
        => (rx \in Seq(Age) /\ SetterProgress)'
  <2> SUFFICES ASSUME CleanInv, [Next]_vars PROVE (rx \in Seq(Age) /\ SetterProgress)'
    BY DEF CleanInv
  <2>1. CASE Arrive \/ SnifferTask
    <3>1. rx' \in Seq(Age)
      BY <2>1, RingStep DEF CleanInv, BaselineAges
    <3> QED
      BY <2>1, <3>1, SnifferKeepsClean
  <2>2. CASE HttpdTask
    BY <2>2, SettersGetClean
  <2>3. CASE UNCHANGED vars
    <3>1. UNCHANGED <<rx, s_blob_buf, s_blob_len, s_have_pending, s_pending, pc, n, frame, raced,
                      hpc, todo, baseline>>
      BY <2>3 DEF vars, dataVars, sharedVars, regVars, httpdVars
    <3> QED
      BY <3>1 DEF CleanInv, SetterProgress, Settled, BytesOnly, RingOnly, PendingOnly, AgesAfter
  <2> QED
    BY <2>1, <2>2, <2>3 DEF Next
<1> QED
  BY <1>1, <1>2, RequestInvariant, LengthInvariant, PTL DEF Spec, CleanInv

\* Unless its reset of s_blob_len fell between a load and a store of the
\* sniffer task, a setter that returned true leaves nothing from before its
\* flush to be parsed, whatever the two tasks did meanwhile and do afterwards.
THEOREM SettersLeaveCleanBaseline == Spec => []CleanUnlessRaced
<1>1. CleanInv => CleanUnlessRaced
  <2> SUFFICES ASSUME CleanInv, Settled, ~raced
               PROVE  NothingOlderThan(AgesAfter(baseline))
    BY DEF CleanUnlessRaced, AgesAfter
  <2>1. BytesOnly(AgesAfter(baseline)) /\ PendingOnly(AgesAfter(baseline))
    BY DEF CleanInv, SetterProgress
  <2>2. s_blob_len <= MaxBlob /\ s_blob_len \in Nat /\ MaxBlob \in Nat
    BY ReconfigAssumption, Zenon DEF CleanInv, LengthInv, RegistersAgree
  <2>3. \A i \in 1..(IF s_blob_len < MaxBlob THEN s_blob_len ELSE MaxBlob) :
          s_blob_buf[i] \in AgesAfter(baseline)
    BY <2>1, <2>2 DEF BytesOnly
  <2>4. Live \subseteq AgesAfter(baseline)
    BY <2>3, Zenon DEF Live
  <2>5. Range(rx) \subseteq AgesAfter(baseline)
    BY <2>1 DEF BytesOnly, RingOnly, Range, CleanInv
  <2> QED
    BY <2>1, <2>4, <2>5 DEF NothingOlderThan, PendingOnly
<1> QED
  BY <1>1, CleanInvariant, PTL

-----------------------------------------------------------------------------
(***************************************************************************)
(* The types                                                               *)
(***************************************************************************)
\* A wrapped length is noticed before any of these.
Parsing == {"drop", "consume", "request", "newRequest", "response", "rspClear", "rspReport"}

\* What the types of a step's registers and of the setter at hand need.
TypeInv ==
    /\ TypeOK
    /\ pc = "shrink" => n < off
    /\ pc = "read" => off < MaxBlob /\ s_blob_len <= off
    /\ pc = "add" => s_blob_len + n <= MaxBlob
    /\ pc = "added" => off + n <= MaxBlob
    /\ pc \in Parsing => s_blob_len <= MaxBlob
    /\ hpc \in {"set", "flush", "blob", "pending"} => todo # <<>>

\* The ranges that type the sniffer task's registers.
LEMMA SizesFit ==
    /\ MaxBlob \in Nat /\ MinFrame \in Nat \ {0} /\ WordSz \in Nat /\ RxSz \in Nat
    /\ 2 * MaxBlob < WordSz
  BY ReconfigAssumption

\* Arithmetic on size_t yields a word.
LEMMA WrappedWord == \A x \in Int : Wrapped(x) \in 0..(WordSz - 1)
<1>1. WordSz \in Nat \ {0}
  BY ReconfigAssumption
<1>2. \A x \in Int, c \in Nat \ {0} : x % c \in 0..(c - 1)
  BY SMT
<1> QED
  BY <1>1, <1>2 DEF Wrapped

\* The receive interrupt and the driver's ring.
LEMMA ReceivingTyped ==
    ASSUME TypeInv,
           Arrive \/ TakeEvent \/ DrainTest \/ DrainRead \/ AddLoad \/ AddStore
             \/ BurstTest \/ BurstEmit
    PROVE  TypeInv'
<1> USE DEF TypeInv, TypeOK, Parsing
<1> USE SizesFit
<1>1. CASE Arrive
  <2>1. "fresh" \in Age /\ rx \in Seq(Age)
    BY DEF Age
  <2>2. rx' \in Seq(Age) /\ Len(rx') = Len(rx) + 1
    BY <1>1, <2>1 DEF Arrive
  <2> QED
    BY <1>1, <2>2 DEF Arrive, sharedVars, regVars, httpdVars
<1>2. CASE TakeEvent
  <2>1. /\ rx' \in {rx, <<>>} /\ s_blob_len' \in {s_blob_len, 0}
               /\ blob_start' \in {blob_start, s_blob_len}
        /\ pc' \in {"drain", "test"}
        /\ UNCHANGED <<s_blob_buf, s_pending, s_have_pending, off, n, frame, after, httpdVars>>
    BY <1>2 DEF TakeEvent
  <2>2. rx' \in Seq(Age) /\ Len(rx') <= RxSz
    <3>1. CASE rx' = rx
      BY <3>1
    <3>2. CASE rx' = <<>>
      BY <3>2
    <3> QED
      BY <2>1, <3>1, <3>2
  <2>3. s_blob_len' \in 0..(WordSz - 1) /\ blob_start' \in 0..(WordSz - 1)
    BY <2>1
  <2> QED
    BY <2>1, <2>2, <2>3 DEF Quiet, httpdVars
<1>3. CASE DrainTest
  BY <1>3 DEF DrainTest, Quiet, dataVars, sharedVars, httpdVars
<1>4. CASE DrainRead
  <2>1. pc = "read" /\ off \in Nat /\ off < MaxBlob
        /\ UNCHANGED <<s_pending, sharedVars, off, blob_start, frame, after, httpdVars>>
    BY <1>4 DEF DrainRead
  <2>2. CASE pc' = "burst" /\ UNCHANGED <<rx, s_blob_buf, n>>
    BY <2>1, <2>2 DEF Quiet, sharedVars, httpdVars
  <2>3. ASSUME NEW got \in 1..Len(rx), got <= Room(off), n' = got, pc' = "add",
               s_blob_buf' = [i \in 1..MaxBlob |->
                 IF i - off \in 1..got THEN rx[i - off] ELSE s_blob_buf[i]],
               rx' = SubSeq(rx, got + 1, Len(rx))
        PROVE  TypeInv'
    <3>1. n' \in 0..(WordSz - 1) /\ s_blob_len + n' <= MaxBlob
      BY <2>1, <2>3 DEF Room
    <3>2. rx' \in Seq(Age) /\ Len(rx') <= RxSz
      BY <2>3
    <3>3. s_blob_buf' \in [1..MaxBlob -> Age]
      <4>1. \A i \in 1..MaxBlob : (IF i - off \in 1..got THEN rx[i - off]
                ELSE s_blob_buf[i]) \in Age
        BY <2>1, <2>3
      <4> QED
        BY <2>3, <4>1
    <3> QED
      BY <2>1, <2>3, <3>1, <3>2, <3>3 DEF sharedVars, httpdVars
  <2> QED
    BY <1>4, <2>2, <2>3 DEF DrainRead
<1>5. CASE AddLoad
  BY <1>5 DEF AddLoad, dataVars, sharedVars, httpdVars
<1>6. CASE AddStore
  <2>0. off + n \in Int
    OBVIOUS
  <2>1. Wrapped(off + n) \in 0..(WordSz - 1)
    BY <2>0, WrappedWord, Zenon
  <2> QED
    BY <1>6, <2>1 DEF AddStore, Quiet, httpdVars
<1>7. CASE BurstTest
  BY <1>7 DEF BurstTest, Quiet, dataVars, sharedVars, httpdVars
<1>8. CASE BurstEmit
  BY <1>8 DEF BurstEmit, Quiet, dataVars, sharedVars, httpdVars
<1> QED
  BY <1>1, <1>2, <1>3, <1>4, <1>5, <1>6, <1>7, <1>8

\* Frames and their removal from the blob.
LEMMA ExtractingTyped ==
    ASSUME TypeInv, ExtractTest \/ DropUnframed \/ ConsumeLoad \/ ConsumeStore
    PROVE  TypeInv'
<1> USE DEF TypeInv, TypeOK, Parsing
<1> USE SizesFit
<1>1. CASE ExtractTest
  <2>1. UNCHANGED <<rx, s_blob_buf, s_pending, s_blob_len, s_have_pending, off, blob_start,
            httpdVars>>
    BY <1>1 DEF ExtractTest, dataVars, sharedVars
  <2>2. /\ pc' \in {"deadline", "wild", "drop", "consume", "request", "response"}
        /\ n' \in 0..(WordSz - 1) /\ after' \in {"test", "deadline"}
        /\ pc' \in Parsing => s_blob_len <= MaxBlob
    <3>1. s_blob_len \in Nat /\ n \in 0..(WordSz - 1) /\ after \in {"test", "deadline"}
      OBVIOUS
    <3> HIDE DEF TypeInv, TypeOK
    <3>2. CASE s_blob_len \in MinFrame..MaxBlob
      <4>1. 1..s_blob_len \subseteq 0..(WordSz - 1) /\ s_blob_len <= MaxBlob
        BY <3>1, <3>2
      <4>2. \/ pc' \in {"drop", "deadline", "wild"} /\ UNCHANGED <<n, after>>
            \/ n' \in 1..s_blob_len /\ after' = "test"
                 /\ pc' \in {"consume", "request", "response"}
        <5>1. /\ 1..(s_blob_len - 1) \subseteq 1..s_blob_len
              /\ MinFrame..s_blob_len \subseteq 1..s_blob_len
          BY <3>1, SizesFit
        <5> QED
          BY <1>1, <3>2, <5>1, <4>1 DEF ExtractTest, Consume
      <4> QED
        BY <3>1, <4>1, <4>2
    <3>3. CASE s_blob_len \notin MinFrame..MaxBlob
      BY <1>1, <3>1, <3>3 DEF ExtractTest
    <3> QED
      BY <3>2, <3>3
  <2>3. frame' \in Age
    <3>1. \A S : Oldest(S) \in Age
      BY DEF Oldest, Age
    <3>2. frame \in Age
      OBVIOUS
    <3> HIDE DEF TypeInv, TypeOK, Parsing
    <3> QED
      BY <1>1, <3>1, <3>2 DEF ExtractTest, Consume
  <2> QED
    BY <2>1, <2>2, <2>3 DEF Quiet, httpdVars
<1>2. CASE DropUnframed
  <2>0. s_blob_len - 1 \in Int
    OBVIOUS
  <2>1. Wrapped(s_blob_len - 1) \in 0..(WordSz - 1)
    BY <2>0, WrappedWord, Zenon
  <2> QED
    BY <1>2, <2>1 DEF DropUnframed, Consume, dataVars, sharedVars, httpdVars
<1>3. CASE ConsumeLoad
  <2>1. /\ UNCHANGED <<rx, s_pending, s_have_pending, s_blob_len, n, blob_start, frame, after,
               httpdVars>>
        /\ \/ pc' = "zero" /\ UNCHANGED <<s_blob_buf, off>>
           \/ pc' = "shrink" /\ n < s_blob_len /\ off' = s_blob_len
    BY <1>3 DEF ConsumeLoad, sharedVars
  <2>2. s_blob_buf' \in [1..MaxBlob -> Age]
    <3>1. s_blob_len <= MaxBlob
      BY <1>3 DEF ConsumeLoad
    <3>2. \A i \in 1..MaxBlob :
            (IF i + n <= s_blob_len THEN s_blob_buf[i + n] ELSE s_blob_buf[i]) \in Age
      BY <3>1
    <3>3. \/ s_blob_buf' = s_blob_buf
          \/ s_blob_buf' = [i \in 1..MaxBlob |->
                  IF i + n <= s_blob_len THEN s_blob_buf[i + n] ELSE s_blob_buf[i]]
      BY <1>3 DEF ConsumeLoad
    <3> QED
      BY <3>2, <3>3
  <2> QED
    BY <2>1, <2>2 DEF httpdVars
<1>4. CASE ConsumeStore
  <2>0. s_blob_len - n \in Int
    OBVIOUS
  <2>1. Wrapped(s_blob_len - n) \in 0..(WordSz - 1)
    BY <2>0, WrappedWord, Zenon
  <2>2. s_blob_len' \in 0..(WordSz - 1)
    BY <1>4, <2>1 DEF ConsumeStore
  <2>3. /\ UNCHANGED <<rx, s_blob_buf, s_pending, s_have_pending, blob_start, httpdVars>>
        /\ pc' = after /\ off' = 0 /\ n' = 0 /\ after' = "test" /\ frame' = "fresh"
    BY <1>4 DEF ConsumeStore
  <2>4. pc' \in {"test", "deadline"} /\ "fresh" \in Age /\ 0 \in 0..(WordSz - 1)
    BY <2>3 DEF Age
  <2> QED
    BY <2>2, <2>3, <2>4 DEF Quiet, httpdVars
<1> QED
  BY <1>1, <1>2, <1>3, <1>4

\* The pending request.
LEMMA RequestTyped ==
    ASSUME TypeInv,
           Request \/ NewRequest \/ Response \/ RspClear \/ RspReport
             \/ Deadline \/ TimeoutReport \/ TimeoutClear
    PROVE  TypeInv'
<1> USE DEF TypeInv, TypeOK, Parsing
<1>1. UNCHANGED <<rx, s_blob_buf, s_blob_len, regVars, httpdVars>>
  BY DEF Request, NewRequest, Response, RspClear, RspReport, Deadline, TimeoutReport, TimeoutClear,
         dataVars, sharedVars
<1>2. pc' \in {"newRequest", "consume", "rspClear", "rspReport", "wait", "timeout", "expire"}
  BY DEF Request, NewRequest, Response, RspClear, RspReport, Deadline, TimeoutReport, TimeoutClear
<1>5. pc' \in Parsing => pc \in Parsing
  BY DEF Request, NewRequest, Response, RspClear, RspReport, Deadline, TimeoutReport, TimeoutClear
<1>3. s_have_pending' \in BOOLEAN
  BY DEF Request, NewRequest, Response, RspClear, RspReport, Deadline, TimeoutReport, TimeoutClear,
         dataVars, sharedVars
<1>4. s_pending' \in Transaction
  <2>1. Tell => s_pending' \in Transaction
    BY DEF Tell, Transaction
  <2>2. [age |-> frame, told |-> 0, dropped |-> FALSE] \in Transaction
    BY DEF Transaction
  <2> QED
    BY <2>1, <2>2 DEF Request, NewRequest, Response, RspClear, RspReport, Deadline,
                      TimeoutReport, TimeoutClear, dataVars
<1> QED
  BY <1>1, <1>2, <1>3, <1>4, <1>5 DEF Quiet, regVars, httpdVars

\* The settings a request names, in order.
LEMMA NamedTyped ==
    ASSUME NEW ks \in SUBSET Knobs
    PROVE  IfNamed(1, ks) \o IfNamed(2, ks) \o IfNamed(3, ks) \o IfNamed(4, ks) \in Seq(Knobs)
<1>1. ASSUME NEW i \in 1..4 PROVE IfNamed(i, ks) \in Seq(Knobs)
  BY DEF IfNamed
<1>2. \A s, t \in Seq(Knobs) : s \o t \in Seq(Knobs)
  OBVIOUS
<1>3. /\ IfNamed(1, ks) \in Seq(Knobs) /\ IfNamed(2, ks) \in Seq(Knobs)
      /\ IfNamed(3, ks) \in Seq(Knobs) /\ IfNamed(4, ks) \in Seq(Knobs)
  BY <1>1
<1> QED
  BY <1>2, <1>3, Zenon

\* The setters.
LEMMA SettersTyped ==
    ASSUME TypeInv, HttpdTask
    PROVE  TypeInv'
<1> USE DEF TypeInv, TypeOK, Parsing
<1> DEFINE aged(a) == IF a = "fresh" THEN "late" ELSE a
<1>0. \A a \in Age : aged(a) \in Age
  BY DEF Age
<1>1. CASE PostConfig
  <2>1. todo' \in Seq(Knobs)
    BY <1>1, NamedTyped, Zenon DEF PostConfig
  <2> QED
    BY <1>1, <2>1 DEF PostConfig, dataVars, sharedVars, taskVars, regVars
<1>2. CASE NextSetter
  BY <1>2 DEF NextSetter, dataVars, sharedVars, taskVars, regVars
<1>3. CASE SetFails
  <2>1. todo # <<>> /\ todo' = Tail(todo)
    BY <1>3 DEF SetFails
  <2>2. todo' \in Seq(Knobs)
    BY <2>1
  <2> QED
    BY <1>3, <2>2 DEF SetFails, dataVars, sharedVars, taskVars, regVars
<1>4. CASE SetHardware
  <2>1. /\ hpc = "set" /\ hpc' \in {"blob", "flush"}
        /\ rx' = [i \in DOMAIN rx |-> aged(rx[i])]
        /\ s_blob_buf' = [i \in 1..MaxBlob |-> aged(s_blob_buf[i])]
        /\ s_pending' = [s_pending EXCEPT !.age = aged(@)] /\ frame' = aged(frame)
        /\ UNCHANGED <<s_blob_len, s_have_pending, pc, off, n, blob_start, after, todo, baseline,
               raced>>
    BY <1>4 DEF SetHardware, sharedVars
  <2> HIDE DEF aged
  <2>2. rx' \in Seq(Age) /\ Len(rx') <= RxSz
    <3>1. DOMAIN rx = 1..Len(rx) /\ Len(rx) \in Nat /\ \A i \in 1..Len(rx) : rx[i] \in Age
      OBVIOUS
    <3>2. rx' \in [1..Len(rx) -> Age]
      BY <1>0, <2>1, <3>1
    <3>3. rx' \in Seq(Age) /\ Len(rx') = Len(rx)
      BY <3>1, <3>2
    <3> QED
      BY <3>3
  <2>3. s_blob_buf' \in [1..MaxBlob -> Age]
    BY <1>0, <2>1
  <2>4. s_pending' \in Transaction
    <3>1. aged(s_pending.age) \in Age
      BY <1>0 DEF Transaction
    <3> QED
      BY <2>1, <3>1 DEF Transaction
  <2>5. frame' \in Age
    BY <1>0, <2>1
  <2> QED
    BY <2>1, <2>2, <2>3, <2>4, <2>5
<1>5. CASE FlushInput
  <2>1. s_pending' \in Transaction
    BY <1>5 DEF FlushInput, Transaction, Age
  <2>2. rx' \in Seq(Age) /\ Len(rx') = 0
    BY <1>5 DEF FlushInput
  <2>3. s_blob_buf' \in [1..MaxBlob -> Age]
    BY <1>5 DEF FlushInput, Age
  <2>4. /\ hpc' \in {"set", "blob"} /\ hpc = "flush" /\ frame' = "old"
        /\ UNCHANGED <<s_blob_len, s_have_pending, pc, off, n, blob_start, after, todo, baseline,
               raced>>
    BY <1>5 DEF FlushInput, sharedVars
  <2> QED
    BY <2>1, <2>2, <2>3, <2>4, SizesFit DEF Age
<1>6. CASE ResetBlob
  BY <1>6, SizesFit DEF ResetBlob, taskVars, regVars
<1>7. CASE ResetPending
  <2>1. todo # <<>> /\ todo' = Tail(todo) /\ baseline' = Head(todo)
    BY <1>7 DEF ResetPending
  <2>2. todo' \in Seq(Knobs) /\ baseline' \in Knobs
    BY <2>1
  <2>3. s_pending' \in Transaction
    <3>1. (s_pending.dropped \/ (pc \in Quiet /\ s_have_pending)) \in BOOLEAN
      OBVIOUS
    <3> QED
      BY <1>7, <3>1, DropEffect DEF ResetPending
  <2> QED
    BY <1>7, <2>2, <2>3 DEF ResetPending, taskVars, regVars
<1> QED
  BY <1>1, <1>2, <1>3, <1>4, <1>5, <1>6, <1>7 DEF HttpdTask

\* Every step keeps the types.
LEMMA TypeInvariant == Spec => []TypeInv
<1>1. Init => TypeInv
  <2> SUFFICES ASSUME Init PROVE TypeInv
    OBVIOUS
  <2>1. rx \in Seq(Age) /\ Len(rx) = 0 /\ todo \in Seq(Knobs)
    BY DEF Init
  <2>2. s_pending \in Transaction
    BY DEF Init, Transaction, Age
  <2>3. s_blob_buf \in [1..MaxBlob -> Age]
    BY DEF Init, Age
  <2>4. 0 \in 0..(WordSz - 1) /\ 0 <= RxSz
    BY SizesFit
  <2>5. /\ pc = "wait" /\ off = 0 /\ n = 0 /\ blob_start = 0 /\ s_blob_len = 0
        /\ s_have_pending = FALSE /\ frame = "fresh" /\ after = "test"
        /\ hpc = "idle" /\ baseline = "none" /\ raced = FALSE
    BY DEF Init
  <2>6. TypeOK
    BY <2>1, <2>2, <2>3, <2>4, <2>5 DEF TypeOK, Quiet, Age
  <2> QED
    BY <2>5, <2>6 DEF TypeInv, Parsing
<1>2. TypeInv /\ [Next]_vars => TypeInv'
  <2> SUFFICES ASSUME TypeInv, [Next]_vars PROVE TypeInv'
    OBVIOUS
  <2>1. CASE UNCHANGED vars
    BY <2>1 DEF vars, dataVars, sharedVars, regVars, httpdVars, TypeInv, TypeOK
  <2> QED
    BY <2>1, ReceivingTyped, ExtractingTyped, RequestTyped, SettersTyped DEF Next, SnifferTask
<1> QED
  BY <1>1, <1>2, PTL DEF Spec

\* However the setters' writes fall between the loads and stores of the sniffer
\* task, even a raced reset leaves every variable its type: s_blob_len and the
\* task's copies stay words, the ring and the blob hold what they can hold.
THEOREM TypeCorrect == Spec => []TypeOK
<1>1. TypeInv => TypeOK
  BY DEF TypeInv
<1> QED
  BY <1>1, TypeInvariant, PTL
=============================================================================
