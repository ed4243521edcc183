---------------------------- MODULE SnifferProofs ----------------------------
(***************************************************************************)
(* Proofs about Sniffer, for all sizes, windows and traffic that the       *)
(* assumptions of Framing, CaptureTables and Sniffer allow.                *)
(*                                                                         *)
(* TypeOK is inductive and is proved part by part.  Bytes, frames and      *)
(* reports are each inductive together with TypeOK, and TypeOK is all that *)
(* the refinement of Pairing needs.  The lemmas about what the extraction  *)
(* loop finds at the front of the blob (FrontFrame, LoopingBlob) and about *)
(* consume_front (ConsumeType) carry most of the weight.                   *)
(***************************************************************************)
EXTENDS Sniffer, SequenceTheorems, FiniteSetTheorems, TLAPS

-----------------------------------------------------------------------------
(* Sequences *)

\* A function on 1..n is a sequence of length n.
LEMMA FunctionIsSeq ==
    ASSUME NEW S, NEW n \in Nat, NEW f \in [1..n -> S]
    PROVE  f \in Seq(S) /\ Len(f) = n
  OBVIOUS

\* What memmove leaves and what is read out of a ring.
LEMMA PartsOfSeq ==
    ASSUME NEW S, NEW s \in Seq(S), NEW n \in 0..Len(s)
    PROVE  /\ DropFront(s, n) \in Seq(S) /\ Len(DropFront(s, n)) = Len(s) - n
           /\ SubSeq(s, 1, n) \in Seq(S) /\ Len(SubSeq(s, 1, n)) = n
<1>1. Len(s) \in Nat /\ \A i \in 1..Len(s) : s[i] \in S
  BY LenProperties
<1>2. /\ SubSeq(s, n + 1, Len(s)) \in Seq(S)
      /\ Len(SubSeq(s, n + 1, Len(s))) = Len(s) - n
  BY <1>1, SubSeqProperties
<1>3. SubSeq(s, 1, n) \in Seq(S) /\ Len(SubSeq(s, 1, n)) = n
  BY <1>1, SubSeqProperties
<1> QED
  BY <1>2, <1>3 DEF DropFront

-----------------------------------------------------------------------------
(* Frames on the wire *)

LEMMA FrameLengths ==
    ASSUME NEW f \in Frame
    PROVE  FrameLen(f) \in Nat /\ FrameLen(f) >= MinFrameLen
           /\ MinFrameLen \in Nat /\ MinFrameLen <= MaxFrameLen
  BY FramingAssumption DEF Frame, FrameLen, MinFrameLen

LEMMA OnWireType ==
    ASSUME NEW f \in Frame
    PROVE  OnWire(f) \in Seq(Byte)
<1> DEFINE n == IF FrameLen(f) <= MaxFrameLen THEN FrameLen(f) ELSE MinFrameLen
<1>1. n \in Nat /\ n <= MaxFrameLen
  BY FrameLengths
<1>2. OnWire(f) \in [1..n -> Byte]
  BY <1>1, FramingAssumption DEF OnWire, Byte
<1> HIDE DEF n
<1> QED
  BY <1>1, <1>2, FunctionIsSeq

LEMMA DamagedType ==
    ASSUME NEW f \in Frame, NEW kind, NEW w \in DamagedBy(kind, f)
    PROVE  w \in Seq(Byte)
<1> DEFINE s == OnWire(f)
<1>1. s \in Seq(Byte)
  BY OnWireType
<1>2. CASE kind \in {"checksum", "length", "window"}
  <2>1. /\ [f EXCEPT !.good = FALSE] \in Frame
        /\ [f EXCEPT !.good = FALSE, !.count = MaxFrameLen] \in Frame
        /\ [f EXCEPT !.win = StrayWindow] \in Frame
    BY DEF Frame
  <2> QED
    BY <1>2, <2>1, OnWireType DEF DamagedBy
<1>3. CASE kind = "cut"
  <2>1. PICK k \in CutPoints \cap 1..Len(s) : w \in {SubSeq(s, 1, k), DropFront(s, k)}
    BY <1>3 DEF DamagedBy
  <2> HIDE DEF s
  <2>2. k \in 0..Len(s)
    BY <1>1, LenProperties
  <2> QED
    BY <1>1, <2>1, <2>2, PartsOfSeq
<1>4. CASE kind = "noise"
  <2> DEFINE burst(k) == [i \in 1..k |-> Noise]
  <2>1. PICK k \in NoiseBursts : w \in {burst(k) \o s, s \o burst(k)}
    BY <1>4 DEF DamagedBy
  <2>2. k \in Nat /\ burst(k) \in [1..k -> Byte]
    BY SnifferAssumption DEF Byte
  <2>3. burst(k) \in Seq(Byte)
    BY <2>2, FunctionIsSeq
  <2> HIDE DEF s, burst
  <2> QED
    BY <1>1, <2>1, <2>3, ConcatProperties
<1>5. CASE kind = "lost"
  <2>1. w = <<>>
    BY <1>5 DEF DamagedBy
  <2> QED
    BY <2>1, EmptySeq
<1>6. CASE kind \notin {"checksum", "length", "window", "cut", "noise", "lost"}
  <2>1. DamagedBy(kind, f) = {}
    BY <1>6 DEF DamagedBy
  <2> QED
    BY <2>1
<1> QED
  BY <1>2, <1>3, <1>4, <1>5, <1>6

LEMMA TransmitType ==
    ASSUME NEW f \in Frame, BusOK, Transmit(f)
    PROVE  line' \in Seq(Byte) /\ faults' \in 0..MaxFaults
  BY OnWireType, DamagedType, SnifferAssumption DEF Transmit, BusOK

\* What the extraction loop finds at the front of the blob.
LEMMA FrontFrame ==
    ASSUME BlobOK, NEW n, FrameOfLen(n)
    PROVE  /\ s_blob[1][1] \in Frame
           /\ n \in Nat /\ Len(s_blob) \in Nat /\ Len(s_blob) >= 3
           /\ iters + 1 \in 0..MaxIters
<1> USE FramingAssumption, SnifferAssumption
<1>1. Len(s_blob) \in Nat /\ Len(s_blob) >= 3 /\ iters + 1 \in 0..MaxIters
  BY LenProperties DEF FrameOfLen, Looping, MinFrameLen, BlobOK
<1>2. s_blob[1] \in Byte /\ s_blob[1] # Noise
  BY <1>1, ElementOfSeq DEF FrameOfLen, FrameStarts, StartsAt, BlobOK
<1>3. s_blob[1][1] \in Frame
  BY <1>2 DEF Byte
<1>4. n \in Nat
  BY <1>3, FrameLengths DEF FrameOfLen, ClaimedLens
<1> QED
  BY <1>1, <1>3, <1>4

-----------------------------------------------------------------------------
(* Type correctness, one part of TypeOK at a time *)

LEMMA InitType == Init => TypeOK
<1> SUFFICES ASSUME Init PROVE TypeOK
  OBVIOUS
<1> USE FramingAssumption, TablesAssumption, SnifferAssumption DEF Init
<1>1. BusOK
  BY EmptySeq DEF BusOK
<1>2. DriverOK
  BY EmptySeq DEF DriverOK
<1>3. BlobOK
  BY EmptySeq DEF BlobOK
<1>4. ResyncOK
  BY EmptySeq DEF ResyncOK
<1>5. PairingOK
  BY DEF PairingOK, Tables, EmptyTables, UnknownEntry
<1>6. CountersOK
  BY DEF CountersOK
<1> QED
  BY <1>1, <1>2, <1>3, <1>4, <1>5, <1>6 DEF TypeOK

LEMMA BusType == TypeOK /\ [Next]_vars => BusOK'
<1> SUFFICES ASSUME TypeOK, [Next]_vars PROVE BusOK'
  OBVIOUS
<1> USE SnifferAssumption DEF TypeOK
<1>1. CASE BusRequest
  <2>1. PICK t \in Traffic :
          LET f == [dir |-> "req", fc |-> t[1], win |-> t[2], count |-> PayloadLen,
                    good |-> TRUE, id |-> polls % 2]
          IN Transmit(f) /\ owed' = [f EXCEPT !.dir = "rsp"]
    BY <1>1 DEF BusRequest
  <2> DEFINE f == [dir |-> "req", fc |-> t[1], win |-> t[2], count |-> PayloadLen,
                   good |-> TRUE, id |-> polls % 2]
  <2>2. f \in Frame /\ [f EXCEPT !.dir = "rsp"] \in Frame
    <3>1. t[1] \in {"read", "cmd"} /\ t[2] \in Windows
      OBVIOUS
    <3>2. polls % 2 \in Ids
      BY DEF BusOK, Ids
    <3> QED
      BY <3>1, <3>2 DEF Frame
  <2>3. Transmit(f) /\ owed' \in Frame
    BY <2>1, <2>2
  <2>4. line' \in Seq(Byte) /\ faults' \in 0..MaxFaults
    BY <2>2, <2>3, TransmitType
  <2>5. polls' \in 0..MaxPolls /\ gap' \in 0..PollGap
    BY <1>1 DEF BusRequest, BusOK
  <2> QED
    BY <2>3, <2>4, <2>5 DEF BusOK
<1>2. CASE BusReply
  <2>1. owed \in Frame /\ Transmit(owed)
    BY <1>2 DEF BusReply, BusOK
  <2>2. line' \in Seq(Byte) /\ faults' \in 0..MaxFaults
    BY <2>1, TransmitType
  <2> QED
    BY <1>2, <2>2 DEF BusReply, BusOK
<1>3. CASE Tick
  BY <1>3 DEF Tick, BusOK
<1>4. CASE Arrive
  <2>1. PICK k \in 1..Len(line) : line' = DropFront(line, k)
    <3>1. line \in Seq(Byte) /\ line # <<>>
      BY <1>4 DEF Arrive, BusOK
    <3>2. Len(line) \in 1..Len(line)
      BY <3>1, EmptySeq
    <3> QED
      BY <1>4, <3>2 DEF Arrive
  <2>2. line' \in Seq(Byte)
    BY <2>1, PartsOfSeq DEF BusOK
  <2> QED
    BY <1>4, <2>2 DEF Arrive, BusOK
<1>5. CASE Overrun
  <2>1. PICK k \in 1..Len(line) : line' = DropFront(line, k)
    BY <1>5 DEF Overrun
  <2>2. line' \in Seq(Byte)
    BY <2>1, PartsOfSeq DEF BusOK
  <2> QED
    BY <1>5, <2>2 DEF Overrun, BusOK
<1>6. CASE Task
  <2>1. UNCHANGED busVars
    BY <1>6 DEF Task, Receive, Extract, Deadline, HandleData, HandleBufferFull,
                HandleFifoOvf, NoEvent, ExtractDone, DropUnframed, SkipGarbage,
                DropInsane, AwaitRest, TakeFrame, GiveUp, KeepWaiting
  <2> QED
    BY <2>1 DEF busVars, BusOK
<1>7. CASE UNCHANGED vars
  BY <1>7 DEF vars, busVars, BusOK
<1> QED
  BY <1>1, <1>2, <1>3, <1>4, <1>5, <1>6, <1>7 DEF Next, Bus, Driver

Events == {"UART_DATA", "UART_BUFFER_FULL", "UART_FIFO_OVF"}

LEMMA PostType ==
    ASSUME DriverOK, NEW e \in Events, Post(e)
    PROVE  s_uart_queue' \in Seq(Events) /\ Len(s_uart_queue') <= UartQueueSz
<1>1. s_uart_queue \in Seq(Events) /\ Len(s_uart_queue) \in Nat
  BY LenProperties DEF DriverOK, Events
<1>2. Append(s_uart_queue, e) \in Seq(Events)
      /\ Len(Append(s_uart_queue, e)) = Len(s_uart_queue) + 1
  BY <1>1, AppendProperties
<1> QED
  BY <1>1, <1>2, SnifferAssumption DEF Post, DriverOK

LEMMA DrainBounds ==
    ASSUME DriverOK, BlobOK
    PROVE  /\ DrainCount \in 0..Len(rx) /\ DrainCount \in Nat
           /\ Len(rx) \in Nat /\ Len(s_blob) \in Nat
           /\ Len(s_blob) + DrainCount <= MaxBlob
<1>1. Len(rx) \in Nat /\ Len(s_blob) \in Nat
  BY LenProperties DEF DriverOK, BlobOK
<1> QED
  BY <1>1, SnifferAssumption DEF DrainCount, BlobOK

LEMMA TakeEventType ==
    ASSUME DriverOK, s_uart_queue # <<>>, s_uart_queue' = Tail(s_uart_queue)
    PROVE  s_uart_queue' \in Seq(Events) /\ Len(s_uart_queue') <= UartQueueSz
<1>1. /\ s_uart_queue \in Seq(Events) /\ Len(s_uart_queue) \in Nat
      /\ Len(s_uart_queue) <= UartQueueSz
  BY LenProperties DEF DriverOK, Events
<1> QED
  BY <1>1, HeadTailProperties, SnifferAssumption

LEMMA DriverType == TypeOK /\ [Next]_vars => DriverOK'
<1> SUFFICES ASSUME TypeOK, [Next]_vars PROVE DriverOK'
  OBVIOUS
<1> USE SnifferAssumption DEF TypeOK, Events
<1>1. CASE Bus
  BY <1>1 DEF Bus, BusRequest, BusReply, Tick, driverVars, DriverOK
<1>2. CASE Arrive
  <2>1. PICK k \in 1..Len(line) :
          IF Len(rx) + k <= RxBufSz
          THEN rx' = rx \o SubSeq(line, 1, k) /\ Post("UART_DATA")
          ELSE rx' = rx /\ Post("UART_BUFFER_FULL")
    <3>1. line \in Seq(Byte) /\ line # <<>>
      BY <1>2 DEF Arrive, BusOK
    <3>2. Len(line) \in 1..Len(line)
      BY <3>1, EmptySeq
    <3> QED
      BY <1>2, <3>2 DEF Arrive
  <2>2. s_uart_queue' \in Seq(Events) /\ Len(s_uart_queue') <= UartQueueSz
    BY <2>1, PostType
  <2>3. SubSeq(line, 1, k) \in Seq(Byte) /\ Len(SubSeq(line, 1, k)) = k
    BY PartsOfSeq DEF BusOK
  <2>4. rx' \in Seq(Byte) /\ Len(rx') <= RxBufSz
    <3>1. Len(rx \o SubSeq(line, 1, k)) = Len(rx) + k
          /\ rx \o SubSeq(line, 1, k) \in Seq(Byte)
      BY <2>3, ConcatProperties DEF DriverOK
    <3> QED
      BY <2>1, <3>1 DEF DriverOK
  <2> QED
    BY <2>2, <2>4 DEF DriverOK
<1>3. CASE Overrun
  BY <1>3, PostType DEF Overrun, DriverOK
<1>4. CASE HandleData
  <2>1. rx' \in Seq(Byte) /\ Len(rx') = Len(rx) - DrainCount
    BY <1>4, DrainBounds, PartsOfSeq DEF HandleData, DriverOK
  <2>2. s_uart_queue' \in Seq(Events) /\ Len(s_uart_queue') <= UartQueueSz
    BY <1>4, TakeEventType DEF HandleData
  <2> QED
    BY <2>1, <2>2, DrainBounds DEF DriverOK
<1>5. CASE HandleBufferFull
  <2>1. s_uart_queue' \in Seq(Events) /\ Len(s_uart_queue') <= UartQueueSz
    BY <1>5, TakeEventType DEF HandleBufferFull
  <2> QED
    BY <1>5, <2>1, EmptySeq DEF HandleBufferFull, DriverOK
<1>6. CASE HandleFifoOvf
  BY <1>6, EmptySeq DEF HandleFifoOvf, DriverOK
<1>7. CASE NoEvent \/ Extract \/ Deadline
  <2>1. UNCHANGED driverVars
    BY <1>7 DEF Extract, Deadline, NoEvent, ExtractDone, DropUnframed, SkipGarbage,
                DropInsane, AwaitRest, TakeFrame, GiveUp, KeepWaiting
  <2> QED
    BY <2>1 DEF driverVars, DriverOK
<1>8. CASE UNCHANGED vars
  BY <1>8 DEF vars, driverVars, DriverOK
<1> QED
  BY <1>1, <1>2, <1>3, <1>4, <1>5, <1>6, <1>7, <1>8 DEF Next, Driver, Task, Receive

\* consume_front of no more than there is.
LEMMA ConsumeType ==
    ASSUME BlobOK, NEW n \in 0..Len(s_blob), consume_front(n)
    PROVE  /\ s_blob' \in Seq(Byte) /\ Len(s_blob') = Len(s_blob) - n
           /\ Len(s_blob') <= MaxBlob /\ Len(s_blob) \in Nat
<1>1. Len(s_blob) \in Nat /\ Len(s_blob) <= MaxBlob /\ s_blob \in Seq(Byte)
  BY LenProperties DEF BlobOK
<1>2. s_blob' \in Seq(Byte) /\ Len(s_blob') = Len(s_blob) - n
  BY <1>1, PartsOfSeq DEF consume_front
<1> QED
  BY <1>1, <1>2, SnifferAssumption

\* The blob of an iteration of the extraction loop.
LEMMA LoopingBlob ==
    ASSUME BlobOK, Looping
    PROVE  Len(s_blob) \in Nat /\ Len(s_blob) >= 3 /\ iters + 1 \in 0..MaxIters
  BY LenProperties, FramingAssumption, SnifferAssumption DEF Looping, MinFrameLen, BlobOK

LEMMA BlobType == TypeOK /\ [Next]_vars => BlobOK'
<1> SUFFICES ASSUME TypeOK, [Next]_vars PROVE BlobOK'
  OBVIOUS
<1> USE SnifferAssumption DEF TypeOK
<1>1. CASE Bus \/ Driver
  BY <1>1 DEF Bus, BusRequest, BusReply, Tick, Driver, Arrive, Overrun, taskVars, BlobOK
<1>2. CASE HandleData
  <2>1. /\ SubSeq(rx, 1, DrainCount) \in Seq(Byte)
        /\ Len(SubSeq(rx, 1, DrainCount)) = DrainCount
    BY DrainBounds, PartsOfSeq DEF DriverOK
  <2>2. s_blob' \in Seq(Byte) /\ Len(s_blob') = Len(s_blob) + DrainCount
    BY <1>2, <2>1, ConcatProperties DEF HandleData, BlobOK
  <2> QED
    BY <1>2, <2>2, DrainBounds DEF HandleData, StartExtracting, BlobOK
<1>3. CASE HandleFifoOvf
  BY <1>3, EmptySeq DEF HandleFifoOvf, StartExtracting, BlobOK
<1>4. CASE HandleBufferFull \/ NoEvent
  BY <1>4 DEF HandleBufferFull, NoEvent, StartExtracting, BlobOK
<1>5. CASE ExtractDone \/ AwaitRest
  BY <1>5 DEF ExtractDone, AwaitRest, StopExtracting, BlobOK
<1>6. CASE DropUnframed
  BY <1>6, ConsumeType, LoopingBlob DEF DropUnframed, StopExtracting, BlobOK
<1>7. CASE SkipGarbage
  BY <1>7, ConsumeType, LoopingBlob DEF SkipGarbage, BlobOK
<1>8. CASE DropInsane
  BY <1>8, ConsumeType, FrontFrame DEF DropInsane, BlobOK
<1>9. CASE TakeFrame
  BY <1>9, ConsumeType, FrontFrame DEF TakeFrame, BlobOK
<1>10. CASE Deadline
  BY <1>10 DEF Deadline, GiveUp, KeepWaiting, BlobOK
<1>11. CASE UNCHANGED vars
  BY <1>11 DEF vars, taskVars, BlobOK
<1> QED
  BY <1>1, <1>2, <1>3, <1>4, <1>5, <1>6, <1>7, <1>8, <1>9, <1>10, <1>11
     DEF Next, Task, Receive, Extract

Entry == [byte : Byte, prev : Context \cup {NoContext}]

\* record_skipped never keeps more than the ring holds.
LEMMA SkipType ==
    ASSUME TypeOK, NEW n \in 0..Len(s_blob), Skip(n)
    PROVE  /\ s_skipped' \in Seq(Entry) /\ Len(s_skipped') <= SkippedRingSz
           /\ s_resync_bytes' = s_resync_bytes + n
<1> DEFINE entry(i) == [byte |-> s_blob[i], prev |-> s_last_frame]
           new      == [i \in 1..n |-> entry(i)]
           all      == s_skipped \o new
           excess   == Len(all) - SkippedRingSz
<1>1. /\ s_skipped' = IF excess > 0 THEN DropFront(all, excess) ELSE all
      /\ s_resync_bytes' = s_resync_bytes + n
  BY DEF Skip
<1>2. n \in Nat /\ new \in [1..n -> Entry]
  <2>1. s_blob \in Seq(Byte) /\ Len(s_blob) \in Nat
    BY LenProperties DEF TypeOK, BlobOK
  <2>2. \A i \in 1..n : s_blob[i] \in Byte
    BY <2>1, ElementOfSeq
  <2> QED
    BY <2>1, <2>2 DEF TypeOK, ResyncOK, Entry
<1> HIDE DEF new
<1>3. all \in Seq(Entry) /\ Len(all) \in Nat
  <2>1. s_skipped \in Seq(Entry)
    BY DEF TypeOK, ResyncOK, Entry
  <2>2. new \in Seq(Entry)
    BY <1>2, FunctionIsSeq
  <2> QED
    BY <2>1, <2>2, ConcatProperties, LenProperties
<1> HIDE DEF all
<1>4. CASE excess > 0
  <2>1. excess \in 0..Len(all)
    BY <1>3, <1>4, SnifferAssumption
  <2>2. DropFront(all, excess) \in Seq(Entry)
        /\ Len(DropFront(all, excess)) = Len(all) - excess
    <3> HIDE DEF excess
    <3> QED
      BY <1>3, <2>1, PartsOfSeq
  <2> QED
    BY <1>1, <1>3, <1>4, <2>2, SnifferAssumption
<1>5. CASE ~(excess > 0)
  BY <1>1, <1>3, <1>5, SnifferAssumption
<1> QED
  BY <1>1, <1>4, <1>5

LEMMA ResyncType == TypeOK /\ [Next]_vars => ResyncOK'
<1> SUFFICES ASSUME TypeOK, [Next]_vars PROVE ResyncOK'
  OBVIOUS
<1>1. CASE Bus \/ Driver \/ Receive
  BY <1>1 DEF Bus, BusRequest, BusReply, Tick, Driver, Arrive, Overrun, Receive,
              HandleData, HandleBufferFull, HandleFifoOvf, NoEvent,
              taskVars, resyncVars, TypeOK, ResyncOK
<1>2. CASE ExtractDone \/ AwaitRest \/ DropInsane \/ Deadline
  BY <1>2 DEF ExtractDone, AwaitRest, DropInsane, Deadline, GiveUp, KeepWaiting,
              resyncVars, TypeOK, ResyncOK
<1>3. CASE DropUnframed
  <2>1. s_skipped' \in Seq(Entry) /\ Len(s_skipped') <= SkippedRingSz
    BY <1>3, SkipType, LoopingBlob DEF DropUnframed, TypeOK
  <2> QED
    BY <1>3, <2>1 DEF DropUnframed, TypeOK, ResyncOK, Entry
<1>4. CASE SkipGarbage
  <2>1. s_skipped' \in Seq(Entry) /\ Len(s_skipped') <= SkippedRingSz
    BY <1>4, SkipType, LoopingBlob DEF SkipGarbage, TypeOK
  <2> QED
    BY <1>4, <2>1 DEF SkipGarbage, TypeOK, ResyncOK, Entry
<1>5. CASE TakeFrame
  <2>1. PICK n : /\ FrameOfLen(n) /\ n <= MaxFrameLen
                 /\ s_last_frame' = [len |-> n, dir |-> s_blob[1][1].dir,
                                     fc |-> s_blob[1][1].fc, valid |-> ParseOK(s_blob, n)]
    BY <1>5 DEF TakeFrame
  <2>2. s_blob[1][1] \in Frame /\ n \in 0..MaxFrameLen
    BY <2>1, FrontFrame, FramingAssumption DEF TypeOK
  <2>3. s_last_frame' \in Context
    BY <2>1, <2>2 DEF Frame, Context, ParseOK
  <2> QED
    BY <1>5, <2>3 DEF TakeFrame, TypeOK, ResyncOK
<1>6. CASE UNCHANGED vars
  BY <1>6 DEF vars, taskVars, resyncVars, TypeOK, ResyncOK
<1> QED
  BY <1>1, <1>2, <1>3, <1>4, <1>5, <1>6 DEF Next, Task, Extract

-----------------------------------------------------------------------------
(* The tables *)

LEMMA RecordCommandType ==
    ASSUME NEW cmds, NEW t \in Tables(cmds), NEW cmd \in cmds
    PROVE  /\ RecordCommand(t, cmd) \in Tables(cmds)
           /\ RecordCommand(t, cmd).cmdCount = t.cmdCount + 1
<1> DEFINE count == t.cmdCount + 1
           ring  == [t.cmdRing EXCEPT ![t.cmdCount % CommandRingSz] = cmd]
<1>1. t.cmdRing \in [0..(CommandRingSz - 1) -> cmds \cup {NoCommand}]
      /\ t.cmdCount \in Nat
  BY DEF Tables
<1>2. t.cmdCount % CommandRingSz \in 0..(CommandRingSz - 1)
  BY <1>1, TablesAssumption
<1>3. count \in Nat /\ ring \in [0..(CommandRingSz - 1) -> cmds \cup {NoCommand}]
  BY <1>1, <1>2
<1>4. ASSUME NEW x \in Nat, NEW y \in [0..(CommandRingSz - 1) -> cmds \cup {NoCommand}]
      PROVE  /\ [t EXCEPT !.cmdCount = x, !.cmdRing = y] \in Tables(cmds)
             /\ [t EXCEPT !.cmdCount = x, !.cmdRing = y].cmdCount = x
  BY DEF Tables
<1>5. RecordCommand(t, cmd) = [t EXCEPT !.cmdCount = count, !.cmdRing = ring]
  BY DEF RecordCommand
<1> HIDE DEF ring
<1> QED
  BY <1>3, <1>4, <1>5

LEMMA StoreResponseType ==
    ASSUME NEW cmds, NEW t \in Tables(cmds), NEW D \in SUBSET Regs,
           NEW values \in [D -> Raw]
    PROVE  /\ StoreResponse(t, values) \in Tables(cmds)
           /\ StoreResponse(t, values).cmdCount = t.cmdCount
<1> DEFINE stored  == DOMAIN values \cap Regs
           tracked == stored \ KnownRegs
           new     == {r \in tracked : t.unk[r].seen = 0}
           snap    == [r \in Regs |-> IF r \in stored THEN values[r] ELSE t.snap[r]]
           count   == t.unkCount + Cardinality(new)
           unk     == [r \in Regs |-> IF r \in tracked THEN TrackUnknown(t.unk[r], values[r])
                                                       ELSE t.unk[r]]
<1>1. /\ t.snap \in [Regs -> Raw \cup {Unseen}]
      /\ t.unk \in [Regs -> UnknownEntry]
      /\ t.unkCount \in Nat
  BY DEF Tables
<1>2. \A r \in stored : values[r] \in Raw
  OBVIOUS
<1>3. snap \in [Regs -> Raw \cup {Unseen}]
  BY <1>1, <1>2
<1>4. ASSUME NEW e \in UnknownEntry, NEW v \in Raw
      PROVE  TrackUnknown(e, v) \in UnknownEntry
  BY DEF TrackUnknown, UnknownEntry
<1>5. unk \in [Regs -> UnknownEntry]
  BY <1>1, <1>2, <1>4
<1>6. Cardinality(new) \in Nat
  <2>1. new \in SUBSET Regs
    OBVIOUS
  <2> HIDE DEF new
  <2> QED
    BY <2>1, FS_Subset, FS_CardinalityType, TablesAssumption
<1>7. StoreResponse(t, values) =
        [t EXCEPT !.snap = snap, !.unk = unk, !.unkCount = count]
  BY DEF StoreResponse
<1>8. ASSUME NEW x \in [Regs -> Raw \cup {Unseen}], NEW y \in [Regs -> UnknownEntry],
             NEW z \in Nat
      PROVE  /\ [t EXCEPT !.snap = x, !.unk = y, !.unkCount = z] \in Tables(cmds)
             /\ [t EXCEPT !.snap = x, !.unk = y, !.unkCount = z].cmdCount = t.cmdCount
  BY DEF Tables
<1>9. count \in Nat
  BY <1>1, <1>6
<1> HIDE DEF stored, tracked, new, count, snap, unk
<1>10. /\ [t EXCEPT !.snap = snap, !.unk = unk, !.unkCount = count] \in Tables(cmds)
       /\ [t EXCEPT !.snap = snap, !.unk = unk, !.unkCount = count].cmdCount = t.cmdCount
  BY <1>3, <1>5, <1>8, <1>9
<1> QED
  BY <1>7, <1>10

-----------------------------------------------------------------------------
(* What process_frame does with a frame *)

AcctType == [drained : Nat, framed : Nat, insane : Nat, cleared : Nat,
             asked : Nat, answered : Nat]

\* The history after a frame of n bytes.
LEMMA AcctFrame ==
    ASSUME NEW a \in AcctType, NEW n \in Nat
    PROVE  /\ [a EXCEPT !.framed = @ + n] \in AcctType
           /\ [a EXCEPT !.framed = @ + n, !.asked = @ + 1] \in AcctType
           /\ [a EXCEPT !.framed = @ + n, !.answered = @ + 1] \in AcctType
<1>1. a.framed + n \in Nat /\ a.asked + 1 \in Nat /\ a.answered + 1 \in Nat
  BY DEF AcctType
<1>2. ASSUME NEW x \in Nat, NEW y \in Nat
      PROVE  /\ [a EXCEPT !.framed = x] \in AcctType
             /\ [a EXCEPT !.framed = x, !.asked = y] \in AcctType
             /\ [a EXCEPT !.framed = x, !.answered = y] \in AcctType
  BY DEF AcctType
<1> QED
  BY <1>1, <1>2

LEMMA CommandType ==
    ASSUME TypeOK, NEW f \in Frame
    PROVE  LET t == RecordCommand(tables, [dir |-> f.dir, selector |-> f.win])
           IN t \in Tables(Command) /\ t.cmdCount = tables.cmdCount + 1
<1>1. [dir |-> f.dir, selector |-> f.win] \in Command
  BY DEF Frame, Command
<1> QED
  BY <1>1, RecordCommandType DEF TypeOK, PairingOK

LEMMA ResponseType ==
    ASSUME TypeOK, NEW f \in Frame, f.win \in Windows
    PROVE  LET t == StoreResponse(tables, [r \in WinRegs[f.win] |-> f.id])
           IN t \in Tables(Command) /\ t.cmdCount = tables.cmdCount
<1>1. WinRegs[f.win] \in SUBSET Regs /\ f.id \in Raw
  BY SnifferAssumption DEF Frame
<1>2. [r \in WinRegs[f.win] |-> f.id] \in [WinRegs[f.win] -> Raw]
  BY <1>1
<1> QED
  BY <1>1, <1>2, StoreResponseType DEF TypeOK, PairingOK

\* A read frame that parses asks for or carries a window the codec knows.
LEMMA ReadWindow ==
    ASSUME NEW n, ParseOK(s_blob, n), s_blob[1][1] \in Frame, s_blob[1][1].fc = "read"
    PROVE  s_blob[1][1].win \in Windows
  BY DEF ParseOK, Recognised

LEMMA UnansweredType ==
    ASSUME NEW p \in Pending
    PROVE  Unanswered(p) \in [req : Request, ans : Request \cup {None}]
  BY DEF Unanswered, Pending, Request

LEMMA ProcessFrameType ==
    ASSUME TypeOK, NEW n \in Nat, s_blob[1][1] \in Frame,
           process_frame(s_blob[1][1], n)
    PROVE  /\ PairingOK'
           /\ s_parse_errors' \in Nat /\ s_txn_count' \in Nat /\ acct' \in AcctType
<1> DEFINE f == s_blob[1][1]
<1>0. f \in Frame
  OBVIOUS
<1>1. CASE RejectFrame(n)
  BY <1>1 DEF RejectFrame, CountError, NoDelivery, TypeOK, PairingOK, CountersOK, AcctType
<1>2. CASE ProcessCommand(f, n)
  <2>1. tables' \in Tables(Command)
    BY <1>2, CommandType DEF ProcessCommand
  <2> QED
    BY <1>2, <2>1 DEF ProcessCommand, NoDelivery, TypeOK, PairingOK, CountersOK, AcctType
<1>3. CASE ProcessRequest(f, n)
  <2>1. f.win \in Windows
    BY <1>3, ReadWindow DEF ProcessRequest
  <2>2. s_pending' \in Pending
    BY <1>0, <1>3, <2>1, SnifferAssumption DEF ProcessRequest, Pending, Frame
  <2>3. report' \in [req : Request, ans : Request \cup {None}] \cup {None}
        /\ s_txn_count' \in Nat
    BY <1>3, UnansweredType
       DEF ProcessRequest, Deliver, NoDelivery, TypeOK, PairingOK, CountersOK
  <2>4. acct' \in AcctType
    BY <1>3, AcctFrame DEF ProcessRequest, TypeOK, CountersOK, AcctType
  <2> QED
    BY <1>3, <2>2, <2>3, <2>4 DEF ProcessRequest, TypeOK, PairingOK, CountersOK
<1>4. CASE ProcessOrphan(f, n)
  BY <1>4 DEF ProcessOrphan, CountError, NoDelivery, TypeOK, PairingOK, CountersOK, AcctType
<1>5. CASE ProcessResponse(f, n)
  <2>1. f.win \in Windows
    BY <1>5, ReadWindow DEF ProcessResponse
  <2>2. tables' \in Tables(Command)
    BY <1>5, <2>1, ResponseType DEF ProcessResponse
  <2>3. s_pending \in Pending
    BY <1>5 DEF ProcessResponse, Matches, TypeOK, PairingOK
  <2>4. report' \in [req : Request, ans : Request \cup {None}]
    BY <1>0, <1>5, <2>1, <2>3 DEF ProcessResponse, Deliver, Request, Pending, Frame
  <2>5. acct' \in AcctType
    BY <1>5, AcctFrame DEF ProcessResponse, TypeOK, CountersOK, AcctType
  <2> QED
    BY <1>5, <2>2, <2>4, <2>5 DEF ProcessResponse, Deliver, TypeOK, PairingOK, CountersOK
<1> QED
  BY <1>1, <1>2, <1>3, <1>4, <1>5 DEF process_frame

\* What TakeFrame's frame is.
LEMMA TakenFrame ==
    ASSUME TypeOK, TakeFrame
    PROVE  \E n \in 0..Len(s_blob) :
             /\ process_frame(s_blob[1][1], n) /\ consume_front(n)
             /\ s_blob[1][1] \in Frame
<1>1. PICK n : /\ FrameOfLen(n) /\ n <= Len(s_blob)
               /\ process_frame(s_blob[1][1], n) /\ consume_front(n)
  BY DEF TakeFrame
<1>2. n \in 0..Len(s_blob) /\ s_blob[1][1] \in Frame
  BY <1>1, FrontFrame DEF TypeOK
<1> QED
  BY <1>1, <1>2

LEMMA OlderType ==
    ASSUME TypeOK, Ages
    PROVE  /\ s_pending \in Pending
           /\ [s_pending EXCEPT !.age = @ + 1] \in Pending
<1>1. s_pending \in Pending /\ s_pending.age <= RespTimeout
  BY DEF Ages, TypeOK, PairingOK
<1> QED
  BY <1>1, SnifferAssumption DEF Pending

LEMMA PairingType == TypeOK /\ [Next]_vars => PairingOK'
<1> SUFFICES ASSUME TypeOK, [Next]_vars PROVE PairingOK'
  OBVIOUS
<1>1. CASE Tick
  <2>1. CASE Ages
    BY <1>1, <2>1, OlderType DEF Tick, TypeOK, PairingOK
  <2>2. CASE ~Ages
    BY <1>1, <2>2 DEF Tick, TypeOK, PairingOK
  <2> QED
    BY <2>1, <2>2
<1>2. CASE BusRequest \/ BusReply \/ Driver \/ Receive
  BY <1>2 DEF BusRequest, BusReply, Driver, Arrive, Overrun, Receive,
              HandleData, HandleBufferFull, HandleFifoOvf, NoEvent,
              taskVars, pairingVars, TypeOK, PairingOK
<1>3. CASE ExtractDone \/ DropUnframed \/ SkipGarbage \/ DropInsane \/ AwaitRest \/ KeepWaiting
  BY <1>3 DEF ExtractDone, DropUnframed, SkipGarbage, DropInsane, AwaitRest,
              KeepWaiting, pairingVars, TypeOK, PairingOK
<1>4. CASE TakeFrame
  BY <1>4, TakenFrame, ProcessFrameType
<1>5. CASE GiveUp
  <2>1. s_pending \in Pending
    BY <1>5 DEF GiveUp, Overdue, TypeOK, PairingOK
  <2> QED
    BY <1>5, <2>1, UnansweredType DEF GiveUp, Deliver, TypeOK, PairingOK
<1>6. CASE UNCHANGED vars
  BY <1>6 DEF vars, taskVars, pairingVars, TypeOK, PairingOK
<1> QED
  BY <1>1, <1>2, <1>3, <1>4, <1>5, <1>6 DEF Next, Bus, Task, Extract, Deadline

\* The history after the other operations that read or drop bytes.
LEMMA AcctBytes ==
    ASSUME NEW a \in AcctType, NEW n \in Nat
    PROVE  /\ [a EXCEPT !.drained = @ + n] \in AcctType
           /\ [a EXCEPT !.cleared = @ + n] \in AcctType
           /\ [a EXCEPT !.insane = @ + 1] \in AcctType
  BY DEF AcctType

LEMMA CountersType == TypeOK /\ [Next]_vars => CountersOK'
<1> SUFFICES ASSUME TypeOK, [Next]_vars PROVE CountersOK'
  OBVIOUS
<1>0. acct \in AcctType /\ Len(s_blob) \in Nat
  BY LenProperties DEF TypeOK, CountersOK, BlobOK, AcctType
<1>1. CASE Bus \/ Driver \/ HandleBufferFull \/ NoEvent
  BY <1>1 DEF Bus, BusRequest, BusReply, Tick, Driver, Arrive, Overrun,
              HandleBufferFull, NoEvent, taskVars, counterVars, TypeOK, CountersOK
<1>2. CASE HandleData
  <2>1. acct' \in AcctType
    BY <1>0, <1>2, DrainBounds, AcctBytes DEF HandleData, TypeOK
  <2> QED
    BY <1>2, <2>1 DEF HandleData, counterVars, TypeOK, CountersOK, AcctType
<1>3. CASE HandleFifoOvf
  <2>1. acct' \in AcctType
    BY <1>0, <1>3, AcctBytes DEF HandleFifoOvf
  <2> QED
    BY <1>3, <2>1 DEF HandleFifoOvf, counterVars, TypeOK, CountersOK, AcctType
<1>4. CASE ExtractDone \/ AwaitRest \/ KeepWaiting
  BY <1>4 DEF ExtractDone, AwaitRest, KeepWaiting, counterVars, TypeOK, CountersOK
<1>5. CASE DropUnframed
  <2>1. s_resync_bytes' \in Nat
    BY <1>5, LoopingBlob DEF DropUnframed, Skip, TypeOK, CountersOK
  <2> QED
    BY <1>5, <2>1 DEF DropUnframed, TypeOK, CountersOK
<1>6. CASE SkipGarbage
  <2>1. s_resync_bytes' \in Nat
    BY <1>6, LoopingBlob DEF SkipGarbage, Skip, TypeOK, CountersOK
  <2> QED
    BY <1>6, <2>1 DEF SkipGarbage, TypeOK, CountersOK
<1>7. CASE DropInsane
  <2>1. acct' \in AcctType
    BY <1>0, <1>7, AcctBytes DEF DropInsane
  <2> QED
    BY <1>7, <2>1 DEF DropInsane, CountError, TypeOK, CountersOK, AcctType
<1>8. CASE TakeFrame
  <2>1. s_parse_errors' \in Nat /\ s_txn_count' \in Nat /\ acct' \in AcctType
    BY <1>0, <1>8, TakenFrame, ProcessFrameType
  <2> QED
    BY <1>8, <2>1 DEF TakeFrame, TypeOK, CountersOK, AcctType
<1>9. CASE GiveUp
  BY <1>9 DEF GiveUp, Deliver, TypeOK, CountersOK
<1>10. CASE UNCHANGED vars
  BY <1>10 DEF vars, taskVars, counterVars, TypeOK, CountersOK
<1> QED
  BY <1>1, <1>2, <1>3, <1>4, <1>5, <1>6, <1>7, <1>8, <1>9, <1>10
     DEF Next, Task, Receive, Extract, Deadline

\* Every variable keeps its type whatever arrives on the wire and however the
\* task, the driver and the bus interleave: blob, ring, event queue and skipped
\* ring stay within their sizes.
THEOREM TypeCorrect == Spec => []TypeOK
<1>1. TypeOK /\ [Next]_vars => TypeOK'
  BY BusType, DriverType, BlobType, ResyncType, PairingType, CountersType DEF TypeOK
<1> QED
  BY InitType, <1>1, PTL DEF Spec

-----------------------------------------------------------------------------
(* Accounting: bytes, frames and reports.  Each of the three is inductive  *)
(* together with TypeOK.                                                   *)

\* process_frame books its n bytes, and the frame under exactly one heading.
LEMMA FrameBooked ==
    ASSUME TypeOK, NEW n \in Nat, s_blob[1][1] \in Frame,
           process_frame(s_blob[1][1], n)
    PROVE  /\ acct'.framed = acct.framed + n
           /\ acct'.drained = acct.drained /\ acct'.insane = acct.insane
           /\ acct'.cleared = acct.cleared
           /\ s_parse_errors' + tables'.cmdCount + acct'.asked + acct'.answered
                = s_parse_errors + tables.cmdCount + acct.asked + acct.answered + 1
<1> DEFINE f == s_blob[1][1]
<1> USE DEF AcctType
<1>0. /\ acct \in AcctType
      /\ s_parse_errors \in Nat /\ tables.cmdCount \in Nat
      /\ acct.asked \in Nat /\ acct.answered \in Nat /\ acct.framed \in Nat
  BY DEF TypeOK, CountersOK, PairingOK, Tables
<1>1. CASE RejectFrame(n)
  BY <1>0, <1>1 DEF RejectFrame, CountError
<1>2. CASE ProcessCommand(f, n)
  <2>1. tables'.cmdCount = tables.cmdCount + 1
    BY <1>2, CommandType DEF ProcessCommand
  <2> QED
    BY <1>0, <1>2, <2>1 DEF ProcessCommand
<1>3. CASE ProcessRequest(f, n)
  BY <1>0, <1>3 DEF ProcessRequest
<1>4. CASE ProcessOrphan(f, n)
  BY <1>0, <1>4 DEF ProcessOrphan, CountError
<1>5. CASE ProcessResponse(f, n)
  <2>1. f.win \in Windows
    BY <1>5, ReadWindow DEF ProcessResponse
  <2>2. tables'.cmdCount = tables.cmdCount
    BY <1>5, <2>1, ResponseType DEF ProcessResponse
  <2> QED
    BY <1>0, <1>5, <2>2 DEF ProcessResponse
<1> QED
  BY <1>1, <1>2, <1>3, <1>4, <1>5 DEF process_frame

LEMMA BytesStep == TypeOK /\ BytesConserved /\ [Next]_vars => BytesConserved'
<1> SUFFICES ASSUME TypeOK, BytesConserved, [Next]_vars PROVE BytesConserved'
  OBVIOUS
<1>0. /\ acct \in AcctType /\ s_resync_bytes \in Nat /\ Len(s_blob) \in Nat
      /\ acct.drained \in Nat /\ acct.framed \in Nat /\ acct.insane \in Nat
      /\ acct.cleared \in Nat
  BY LenProperties DEF TypeOK, CountersOK, BlobOK, AcctType
<1> USE DEF BytesConserved, AcctType
<1>1. CASE Bus \/ Driver \/ HandleBufferFull \/ NoEvent
  BY <1>1 DEF Bus, BusRequest, BusReply, Tick, Driver, Arrive, Overrun,
              HandleBufferFull, NoEvent, taskVars, counterVars
<1>2. CASE HandleData
  <2>1. /\ SubSeq(rx, 1, DrainCount) \in Seq(Byte)
        /\ Len(SubSeq(rx, 1, DrainCount)) = DrainCount /\ DrainCount \in Nat
    BY DrainBounds, PartsOfSeq DEF TypeOK, DriverOK
  <2>2. Len(s_blob') = Len(s_blob) + DrainCount
    BY <1>2, <2>1, ConcatProperties DEF HandleData, TypeOK, BlobOK
  <2>3. s_resync_bytes' = s_resync_bytes
        /\ acct' = [acct EXCEPT !.drained = @ + DrainCount]
    BY <1>2 DEF HandleData, counterVars
  <2> QED
    BY <1>0, <2>1, <2>2, <2>3
<1>3. CASE HandleFifoOvf
  <2>1. Len(s_blob') = 0
    BY <1>3 DEF HandleFifoOvf
  <2> QED
    BY <1>0, <1>3, <2>1 DEF HandleFifoOvf, counterVars
<1>4. CASE ExtractDone \/ AwaitRest \/ Deadline
  BY <1>4 DEF ExtractDone, AwaitRest, Deadline, GiveUp, KeepWaiting, counterVars
<1>5. CASE DropUnframed
  <2>1. Len(s_blob) - 1 \in 0..Len(s_blob)
    BY <1>5, LoopingBlob DEF DropUnframed, TypeOK
  <2>2. Len(s_blob') = Len(s_blob) - (Len(s_blob) - 1)
    BY <1>5, <2>1, ConsumeType DEF DropUnframed, TypeOK
  <2>3. s_resync_bytes' = s_resync_bytes + (Len(s_blob) - 1) /\ acct' = acct
    BY <1>5 DEF DropUnframed, Skip
  <2> QED
    BY <1>0, <2>2, <2>3
<1>6. CASE SkipGarbage
  <2>1. PICK k \in 1..(Len(s_blob) - 1) :
          s_resync_bytes' = s_resync_bytes + k /\ consume_front(k)
    BY <1>6 DEF SkipGarbage, Skip
  <2>2. Len(s_blob') = Len(s_blob) - k /\ k \in Nat
    BY <1>0, <2>1, ConsumeType DEF TypeOK
  <2>3. acct' = acct /\ s_resync_bytes' = s_resync_bytes + k
    BY <1>6, <2>1 DEF SkipGarbage
  <2>4. acct.drained = acct.framed + s_resync_bytes' + 2 * acct.insane
                       + acct.cleared + Len(s_blob')
    BY <1>0, <2>2, <2>3
  <2> QED
    BY <2>3, <2>4
<1>7. CASE DropInsane
  <2>1. Len(s_blob') = Len(s_blob) - 2
    BY <1>7, FrontFrame, ConsumeType DEF DropInsane, TypeOK
  <2> QED
    BY <1>0, <1>7, <2>1 DEF DropInsane
<1>8. CASE TakeFrame
  <2>1. PICK n \in 0..Len(s_blob) :
          /\ process_frame(s_blob[1][1], n) /\ consume_front(n)
          /\ s_blob[1][1] \in Frame
    BY <1>8, TakenFrame
  <2>2. Len(s_blob') = Len(s_blob) - n /\ n \in Nat
    BY <1>0, <2>1, ConsumeType DEF TypeOK
  <2>3. /\ acct'.framed = acct.framed + n
        /\ acct'.drained = acct.drained /\ acct'.insane = acct.insane
        /\ acct'.cleared = acct.cleared
    BY <2>1, <2>2, FrameBooked
  <2>4. s_resync_bytes' = s_resync_bytes
    BY <1>8 DEF TakeFrame
  <2> QED
    BY <1>0, <2>2, <2>3, <2>4
<1>9. CASE UNCHANGED vars
  BY <1>9 DEF vars, taskVars, counterVars
<1> QED
  BY <1>1, <1>2, <1>3, <1>4, <1>5, <1>6, <1>7, <1>8, <1>9
     DEF Next, Task, Receive, Extract

LEMMA FramesStep == TypeOK /\ FramesAccounted /\ [Next]_vars => FramesAccounted'
<1> SUFFICES ASSUME TypeOK, FramesAccounted, [Next]_vars PROVE FramesAccounted'
  OBVIOUS
<1>0. /\ acct \in AcctType /\ s_frame_count \in Nat /\ s_parse_errors \in Nat
      /\ tables.cmdCount \in Nat /\ acct.insane \in Nat
      /\ acct.asked \in Nat /\ acct.answered \in Nat
  BY DEF TypeOK, CountersOK, PairingOK, Tables, AcctType
<1> USE DEF FramesAccounted, AcctType
<1>1. CASE Bus \/ Driver \/ HandleBufferFull \/ NoEvent
  BY <1>1 DEF Bus, BusRequest, BusReply, Tick, Driver, Arrive, Overrun,
              HandleBufferFull, NoEvent, taskVars, counterVars, pairingVars
<1>2. CASE HandleData \/ HandleFifoOvf
  <2>1. UNCHANGED <<s_frame_count, s_parse_errors, tables>>
    BY <1>2 DEF HandleData, HandleFifoOvf, counterVars, pairingVars
  <2>2. \/ acct' = [acct EXCEPT !.drained = @ + DrainCount]
        \/ acct' = [acct EXCEPT !.cleared = @ + Len(s_blob)]
    BY <1>2 DEF HandleData, HandleFifoOvf
  <2>3. /\ acct'.insane = acct.insane /\ acct'.asked = acct.asked
        /\ acct'.answered = acct.answered
    BY <1>0, <2>2
  <2> QED
    BY <1>0, <2>1, <2>3
<1>3. CASE ExtractDone \/ AwaitRest \/ DropUnframed \/ SkipGarbage \/ Deadline
  BY <1>3 DEF ExtractDone, AwaitRest, DropUnframed, SkipGarbage, Deadline,
              GiveUp, KeepWaiting, counterVars, pairingVars
<1>4. CASE DropInsane
  BY <1>0, <1>4 DEF DropInsane, CountError, pairingVars
<1>5. CASE TakeFrame
  <2>1. PICK n \in 0..Len(s_blob) :
          process_frame(s_blob[1][1], n) /\ s_blob[1][1] \in Frame
    BY <1>5, TakenFrame
  <2>2. n \in Nat
    BY <2>1, LenProperties DEF TypeOK, BlobOK
  <2>3. /\ acct'.insane = acct.insane
        /\ s_parse_errors' + tables'.cmdCount + acct'.asked + acct'.answered
             = s_parse_errors + tables.cmdCount + acct.asked + acct.answered + 1
    BY <2>1, <2>2, FrameBooked
  <2> QED
    BY <1>0, <1>5, <2>3 DEF TakeFrame
<1>6. CASE UNCHANGED vars
  BY <1>6 DEF vars, taskVars, counterVars, pairingVars
<1> QED
  BY <1>1, <1>2, <1>3, <1>4, <1>5, <1>6 DEF Next, Task, Receive, Extract

LEMMA ReportsStep == TypeOK /\ ReportedOnce /\ [Next]_vars => ReportedOnce'
<1> SUFFICES ASSUME TypeOK, ReportedOnce, [Next]_vars PROVE ReportedOnce'
  OBVIOUS
<1>0. acct \in AcctType /\ s_txn_count \in Nat /\ acct.asked \in Nat
  BY DEF TypeOK, CountersOK, AcctType
<1> USE DEF ReportedOnce, AcctType
<1>1. CASE Tick
  <2>1. Ages => s_pending' # None
    BY <1>1, OlderType, SnifferAssumption DEF Tick
  <2> QED
    BY <1>1, <2>1 DEF Tick, Ages, counterVars
<1>2. CASE BusRequest \/ BusReply \/ Driver \/ HandleBufferFull \/ NoEvent
  BY <1>2 DEF BusRequest, BusReply, Driver, Arrive, Overrun, HandleBufferFull,
              NoEvent, taskVars, counterVars, pairingVars
<1>3. CASE HandleData \/ HandleFifoOvf \/ DropInsane
  <2>1. UNCHANGED <<s_pending, s_txn_count>>
    BY <1>3 DEF HandleData, HandleFifoOvf, DropInsane, counterVars, pairingVars
  <2>2. \/ acct' = [acct EXCEPT !.drained = @ + DrainCount]
        \/ acct' = [acct EXCEPT !.cleared = @ + Len(s_blob)]
        \/ acct' = [acct EXCEPT !.insane = @ + 1]
    BY <1>3 DEF HandleData, HandleFifoOvf, DropInsane
  <2>3. acct'.asked = acct.asked
    BY <1>0, <2>2
  <2> QED
    BY <2>1, <2>3
<1>4. CASE ExtractDone \/ AwaitRest \/ DropUnframed \/ SkipGarbage \/ KeepWaiting
  BY <1>4 DEF ExtractDone, AwaitRest, DropUnframed, SkipGarbage, KeepWaiting,
              counterVars, pairingVars
<1>5. CASE TakeFrame
  <2>1. PICK n \in 0..Len(s_blob) :
          process_frame(s_blob[1][1], n) /\ s_blob[1][1] \in Frame
    BY <1>5, TakenFrame
  <2> DEFINE f == s_blob[1][1]
  <2>2. CASE RejectFrame(n) \/ ProcessCommand(f, n) \/ ProcessOrphan(f, n)
    BY <1>0, <2>2 DEF RejectFrame, ProcessCommand, ProcessOrphan, NoDelivery
  <2>3. CASE ProcessRequest(f, n)
    <3>1. acct'.asked = acct.asked + 1
      BY <1>0, <2>3 DEF ProcessRequest
    <3>2. s_pending' # None
      <4>1. f.win \in Windows
        BY <2>1, <2>3, ReadWindow DEF ProcessRequest
      <4>2. s_pending' \in Pending
        BY <2>1, <2>3, <4>1, SnifferAssumption DEF ProcessRequest, Pending, Frame
      <4> QED
        BY <4>2, SnifferAssumption
    <3> QED
      BY <1>0, <2>3, <3>1, <3>2 DEF ProcessRequest, Deliver, NoDelivery
  <2>4. CASE ProcessResponse(f, n)
    <3>1. acct'.asked = acct.asked
      BY <1>0, <2>4 DEF ProcessResponse
    <3> QED
      BY <1>0, <2>4, <3>1 DEF ProcessResponse, Matches, Deliver
  <2> QED
    BY <2>1, <2>2, <2>3, <2>4 DEF process_frame
<1>6. CASE GiveUp
  BY <1>0, <1>6 DEF GiveUp, Overdue, Deliver
<1>7. CASE UNCHANGED vars
  BY <1>7 DEF vars, taskVars, counterVars, pairingVars
<1> QED
  BY <1>1, <1>2, <1>3, <1>4, <1>5, <1>6, <1>7
     DEF Next, Bus, Task, Receive, Extract, Deadline

\* Nothing read from the driver is lost or counted twice, for any traffic,
\* damage, splitting and sizes.
THEOREM BytesAreConserved == Spec => []BytesConserved
<1>1. Init => BytesConserved
  BY DEF Init, BytesConserved
<1> QED
  BY <1>1, BytesStep, TypeCorrect, PTL DEF Spec

\* Every frame taken out of the stream is booked under exactly one heading.
THEOREM FramesAreAccounted == Spec => []FramesAccounted
<1>1. Init => FramesAccounted
  BY DEF Init, FramesAccounted, EmptyTables
<1> QED
  BY <1>1, FramesStep, TypeCorrect, PTL DEF Spec

\* Every request recognised is reported once or still pending.
THEOREM RequestsReportedOnce == Spec => []ReportedOnce
<1>1. Init => ReportedOnce
  BY DEF Init, ReportedOnce
<1> QED
  BY <1>1, ReportsStep, TypeCorrect, PTL DEF Spec

-----------------------------------------------------------------------------
(* Refinement: every step of the sniffer is a step of Pairing or leaves    *)
(* what Pairing sees unchanged.                                            *)

LEMMA OpenType ==
    ASSUME TypeOK
    PROVE  /\ s_pending # None => OpenRequest \in Request
           /\ s_pending = None <=> OpenRequest = None
<1>1. s_pending # None => OpenRequest \in Request
  BY DEF OpenRequest, TypeOK, PairingOK, Pending, Request
<1>2. None \notin Request
  BY SnifferAssumption
<1> QED
  BY <1>1, <1>2 DEF OpenRequest

\* The four things a transaction report depends on stay as they are.
Unreported == UNCHANGED <<OpenRequest, report, acct.asked, s_txn_count>>

LEMMA StutterStep == Unreported => UNCHANGED Promise!vars
  BY DEF Unreported, Promise!vars

LEMMA RequestStep ==
    ASSUME TypeOK, NEW n \in Nat, s_blob[1][1] \in Frame,
           ProcessRequest(s_blob[1][1], n)
    PROVE  Promise!Ask
<1> DEFINE f == s_blob[1][1]
<1>1. acct'.asked = acct.asked + 1
  BY DEF ProcessRequest, TypeOK, CountersOK
<1>2. f.win \in Windows /\ f.id \in Ids
  BY ReadWindow DEF ProcessRequest, Frame
<1>3. s_pending' = [win |-> f.win, id |-> f.id, age |-> 0]
  BY DEF ProcessRequest
<1>4. s_pending' \in Pending
  BY <1>2, <1>3, SnifferAssumption DEF Pending
<1>5. OpenRequest' \in Request
  BY <1>4, SnifferAssumption DEF OpenRequest, Pending, Request
<1>6. CASE s_pending = None
  <2>1. UNCHANGED <<report, s_txn_count>> /\ OpenRequest = None
    BY <1>6, OpenType DEF ProcessRequest, NoDelivery
  <2> QED
    BY <1>1, <1>5, <2>1 DEF Promise!Ask
<1>7. CASE s_pending # None
  <2>1. report' = [req |-> OpenRequest, ans |-> None] /\ s_txn_count' = s_txn_count + 1
    BY <1>7 DEF ProcessRequest, Deliver, Unanswered, OpenRequest
  <2>2. OpenRequest # None
    BY <1>7, OpenType
  <2> QED
    BY <1>1, <1>5, <2>1, <2>2 DEF Promise!Ask, Promise!Report
<1> QED
  BY <1>6, <1>7

LEMMA ResponseStep ==
    ASSUME TypeOK, NEW n \in Nat, s_blob[1][1] \in Frame,
           ProcessResponse(s_blob[1][1], n)
    PROVE  Promise!Answer
<1> DEFINE f == s_blob[1][1]
           a == [win |-> f.win, id |-> f.id]
<1>1. acct'.asked = acct.asked
  BY DEF ProcessResponse, TypeOK, CountersOK
<1>2. f.win \in Windows /\ f.id \in Ids
  BY ReadWindow DEF ProcessResponse, Frame
<1>3. a \in Request /\ a.win = f.win
  BY <1>2 DEF Request
<1>4. s_pending # None /\ s_pending.win = f.win
  BY DEF ProcessResponse, Matches
<1>5. OpenRequest # None /\ OpenRequest.win = f.win
  BY <1>4, OpenType DEF OpenRequest
<1>6. report' = [req |-> OpenRequest, ans |-> a] /\ s_txn_count' = s_txn_count + 1
  BY <1>4 DEF ProcessResponse, Deliver, OpenRequest
<1>7. OpenRequest' = None
  BY DEF ProcessResponse, OpenRequest
<1> QED
  BY <1>1, <1>3, <1>5, <1>6, <1>7 DEF Promise!Answer, Promise!Report

LEMMA GiveUpStep ==
    ASSUME TypeOK, GiveUp
    PROVE  Promise!GiveUp
<1>1. s_pending # None /\ OpenRequest # None
  BY OpenType DEF GiveUp, Overdue
<1>2. report' = [req |-> OpenRequest, ans |-> None] /\ s_txn_count' = s_txn_count + 1
  BY <1>1 DEF GiveUp, Deliver, Unanswered, OpenRequest
<1>3. OpenRequest' = None /\ acct' = acct
  BY DEF GiveUp, OpenRequest
<1> QED
  BY <1>1, <1>2, <1>3 DEF Promise!GiveUp, Promise!Report

LEMMA PromiseStep == TypeOK /\ [Next]_vars => [Promise!Next]_(Promise!vars)
<1> SUFFICES ASSUME TypeOK, [Next]_vars
             PROVE  Promise!Next \/ Unreported
  BY StutterStep
<1>0. acct \in AcctType
  BY DEF TypeOK, CountersOK, AcctType
<1>1. CASE Tick
  <2>1. CASE Ages
    <3>1. s_pending \in Pending /\ s_pending' \in Pending
          /\ s_pending' = [s_pending EXCEPT !.age = @ + 1]
      BY <1>1, <2>1, OlderType DEF Tick
    <3>2. s_pending'.win = s_pending.win /\ s_pending'.id = s_pending.id
      BY <3>1 DEF Pending
    <3>3. OpenRequest' = OpenRequest
      BY <3>1, <3>2, SnifferAssumption DEF OpenRequest
    <3> QED
      BY <1>1, <3>3 DEF Tick, Unreported, counterVars
  <2>2. CASE ~Ages
    BY <1>1, <2>2 DEF Tick, Unreported, OpenRequest, counterVars
  <2> QED
    BY <2>1, <2>2
<1>2. CASE BusRequest \/ BusReply \/ Driver \/ HandleBufferFull \/ NoEvent
  BY <1>2 DEF BusRequest, BusReply, Driver, Arrive, Overrun, HandleBufferFull, NoEvent,
              taskVars, counterVars, pairingVars, Unreported, OpenRequest
<1>3. CASE HandleData \/ HandleFifoOvf \/ DropInsane
  <2>1. UNCHANGED <<s_pending, report, s_txn_count>>
    BY <1>3 DEF HandleData, HandleFifoOvf, DropInsane, counterVars, pairingVars
  <2>2. \/ acct' = [acct EXCEPT !.drained = @ + DrainCount]
        \/ acct' = [acct EXCEPT !.cleared = @ + Len(s_blob)]
        \/ acct' = [acct EXCEPT !.insane = @ + 1]
    BY <1>3 DEF HandleData, HandleFifoOvf, DropInsane
  <2>3. acct'.asked = acct.asked
    BY <1>0, <2>2 DEF AcctType
  <2> QED
    BY <2>1, <2>3 DEF Unreported, OpenRequest
<1>4. CASE ExtractDone \/ AwaitRest \/ DropUnframed \/ SkipGarbage \/ KeepWaiting
  BY <1>4 DEF ExtractDone, AwaitRest, DropUnframed, SkipGarbage, KeepWaiting,
              counterVars, pairingVars, Unreported, OpenRequest
<1>5. CASE TakeFrame
  <2> DEFINE f == s_blob[1][1]
  <2>1. PICK n \in 0..Len(s_blob) : process_frame(f, n) /\ f \in Frame
    BY <1>5, TakenFrame
  <2>2. n \in Nat
    BY <2>1, LenProperties DEF TypeOK, BlobOK
  <2>3. CASE RejectFrame(n) \/ ProcessCommand(f, n) \/ ProcessOrphan(f, n)
    BY <1>0, <2>3 DEF RejectFrame, ProcessCommand, ProcessOrphan, NoDelivery,
                      AcctType, Unreported, OpenRequest
  <2>4. CASE ProcessRequest(f, n)
    BY <2>1, <2>2, <2>4, RequestStep DEF Promise!Next
  <2>5. CASE ProcessResponse(f, n)
    BY <2>1, <2>2, <2>5, ResponseStep DEF Promise!Next
  <2> QED
    BY <2>1, <2>3, <2>4, <2>5 DEF process_frame
<1>6. CASE GiveUp
  BY <1>6, GiveUpStep DEF Promise!Next
<1>7. CASE UNCHANGED vars
  BY <1>7 DEF vars, taskVars, counterVars, pairingVars, Unreported, OpenRequest
<1> QED
  BY <1>1, <1>2, <1>3, <1>4, <1>5, <1>6, <1>7
     DEF Next, Bus, Task, Receive, Extract, Deadline

\* The sniffer implements the pairing service: for any traffic, damage, timing
\* and sizes its reports are those Pairing allows.
THEOREM ImplementsThePromise == Spec => ImplementsPairing
<1>1. Init => Promise!Init
  BY DEF Init, Promise!Init, OpenRequest
<1> QED
  BY <1>1, PromiseStep, TypeCorrect, PTL DEF Spec, ImplementsPairing, Promise!Spec
=============================================================================
