---------------------------- MODULE FanoutProofs ----------------------------
(***************************************************************************)
(* Proofs about Fanout, for a ring of any size and any number of sockets:  *)
(* the ring holds the latest transactions, a response of GET /api/log is   *)
(* one run of them, broadcasts go to open WebSockets only, and a client    *)
(* that subscribed and fetched the log misses nothing.                     *)
(*                                                                         *)
(* Taking a client off the list is a recursive function of the list; what  *)
(* it computes is proved by induction, with the set of the numbers that    *)
(* the claim holds of in the place of the claim.                           *)
(***************************************************************************)
EXTENDS Fanout, WellFoundedInduction, TLAPS

LEMMA ModOf ==
    ASSUME NEW c \in Nat \ {0}, NEW a \in 0..(c - 1)
    PROVE  a % c = a /\ (a + c) % c = a
<1>1. a % c = a
  BY SMT
<1>2. (a + c) % c = a
  BY SMT
<1> QED
  BY <1>1, <1>2

\* Transactions logged so far.
logged == IF pc = "log" THEN txns - 1 ELSE txns

\* Place in s_log of entry i, counted from the oldest, with head h.
Place(h, i) == IF h + i <= LogCapacity THEN h + i ELSE h + i - LogCapacity

\* The ring fills from its first place and then overwrites its oldest entry.
RingOK ==
    /\ txns \in Nat /\ (pc = "log" => txns > 0)
    /\ s_log \in Seq(Nat) /\ s_log_head \in 0..(LogCapacity - 1)
    /\ Len(s_log) = IF logged < LogCapacity THEN logged ELSE LogCapacity
    /\ Len(s_log) < LogCapacity =>
         s_log_head = Len(s_log) /\ \A i \in 1..Len(s_log) : s_log[i] = i
    /\ Len(s_log) = LogCapacity =>
         \A i \in 1..LogCapacity : s_log[Place(s_log_head, i)] = logged - LogCapacity + i

\* The response repeats the ring from its oldest entry on, and the ring does
\* not change while the response is sent, because httpd holds the mutex.
ResponseOK ==
    /\ sent \in Seq(Nat) /\ Len(sent) <= Len(s_log)
    /\ \A i \in 1..Len(sent) : sent[i] = logged - Len(s_log) + i
    /\ sent # <<>> => hpc = "chunks"
    /\ hpc = "chunks" => s_log_mutex = "httpd"

LogInv == RingOK /\ ResponseOK

LEMMA Constants == LogCapacity \in Nat \ {0} /\ MaxTxns \in Nat
  BY FanoutAssumption

\* What handle_log reads as entry i.
LEMMA RingEntryIs ==
    ASSUME RingOK, NEW i \in 1..Len(s_log)
    PROVE  RingEntry(i) = logged - Len(s_log) + i
<1>0. LogCapacity \in Nat \ {0} /\ Len(s_log) \in Nat /\ Len(s_log) <= LogCapacity
  BY Constants DEF RingOK
<1>1. CASE Len(s_log) < LogCapacity
  <2>1. RingEntry(i) = s_log[i]
    BY <1>1 DEF RingEntry
  <2>2. s_log[i] = i /\ Len(s_log) = logged
    BY <1>1, <1>0 DEF RingOK, logged
  <2> QED
    BY <2>1, <2>2, <1>0
<1>2. CASE Len(s_log) = LogCapacity
  <2> DEFINE h == s_log_head
  <2>1. h \in 0..(LogCapacity - 1) /\ i \in 1..LogCapacity
    BY <1>2 DEF RingOK
  <2>2. RingEntry(i) = s_log[((h + i - 1) % LogCapacity) + 1]
    BY <1>0, <1>2 DEF RingEntry
  <2> HIDE DEF h
  <2>3. ((h + i - 1) % LogCapacity) + 1 = Place(h, i)
    <3>1. CASE h + i <= LogCapacity
      <4> DEFINE a == h + i - 1
      <4>1. a \in 0..(LogCapacity - 1) /\ a + 1 = h + i
        BY <1>0, <2>1, <3>1
      <4> HIDE DEF a
      <4>2. a % LogCapacity = a
        BY <1>0, <4>1, ModOf
      <4>3. ((h + i - 1) % LogCapacity) + 1 = h + i
        BY <4>1, <4>2, Zenon DEF a
      <4> QED
        BY <3>1, <4>3 DEF Place
    <3>2. CASE h + i > LogCapacity
      <4> DEFINE a == h + i - 1 - LogCapacity
      <4>1. /\ a \in 0..(LogCapacity - 1) /\ h + i - 1 = a + LogCapacity
            /\ a + 1 = h + i - LogCapacity
        BY <1>0, <2>1, <3>2
      <4> HIDE DEF a
      <4>2. (a + LogCapacity) % LogCapacity = a
        BY <1>0, <4>1, ModOf
      <4>3. ((h + i - 1) % LogCapacity) + 1 = h + i - LogCapacity
        BY <4>1, <4>2, Zenon
      <4> QED
        BY <1>0, <2>1, <3>2, <4>3 DEF Place
    <3> QED
      BY <1>0, <2>1, <3>1, <3>2
  <2> QED
    BY <1>2, <2>1, <2>2, <2>3 DEF RingOK, h
<1> QED
  BY <1>0, <1>1, <1>2

\* log_add
LEMMA LogAddKeeps ==
    ASSUME LogInv, LogAdd
    PROVE  LogInv'
<1>0. LogCapacity \in Nat \ {0} /\ Len(s_log) \in Nat /\ txns \in Nat /\ txns > 0
      /\ s_log \in Seq(Nat) /\ s_log_head \in 0..(LogCapacity - 1)
      /\ pc = "log" /\ pc' # "log" /\ txns' = txns
  BY Constants DEF LogInv, RingOK, LogAdd, After, BroadcastOrder, snifferVars
<1>1. logged = txns - 1 /\ logged' = txns
  BY <1>0 DEF logged
<1>2. s_log' = IF Len(s_log) < LogCapacity THEN Append(s_log, txns)
                                           ELSE [s_log EXCEPT ![s_log_head + 1] = txns]
  BY DEF LogAdd
<1>3. s_log_head' = IF s_log_head + 1 = LogCapacity THEN 0 ELSE s_log_head + 1
  <2>1. CASE s_log_head + 1 = LogCapacity
    <3>1. (0 + LogCapacity) % LogCapacity = 0
      BY <1>0, ModOf
    <3> QED
      BY <1>0, <2>1, <3>1 DEF LogAdd, NextHead
  <2>2. CASE s_log_head + 1 # LogCapacity
    <3>1. s_log_head + 1 \in 0..(LogCapacity - 1)
      BY <1>0, <2>2
    <3> QED
      BY <1>0, <2>2, <3>1, ModOf DEF LogAdd, NextHead
  <2> QED
    BY <2>1, <2>2
<1>4. RingOK'
  <2>1. CASE Len(s_log) < LogCapacity
    <3>1. /\ Len(s_log) = txns - 1 /\ s_log_head = txns - 1
          /\ \A i \in 1..Len(s_log) : s_log[i] = i
      BY <1>0, <1>1, <2>1 DEF LogInv, RingOK
    <3>2. /\ s_log' \in Seq(Nat) /\ Len(s_log') = txns
          /\ \A i \in 1..txns : s_log'[i] = i
      BY <1>0, <1>2, <2>1, <3>1
    <3>3. txns <= LogCapacity
      BY <1>0, <2>1, <3>1
    <3>4. CASE txns < LogCapacity
      BY <1>0, <1>1, <1>3, <3>1, <3>2, <3>4 DEF RingOK
    <3>5. CASE txns = LogCapacity
      <4>1. s_log_head' = 0
        BY <1>0, <1>3, <3>1, <3>5
      <4>2. \A i \in 1..LogCapacity : Place(0, i) = i
        BY <1>0 DEF Place
      <4> QED
        BY <1>0, <1>1, <3>2, <3>5, <4>1, <4>2 DEF RingOK
    <3> QED
      BY <1>0, <3>3, <3>4, <3>5
  <2>2. CASE Len(s_log) = LogCapacity
    <3>1. /\ s_log' = [s_log EXCEPT ![s_log_head + 1] = txns]
          /\ \A i \in 1..LogCapacity : s_log[Place(s_log_head, i)] = txns - 1 - LogCapacity + i
          /\ txns - 1 >= LogCapacity
      BY <1>0, <1>1, <1>2, <2>2 DEF LogInv, RingOK
    <3>2. /\ s_log' \in Seq(Nat) /\ Len(s_log') = LogCapacity
          /\ \A j \in 1..LogCapacity : s_log'[j] = IF j = s_log_head + 1 THEN txns ELSE s_log[j]
      BY <1>0, <2>2, <3>1
    <3>3. ASSUME NEW i \in 1..LogCapacity
          PROVE  s_log'[Place(s_log_head', i)] = txns - LogCapacity + i
      <4>1. CASE i = LogCapacity
        <5>1. Place(s_log_head', i) = s_log_head + 1
          BY <1>0, <1>3, <4>1 DEF Place
        <5> QED
          BY <1>0, <3>2, <4>1, <5>1
      <4>2. CASE i < LogCapacity
        <5>1. /\ Place(s_log_head', i) = Place(s_log_head, i + 1)
              /\ Place(s_log_head, i + 1) \in 1..LogCapacity
              /\ Place(s_log_head, i + 1) # s_log_head + 1
          BY <1>0, <1>3, <4>2 DEF Place
        <5>2. s_log[Place(s_log_head, i + 1)] = txns - 1 - LogCapacity + (i + 1)
          BY <1>0, <3>1, <4>2
        <5> QED
          BY <1>0, <3>2, <5>1, <5>2
      <4> QED
        BY <1>0, <4>1, <4>2
    <3>4. s_log_head' \in 0..(LogCapacity - 1)
      BY <1>0, <1>3
    <3> QED
      BY <1>0, <1>1, <3>1, <3>2, <3>3, <3>4 DEF RingOK
  <2> QED
    BY <1>0, <2>1, <2>2 DEF LogInv, RingOK
<1>5. ResponseOK'
  <2>1. s_log_mutex = "free" /\ UNCHANGED <<s_log_mutex, hpc, sent>>
    BY DEF LogAdd, httpdVars
  <2>2. sent = <<>>
    BY <2>1 DEF LogInv, ResponseOK
  <2>3. Len(s_log') \in Nat
    BY <1>4 DEF RingOK
  <2> QED
    BY <2>1, <2>2, <2>3 DEF LogInv, ResponseOK
<1> QED
  BY <1>4, <1>5 DEF LogInv

\* A step that changes neither the log nor what has been logged.
LEMMA RingKept ==
    ASSUME RingOK, UNCHANGED logVars, txns' \in Nat, pc' = "log" => txns' > 0, logged' = logged
    PROVE  RingOK'
<1>1. s_log' = s_log /\ s_log_head' = s_log_head
  BY DEF logVars
<1>2. \A i \in 1..LogCapacity : Place(s_log_head, i)' = Place(s_log_head, i)
  BY <1>1 DEF Place
<1> QED
  BY <1>1, <1>2 DEF RingOK, Place

LEMMA SnifferKeepsLog ==
    ASSUME LogInv, Report \/ WsLock \/ WsSend \/ WsUnlock
    PROVE  LogInv'
<1>1. UNCHANGED <<logVars, s_log_mutex, httpdVars>> /\ txns \in Nat /\ (pc = "log" => txns > 0)
  BY DEF LogInv, RingOK, Report, WsLock, WsSend, WsUnlock
<1>2. txns' \in Nat /\ (pc' = "log" => txns' > 0) /\ logged' = logged
  <2>1. CASE Report
    BY <1>1, <2>1 DEF Report, BroadcastOrder, logged
  <2>2. CASE WsLock \/ WsSend \/ WsUnlock
    <3>1. txns' = txns /\ (pc' = pc \/ (pc # "log" /\ pc' # "log"))
      BY <2>2 DEF WsLock, WsSend, WsUnlock, After, BroadcastOrder
    <3> QED
      BY <1>1, <3>1 DEF logged
  <2> QED
    BY <2>1, <2>2
<1>3. RingOK'
  BY <1>1, <1>2, RingKept DEF LogInv
<1>4. ResponseOK'
  BY <1>1, <1>2 DEF LogInv, ResponseOK, logVars, httpdVars
<1> QED
  BY <1>3, <1>4 DEF LogInv

LEMMA HttpdKeepsLog ==
    ASSUME LogInv, HttpdTask
    PROVE  LogInv'
<1>1. UNCHANGED <<logVars, snifferVars>>
  BY DEF HttpdTask, Accept, Subscribe, ReceiveClose, EndSession, GetStatus, GetLog, Handlers,
         AddClient, RemoveClient, CloseSocket, LogLock, LogChunk, LogEnd, Serve
<1>2. logged' = logged /\ s_log' = s_log /\ txns' = txns /\ pc' = pc
  BY <1>1 DEF logVars, snifferVars, logged
<1>3. RingOK'
  BY <1>1, <1>2, RingKept DEF LogInv, RingOK
<1>4. ResponseOK'
  <2>1. CASE LogLock
    BY <1>2, <2>1 DEF LogLock, LogHeldBy, LogInv, ResponseOK, Serve
  <2>2. CASE LogChunk
    <3> DEFINE k == Len(sent) + 1
    <3>1. /\ hpc = "chunks" /\ hpc' = hpc /\ s_log_mutex' = s_log_mutex
          /\ sent' = Append(sent, RingEntry(k)) /\ Len(sent) < Len(s_log)
      BY <2>2 DEF LogChunk
    <3>2. /\ sent \in Seq(Nat) /\ s_log \in Seq(Nat) /\ logged \in Int /\ Len(s_log) <= logged
      BY FanoutAssumption DEF LogInv, RingOK, ResponseOK, logged
    <3>3. k \in 1..Len(s_log)
      BY <3>1, <3>2
    <3>4. RingEntry(k) = logged - Len(s_log) + k
      BY <3>3, RingEntryIs DEF LogInv
    <3> HIDE DEF k
    <3>5. RingEntry(k) \in Nat
      BY <3>2, <3>3, <3>4
    <3>6. /\ sent' \in Seq(Nat) /\ Len(sent') = k
          /\ \A i \in 1..Len(sent') : sent'[i] = IF i = k THEN RingEntry(k) ELSE sent[i]
      BY <3>1, <3>2, <3>5 DEF k
    <3>7. \A i \in 1..Len(sent) : sent[i] = logged - Len(s_log) + i
      BY DEF LogInv, ResponseOK
    <3>8. ASSUME NEW i \in 1..Len(sent')
          PROVE  sent'[i] = logged - Len(s_log) + i
      <4>1. CASE i = k
        BY <3>4, <3>6, <4>1
      <4>2. CASE i # k
        <5>1. i \in 1..Len(sent)
          BY <3>2, <3>6, <4>2 DEF k
        <5> QED
          BY <3>6, <3>7, <4>2, <5>1
      <4> QED
        BY <4>1, <4>2
    <3>9. s_log_mutex' = "httpd" /\ hpc' = "chunks"
      BY <3>1 DEF LogInv, ResponseOK
    <3>10. Len(sent') <= Len(s_log)
      BY <3>3, <3>6
    <3> QED
      BY <1>2, <3>6, <3>8, <3>9, <3>10 DEF ResponseOK
  <2>3. CASE LogEnd
    <3>1. sent' = <<>> /\ hpc' = "idle"
      BY <2>3 DEF LogEnd, Serve
    <3>2. s_log \in Seq(Nat)
      BY DEF LogInv, RingOK
    <3> QED
      BY <1>2, <3>1, <3>2 DEF ResponseOK
  <2>4. CASE Accept
    BY <1>2, <2>4 DEF Accept, httpdVars, LogInv, ResponseOK
  <2>5. CASE \/ Subscribe \/ ReceiveClose \/ EndSession \/ GetStatus \/ GetLog
             \/ AddClient \/ RemoveClient \/ CloseSocket
    <3>1. sent' = sent /\ hpc # "chunks" /\ hpc' # "chunks"
      BY <2>5 DEF Subscribe, ReceiveClose, EndSession, GetStatus, GetLog, AddClient, RemoveClient,
                  CloseSocket, Serve
    <3> QED
      BY <1>2, <3>1 DEF LogInv, ResponseOK
  <2> QED
    BY <2>1, <2>2, <2>3, <2>4, <2>5 DEF HttpdTask, Handlers
<1> QED
  BY <1>3, <1>4 DEF LogInv

LEMMA LogInvariant == Spec => []LogInv
<1>1. Init => LogInv
  <2> SUFFICES ASSUME Init PROVE LogInv
    OBVIOUS
  <2>1. logged = 0 /\ s_log = <<>> /\ s_log_head = 0 /\ sent = <<>> /\ txns = 0 /\ pc = "idle"
        /\ hpc = "idle"
    BY DEF Init, logged
  <2>2. RingOK
    BY <2>1, Constants DEF RingOK
  <2>3. ResponseOK
    BY <2>1 DEF ResponseOK
  <2> QED
    BY <2>2, <2>3 DEF LogInv
<1>2. LogInv /\ [Next]_vars => LogInv'
  <2> SUFFICES ASSUME LogInv, [Next]_vars PROVE LogInv'
    OBVIOUS
  <2>1. CASE SnifferTask
    BY <2>1, SnifferKeepsLog, LogAddKeeps DEF SnifferTask
  <2>2. CASE HttpdTask
    BY <2>2, HttpdKeepsLog
  <2>3. CASE UNCHANGED vars
    <3>1. UNCHANGED <<logVars, s_log, txns, pc, logged, s_log_mutex, hpc, sent>>
      BY <2>3 DEF vars, logVars, snifferVars, httpdVars, logged
    <3>2. RingOK'
      BY <3>1, RingKept DEF LogInv, RingOK
    <3> QED
      BY <3>1, <3>2 DEF LogInv, ResponseOK
  <2> QED
    BY <2>1, <2>2, <2>3 DEF Next
<1> QED
  BY <1>1, <1>2, PTL DEF Spec

-----------------------------------------------------------------------------
\* The ring, read as handle_log reads it, holds the latest transactions, as
\* many as fit, oldest first.
THEOREM LogIsRecent == Spec => []LogRecent
<1>1. LogInv => LogRecent
  <2> SUFFICES ASSUME LogInv PROVE LogRecent
    OBVIOUS
  <2>1. Len(s_log) = IF logged < LogCapacity THEN logged ELSE LogCapacity
    BY DEF LogInv, RingOK
  <2>2. \A i \in 1..Len(s_log) : RingEntry(i) = logged - Len(s_log) + i
    BY RingEntryIs DEF LogInv
  <2>3. [i \in 1..Len(s_log) |-> RingEntry(i)] = LastOf(logged, Len(s_log))
    BY <2>2, Zenon DEF LastOf
  <2> QED
    BY <2>1, <2>3 DEF LogRecent, logged
<1> QED
  BY <1>1, LogInvariant, PTL

\* However slowly GET /api/log is sent, and whatever is reported meanwhile, its
\* response is one run of consecutive transactions.
THEOREM ResponseIsOneRun == Spec => []ResponseIsWindow
<1>1. LogInv => ResponseIsWindow
  <2> SUFFICES ASSUME LogInv, NEW i \in 1..(Len(sent) - 1) PROVE sent[i + 1] = sent[i] + 1
    BY DEF ResponseIsWindow
  <2>1. /\ Len(sent) \in Nat /\ logged \in Int /\ Len(s_log) \in Nat
        /\ \A j \in 1..Len(sent) : sent[j] = logged - Len(s_log) + j
    BY DEF LogInv, RingOK, ResponseOK, logged
  <2>2. i \in 1..Len(sent) /\ i + 1 \in 1..Len(sent)
    BY <2>1
  <2>3. sent[i] = logged - Len(s_log) + i /\ sent[i + 1] = logged - Len(s_log) + (i + 1)
    BY <2>1, <2>2
  <2> QED
    BY <2>1, <2>2, <2>3
<1> QED
  BY <1>1, LogInvariant, PTL

-----------------------------------------------------------------------------
(***************************************************************************)
(* The list without a client                                               *)
(***************************************************************************)
\* A nonempty set of naturals has a least element.
LEMMA LeastOf ==
    ASSUME NEW T \in SUBSET Nat, T # {}
    PROVE  \E n \in T : \A m \in T : n <= m
<1> DEFINE less == OpToRel(<, Nat)
<1>1. IsWellFoundedOn(less, Nat)
  BY NatLessThanWellFounded
<1>2. \A x, y \in Nat : <<y, x>> \in less <=> y < x
  BY DEF OpToRel
<1> HIDE DEF less
<1>3. PICK x \in T : \A y \in T : ~ (<<y, x>> \in less)
  BY <1>1, WFMin
<1>4. \A y \in T : ~ (y < x)
  BY <1>2, <1>3
<1> QED
  BY <1>4

\* Induction: what holds of 0 and passes on to the next holds of all.
LEMMA AllNumbers ==
    ASSUME NEW S \in SUBSET Nat, 0 \in S, \A n \in S : n + 1 \in S
    PROVE  S = Nat
<1> SUFFICES ASSUME S # Nat PROVE FALSE
  OBVIOUS
<1> DEFINE T == Nat \ S
<1>1. T \in SUBSET Nat /\ T # {}
  OBVIOUS
<1>2. PICK n \in T : \A m \in T : n <= m
  BY <1>1, LeastOf
<1>3. n # 0 /\ n - 1 \in Nat
  BY <1>2
<1>4. n - 1 \in S
  BY <1>2, <1>3
<1> QED
  BY <1>2, <1>4

\* The function that Without names: entry i is what is kept of the first i.
IsKept(fds, fd, g) ==
    g = [i \in 0..Len(fds) |->
           IF i = 0 THEN <<>>
           ELSE IF fds[i] = fd THEN g[i - 1] ELSE Append(g[i - 1], fds[i])]

LEMMA KeptExists ==
    ASSUME NEW A, NEW fds \in Seq(A), NEW fd
    PROVE  \E g : IsKept(fds, fd, g)
<1> DEFINE N == Len(fds)
           Next1(s, i) == IF fds[i] = fd THEN s ELSE Append(s, fds[i])
           Fits(g, n) == /\ g = [i \in 0..n |-> g[i]] /\ g[0] = <<>>
                         /\ \A i \in 1..n : g[i] = Next1(g[i - 1], i)
           S == {n \in Nat : \E g : Fits(g, n)}
<1>1. N \in Nat
  OBVIOUS
<1> HIDE DEF Next1, N
<1>2. 0 \in S
  <2> DEFINE g == [i \in 0..0 |-> <<>>]
  <2>1. Fits(g, 0)
    OBVIOUS
  <2> QED
    BY <2>1
<1>3. ASSUME NEW n \in S PROVE n + 1 \in S
  <2>1. PICK g : Fits(g, n)
    OBVIOUS
  <2> DEFINE h == [i \in 0..(n + 1) |-> IF i = n + 1 THEN Next1(g[n], n + 1) ELSE g[i]]
  <2>2. n \in Nat
    OBVIOUS
  <2>3. h = [i \in 0..(n + 1) |-> h[i]] /\ h[0] = <<>>
    BY <2>1, <2>2
  <2>4. ASSUME NEW i \in 1..(n + 1) PROVE h[i] = Next1(h[i - 1], i)
    <3>1. i - 1 \in 0..n /\ h[i - 1] = g[i - 1]
      BY <2>2
    <3>2. CASE i = n + 1
      BY <2>2, <3>1, <3>2
    <3>3. CASE i # n + 1
      <4>1. i \in 1..n /\ h[i] = g[i]
        BY <2>2, <3>3
      <4> QED
        BY <2>1, <3>1, <4>1
    <3> QED
      BY <3>2, <3>3
  <2>5. Fits(h, n + 1)
    BY <2>3, <2>4
  <2> HIDE DEF h, Fits
  <2>6. \E f : Fits(f, n + 1)
    BY <2>5
  <2> QED
    BY <2>2, <2>6
<1>4. S = Nat
  <2>1. S \in SUBSET Nat
    OBVIOUS
  <2> HIDE DEF S
  <2> QED
    BY <1>2, <1>3, <2>1, AllNumbers
<1>5. PICK g : Fits(g, N)
  BY <1>1, <1>4
<1>6. g = [i \in 0..N |-> IF i = 0 THEN <<>> ELSE Next1(g[i - 1], i)]
  <2>1. \A i \in 0..N : g[i] = IF i = 0 THEN <<>> ELSE Next1(g[i - 1], i)
    BY <1>1, <1>5
  <2> QED
    BY <1>5, <2>1, Zenon
<1>7. IsKept(fds, fd, g)
  BY <1>6 DEF Next1, N, IsKept
<1> QED
  BY <1>7

\* What is left of a list without fd: all the others, and nothing twice that
\* was not there twice.
LEMMA WithoutOthers ==
    ASSUME NEW A, NEW fds \in Seq(A), NEW fd
    PROVE  LET w == Without(fds, fd) IN
           /\ w \in Seq(A)
           /\ \A i \in 1..Len(w) : w[i] # fd /\ \E k \in 1..Len(fds) : w[i] = fds[k]
           /\ \A k \in 1..Len(fds) : fds[k] # fd => \E i \in 1..Len(w) : w[i] = fds[k]
           /\ (\A i, j \in 1..Len(fds) : fds[i] = fds[j] => i = j)
                => \A i, j \in 1..Len(w) : w[i] = w[j] => i = j
<1> DEFINE N == Len(fds)
           Step1(g, i) == IF fds[i] = fd THEN g[i - 1] ELSE Append(g[i - 1], fds[i])
           kept == CHOOSE g : IsKept(fds, fd, g)
<1>1. N \in Nat /\ \A i \in 1..N : fds[i] \in A
  OBVIOUS
<1>2. IsKept(fds, fd, kept)
  BY KeptExists
<1>3. Without(fds, fd) = kept[N]
  BY DEF Without, IsKept
<1>4. kept[0] = <<>> /\ \A i \in 1..N : kept[i] = Step1(kept, i)
  <2> HIDE DEF kept
  <2>1. \A i \in 0..N : kept[i] = IF i = 0 THEN <<>> ELSE Step1(kept, i)
    BY <1>2 DEF IsKept
  <2> HIDE DEF Step1, N
  <2>2. 0 \in 0..N /\ \A i \in 1..N : i \in 0..N /\ i # 0
    BY <1>1
  <2> QED
    BY <2>1, <2>2
<1> HIDE DEF kept, N
<1> DEFINE From(w, n) ==
             /\ w \in Seq(A)
             /\ \A i \in 1..Len(w) : w[i] # fd /\ \E k \in 1..n : w[i] = fds[k]
             /\ \A k \in 1..n : fds[k] # fd => \E i \in 1..Len(w) : w[i] = fds[k]
             /\ (\A i, j \in 1..N : fds[i] = fds[j] => i = j)
                  => \A i, j \in 1..Len(w) : w[i] = w[j] => i = j
           S == {n \in Nat : n <= N => From(kept[n], n)}
<1>5. 0 \in S
  <2>1. <<>> \in Seq(A) /\ Len(<<>>) = 0
    OBVIOUS
  <2>2. From(<<>>, 0)
    BY <2>1
  <2> HIDE DEF From
  <2> QED
    BY <1>4, <2>2
<1>6. ASSUME NEW n \in S PROVE n + 1 \in S
  <2> SUFFICES ASSUME n + 1 <= N PROVE From(kept[n + 1], n + 1)
    OBVIOUS
  <2>1. n \in Nat /\ n + 1 \in 1..N /\ (n + 1) - 1 = n
    BY <1>1
  <2> DEFINE w == kept[n]
             x == fds[n + 1]
  <2>2. From(w, n) /\ x \in A
    BY <1>1, <2>1
  <2>3. kept[n + 1] = IF x = fd THEN w ELSE Append(w, x)
    BY <1>4, <2>1
  <2> HIDE DEF w
  <2>4. CASE x = fd
    <3>1. From(w, n + 1)
      <4>1. ASSUME NEW k \in 1..(n + 1), fds[k] # fd PROVE \E i \in 1..Len(w) : w[i] = fds[k]
        <5>1. k \in 1..n
          BY <2>1, <2>4, <4>1
        <5> QED
          BY <2>2, <4>1, <5>1
      <4>2. ASSUME NEW i \in 1..Len(w) PROVE \E k \in 1..(n + 1) : w[i] = fds[k]
        BY <2>1, <2>2
      <4> QED
        BY <2>2, <4>1, <4>2
    <3> QED
      BY <2>3, <2>4, <3>1
  <2>5. CASE x # fd
    <3> DEFINE v == Append(w, x)
    <3>1. /\ v \in Seq(A) /\ Len(v) = Len(w) + 1 /\ Len(w) \in Nat
          /\ v[Len(w) + 1] = x /\ \A i \in 1..Len(w) : v[i] = w[i]
      BY <2>2
    <3> HIDE DEF v
    <3>2. ASSUME NEW i \in 1..Len(v) PROVE v[i] # fd /\ \E k \in 1..(n + 1) : v[i] = fds[k]
      <4>1. CASE i = Len(w) + 1
        BY <2>1, <2>5, <3>1, <4>1
      <4>2. CASE i # Len(w) + 1
        <5>1. i \in 1..Len(w)
          BY <3>1, <4>2
        <5>2. PICK k \in 1..n : w[i] = fds[k]
          BY <2>2, <5>1
        <5>3. k \in 1..(n + 1)
          BY <2>1
        <5> QED
          BY <2>2, <3>1, <5>1, <5>2, <5>3
      <4> QED
        BY <4>1, <4>2
    <3>3. ASSUME NEW k \in 1..(n + 1), fds[k] # fd PROVE \E i \in 1..Len(v) : v[i] = fds[k]
      <4>1. CASE k = n + 1
        <5>1. Len(w) + 1 \in 1..Len(v)
          BY <3>1
        <5> QED
          BY <3>1, <4>1, <5>1
      <4>2. CASE k # n + 1
        <5>1. k \in 1..n
          BY <2>1, <4>2
        <5>2. PICK i \in 1..Len(w) : w[i] = fds[k]
          BY <2>2, <3>3, <5>1
        <5>3. i \in 1..Len(v)
          BY <3>1
        <5> QED
          BY <3>1, <5>2, <5>3
      <4> QED
        BY <4>1, <4>2
    <3>4. ASSUME \A i, j \in 1..N : fds[i] = fds[j] => i = j,
                 NEW i \in 1..Len(v), NEW j \in 1..Len(v), v[i] = v[j]
          PROVE  i = j
      <4>1. ASSUME NEW m \in 1..Len(w) PROVE w[m] # x
        <5>1. PICK k \in 1..n : w[m] = fds[k]
          BY <2>2
        <5>2. k \in 1..N /\ k # n + 1
          BY <1>1, <2>1
        <5> QED
          BY <2>1, <3>4, <5>1, <5>2
      <4>2. \A m \in 1..Len(v) : m = Len(w) + 1 \/ m \in 1..Len(w)
        BY <3>1
      <4>3. CASE i \in 1..Len(w) /\ j \in 1..Len(w)
        BY <2>2, <3>1, <3>4, <4>3
      <4> QED
        BY <3>1, <3>4, <4>1, <4>2, <4>3
    <3>5. From(v, n + 1)
      BY <3>1, <3>2, <3>3, <3>4
    <3>6. kept[n + 1] = v
      BY <2>3, <2>5 DEF v
    <3> HIDE DEF From
    <3> QED
      BY <3>5, <3>6
  <2> QED
    BY <2>4, <2>5
<1>7. S = Nat
  <2>1. S \in SUBSET Nat
    OBVIOUS
  <2> HIDE DEF S
  <2> QED
    BY <1>5, <1>6, <2>1, AllNumbers
<1>8. From(kept[N], N)
  <2> HIDE DEF From
  <2> QED
    BY <1>1, <1>7
<1> QED
  BY <1>3, <1>8 DEF N

-----------------------------------------------------------------------------
(***************************************************************************)
(* The types                                                               *)
(***************************************************************************)
\* A broadcast has a transaction to send, and the next client is a position.
TypeInv == TypeOK /\ (pc # "idle" => txns \in Txns) /\ next >= 1

\* log_add and the broadcast.
LEMMA SnifferTyped ==
    ASSUME TypeInv, SnifferTask
    PROVE  TypeInv'
<1> USE DEF TypeInv, TypeOK
<1>0. LogCapacity \in Nat \ {0} /\ MaxTxns \in Nat /\ 0..MaxTxns = Txns \cup {0}
  BY Constants DEF Txns
<1>1. CASE Report
  <2>1. /\ txns' \in Txns /\ pc' = "log"
        /\ UNCHANGED <<s_log, s_log_head, s_log_mutex, s_ws_fds, s_ws_mutex, sock, next,
                       hpc, hfd, sent, asked, known, since>>
    BY <1>0, <1>1 DEF Report, BroadcastOrder, Txns, logVars, httpdVars, clientVars
  <2> QED
    BY <1>0, <2>1
<1>2. CASE LogAdd
  <2>1. /\ pc = "log" /\ pc' = "lock" /\ txns \in Txns
        /\ UNCHANGED <<txns, s_log_mutex, s_ws_fds, s_ws_mutex, sock, next,
                       hpc, hfd, sent, asked, known, since>>
    BY <1>2 DEF LogAdd, After, BroadcastOrder, httpdVars, clientVars
  <2>2. s_log' \in Seq(Txns) /\ Len(s_log') <= LogCapacity
    <3>1. CASE Len(s_log) < LogCapacity
      <4>1. s_log' = Append(s_log, txns)
        BY <1>2, <3>1 DEF LogAdd
      <4> HIDE DEF TypeInv
      <4>2. s_log \in Seq(Txns)
        BY DEF TypeInv
      <4>3. s_log' \in Seq(Txns) /\ Len(s_log') = Len(s_log) + 1
        BY <2>1, <4>1, <4>2
      <4> QED
        BY <1>0, <3>1, <4>2, <4>3
    <3>2. CASE ~(Len(s_log) < LogCapacity)
      <4>1. s_log' = [s_log EXCEPT ![s_log_head + 1] = txns]
        BY <1>2, <3>2 DEF LogAdd
      <4>2. s_log \in Seq(Txns) /\ Len(s_log) = LogCapacity /\ s_log_head + 1 \in 1..Len(s_log)
        BY <1>0, <3>2
      <4> HIDE DEF TypeInv, TypeOK
      <4>3. s_log' \in Seq(Txns) /\ Len(s_log') = Len(s_log)
        BY <2>1, <4>1, <4>2
      <4> QED
        BY <1>0, <4>2, <4>3
    <3> QED
      BY <3>1, <3>2
  <2>3. s_log_head' \in 0..(LogCapacity - 1)
    <3>1. \A x \in Int, c \in Nat \ {0} : x % c \in 0..(c - 1)
      BY SMT
    <3>2. s_log_head + 1 \in Int
      BY <1>0
    <3> QED
      BY <1>0, <1>2, <3>1, <3>2, Zenon DEF LogAdd, NextHead
  <2> QED
    BY <2>1, <2>2, <2>3
<1>3. CASE WsLock
  BY <1>3 DEF WsLock, Owner, logVars, httpdVars, clientVars
<1>4. CASE WsSend
  <2>1. /\ pc = "send" /\ next \in 1..Len(s_ws_fds) /\ next' = next + 1
        /\ UNCHANGED <<s_log, s_log_head, s_log_mutex, s_ws_fds, s_ws_mutex, sock, pc, txns,
                       hpc, hfd, sent, asked>>
    BY <1>4 DEF WsSend, logVars, httpdVars
  <2>2. s_ws_fds[next] \in Fds /\ txns \in Txns
    BY <2>1
  <2> DEFINE fd == s_ws_fds[next]
  <2>3. \/ known' = [known EXCEPT ![fd] = @ \cup {txns}] /\ since' = since
        \/ since' = [since EXCEPT ![fd] = 0] /\ known' = known
    BY <1>4 DEF WsSend
  <2> HIDE DEF fd
  <2>4. known' \in [Fds -> SUBSET Txns]
    BY <2>2, <2>3
  <2>5. since' \in [Fds -> 0..(MaxTxns + 1)]
    <3>1. 0 \in 0..(MaxTxns + 1) /\ since \in [Fds -> 0..(MaxTxns + 1)]
      BY <1>0
    <3> HIDE DEF TypeInv, TypeOK
    <3> QED
      BY <2>3, <3>1
  <2> QED
    BY <2>1, <2>4, <2>5
<1>5. CASE WsUnlock
  BY <1>5 DEF WsUnlock, After, BroadcastOrder, Owner, logVars, httpdVars, clientVars
<1> QED
  BY <1>1, <1>2, <1>3, <1>4, <1>5 DEF SnifferTask

\* The handlers of the httpd task.
LEMMA HttpdTyped ==
    ASSUME TypeInv, LogInv, HttpdTask
    PROVE  TypeInv'
<1> USE DEF TypeInv, TypeOK
<1>0. LogCapacity \in Nat \ {0} /\ MaxTxns \in Nat
  BY Constants
<1>1. CASE \/ Accept \/ Subscribe \/ ReceiveClose \/ EndSession \/ GetStatus \/ GetLog \/ LogLock
  <2>1. /\ UNCHANGED <<s_log, s_log_head, s_ws_fds, s_ws_mutex, pc, txns, next, sent, known, since>>
        /\ s_log_mutex' \in {s_log_mutex, "httpd"}
        /\ hpc' \in {"idle", "add", "status", "unsubscribe", "remove", "log", "chunks"}
    BY <1>1 DEF Accept, Subscribe, ReceiveClose, EndSession, GetStatus, GetLog, LogLock, LogHeldBy,
                Serve, logVars, snifferVars, httpdVars, clientVars
  <2>2. sock' \in [Fds -> {"closed", "http", "ws"}] /\ hfd' \in Fds
    BY <1>1 DEF Accept, Subscribe, ReceiveClose, EndSession, GetStatus, GetLog, LogLock, httpdVars
  <2>3. asked' \subseteq Fds
    <3>1. Range(s_ws_fds) \subseteq Fds
      BY DEF Range
    <3> QED
      BY <1>1, <3>1 DEF Accept, Subscribe, ReceiveClose, EndSession, GetStatus, GetLog, LogLock,
                        httpdVars
  <2> QED
    BY <2>1, <2>2, <2>3 DEF Owner
<1>2. CASE AddClient
  <2>1. s_ws_fds' \in Seq(Fds)
    BY <1>2 DEF AddClient
  <2> QED
    BY <1>2, <2>1 DEF AddClient, Serve, logVars, snifferVars, clientVars
<1>3. CASE RemoveClient
  <2>1. s_ws_fds' \in Seq(Fds)
    <3>1. s_ws_fds' = Without(s_ws_fds, hfd) /\ s_ws_fds \in Seq(Fds)
      BY <1>3 DEF RemoveClient, Removed
    <3> QED
      BY <3>1, WithoutOthers
  <2>2. since' \in [Fds -> 0..(MaxTxns + 1)]
    BY <1>0, <1>3 DEF RemoveClient
  <2> QED
    BY <1>3, <2>1, <2>2 DEF RemoveClient, Serve, logVars, snifferVars
<1>4. CASE CloseSocket
  BY <1>4 DEF CloseSocket, Serve, logVars, snifferVars
<1>5. CASE LogChunk
  <2>1. /\ UNCHANGED <<s_log, s_log_head, s_log_mutex, s_ws_fds, s_ws_mutex, sock, pc, txns, next,
                       hpc, hfd, asked, known, since>>
        /\ Len(sent) < Len(s_log) /\ sent' = Append(sent, RingEntry(Len(sent) + 1))
    BY <1>5 DEF LogChunk, logVars, snifferVars, clientVars
  <2> DEFINE k == Len(sent) + 1
  <2>2. k \in 1..Len(s_log)
    BY <2>1
  <2>3. RingEntry(k) \in Txns
    <3>0. s_log \in Seq(Txns) /\ Len(s_log) \in 0..LogCapacity /\ s_log_head \in Nat
      BY <1>0
    <3>1. CASE Len(s_log) < LogCapacity
      BY <2>2, <3>0, <3>1 DEF RingEntry
    <3>2. CASE Len(s_log) = LogCapacity
      <4> DEFINE p == ((s_log_head + k - 1) % LogCapacity) + 1
      <4>1. s_log_head + k - 1 \in Int
        BY <2>2, <3>0
      <4>2. \A x \in Int, c \in Nat \ {0} : (x % c) + 1 \in 1..c
        BY SMT
      <4>3. p \in 1..LogCapacity
        BY <1>0, <4>1, <4>2, Zenon
      <4>4. RingEntry(k) = s_log[p]
        BY <3>0, <3>2, <1>0 DEF RingEntry
      <4> HIDE DEF p, TypeInv, TypeOK
      <4> QED
        BY <3>0, <3>2, <4>3, <4>4
    <3> QED
      BY <1>0, <3>0, <3>1, <3>2
  <2> HIDE DEF k
  <2>4. sent' \in Seq(Txns)
    <3>1. sent \in Seq(Txns) /\ sent' = Append(sent, RingEntry(k))
      BY <2>1 DEF k
    <3> QED
      BY <2>3, <3>1
  <2> QED
    BY <2>1, <2>4
<1>6. CASE LogEnd
  <2>1. /\ UNCHANGED <<s_log, s_log_head, s_ws_fds, s_ws_mutex, sock, pc, txns, next, hfd>>
        /\ hpc' = "idle" /\ s_log_mutex' = "free" /\ sent' = <<>> /\ asked' = {}
    BY <1>6 DEF LogEnd, Serve, logVars, snifferVars
  <2>2. Range(sent) \subseteq Txns /\ (sent # <<>> => sent[1] \in Txns)
    BY DEF Range
  <2>0. \A fds \in {{}} \cup {{fd} : fd \in asked \cap Range(s_ws_fds)} : fds \in SUBSET Fds
    OBVIOUS
  <2>3. PICK fds \in SUBSET Fds :
         /\ known' = [fd \in Fds |-> IF fd \in fds THEN known[fd] \cup Range(sent)
                                                   ELSE known[fd]]
         /\ since' = [fd \in Fds |-> IF fd \in fds
                        THEN IF sent = <<>> THEN 1 ELSE sent[1] ELSE since[fd]]
    <3> HIDE DEF TypeInv, TypeOK
    <3> QED
      BY <1>6, <2>0, Zenon DEF LogEnd
  <2>4. known' \in [Fds -> SUBSET Txns]
    BY <2>2, <2>3
  <2>5. since' \in [Fds -> 0..(MaxTxns + 1)]
    <3>1. (IF sent = <<>> THEN 1 ELSE sent[1]) \in 0..(MaxTxns + 1)
      BY <1>0, <2>2 DEF Txns
    <3> QED
      BY <2>3, <3>1
  <2> QED
    BY <2>1, <2>4, <2>5 DEF Owner
<1> QED
  BY <1>1, <1>2, <1>3, <1>4, <1>5, <1>6 DEF HttpdTask, Handlers

\* Every step keeps the types.
LEMMA TypeInvariant == Spec => []TypeInv
<1>1. Init => TypeInv
  <2> SUFFICES ASSUME Init PROVE TypeInv
    OBVIOUS
  <2>1. /\ s_log \in Seq(Txns) /\ Len(s_log) = 0 /\ sent \in Seq(Txns) /\ s_ws_fds \in Seq(Fds)
    BY DEF Init
  <2>2. /\ sock \in [Fds -> {"closed", "http", "ws"}] /\ known \in [Fds -> SUBSET Txns]
    BY DEF Init
  <2>3. since \in [Fds -> 0..(MaxTxns + 1)]
    BY Constants DEF Init
  <2> QED
    BY <2>1, <2>2, <2>3, Constants DEF Init, TypeInv, TypeOK, Owner
<1>2. TypeInv /\ LogInv /\ [Next]_vars => TypeInv'
  <2> SUFFICES ASSUME TypeInv, LogInv, [Next]_vars PROVE TypeInv'
    OBVIOUS
  <2>1. CASE UNCHANGED vars
    BY <2>1 DEF vars, logVars, snifferVars, httpdVars, clientVars, TypeInv, TypeOK
  <2> QED
    BY <2>1, SnifferTyped, HttpdTyped DEF Next
<1> QED
  BY <1>1, <1>2, LogInvariant, PTL DEF Spec

\* In every reachable state the ring, the client list, the mutexes and both
\* tasks have their types, for a ring of any size and any number of sockets.
THEOREM TypeCorrect == Spec => []TypeOK
<1>1. TypeInv => TypeOK
  BY DEF TypeInv
<1> QED
  BY <1>1, TypeInvariant, PTL

-----------------------------------------------------------------------------
(***************************************************************************)
(* The client list                                                         *)
(***************************************************************************)
OnList(fd) == \E i \in 1..Len(s_ws_fds) : s_ws_fds[i] = fd

\* A client about to be added is open and not on the list yet; a socket about
\* to be closed is off the list.  Only a broadcast holds the mutex for long.
OpenInv ==
    /\ ClientsAreOpen
    /\ hpc = "add" => sock[hfd] = "ws" /\ ~OnList(hfd)
    /\ hpc = "close" => ~OnList(hfd)
    /\ s_ws_mutex = IF pc = "send" THEN "sniffer" ELSE "free"

\* Every step keeps the list to open sockets.
LEMMA OpenNext ==
    ASSUME TypeInv, OpenInv, [Next]_vars
    PROVE  OpenInv'
<1>0. /\ s_ws_fds \in Seq(Fds) /\ sock \in [Fds -> {"closed", "http", "ws"}] /\ hfd \in Fds
      /\ Len(s_ws_fds) \in Nat /\ \A i \in 1..Len(s_ws_fds) : s_ws_fds[i] \in Fds
  BY DEF TypeInv, TypeOK
<1>1. CASE SnifferTask
  <2>1. UNCHANGED <<s_ws_fds, sock, hpc, hfd>>
    BY <1>1 DEF SnifferTask, Report, LogAdd, WsLock, WsSend, WsUnlock, httpdVars
  <2>2. s_ws_mutex' = IF pc' = "send" THEN "sniffer" ELSE "free"
    BY <1>1 DEF SnifferTask, Report, LogAdd, WsLock, WsSend, WsUnlock, After, BroadcastOrder,
           OpenInv
  <2> QED
    BY <2>1, <2>2 DEF OpenInv, ClientsAreOpen, OnList
<1>2. CASE Accept
  <2>1. PICK fd \in Fds : sock[fd] = "closed" /\ sock' = [sock EXCEPT ![fd] = "http"]
    BY <1>2 DEF Accept
  <2>2. UNCHANGED <<s_ws_fds, s_ws_mutex, pc, hpc, hfd>> /\ hpc = "idle"
    BY <1>2 DEF Accept, snifferVars, httpdVars
  <2>3. \A i \in 1..Len(s_ws_fds) : sock'[s_ws_fds[i]] = "ws"
    BY <1>0, <2>1 DEF OpenInv, ClientsAreOpen
  <2> QED
    BY <2>2, <2>3 DEF OpenInv, ClientsAreOpen
<1>3. CASE Subscribe
  <2>1. /\ hfd' \in Fds /\ sock[hfd'] = "http" /\ sock' = [sock EXCEPT ![hfd'] = "ws"]
        /\ hpc' = "add" /\ UNCHANGED <<s_ws_fds, s_ws_mutex, pc>>
    BY <1>3 DEF Subscribe, Serve, snifferVars
  <2>2. \A i \in 1..Len(s_ws_fds) : sock'[s_ws_fds[i]] = "ws" /\ s_ws_fds[i] # hfd'
    BY <1>0, <2>1 DEF OpenInv, ClientsAreOpen
  <2>3. sock'[hfd'] = "ws"
    BY <1>0, <2>1
  <2> QED
    BY <2>1, <2>2, <2>3 DEF OpenInv, ClientsAreOpen, OnList
<1>4. CASE AddClient
  <2>1. /\ s_ws_fds' = Append(s_ws_fds, hfd) /\ UNCHANGED <<sock, s_ws_mutex, pc>>
        /\ sock[hfd] = "ws" /\ ~OnList(hfd) /\ hpc' = "idle"
    BY <1>4 DEF AddClient, Serve, OpenInv, snifferVars
  <2>2. /\ Len(s_ws_fds') = Len(s_ws_fds) + 1 /\ s_ws_fds'[Len(s_ws_fds) + 1] = hfd
        /\ \A i \in 1..Len(s_ws_fds) : s_ws_fds'[i] = s_ws_fds[i]
    BY <1>0, <2>1
  <2>3. \A i \in 1..Len(s_ws_fds') : i = Len(s_ws_fds) + 1 \/ i \in 1..Len(s_ws_fds)
    BY <1>0, <2>2
  <2>4. \A i \in 1..Len(s_ws_fds') : sock[s_ws_fds'[i]] = "ws"
    BY <2>1, <2>2, <2>3 DEF OpenInv, ClientsAreOpen
  <2>5. \A i, j \in 1..Len(s_ws_fds') : s_ws_fds'[i] = s_ws_fds'[j] => i = j
    BY <2>1, <2>2, <2>3 DEF OpenInv, ClientsAreOpen, OnList
  <2> QED
    BY <2>1, <2>4, <2>5 DEF OpenInv, ClientsAreOpen
<1>5. CASE RemoveClient
  <2> DEFINE w == Without(s_ws_fds, hfd)
  <2>1. /\ s_ws_fds' = w /\ UNCHANGED <<sock, s_ws_mutex, pc, hfd>> /\ hpc' \in {"idle", "close"}
    BY <1>5 DEF RemoveClient, Removed, Serve, snifferVars
  <2>2. /\ \A i \in 1..Len(w) : w[i] # hfd /\ \E k \in 1..Len(s_ws_fds) : w[i] = s_ws_fds[k]
        /\ (\A i, j \in 1..Len(s_ws_fds) : s_ws_fds[i] = s_ws_fds[j] => i = j)
             => \A i, j \in 1..Len(w) : w[i] = w[j] => i = j
    BY <1>0, WithoutOthers
  <2> HIDE DEF w
  <2>3. \A i \in 1..Len(w) : sock[w[i]] = "ws"
    BY <2>2 DEF OpenInv, ClientsAreOpen
  <2>4. \A i, j \in 1..Len(w) : w[i] = w[j] => i = j
    BY <2>2 DEF OpenInv, ClientsAreOpen
  <2> QED
    BY <2>1, <2>2, <2>3, <2>4 DEF OpenInv, ClientsAreOpen, OnList
<1>6. CASE CloseSocket
  <2>1. /\ sock' = [sock EXCEPT ![hfd] = "closed"] /\ hpc = "close" /\ hpc' = "idle"
        /\ UNCHANGED <<s_ws_fds, s_ws_mutex, pc>>
    BY <1>6 DEF CloseSocket, Serve, snifferVars
  <2>2. \A i \in 1..Len(s_ws_fds) : sock'[s_ws_fds[i]] = "ws"
    BY <1>0, <2>1 DEF OpenInv, ClientsAreOpen, OnList
  <2> QED
    BY <2>1, <2>2 DEF OpenInv, ClientsAreOpen
<1>7. CASE ReceiveClose \/ EndSession \/ GetStatus \/ GetLog \/ LogLock \/ LogChunk \/ LogEnd
  <2>1. UNCHANGED <<s_ws_fds, sock, s_ws_mutex, pc>> /\ hpc' \notin {"add", "close"}
    BY <1>7 DEF ReceiveClose, EndSession, GetStatus, GetLog, LogLock, LogChunk, LogEnd, Serve,
                snifferVars
  <2> QED
    BY <2>1 DEF OpenInv, ClientsAreOpen
<1>8. CASE UNCHANGED vars
  BY <1>8 DEF vars, snifferVars, httpdVars, OpenInv, ClientsAreOpen, OnList
<1> QED
  BY <1>1, <1>2, <1>3, <1>4, <1>5, <1>6, <1>7, <1>8 DEF Next, HttpdTask, Handlers

\* The list names open sockets, each once.
LEMMA OpenInvariant == Spec => []OpenInv
<1>1. Init => OpenInv
  BY DEF Init, OpenInv, ClientsAreOpen
<1>2. TypeInv /\ OpenInv /\ [Next]_vars => OpenInv'
  BY OpenNext
<1> QED
  BY <1>1, <1>2, TypeInvariant, PTL DEF Spec

\* Whichever sockets the server opens, closes and numbers again while
\* transactions are broadcast, the sniffer task sends to open WebSockets only,
\* and to each once.
THEOREM SendsToOpenSockets == Spec => []ClientsAreOpen
<1>1. OpenInv => ClientsAreOpen
  BY DEF OpenInv
<1> QED
  BY <1>1, OpenInvariant, PTL

-----------------------------------------------------------------------------
(***************************************************************************)
(* What the clients know                                                   *)
(***************************************************************************)
\* The latest transaction that the client at place i of the list was sent.
Told(i) == IF pc = "idle" \/ (pc = "send" /\ i < next) THEN txns ELSE txns - 1

MissInv ==
    /\ \A fd \in Fds : ~OnList(fd) => since[fd] = 0
    /\ \A i \in 1..Len(s_ws_fds) :
         since[s_ws_fds[i]] > 0 => since[s_ws_fds[i]]..Told(i) \subseteq known[s_ws_fds[i]]

\* The broadcast tells its clients one after the other.
LEMMA MissSniffer ==
    ASSUME TypeInv, OpenInv, MissInv, SnifferTask
    PROVE  MissInv'
<1>0. /\ s_ws_fds \in Seq(Fds) /\ Len(s_ws_fds) \in Nat /\ next \in Nat /\ txns \in Nat
      /\ \A i \in 1..Len(s_ws_fds) : s_ws_fds[i] \in Fds
      /\ known \in [Fds -> SUBSET Txns] /\ since \in [Fds -> Nat] /\ MaxTxns \in Nat
  BY Constants DEF TypeInv, TypeOK
<1>1. s_ws_fds' = s_ws_fds
  BY DEF SnifferTask, Report, LogAdd, WsLock, WsSend, WsUnlock
<1>2. CASE Report \/ LogAdd \/ WsLock \/ WsUnlock
  <2>1. UNCHANGED clientVars
    BY <1>2 DEF Report, LogAdd, WsLock, WsUnlock
  <2>2. \A i \in 1..Len(s_ws_fds) : Told(i)' = Told(i)
    <3>1. CASE Report
      BY <1>0, <3>1 DEF Report, BroadcastOrder, Told
    <3>2. CASE LogAdd
      BY <1>0, <3>2 DEF LogAdd, After, BroadcastOrder, Told, snifferVars
    <3>3. CASE WsLock
      BY <1>0, <3>3 DEF WsLock, Told
    <3>4. CASE WsUnlock
      BY <1>0, <3>4 DEF WsUnlock, After, BroadcastOrder, Told
    <3> QED
      BY <1>2, <3>1, <3>2, <3>3, <3>4
  <2> QED
    BY <1>1, <2>1, <2>2 DEF MissInv, OnList, clientVars
<1>3. CASE WsSend
  <2> DEFINE fd == s_ws_fds[next]
  <2>1. /\ next \in 1..Len(s_ws_fds) /\ pc = "send" /\ pc' = "send" /\ next' = next + 1
               /\ txns' = txns
        /\ \/ known' = [known EXCEPT ![fd] = @ \cup {txns}] /\ since' = since
           \/ since' = [since EXCEPT ![fd] = 0] /\ known' = known
    BY <1>0, <1>3 DEF WsSend, TypeInv
  <2>2. fd \in Fds
    BY <1>0, <2>1
  <2>3. \A i \in 1..Len(s_ws_fds) : i # next => s_ws_fds[i] # fd /\ Told(i)' = Told(i)
    <3>1. \A i \in 1..Len(s_ws_fds) : i # next => (i < next <=> i < next + 1)
      BY <1>0
    <3> QED
      BY <2>1, <3>1 DEF OpenInv, ClientsAreOpen, Told
  <2>4. \A i \in 1..Len(s_ws_fds) : i = next => Told(i) = txns - 1 /\ Told(i)' = txns
    <3>1. ~(next < next) /\ next < next + 1
      BY <1>0
    <3> QED
      BY <2>1, <3>1 DEF Told
  <2> HIDE DEF fd
  <2>5. ASSUME NEW i \in 1..Len(s_ws_fds), since'[s_ws_fds[i]] > 0
        PROVE  since'[s_ws_fds[i]]..Told(i)' \subseteq known'[s_ws_fds[i]]
    <3>1. CASE i # next
      <4>1. s_ws_fds[i] # fd /\ s_ws_fds[i] \in Fds /\ Told(i)' = Told(i)
        BY <1>0, <2>3, <3>1
      <4>2. since'[s_ws_fds[i]] = since[s_ws_fds[i]] /\ known'[s_ws_fds[i]] = known[s_ws_fds[i]]
        BY <1>0, <2>1, <4>1
      <4> QED
        BY <2>5, <4>1, <4>2 DEF MissInv
    <3>2. CASE i = next
      <4>1. s_ws_fds[i] = fd
        BY <3>2 DEF fd
      <4>2. since' = since /\ known'[fd] = known[fd] \cup {txns}
        <5>1. CASE since' = [since EXCEPT ![fd] = 0]
          BY <1>0, <2>2, <2>5, <4>1, <5>1
        <5> QED
          BY <1>0, <2>1, <2>2, <5>1
      <4>3. since[fd] \in Nat /\ since[fd]..(txns - 1) \subseteq known[fd]
        BY <1>0, <2>2, <2>4, <2>5, <3>2, <4>1, <4>2 DEF MissInv
      <4>4. since[fd]..txns \subseteq known[fd] \cup {txns}
        BY <1>0, <4>3
      <4>5. Told(i)' = txns
        BY <2>1, <2>4, <3>2
      <4> QED
        BY <4>1, <4>2, <4>4, <4>5
    <3> QED
      BY <3>1, <3>2
  <2>6. \A f \in Fds : ~OnList(f) => since'[f] = 0
    <3>1. \A f \in Fds : ~OnList(f) => f # fd
      BY <2>1 DEF OnList, fd
    <3> QED
      BY <1>0, <2>1, <3>1 DEF MissInv
  <2> QED
    BY <1>1, <2>5, <2>6 DEF MissInv, OnList
<1> QED
  BY <1>2, <1>3 DEF SnifferTask

\* A client that fetched the log has everything logged from its first entry on.
LEMMA MissLogEnd ==
    ASSUME TypeInv, OpenInv, LogInv, MissInv, LogEnd
    PROVE  MissInv'
<1>0. /\ s_ws_fds \in Seq(Fds) /\ \A i \in 1..Len(s_ws_fds) : s_ws_fds[i] \in Fds
      /\ known \in [Fds -> SUBSET Txns] /\ since \in [Fds -> Nat] /\ MaxTxns \in Nat /\ txns \in Nat
  BY Constants DEF TypeInv, TypeOK
<1> DEFINE first == IF sent = <<>> THEN 1 ELSE sent[1]
<1>1. UNCHANGED <<s_ws_fds, pc, txns, next>> /\ Len(sent) = Len(s_log)
  BY DEF LogEnd, snifferVars
<1>2. PICK fds \in {{}} \cup {{fd} : fd \in asked \cap Range(s_ws_fds)} :
         /\ known' = [fd \in Fds |-> IF fd \in fds THEN known[fd] \cup Range(sent) ELSE known[fd]]
         /\ since' = [fd \in Fds |-> IF fd \in fds THEN first ELSE since[fd]]
  BY DEF LogEnd
<1>3. \A i \in 1..Len(s_ws_fds) : Told(i) \in Int /\ Told(i) <= logged /\ Told(i)' = Told(i)
  <2>1. \A i : Told(i)' = Told(i)
    BY <1>1 DEF Told
  <2>2. \A i : Told(i) \in Int /\ Told(i) <= logged
    BY <1>0 DEF Told, logged
  <2> QED
    BY <2>1, <2>2
<1>4. first..logged \subseteq Range(sent)
  <2>1. /\ sent \in Seq(Nat) /\ logged \in Int /\ Len(sent) \in Nat /\ LogCapacity \in Nat \ {0}
        /\ \A j \in 1..Len(sent) : sent[j] = logged - Len(sent) + j
        /\ Len(sent) = IF logged < LogCapacity THEN logged ELSE LogCapacity
    BY <1>0, <1>1, Constants DEF LogInv, RingOK, ResponseOK, logged
  <2>2. CASE sent = <<>>
    <3>1. Len(sent) = 0
      BY <2>2
    <3>2. logged = 0 /\ first = 1
      BY <2>1, <2>2, <3>1
    <3> QED
      BY <3>2
  <2>3. CASE sent # <<>>
    <3>1. Len(sent) > 0
      BY <2>1, <2>3
    <3>2. first = logged - Len(sent) + 1
      BY <2>1, <2>3, <3>1
    <3> HIDE DEF first
    <3>3. ASSUME NEW m \in first..logged PROVE m \in Range(sent)
      <4> DEFINE j == m - logged + Len(sent)
      <4>1. j \in 1..Len(sent) /\ logged - Len(sent) + j = m
        BY <2>1, <3>2
      <4>2. sent[j] = m
        BY <2>1, <4>1
      <4> HIDE DEF j
      <4>3. j \in DOMAIN sent
        BY <2>1, <4>1
      <4> QED
        BY <4>2, <4>3 DEF Range
    <3> QED
      BY <3>3
  <2> QED
    BY <2>2, <2>3
<1> HIDE DEF first
<1>5. \A fd \in fds : OnList(fd)
  <2>1. DOMAIN s_ws_fds = 1..Len(s_ws_fds)
    BY <1>0
  <2> QED
    BY <1>2, <2>1 DEF Range, OnList
<1>6. ASSUME NEW i \in 1..Len(s_ws_fds), since'[s_ws_fds[i]] > 0
      PROVE  since'[s_ws_fds[i]]..Told(i)' \subseteq known'[s_ws_fds[i]]
  <2> DEFINE fd == s_ws_fds[i]
  <2>1. fd \in Fds
    BY <1>0
  <2>2. CASE fd \in fds
    <3>1. since'[fd] = first /\ known'[fd] = known[fd] \cup Range(sent)
      BY <1>2, <2>1, <2>2
    <3>2. first..Told(i)' \subseteq first..logged
      <4>1. logged \in Int
        BY <1>0 DEF logged
      <4>2. Told(i)' \in Int /\ Told(i)' <= logged
        BY <1>3
      <4> QED
        BY <4>1, <4>2
    <3> QED
      BY <1>4, <3>1, <3>2
  <2>3. CASE fd \notin fds
    <3>1. since'[fd] = since[fd] /\ known'[fd] = known[fd]
      BY <1>2, <2>1, <2>3
    <3> QED
      BY <1>3, <1>6, <3>1 DEF MissInv
  <2> QED
    BY <2>2, <2>3
<1>7. ASSUME NEW fd \in Fds, ~OnList(fd) PROVE since'[fd] = 0
  <2>1. since'[fd] = since[fd]
    BY <1>2, <1>5, <1>7
  <2> QED
    BY <1>7, <2>1 DEF MissInv
<1> QED
  BY <1>1, <1>6, <1>7 DEF MissInv, OnList

\* Clients come, go and fetch the log.
LEMMA MissHttpd ==
    ASSUME TypeInv, OpenInv, LogInv, MissInv, HttpdTask
    PROVE  MissInv'
<1>0. /\ s_ws_fds \in Seq(Fds) /\ Len(s_ws_fds) \in Nat /\ next \in Nat /\ txns \in Nat
      /\ \A i \in 1..Len(s_ws_fds) : s_ws_fds[i] \in Fds /\ hfd \in Fds
      /\ known \in [Fds -> SUBSET Txns] /\ since \in [Fds -> Nat] /\ hfd \in Fds
  BY Constants DEF TypeInv, TypeOK
<1>1. CASE AddClient
  <2>1. /\ s_ws_fds' = Append(s_ws_fds, hfd) /\ ~OnList(hfd) /\ pc # "send"
        /\ UNCHANGED <<pc, txns, next, known, since>>
    BY <1>1 DEF AddClient, Serve, OpenInv, snifferVars, clientVars
  <2>2. /\ Len(s_ws_fds') = Len(s_ws_fds) + 1 /\ s_ws_fds'[Len(s_ws_fds) + 1] = hfd
        /\ \A i \in 1..Len(s_ws_fds) : s_ws_fds'[i] = s_ws_fds[i] /\ i \in 1..Len(s_ws_fds')
    BY <1>0, <2>1
  <2>3. \A i \in 1..Len(s_ws_fds') : i = Len(s_ws_fds) + 1 \/ i \in 1..Len(s_ws_fds)
    BY <1>0, <2>2
  <2>4. since[hfd] = 0
    BY <1>0, <2>1 DEF MissInv
  <2>5. \A i : Told(i)' = Told(i)
    BY <2>1 DEF Told
  <2>6. \A fd : OnList(fd) => OnList(fd)'
    BY <2>2 DEF OnList
  <2>7. ASSUME NEW i \in 1..Len(s_ws_fds'), since[s_ws_fds'[i]] > 0
        PROVE  since[s_ws_fds'[i]]..Told(i)' \subseteq known[s_ws_fds'[i]]
    <3>1. i \in 1..Len(s_ws_fds) /\ s_ws_fds'[i] = s_ws_fds[i]
      BY <2>2, <2>3, <2>4, <2>7
    <3> QED
      BY <2>5, <2>7, <3>1 DEF MissInv
  <2> QED
    BY <2>1, <2>6, <2>7 DEF MissInv
<1>2. CASE RemoveClient
  <2> DEFINE w == Without(s_ws_fds, hfd)
  <2>1. /\ s_ws_fds' = w /\ UNCHANGED <<pc, txns, next, known>> /\ pc # "send"
        /\ since' = [since EXCEPT ![hfd] = 0]
    BY <1>2 DEF RemoveClient, Removed, Serve, snifferVars, OpenInv
  <2>2. /\ \A i \in 1..Len(w) : w[i] # hfd /\ \E k \in 1..Len(s_ws_fds) : w[i] = s_ws_fds[k]
        /\ \A k \in 1..Len(s_ws_fds) : s_ws_fds[k] # hfd => \E i \in 1..Len(w) : w[i] = s_ws_fds[k]
    BY <1>0, WithoutOthers
  <2> HIDE DEF w
  <2>3. \A i, k : Told(i)' = Told(k)
    BY <2>1 DEF Told
  <2>4. ASSUME NEW i \in 1..Len(w), since'[w[i]] > 0
        PROVE  since'[w[i]]..Told(i)' \subseteq known[w[i]]
    <3>1. PICK k \in 1..Len(s_ws_fds) : w[i] = s_ws_fds[k]
      BY <2>2
    <3>2. since'[w[i]] = since[s_ws_fds[k]]
      BY <1>0, <2>1, <2>2, <3>1
    <3> QED
      BY <2>3, <2>4, <3>1, <3>2 DEF MissInv
  <2>5. ASSUME NEW fd \in Fds, ~OnList(fd)' PROVE since'[fd] = 0
    <3>1. CASE fd = hfd
      BY <1>0, <2>1, <3>1
    <3>2. CASE fd # hfd
      <4>1. ~OnList(fd)
        BY <2>1, <2>2, <2>5, <3>2 DEF OnList
      <4> QED
        BY <1>0, <2>1, <3>2, <4>1 DEF MissInv
    <3> QED
      BY <3>1, <3>2
  <2> QED
    BY <2>1, <2>4, <2>5 DEF MissInv
<1>3. CASE CloseSocket
  <2>1. /\ UNCHANGED <<s_ws_fds, pc, txns, next, since>> /\ ~OnList(hfd)
        /\ known' = [known EXCEPT ![hfd] = {}]
    BY <1>3 DEF CloseSocket, Serve, OpenInv, snifferVars
  <2>2. \A i \in 1..Len(s_ws_fds) : known'[s_ws_fds[i]] = known[s_ws_fds[i]]
    BY <1>0, <2>1 DEF OnList
  <2> QED
    BY <2>1, <2>2 DEF MissInv, OnList, Told
<1>4. CASE \/ Accept \/ Subscribe \/ ReceiveClose \/ EndSession \/ GetStatus \/ GetLog
           \/ LogLock \/ LogChunk
  <2>1. UNCHANGED <<s_ws_fds, pc, txns, next, known, since>>
    BY <1>4 DEF Accept, Subscribe, ReceiveClose, EndSession, GetStatus, GetLog, LogLock, LogChunk,
                snifferVars, clientVars
  <2> QED
    BY <2>1 DEF MissInv, OnList, Told
<1> QED
  BY <1>1, <1>2, <1>3, <1>4, MissLogEnd DEF HttpdTask, Handlers

\* What a client was sent and what it fetched leave no gap.
LEMMA MissInvariant == Spec => []MissInv
<1>1. Init => MissInv
  BY DEF Init, MissInv
<1>2. TypeInv /\ OpenInv /\ LogInv /\ MissInv /\ [Next]_vars => MissInv'
  <2> SUFFICES ASSUME TypeInv, OpenInv, LogInv, MissInv, [Next]_vars PROVE MissInv'
    OBVIOUS
  <2>1. CASE UNCHANGED vars
    BY <2>1 DEF vars, snifferVars, clientVars, MissInv, OnList, Told
  <2> QED
    BY <2>1, MissSniffer, MissHttpd DEF Next
<1> QED
  BY <1>1, <1>2, TypeInvariant, OpenInvariant, LogInvariant, PTL DEF Spec

\* A client that subscribed and then fetched the log has every transaction from
\* the first of that log on, unless a message to it failed: the broadcast logs
\* a transaction before it sends it, so none falls between the two.
THEOREM LogAndStreamMeet == Spec => []NothingMissed
<1>1. TypeInv /\ MissInv => NothingMissed
  <2> SUFFICES ASSUME TypeInv, MissInv, NEW fd \in Range(s_ws_fds), since[fd] > 0
               PROVE  since[fd]..(IF pc = "idle" THEN txns ELSE txns - 1) \subseteq known[fd]
    BY DEF NothingMissed
  <2>1. PICK i \in 1..Len(s_ws_fds) : s_ws_fds[i] = fd
    BY DEF Range, TypeInv, TypeOK
  <2>2. since[fd]..Told(i) \subseteq known[fd]
    BY <2>1 DEF MissInv
  <2>3. txns \in Nat /\ since[fd] \in Nat
    BY <2>1, Constants DEF TypeInv, TypeOK
  <2> QED
    BY <2>2, <2>3 DEF Told
<1> QED
  BY <1>1, TypeInvariant, MissInvariant, PTL
=============================================================================
