------------------------ MODULE SnifferTimingProofs ------------------------
(***************************************************************************)
(* Proofs about Sniffer on a bus the task keeps up with: what else that    *)
(* takes is KeptUp, a condition on the constants.                          *)
(*                                                                         *)
(* The bytes sent and not yet consumed, Stream, are at most one request    *)
(* and one response of one exchange, with noise around them.  BytesInv     *)
(* says that the buffers hold whole frames, ExchangeInv(q) how the frames, *)
(* the answer owed and the pending request belong to the poll q, PaceInv   *)
(* that every buffer and the extraction loop have room for what is to      *)
(* come and that all is handled once the heat pump no longer answers.      *)
(* Together they are inductive while the damage done leaves frames whole.  *)
(***************************************************************************)
EXTENDS SnifferProofs

-----------------------------------------------------------------------------
(* Buffers of whole frames *)

\* The frame that starts at k stands there as a whole.
FrameAt(b, k) ==
    /\ FrameLen(b[k][1]) <= MaxFrameLen
    /\ k + FrameLen(b[k][1]) - 1 <= Len(b)
    /\ \A i \in 1 .. FrameLen(b[k][1]) : b[k + i - 1] = <<b[k][1], i>>
Intact(b) == \A k \in 1 .. Len(b) : StartsAt(b, k) => FrameAt(b, k)

\* A byte that resynchronisation must not discard has its frame's first byte
\* before it.
AnchoredAt(b, k) ==
    /\ b[k][2] <= k /\ b[k][2] <= FrameLen(b[k][1])
    /\ b[k - b[k][2] + 1] = <<b[k][1], 1>>
Anchored(b) == \A k \in 1 .. Len(b) : Discardable(b[k]) \/ AnchoredAt(b, k)

\* No noise and no damage.
Pure(b) == \A k \in 1 .. Len(b) : b[k] # Noise /\ b[k][1].good /\ b[k][1].win \in Windows

\* Made of whole frames and noise; on a clean bus of good frames only.
Sound(b, clean) == Intact(b) /\ Anchored(b) /\ (clean => Pure(b))

\* A header, and a frame, are longer than two bytes.
LEMMA Sizes ==
    /\ HdrLen \in Nat /\ HdrLen >= 2 /\ MinFrameLen = HdrLen + 1 /\ MinFrameLen \in Nat
    /\ PayloadLen \in Nat /\ MaxFrameLen \in Nat /\ MinFrameLen + PayloadLen <= MaxFrameLen
  BY FramingAssumption DEF MinFrameLen

\* A byte that is not noise is a place in a frame.
LEMMA ByteOf ==
    ASSUME NEW b \in Seq(Byte), NEW k \in 1 .. Len(b), b[k] # Noise
    PROVE  /\ b[k][1] \in Frame /\ b[k][2] \in 1 .. MaxFrameLen /\ b[k] = <<b[k][1], b[k][2]>>
           /\ FrameLen(b[k][1]) \in Nat /\ FrameLen(b[k][1]) >= MinFrameLen
<1>1. b[k] \in Byte
  BY LenProperties, ElementOfSeq
<1>2. b[k][1] \in Frame /\ b[k][2] \in 1 .. MaxFrameLen /\ b[k] = <<b[k][1], b[k][2]>>
  BY <1>1 DEF Byte
<1> QED
  BY <1>2, FrameLengths

\* DropFront drops the front.
LEMMA RestOf ==
    ASSUME NEW S, NEW b \in Seq(S), NEW n \in 0 .. Len(b)
    PROVE  /\ DropFront(b, n) \in Seq(S) /\ Len(DropFront(b, n)) = Len(b) - n
           /\ Len(b) \in Nat
           /\ \A i \in 1 .. (Len(b) - n) : DropFront(b, n)[i] = b[n + i]
  BY LenProperties, SubSeqProperties DEF DropFront

\* A concatenation is its first part followed by its second.
LEMMA JoinOf ==
    ASSUME NEW S, NEW a \in Seq(S), NEW b \in Seq(S)
    PROVE  /\ a \o b \in Seq(S) /\ Len(a \o b) = Len(a) + Len(b)
           /\ Len(a) \in Nat /\ Len(b) \in Nat
           /\ \A i \in 1 .. Len(a) : (a \o b)[i] = a[i]
           /\ \A i \in 1 .. Len(b) : (a \o b)[Len(a) + i] = b[i]
  BY LenProperties, ConcatProperties

\* A place in a concatenation is a place in one of its parts.
LEMMA JoinPlace ==
    ASSUME NEW a \in Seq(Byte), NEW b \in Seq(Byte), NEW k \in 1 .. Len(a \o b)
    PROVE  \/ k \in 1 .. Len(a) /\ (a \o b)[k] = a[k]
           \/ \E j \in 1 .. Len(b) : k = Len(a) + j /\ (a \o b)[k] = b[j]
<1>1. /\ Len(a \o b) = Len(a) + Len(b) /\ Len(a) \in Nat /\ Len(b) \in Nat
      /\ \A i \in 1 .. Len(a) : (a \o b)[i] = a[i]
      /\ \A i \in 1 .. Len(b) : (a \o b)[Len(a) + i] = b[i]
  BY JoinOf
<1>2. CASE k <= Len(a)
  BY <1>1, <1>2
<1>3. CASE k > Len(a)
  <2>1. k - Len(a) \in 1 .. Len(b) /\ Len(a) + (k - Len(a)) = k
    BY <1>1, <1>3
  <2>2. (a \o b)[Len(a) + (k - Len(a))] = b[k - Len(a)]
    BY <1>1, <2>1
  <2> QED
    BY <2>1, <2>2
<1> QED
  BY <1>1, <1>2, <1>3

\* There is nothing unsound in no bytes.
LEMMA SoundEmpty == ASSUME NEW clean PROVE Sound(<<>>, clean)
  BY DEF Sound, Intact, Anchored, Pure

\* Sound buffers concatenate: no frame is cut at the seam.
LEMMA SoundJoin ==
    ASSUME NEW a \in Seq(Byte), NEW b \in Seq(Byte), NEW clean \in BOOLEAN,
           Sound(a, clean), Sound(b, clean)
    PROVE  Sound(a \o b, clean)
<1> DEFINE s == a \o b
<1>1. /\ Len(s) = Len(a) + Len(b) /\ Len(a) \in Nat /\ Len(b) \in Nat /\ s \in Seq(Byte)
      /\ \A i \in 1 .. Len(a) : s[i] = a[i]
      /\ \A i \in 1 .. Len(b) : s[Len(a) + i] = b[i]
  BY JoinOf
<1>p. ASSUME NEW k \in 1 .. Len(s)
      PROVE  \/ k \in 1 .. Len(a) /\ s[k] = a[k]
             \/ \E j \in 1 .. Len(b) : k = Len(a) + j /\ s[k] = b[j]
  BY JoinPlace DEF s
<1> HIDE DEF s
<1>2. ASSUME NEW k \in 1 .. Len(s), StartsAt(s, k) PROVE FrameAt(s, k)
  <2>1. CASE k \in 1 .. Len(a) /\ s[k] = a[k]
    <3>1. StartsAt(a, k)
      BY <1>2, <2>1 DEF StartsAt
    <3>2. FrameAt(a, k) /\ FrameLen(a[k][1]) \in Nat
      BY <2>1, <3>1, ByteOf DEF Sound, Intact, StartsAt
    <3>3. ASSUME NEW i \in 1 .. FrameLen(a[k][1]) PROVE s[k + i - 1] = <<a[k][1], i>>
      <4>1. k + i - 1 \in 1 .. Len(a)
        BY <1>1, <2>1, <3>2 DEF FrameAt
      <4>2. s[k + i - 1] = a[k + i - 1]
        BY <1>1, <4>1
      <4> QED
        BY <4>2, <3>2 DEF FrameAt
    <3>4. k + FrameLen(a[k][1]) - 1 <= Len(s) /\ FrameLen(a[k][1]) <= MaxFrameLen
      BY <1>1, <2>1, <3>2 DEF FrameAt
    <3> QED
      BY <2>1, <3>3, <3>4 DEF FrameAt
  <2>2. ASSUME NEW j \in 1 .. Len(b), k = Len(a) + j, s[k] = b[j] PROVE FrameAt(s, k)
    <3>1. StartsAt(b, j)
      BY <1>2, <2>2 DEF StartsAt
    <3>2. FrameAt(b, j) /\ FrameLen(b[j][1]) \in Nat
      BY <3>1, ByteOf DEF Sound, Intact, StartsAt
    <3>3. ASSUME NEW i \in 1 .. FrameLen(b[j][1]) PROVE s[k + i - 1] = <<b[j][1], i>>
      <4>1. j + i - 1 \in 1 .. Len(b) /\ k + i - 1 = Len(a) + (j + i - 1)
        BY <2>2, <3>2, <1>1 DEF FrameAt
      <4>2. s[Len(a) + (j + i - 1)] = b[j + i - 1]
        BY <4>1, <1>1
      <4> QED
        BY <4>1, <4>2, <3>2 DEF FrameAt
    <3>4. k + FrameLen(b[j][1]) - 1 <= Len(s) /\ FrameLen(b[j][1]) <= MaxFrameLen
      BY <1>1, <2>2, <3>2 DEF FrameAt
    <3> QED
      BY <2>2, <3>3, <3>4 DEF FrameAt
  <2> QED
    BY <1>p, <2>1, <2>2
<1>3. ASSUME NEW k \in 1 .. Len(s), ~Discardable(s[k]) PROVE AnchoredAt(s, k)
  <2>1. CASE k \in 1 .. Len(a) /\ s[k] = a[k]
    <3>1. a[k] # Noise
      BY <1>3, <2>1 DEF Discardable
    <3>2. AnchoredAt(a, k) /\ a[k][2] \in 1 .. MaxFrameLen
      BY <2>1, <3>1, <1>3, ByteOf DEF Sound, Anchored
    <3>3. k - a[k][2] + 1 \in 1 .. Len(a)
      BY <2>1, <3>2, Sizes, <1>1 DEF AnchoredAt
    <3> QED
      BY <1>1, <2>1, <3>2, <3>3 DEF AnchoredAt
  <2>2. ASSUME NEW j \in 1 .. Len(b), k = Len(a) + j, s[k] = b[j] PROVE AnchoredAt(s, k)
    <3>1. b[j] # Noise
      BY <1>3, <2>2 DEF Discardable
    <3> DEFINE i == b[j][2]
    <3>2. AnchoredAt(b, j) /\ i \in 1 .. MaxFrameLen
      BY <2>2, <3>1, <1>3, ByteOf DEF Sound, Anchored
    <3>3. /\ i <= j /\ i <= FrameLen(b[j][1]) /\ b[j - i + 1] = <<b[j][1], 1>>
      BY <3>2 DEF AnchoredAt
    <3> HIDE DEF i
    <3>4. /\ j - i + 1 \in 1 .. Len(b) /\ k - i + 1 = Len(a) + (j - i + 1) /\ i <= k
      BY <2>2, <3>2, <3>3, Sizes, <1>1
    <3>5. s[Len(a) + (j - i + 1)] = b[j - i + 1]
      BY <1>1, <3>4
    <3>6. s[k][2] = i /\ s[k][1] = b[j][1]
      BY <2>2 DEF i
    <3> QED
      BY <3>3, <3>4, <3>5, <3>6 DEF AnchoredAt
  <2> QED
    BY <1>p, <2>1, <2>2
<1>4. ASSUME clean PROVE Pure(s)
  BY <1>p, <1>4 DEF Sound, Pure
<1> QED
  BY <1>2, <1>3, <1>4 DEF Sound, Intact, Anchored, s

\* What is dropped from the front are whole frames or may be discarded.
LEMMA SoundRest ==
    ASSUME NEW b \in Seq(Byte), NEW clean \in BOOLEAN, Sound(b, clean), NEW n \in 0 .. Len(b),
           \A j \in 1 .. n : StartsAt(b, j) =>
               Discardable(b[j]) \/ j + FrameLen(b[j][1]) - 1 <= n
    PROVE  Sound(DropFront(b, n), clean)
<1> DEFINE s == DropFront(b, n)
<1>1. /\ s \in Seq(Byte) /\ Len(s) = Len(b) - n /\ Len(b) \in Nat /\ n \in Nat
      /\ \A i \in 1 .. (Len(b) - n) : s[i] = b[n + i]
  BY RestOf
<1> HIDE DEF s
<1>2. ASSUME NEW k \in 1 .. Len(s), StartsAt(s, k) PROVE FrameAt(s, k)
  <2>1. PICK j \in 1 .. Len(b) : j = n + k /\ s[k] = b[j]
    <3>1. n + k \in 1 .. Len(b) /\ s[k] = b[n + k]
      BY <1>1
    <3> QED
      BY <3>1
  <2>2. FrameAt(b, j) /\ FrameLen(b[j][1]) \in Nat
    <3>1. StartsAt(b, j)
      BY <1>2, <2>1 DEF StartsAt
    <3> QED
      BY <3>1, ByteOf DEF Sound, Intact, StartsAt
  <2>3. ASSUME NEW i \in 1 .. FrameLen(b[j][1]) PROVE s[k + i - 1] = <<b[j][1], i>>
    <3>1. k + i - 1 \in 1 .. (Len(b) - n) /\ j + i - 1 = n + (k + i - 1)
      BY <2>1, <2>2, <1>1 DEF FrameAt
    <3>2. s[k + i - 1] = b[n + (k + i - 1)]
      BY <3>1, <1>1
    <3> QED
      BY <3>1, <3>2, <2>2 DEF FrameAt
  <2>4. k + FrameLen(b[j][1]) - 1 <= Len(s) /\ FrameLen(b[j][1]) <= MaxFrameLen
    BY <1>1, <2>1, <2>2 DEF FrameAt
  <2> QED
    BY <2>1, <2>3, <2>4 DEF FrameAt
<1>3. ASSUME NEW k \in 1 .. Len(s), ~Discardable(s[k]) PROVE AnchoredAt(s, k)
  <2>1. PICK j \in 1 .. Len(b) : j = n + k /\ s[k] = b[j]
    <3>1. n + k \in 1 .. Len(b) /\ s[k] = b[n + k]
      BY <1>1
    <3> QED
      BY <3>1
  <2> DEFINE f == b[j][1]
             i == b[j][2]
  <2>2. b[j] # Noise
    BY <1>3, <2>1 DEF Discardable
  <2>3. AnchoredAt(b, j) /\ i \in 1 .. MaxFrameLen /\ f \in Frame /\ FrameLen(f) \in Nat
    BY <2>1, <2>2, <1>3, ByteOf DEF Sound, Anchored
  <2>4. i <= j /\ i <= FrameLen(f) /\ b[j - i + 1] = <<f, 1>>
    BY <2>3 DEF AnchoredAt
  <2>5. s[k][1] = f /\ s[k][2] = i
    BY <2>1
  <2>6. f.fc # "read" \/ f.win \in Windows
    BY <1>3, <2>5 DEF Discardable
  <2> HIDE DEF i, f
  <2>7. PICK a \in 1 .. Len(b) : a = j - i + 1 /\ b[a] = <<f, 1>>
    <3>1. j - i + 1 \in 1 .. Len(b)
      BY <2>3, <2>4, Sizes, <1>1
    <3> QED
      BY <2>4, <3>1
  <2>8. StartsAt(b, a) /\ b[a][1] = f /\ ~Discardable(b[a])
    <3>1. <<f, 1>> \in Frame \X (1 .. MaxFrameLen)
      BY <2>3, Sizes
    <3>2. b[a] # Noise /\ b[a][1] = f /\ b[a][2] = 1
      BY <2>7, <3>1, NoiseAssumption
    <3> QED
      BY <3>2, <2>6 DEF StartsAt, Discardable
  <2>9. a > n
    <3> SUFFICES ASSUME a <= n PROVE FALSE
      BY <1>1
    <3>1. a \in 1 .. n
      BY <1>1
    <3>2. a + FrameLen(f) - 1 <= n
      BY <3>1, <2>8
    <3> QED
      BY <1>1, <2>1, <2>3, <2>4, <2>7, <3>2, Sizes
  <2>10. /\ k - i + 1 \in 1 .. (Len(b) - n) /\ n + (k - i + 1) = a /\ i <= k
    BY <1>1, <2>1, <2>3, <2>7, <2>9, Sizes
  <2>11. s[k - i + 1] = b[n + (k - i + 1)]
    BY <1>1, <2>10
  <2> QED
    BY <2>4, <2>5, <2>7, <2>10, <2>11 DEF AnchoredAt
<1>4. ASSUME clean PROVE Pure(s)
  BY <1>1, <1>4 DEF Sound, Pure
<1> QED
  BY <1>2, <1>3, <1>4 DEF Sound, Intact, Anchored, s

\* Sound for a clean bus is sound for any.
LEMMA SoundLess ==
    ASSUME NEW b, NEW c, NEW d, Sound(b, c), d => c
    PROVE  Sound(b, d)
  BY DEF Sound

-----------------------------------------------------------------------------
(* What arrives of a transmission *)

\* A transmission is a sound buffer of its one frame.
LEMMA WireOf ==
    ASSUME NEW f \in Frame, FrameLen(f) <= MaxFrameLen, NEW clean \in BOOLEAN,
           clean => f.good /\ f.win \in Windows
    PROVE  /\ OnWire(f) \in Seq(Byte) /\ Len(OnWire(f)) = FrameLen(f)
           /\ FrameLen(f) \in Nat /\ FrameLen(f) >= MinFrameLen
           /\ Sound(OnWire(f), clean)
           /\ StartsAt(OnWire(f), 1) /\ OnWire(f)[1][1] = f
           /\ \A k \in 1 .. FrameLen(f) : StartsAt(OnWire(f), k) => k = 1
<1> DEFINE b == OnWire(f)
           n == FrameLen(f)
<1>1. n \in Nat /\ n >= MinFrameLen /\ MinFrameLen >= 3 /\ MinFrameLen \in Nat
  BY FrameLengths, Sizes
<1>2. b = [i \in 1 .. n |-> <<f, i>>]
  BY DEF OnWire
<1>3. b \in Seq(Byte) /\ Len(b) = n
  <2>1. b \in Seq(Byte)
    BY OnWireType
  <2>2. b \in [1 .. n -> Byte] /\ Len(b) = n
    <3>1. b \in [1 .. n -> Frame \X (1 .. MaxFrameLen)]
      BY <1>1, <1>2, Sizes
    <3> HIDE DEF b, n
    <3> QED
      BY <1>1, <3>1, FunctionIsSeq DEF Byte
  <2> QED
    BY <2>1, <2>2
<1>4. \A i \in 1 .. n : b[i] = <<f, i>> /\ b[i][1] = f /\ b[i][2] = i /\ b[i] # Noise
  <2> TAKE i \in 1 .. n
  <2>1. b[i] = <<f, i>>
    BY <1>2
  <2>2. <<f, i>> \in Frame \X (1 .. MaxFrameLen)
    BY <1>1, Sizes
  <2> QED
    BY <2>1, <2>2, NoiseAssumption
<1> HIDE DEF b
<1>5. \A k \in 1 .. n : StartsAt(b, k) <=> k = 1
  BY <1>4 DEF StartsAt
<1> HIDE DEF n
<1>6. Intact(b)
  <2>1. FrameAt(b, 1)
    BY <1>1, <1>3, <1>4 DEF FrameAt, n
  <2> QED
    BY <1>3, <1>5, <2>1 DEF Intact
<1>7. Anchored(b)
  <2>1. ASSUME NEW k \in 1 .. n PROVE AnchoredAt(b, k)
    <3>1. b[k][1] = f /\ b[k][2] = k /\ k - k + 1 = 1 /\ b[1] = <<f, 1>> /\ k <= n
      BY <1>1, <1>4
    <3> QED
      BY <3>1, <1>1 DEF AnchoredAt, n
  <2> QED
    BY <2>1, <1>3 DEF Anchored
<1>8. clean => Pure(b)
  BY <1>3, <1>4 DEF Pure
<1>9. 1 \in 1 .. n
  BY <1>1
<1> QED
  BY <1>1, <1>3, <1>4, <1>5, <1>6, <1>7, <1>8, <1>9 DEF Sound, b, n

\* A burst of noise is sound, and no frame starts in it.
LEMMA NoiseOf ==
    ASSUME NEW n \in Nat
    PROVE  /\ [i \in 1 .. n |-> Noise] \in Seq(Byte) /\ Len([i \in 1 .. n |-> Noise]) = n
           /\ Sound([i \in 1 .. n |-> Noise], FALSE)
           /\ \A k \in 1 .. n : ~StartsAt([i \in 1 .. n |-> Noise], k)
<1> DEFINE b == [i \in 1 .. n |-> Noise]
<1>1. b \in [1 .. n -> Byte]
  BY DEF Byte
<1>2. b \in Seq(Byte) /\ Len(b) = n
  BY <1>1, FunctionIsSeq
<1>3. \A k \in 1 .. n : b[k] = Noise
  OBVIOUS
<1> HIDE DEF b
<1>4. Sound(b, FALSE) /\ \A k \in 1 .. n : ~StartsAt(b, k)
  BY <1>2, <1>3 DEF Sound, Intact, Anchored, Discardable, StartsAt
<1> QED
  BY <1>2, <1>4 DEF b

\* f is of the exchange of q; damage may have changed its window.
CopyOf(f, q, clean) == f.fc = q.fc /\ f.id = q.id /\ (clean => f.win = q.win)

\* b holds at most one frame, a copy of f, and at most a burst of noise.
Carries(b, f, clean) ==
    /\ b \in Seq(Byte) /\ Sound(b, clean)
    /\ \A k \in 1 .. Len(b) : StartsAt(b, k) =>
         b[k][1].dir = f.dir /\ CopyOf(b[k][1], f, clean)
    /\ \A j, k \in 1 .. Len(b) : StartsAt(b, j) /\ StartsAt(b, k) => j = k
    /\ \E k \in NoiseBursts \cup {0} : Len(b) <= FrameLen(f) + k
    /\ clean => Len(b) >= 1 /\ StartsAt(b, 1)

\* The kinds of damage that leave a frame in one piece, or nothing of it.
WholeKinds == {"checksum", "window", "lost", "noise"}

\* A lost transmission carries nothing.
LEMMA NothingCarried ==
    ASSUME NEW f \in Frame
    PROVE  Carries(<<>>, f, FALSE)
<1> DEFINE e == <<>>
<1>1. FrameLen(f) \in Nat /\ FrameLen(f) >= 0 /\ Len(e) = 0 /\ e \in Seq(Byte)
  BY FrameLengths
<1>2. \E k \in NoiseBursts \cup {0} : Len(e) <= FrameLen(f) + k
  <2>1. Len(e) <= FrameLen(f) + 0
    BY <1>1
  <2> QED
    BY <2>1
<1>3. Sound(e, FALSE)
  BY SoundEmpty
<1> HIDE DEF e
<1>4. 1 .. Len(e) = {}
  BY <1>1
<1>5. Carries(e, f, FALSE)
  BY <1>1, <1>2, <1>3, <1>4 DEF Carries
<1> QED
  BY <1>5 DEF e

\* A frame on the wire carries a copy of itself, its checksum or window apart.
LEMMA FrameCarried ==
    ASSUME NEW f \in Frame, NEW g \in Frame, NEW clean \in BOOLEAN,
           g.count = PayloadLen, g.dir = f.dir, g.fc = f.fc, g.id = f.id, f.count = PayloadLen,
           clean => g.good /\ g.win = f.win /\ f.win \in Windows
    PROVE  Carries(OnWire(g), f, clean) /\ FrameLen(g) <= MaxFrameLen /\ FrameLen(g) = FrameLen(f)
<1>1. FrameLen(g) <= MaxFrameLen /\ FrameLen(g) = FrameLen(f) /\ FrameLen(f) \in Nat
      /\ FrameLen(f) >= MinFrameLen
  BY Sizes, FrameLengths DEF FrameLen, CarriesPayload
<1>2. /\ OnWire(g) \in Seq(Byte) /\ Len(OnWire(g)) = FrameLen(f)
      /\ Sound(OnWire(g), clean)
      /\ StartsAt(OnWire(g), 1) /\ OnWire(g)[1][1] = g
      /\ \A k \in 1 .. FrameLen(f) : StartsAt(OnWire(g), k) => k = 1
  BY <1>1, WireOf
<1> DEFINE b == OnWire(g)
<1> HIDE DEF b
<1>3. \E k \in NoiseBursts \cup {0} : FrameLen(f) <= FrameLen(f) + k
  <2>1. FrameLen(f) <= FrameLen(f) + 0
    BY <1>1
  <2> QED
    BY <2>1
<1>4. FrameLen(f) >= 1
  BY <1>1, Sizes
<1> QED
  BY <1>1, <1>2, <1>3, <1>4 DEF Carries, CopyOf

\* Noise before or after a frame leaves it what it is.
LEMMA NoiseCarried ==
    ASSUME NEW f \in Frame, f.count = PayloadLen, NEW n \in NoiseBursts
    PROVE  /\ Carries([i \in 1 .. n |-> Noise] \o OnWire(f), f, FALSE)
           /\ Carries(OnWire(f) \o [i \in 1 .. n |-> Noise], f, FALSE)
<1> DEFINE z == [i \in 1 .. n |-> Noise]
           b == OnWire(f)
<1>1. n \in Nat
  BY SnifferAssumption
<1>2. /\ z \in Seq(Byte) /\ Len(z) = n /\ Sound(z, FALSE)
      /\ \A k \in 1 .. n : ~StartsAt(z, k)
  BY <1>1, NoiseOf
<1>3. FrameLen(f) <= MaxFrameLen /\ Carries(b, f, FALSE)
  BY FrameCarried
<1>4. b \in Seq(Byte) /\ Len(b) = FrameLen(f) /\ FrameLen(f) \in Nat
  BY <1>3, WireOf
<1> HIDE DEF z, b
<1>5. ASSUME NEW s, s = z \o b PROVE Carries(s, f, FALSE)
  <2>1. s \in Seq(Byte) /\ Len(s) = n + FrameLen(f) /\ Sound(s, FALSE)
    BY <1>2, <1>3, <1>4, <1>5, JoinOf, SoundJoin DEF Carries
  <2>2. ASSUME NEW k \in 1 .. Len(s), StartsAt(s, k)
        PROVE  \E j \in 1 .. Len(b) : k = n + j /\ s[k] = b[j] /\ StartsAt(b, j)
    BY <1>2, <1>4, <1>5, <2>2, JoinPlace DEF StartsAt
  <2>3. \A j, k \in 1 .. Len(s) : StartsAt(s, j) /\ StartsAt(s, k) => j = k
    BY <2>2, <1>3 DEF Carries
  <2>4. \A k \in 1 .. Len(s) : StartsAt(s, k) => s[k][1].dir = f.dir /\ CopyOf(s[k][1], f, FALSE)
    BY <2>2, <1>3 DEF Carries
  <2>5. \E k \in NoiseBursts \cup {0} : Len(s) <= FrameLen(f) + k
    BY <2>1, <1>1, <1>4
  <2> QED
    BY <2>1, <2>3, <2>4, <2>5 DEF Carries
<1>6. ASSUME NEW s, s = b \o z PROVE Carries(s, f, FALSE)
  <2>0. s \in Seq(Byte) /\ Len(s) = Len(b) + Len(z) /\ Sound(s, FALSE)
    BY <1>2, <1>3, <1>4, <1>6, JoinOf, SoundJoin DEF Carries
  <2>1. s \in Seq(Byte) /\ Len(s) = FrameLen(f) + n /\ Sound(s, FALSE)
    BY <2>0, <1>2, <1>4
  <2>2. ASSUME NEW k \in 1 .. Len(s), StartsAt(s, k)
        PROVE  k \in 1 .. Len(b) /\ s[k] = b[k] /\ StartsAt(b, k)
    BY <1>2, <1>4, <1>6, <2>2, JoinPlace DEF StartsAt
  <2>3. \A j, k \in 1 .. Len(s) : StartsAt(s, j) /\ StartsAt(s, k) => j = k
    BY <2>2, <1>3 DEF Carries
  <2>4. \A k \in 1 .. Len(s) : StartsAt(s, k) => s[k][1].dir = f.dir /\ CopyOf(s[k][1], f, FALSE)
    BY <2>2, <1>3 DEF Carries
  <2>5. \E k \in NoiseBursts \cup {0} : Len(s) <= FrameLen(f) + k
    BY <2>1, <1>1, <1>4
  <2> QED
    BY <2>1, <2>3, <2>4, <2>5 DEF Carries
<1> QED
  BY <1>5, <1>6 DEF z, b

\* While nothing was damaged, or nothing but what leaves frames whole.
Clean == faults = 0
Whole == Clean \/ Faults \subseteq WholeKinds

\* Whatever Transmit puts on the line carries the frame, if frames stay whole.
LEMMA LineCarries ==
    ASSUME NEW f \in Frame, f.count = PayloadLen, f.good, f.win \in Windows,
           faults \in Nat, Transmit(f), Whole'
    PROVE  Carries(line', f, Clean') /\ Whole /\ (Clean' => Clean)
<1>1. CASE line' = OnWire(f) /\ faults' = faults
  <2>1. Clean' \in BOOLEAN /\ (Clean' => Clean) /\ Whole
    BY <1>1 DEF Clean, Whole
  <2>2. Carries(OnWire(f), f, Clean')
    BY <2>1, FrameCarried
  <2> QED
    BY <1>1, <2>1, <2>2
<1>2. ASSUME faults' = faults + 1, NEW kind \in Faults, line' \in DamagedBy(kind, f)
      PROVE  Carries(line', f, Clean') /\ Whole /\ (Clean' => Clean)
  <2>1. (Clean' <=> FALSE) /\ Clean' = FALSE /\ Faults \subseteq WholeKinds
    BY <1>2 DEF Clean, Whole
  <2>2. Whole /\ (Clean' => Clean) /\ kind \in WholeKinds
    BY <1>2, <2>1 DEF Whole
  <2>3. Carries(line', f, FALSE)
    <3>1. CASE kind = "checksum"
      <4> DEFINE g == [f EXCEPT !.good = FALSE]
      <4>1. /\ g \in Frame /\ g.count = f.count /\ g.dir = f.dir /\ g.fc = f.fc /\ g.id = f.id
            /\ line' = OnWire(g)
        BY <1>2, <3>1 DEF Frame, DamagedBy
      <4> HIDE DEF g
      <4> QED
        BY <4>1, FrameCarried
    <3>2. CASE kind = "window"
      <4> DEFINE g == [f EXCEPT !.win = StrayWindow]
      <4>1. /\ g \in Frame /\ g.count = f.count /\ g.dir = f.dir /\ g.fc = f.fc /\ g.id = f.id
            /\ line' = OnWire(g)
        BY <1>2, <3>2 DEF Frame, DamagedBy
      <4> HIDE DEF g
      <4> QED
        BY <4>1, FrameCarried
    <3>3. CASE kind = "lost"
      BY <1>2, <3>3, NothingCarried DEF DamagedBy
    <3>4. CASE kind = "noise"
      <4>1. PICK n \in NoiseBursts : line' \in {[i \in 1 .. n |-> Noise] \o OnWire(f),
                                                OnWire(f) \o [i \in 1 .. n |-> Noise]}
        BY <1>2, <3>4 DEF DamagedBy
      <4> QED
        BY <4>1, NoiseCarried
    <3> QED
      BY <2>2, <3>1, <3>2, <3>3, <3>4 DEF WholeKinds
  <2> QED
    BY <2>1, <2>2, <2>3
<1> QED
  BY <1>1, <1>2 DEF Transmit

-----------------------------------------------------------------------------
(* Frames in the buffers *)

\* A request or a response starts at k, or somewhere, or no frame at all.
Start(b, k, dir) == StartsAt(b, k) /\ b[k][1].dir = dir
Has(b, dir) == \E k \in 1 .. Len(b) : Start(b, k, dir)
HasNone(b)  == \A k \in 1 .. Len(b) : ~StartsAt(b, k)

\* At most one frame in each direction, the request first, of one exchange.
Lined(b, q, clean) ==
    /\ \A k \in 1 .. Len(b) : StartsAt(b, k) => CopyOf(b[k][1], q, clean)
    /\ \A j, k \in 1 .. Len(b) : StartsAt(b, j) /\ StartsAt(b, k)
                                   /\ b[j][1].dir = b[k][1].dir => j = k
    /\ \A j, k \in 1 .. Len(b) : Start(b, j, "req") /\ Start(b, k, "rsp") => j < k

\* A frame is a request or a response.
LEMMA NoneIsNeither ==
    ASSUME NEW b \in Seq(Byte)
    PROVE  HasNone(b) <=> ~Has(b, "req") /\ ~Has(b, "rsp")
<1>1. \A k \in 1 .. Len(b) : StartsAt(b, k) => b[k][1].dir \in {"req", "rsp"}
  <2> TAKE k \in 1 .. Len(b)
  <2> SUFFICES ASSUME StartsAt(b, k) PROVE b[k][1].dir \in {"req", "rsp"}
    OBVIOUS
  <2>1. b[k][1] \in Frame
    BY ByteOf DEF StartsAt
  <2> QED
    BY <2>1 DEF Frame
<1> QED
  BY <1>1 DEF HasNone, Has, Start

\* A buffer without a frame is in line with any exchange.
LEMMA NoneLined ==
    ASSUME NEW b, HasNone(b), NEW q, NEW clean
    PROVE  Lined(b, q, clean)
  BY DEF HasNone, Lined, Start

\* In line on a clean bus is in line on any.
LEMMA LinedLess ==
    ASSUME NEW b, NEW q, NEW c, NEW d, Lined(b, q, c), d => c
    PROVE  Lined(b, q, d)
  BY DEF Lined, CopyOf

\* Dropping the front keeps the line, and takes the frame that was there.
LEMMA LinedRest ==
    ASSUME NEW b \in Seq(Byte), NEW n \in 0 .. Len(b), NEW q, NEW clean, Lined(b, q, clean)
    PROVE  /\ Lined(DropFront(b, n), q, clean)
           /\ \A d : Has(DropFront(b, n), d) => Has(b, d)
           /\ n >= 1 /\ StartsAt(b, 1) => ~Has(DropFront(b, n), b[1][1].dir)
           /\ HasNone(b) => HasNone(DropFront(b, n))
<1> DEFINE s == DropFront(b, n)
<1>1. s \in Seq(Byte) /\ Len(s) = Len(b) - n /\ Len(b) \in Nat /\ n \in Nat
      /\ \A i \in 1 .. (Len(b) - n) : s[i] = b[n + i]
  BY RestOf
<1> HIDE DEF s
<1>2. \A k \in 1 .. Len(s) : n + k \in 1 .. Len(b) /\ s[k] = b[n + k]
  BY <1>1
<1>3. \A k \in 1 .. Len(s) : StartsAt(s, k) <=> StartsAt(b, n + k)
  BY <1>2 DEF StartsAt
<1>4. \A k \in 1 .. Len(s) : \A d : Start(s, k, d) <=> Start(b, n + k, d)
  BY <1>2, <1>3 DEF Start
<1>5. \A k \in 1 .. Len(s) : StartsAt(s, k) => CopyOf(s[k][1], q, clean)
  BY <1>2, <1>3 DEF Lined
<1>6. ASSUME NEW j \in 1 .. Len(s), NEW k \in 1 .. Len(s), StartsAt(s, j), StartsAt(s, k),
             s[j][1].dir = s[k][1].dir
      PROVE  j = k
  <2>1. n + j = n + k
    BY <1>2, <1>3, <1>6 DEF Lined
  <2> QED
    BY <2>1, <1>1
<1>7. ASSUME NEW j \in 1 .. Len(s), NEW k \in 1 .. Len(s), Start(s, j, "req"), Start(s, k, "rsp")
      PROVE  j < k
  <2>1. n + j < n + k
    BY <1>2, <1>4, <1>7 DEF Lined
  <2> QED
    BY <2>1, <1>1
<1>8. Lined(s, q, clean)
  BY <1>5, <1>6, <1>7 DEF Lined
<1>9. \A d : Has(s, d) => Has(b, d)
  BY <1>2, <1>4 DEF Has
<1>10. ASSUME n >= 1, StartsAt(b, 1) PROVE ~Has(s, b[1][1].dir)
  <2> SUFFICES ASSUME NEW k \in 1 .. Len(s), Start(s, k, b[1][1].dir) PROVE FALSE
    BY DEF Has
  <2>1. n + k \in 1 .. Len(b) /\ StartsAt(b, n + k) /\ b[n + k][1].dir = b[1][1].dir
    BY <1>2, <1>4 DEF Start
  <2>2. 1 \in 1 .. Len(b)
    BY <1>1, <1>10
  <2>3. n + k = 1
    BY <1>10, <2>1, <2>2 DEF Lined
  <2> QED
    BY <2>3, <1>1, <1>10
<1>11. HasNone(b) => HasNone(s)
  BY <1>2, <1>3 DEF HasNone
<1> QED
  BY <1>8, <1>9, <1>10, <1>11 DEF s

\* A frame joins a line with no frame of its direction and no response.
LEMMA LinedMore ==
    ASSUME NEW b \in Seq(Byte), NEW q, NEW clean \in BOOLEAN, Lined(b, q, clean),
           NEW f \in Frame, NEW l, Carries(l, f, clean), CopyOf(f, q, clean),
           ~Has(b, f.dir), ~Has(b, "rsp")
    PROVE  /\ Lined(b \o l, q, clean)
           /\ \A d : Has(b, d) => Has(b \o l, d)
           /\ \A d : Has(b \o l, d) => Has(b, d) \/ d = f.dir
           /\ clean => Has(b \o l, f.dir)
<1> DEFINE s == b \o l
<1>1. /\ l \in Seq(Byte) /\ Len(s) = Len(b) + Len(l) /\ Len(b) \in Nat /\ Len(l) \in Nat
      /\ \A i \in 1 .. Len(b) : s[i] = b[i]
      /\ \A i \in 1 .. Len(l) : s[Len(b) + i] = l[i]
  BY JoinOf DEF Carries
<1>p. ASSUME NEW k \in 1 .. Len(s)
      PROVE  \/ k \in 1 .. Len(b) /\ s[k] = b[k]
             \/ \E j \in 1 .. Len(l) : k = Len(b) + j /\ s[k] = l[j]
  BY <1>1, JoinPlace
<1> HIDE DEF s
<1>2. ASSUME NEW k \in 1 .. Len(s), StartsAt(s, k)
      PROVE  \/ k \in 1 .. Len(b) /\ s[k] = b[k] /\ StartsAt(b, k)
             \/ \E j \in 1 .. Len(l) : k = Len(b) + j /\ s[k] = l[j] /\ StartsAt(l, j)
                                        /\ s[k][1].dir = f.dir
  BY <1>p, <1>2 DEF StartsAt, Carries
<1>3. ASSUME NEW k \in 1 .. Len(s), StartsAt(s, k) PROVE CopyOf(s[k][1], q, clean)
  <2>1. CASE k \in 1 .. Len(b) /\ s[k] = b[k] /\ StartsAt(b, k)
    BY <2>1 DEF Lined
  <2>2. ASSUME NEW j \in 1 .. Len(l), s[k] = l[j], StartsAt(l, j) PROVE CopyOf(s[k][1], q, clean)
    <3>1. CopyOf(l[j][1], f, clean)
      BY <2>2 DEF Carries
    <3> QED
      BY <2>2, <3>1 DEF CopyOf
  <2> QED
    BY <1>2, <1>3, <2>1, <2>2
<1>4. ASSUME NEW j \in 1 .. Len(s), NEW k \in 1 .. Len(s), StartsAt(s, j), StartsAt(s, k),
             s[j][1].dir = s[k][1].dir
      PROVE  j = k
  <2>1. CASE j \in 1 .. Len(b) /\ s[j] = b[j] /\ StartsAt(b, j)
    <3>1. b[j][1].dir # f.dir
      BY <2>1 DEF Has, Start
    <3>2. k \in 1 .. Len(b) /\ s[k] = b[k] /\ StartsAt(b, k)
      BY <1>2, <1>4, <2>1, <3>1
    <3> QED
      BY <1>4, <2>1, <3>2 DEF Lined
  <2>2. ASSUME NEW i \in 1 .. Len(l), j = Len(b) + i, StartsAt(l, i), s[j][1].dir = f.dir
        PROVE  j = k
    <3>1. ~(k \in 1 .. Len(b) /\ s[k] = b[k] /\ StartsAt(b, k))
      BY <1>4, <2>2 DEF Has, Start
    <3>2. PICK m \in 1 .. Len(l) : k = Len(b) + m /\ StartsAt(l, m)
      BY <1>2, <1>4, <3>1
    <3> QED
      BY <2>2, <3>2 DEF Carries
  <2> QED
    BY <1>2, <1>4, <2>1, <2>2
<1>5. ASSUME NEW j \in 1 .. Len(s), NEW k \in 1 .. Len(s), Start(s, j, "req"), Start(s, k, "rsp")
      PROVE  j < k
  <2>1. ~(k \in 1 .. Len(b) /\ s[k] = b[k] /\ StartsAt(b, k))
    BY <1>5 DEF Has, Start
  <2>2. PICK m \in 1 .. Len(l) : k = Len(b) + m /\ s[k][1].dir = f.dir
    BY <1>2, <1>5, <2>1 DEF Start
  <2>3. f.dir = "rsp" /\ "rsp" # "req"
    BY <2>2, <1>5 DEF Start
  <2>4. j \in 1 .. Len(b)
    BY <1>2, <1>5, <2>3 DEF Start
  <2> QED
    BY <2>2, <2>4, <1>1
<1>6. Lined(s, q, clean)
  BY <1>3, <1>4, <1>5 DEF Lined
<1>7. ASSUME NEW d, Has(b, d) PROVE Has(s, d)
  <2>1. PICK k \in 1 .. Len(b) : Start(b, k, d)
    BY <1>7 DEF Has
  <2>2. k \in 1 .. Len(s) /\ s[k] = b[k]
    BY <1>1
  <2> QED
    BY <2>1, <2>2 DEF Has, Start, StartsAt
<1>8. \A d : Has(s, d) => Has(b, d) \/ d = f.dir
  BY <1>2 DEF Has, Start
<1>9. ASSUME clean PROVE Has(s, f.dir)
  <2>0. Len(l) >= 1 /\ StartsAt(l, 1)
    BY <1>9 DEF Carries
  <2>a. 1 \in 1 .. Len(l)
    BY <2>0, <1>1
  <2>1. 1 \in 1 .. Len(l) /\ StartsAt(l, 1) /\ l[1][1].dir = f.dir
    BY <2>0, <2>a DEF Carries
  <2>2. Len(b) + 1 \in 1 .. Len(s) /\ s[Len(b) + 1] = l[1]
    BY <1>1, <2>1
  <2> QED
    BY <2>1, <2>2 DEF Has, Start, StartsAt
<1> QED
  BY <1>6, <1>7, <1>8, <1>9 DEF s

\* A bound on the iterations that a blob still takes.
Units(c) == IF c THEN 1 ELSE 0
Left(b) ==
    2 * Units(Has(b, "req")) + 2 * Units(Has(b, "rsp")) - Units(Len(b) > 0 /\ StartsAt(b, 1))

\* Four iterations suffice, and three for a blob aligned on a frame.
LEMMA LeftBounds ==
    ASSUME NEW b \in Seq(Byte)
    PROVE  /\ Left(b) \in 0 .. 4
           /\ Left(b) <= 3 \/ ~(Len(b) > 0 /\ StartsAt(b, 1))
           /\ Left(b) = 0 => HasNone(b)
<1>1. Len(b) > 0 /\ StartsAt(b, 1) => Has(b, "req") \/ Has(b, "rsp")
  <2>1. Len(b) > 0 => 1 \in 1 .. Len(b)
    BY LenProperties
  <2> QED
    BY <2>1, NoneIsNeither DEF HasNone
<1> QED
  BY <1>1, NoneIsNeither DEF Left, Units

\* Consuming a frame, or the garbage before one, takes an iteration.
LEMMA LeftLess ==
    ASSUME NEW b \in Seq(Byte), NEW n \in 1 .. Len(b), NEW q, NEW clean, Lined(b, q, clean),
           StartsAt(b, 1) \/ (n < Len(b) /\ StartsAt(b, n + 1))
    PROVE  Left(DropFront(b, n)) + 1 <= Left(b)
<1> DEFINE s == DropFront(b, n)
<1>1. /\ s \in Seq(Byte) /\ Len(s) = Len(b) - n /\ Len(b) \in Nat /\ n \in Nat /\ n >= 1
      /\ \A i \in 1 .. (Len(b) - n) : s[i] = b[n + i]
  BY RestOf
<1>2. /\ \A d : Has(s, d) => Has(b, d)
      /\ StartsAt(b, 1) => ~Has(s, b[1][1].dir)
  BY LinedRest
<1> SUFFICES Left(s) + 1 <= Left(b)
  OBVIOUS
<1> HIDE DEF s
<1>3. CASE StartsAt(b, 1)
  <2>1. 1 \in 1 .. Len(b) /\ Len(b) > 0
    BY <1>1
  <2>2. b[1][1] \in Frame
    BY <1>3, <2>1, ByteOf DEF StartsAt
  <2>3. PICK d \in {"req", "rsp"} : b[1][1].dir = d
    BY <2>2 DEF Frame
  <2>4. Has(b, d) /\ ~Has(s, d)
    BY <1>2, <1>3, <2>1, <2>3 DEF Has, Start
  <2> QED
    BY <1>2, <1>3, <2>1, <2>3, <2>4 DEF Left, Units
<1>4. CASE ~StartsAt(b, 1)
  <2>1. Len(s) > 0 /\ StartsAt(s, 1)
    <3>1. 1 \in 1 .. (Len(b) - n) /\ n + 1 = 1 + n
      BY <1>1, <1>4
    <3>2. s[1] = b[n + 1]
      BY <1>1, <3>1
    <3> QED
      BY <1>1, <1>4, <3>1, <3>2 DEF StartsAt
  <2> QED
    BY <1>2, <1>4, <2>1 DEF Left, Units
<1> QED
  BY <1>3, <1>4

-----------------------------------------------------------------------------
(* What has been sent and not yet been consumed *)

\* What the sniffer still has to read, oldest byte first.
Stream == s_blob \o rx \o line

BuffersOK == s_blob \in Seq(Byte) /\ rx \in Seq(Byte) /\ line \in Seq(Byte)

\* The three buffers hold bytes.
LEMMA Buffers == ASSUME TypeOK PROVE BuffersOK
  BY DEF TypeOK, BuffersOK, BlobOK, DriverOK, BusOK

\* The stream begins with the blob.
LEMMA StreamOf ==
    ASSUME BuffersOK
    PROVE  /\ Stream \in Seq(Byte) /\ Len(Stream) = Len(s_blob) + Len(rx) + Len(line)
           /\ Len(s_blob) \in Nat /\ Len(rx) \in Nat /\ Len(line) \in Nat /\ Len(Stream) \in Nat
           /\ \A i \in 1 .. Len(s_blob) : i \in 1 .. Len(Stream) /\ Stream[i] = s_blob[i]
<1> USE DEF BuffersOK
<1>1. /\ s_blob \o rx \in Seq(Byte) /\ Len(s_blob \o rx) = Len(s_blob) + Len(rx)
      /\ Len(s_blob) \in Nat /\ Len(rx) \in Nat
      /\ \A i \in 1 .. Len(s_blob) : (s_blob \o rx)[i] = s_blob[i]
  BY JoinOf
<1> DEFINE t == s_blob \o rx
<1> HIDE DEF t
<1>2. /\ t \o line \in Seq(Byte) /\ Len(t \o line) = Len(t) + Len(line) /\ Len(line) \in Nat
      /\ \A i \in 1 .. Len(t) : (t \o line)[i] = t[i]
  BY <1>1, JoinOf DEF t
<1>3. \A i \in 1 .. Len(s_blob) : i \in 1 .. Len(t) /\ i \in 1 .. Len(t \o line)
  BY <1>1, <1>2 DEF t
<1>4. \A i \in 1 .. Len(s_blob) : (t \o line)[i] = s_blob[i]
  BY <1>1, <1>2, <1>3 DEF t
<1> QED
  BY <1>1, <1>2, <1>3, <1>4 DEF t, Stream

\* What is in line in the stream is in line in the blob.
LEMMA BlobIsFront ==
    ASSUME BuffersOK, NEW q, NEW clean, Lined(Stream, q, clean)
    PROVE  /\ Lined(s_blob, q, clean)
           /\ \A d : Has(s_blob, d) => Has(Stream, d)
           /\ \A k \in 1 .. Len(s_blob) : StartsAt(s_blob, k) <=> StartsAt(Stream, k)
<1> DEFINE s == Stream
           b == s_blob
<1>1. \A i \in 1 .. Len(b) : i \in 1 .. Len(s) /\ s[i] = b[i]
  BY StreamOf
<1> HIDE DEF s, b
<1>2. \A k \in 1 .. Len(b) : StartsAt(b, k) <=> StartsAt(s, k)
  BY <1>1 DEF StartsAt
<1>3. \A k \in 1 .. Len(b) : \A d : Start(b, k, d) <=> Start(s, k, d)
  BY <1>1, <1>2 DEF Start
<1>4. \A d : Has(b, d) => Has(s, d)
  BY <1>1, <1>3 DEF Has
<1>5. ASSUME Lined(s, q, clean) PROVE Lined(b, q, clean)
  BY <1>1, <1>2, <1>3, <1>5 DEF Lined
<1> QED
  BY <1>2, <1>4, <1>5 DEF s, b

\* Nothing added, nothing changed.
LEMMA EmptyJoin ==
    ASSUME NEW b \in Seq(Byte)
    PROVE  b \o <<>> = b
  BY ConcatEmptySeq

\* When nothing is under way the stream is what the blob has left.
LEMMA QuietStream ==
    ASSUME BuffersOK, HasNone(s_blob), rx = <<>>, line = <<>>
    PROVE  Stream = s_blob /\ HasNone(Stream)
  BY EmptyJoin DEF Stream, BuffersOK

\* Dropping from the first part drops from the whole.
LEMMA RestJoin ==
    ASSUME NEW a \in Seq(Byte), NEW b \in Seq(Byte), NEW n \in 0 .. Len(a)
    PROVE  /\ DropFront(a, n) \o b = DropFront(a \o b, n)
           /\ n \in 0 .. Len(a \o b)
<1> DEFINE s == DropFront(a, n) \o b
           t == DropFront(a \o b, n)
<1>1. /\ a \o b \in Seq(Byte) /\ Len(a \o b) = Len(a) + Len(b)
      /\ Len(a) \in Nat /\ Len(b) \in Nat
      /\ \A i \in 1 .. Len(a) : (a \o b)[i] = a[i]
      /\ \A i \in 1 .. Len(b) : (a \o b)[Len(a) + i] = b[i]
  BY JoinOf
<1>2. n \in 0 .. Len(a \o b)
  BY <1>1
<1>3. /\ t \in Seq(Byte) /\ Len(t) = Len(a \o b) - n
      /\ \A i \in 1 .. (Len(a \o b) - n) : t[i] = (a \o b)[n + i]
  BY <1>1, <1>2, RestOf
<1>4. /\ DropFront(a, n) \in Seq(Byte) /\ Len(DropFront(a, n)) = Len(a) - n
      /\ \A i \in 1 .. (Len(a) - n) : DropFront(a, n)[i] = a[n + i]
  BY RestOf
<1> DEFINE u == DropFront(a, n)
<1>5. /\ s \in Seq(Byte) /\ Len(s) = Len(u) + Len(b)
      /\ \A k \in 1 .. Len(s) :
           \/ k \in 1 .. Len(u) /\ s[k] = u[k]
           \/ \E j \in 1 .. Len(b) : k = Len(u) + j /\ s[k] = b[j]
  BY <1>4, JoinOf, JoinPlace
<1> HIDE DEF s, t, u
<1>6. Len(s) = Len(t)
  BY <1>1, <1>2, <1>3, <1>4, <1>5 DEF u
<1>7. ASSUME NEW k \in 1 .. Len(s) PROVE s[k] = t[k]
  <2>1. CASE k \in 1 .. Len(u) /\ s[k] = u[k]
    <3>1. k \in 1 .. (Len(a) - n) /\ n + k \in 1 .. Len(a) /\ k \in 1 .. (Len(a \o b) - n)
      BY <2>1, <1>1, <1>2, <1>4 DEF u
    <3> QED
      BY <2>1, <3>1, <1>1, <1>3, <1>4 DEF u
  <2>2. ASSUME NEW j \in 1 .. Len(b), k = Len(u) + j, s[k] = b[j] PROVE s[k] = t[k]
    <3>1. n + k = Len(a) + j /\ k \in 1 .. (Len(a \o b) - n)
      BY <2>2, <1>1, <1>2, <1>4 DEF u
    <3>2. t[k] = (a \o b)[n + k]
      BY <3>1, <1>3
    <3> QED
      BY <2>2, <3>1, <3>2, <1>1
  <2> QED
    BY <1>5, <2>1, <2>2
<1>8. s = t
  BY <1>3, <1>5, <1>6, <1>7, SeqEqual
<1> QED
  BY <1>2, <1>8 DEF s, t

\* What is consumed from the blob is consumed from the stream.
LEMMA StreamRest ==
    ASSUME BuffersOK, NEW n \in 0 .. Len(s_blob), s_blob' = DropFront(s_blob, n),
           rx' = rx, line' = line
    PROVE  Stream' = DropFront(Stream, n) /\ n \in 0 .. Len(Stream)
<1>1. s_blob \o rx \in Seq(Byte)
  BY JoinOf DEF BuffersOK
<1>2. /\ DropFront(s_blob, n) \o rx = DropFront(s_blob \o rx, n)
      /\ n \in 0 .. Len(s_blob \o rx)
  BY RestJoin DEF BuffersOK
<1>3. /\ DropFront(s_blob \o rx, n) \o line = DropFront(s_blob \o rx \o line, n)
      /\ n \in 0 .. Len(s_blob \o rx \o line)
  BY <1>1, <1>2, RestJoin DEF BuffersOK
<1> QED
  BY <1>2, <1>3 DEF Stream

-----------------------------------------------------------------------------
(* The invariant *)

\* The buffers hold whole frames, and noise.
BytesInv == Sound(s_blob, Clean) /\ Sound(rx, Clean) /\ Sound(line, Clean)

\* The answer the heat pump owes, and the request the sniffer knows of, are
\* those of the exchange of q.
OwedOf(q) ==
    owed # None => /\ owed.dir = "rsp" /\ CopyOf(owed, q, TRUE)
                   /\ owed.count = PayloadLen /\ owed.good /\ owed.win \in Windows
PendingOf(q) ==
    s_pending # None => /\ s_pending.id = q.id /\ q.fc = "read"
                        /\ Clean => s_pending.win = q.win
                        /\ s_pending.age = gap /\ gap <= RespTimeout + 1

\* An answer finds its request.
Answerable(q) ==
    Clean /\ q.fc = "read" /\ gap <= ReplyBy /\ (owed # None \/ Has(Stream, "rsp"))
      => s_pending # None \/ Has(Stream, "req")

ExchangeInv(q) ==
    /\ Lined(Stream, q, Clean)
    /\ Has(Stream, "req") => gap = 0 /\ s_pending = None
    /\ Has(Stream, "rsp") => owed = None
    /\ OwedOf(q) /\ PendingOf(q) /\ Answerable(q)

\* There is room for what is still to come.
Held(k) == Len(Stream) + (IF owed = None THEN 0 ELSE FrameLen(owed) + k)
Room == \A k \in NoiseBursts \cup {0} : Held(k) <= MaxBlob /\ Held(k) <= RxBufSz

\* The queue holds data events only, and never more than two.
EventsInv ==
    /\ \A i \in 1 .. Len(s_uart_queue) : s_uart_queue[i] = "UART_DATA"
    /\ Len(s_uart_queue) + Units(line # <<>>) + Units(owed # None) <= 2
    /\ rx # <<>> => s_uart_queue # <<>>

\* The extraction loop ends with nothing but less than a frame left.
LoopInv ==
    /\ pc = "extract" => iters + Left(s_blob) <= 4
    /\ pc # "extract" => iters = 0 /\ HasNone(s_blob) /\ Len(s_blob) <= HdrLen

\* When the heat pump no longer answers, all is received and handled.
Settled == line = <<>> /\ rx = <<>> /\ s_uart_queue = <<>>
           /\ HasNone(s_blob) /\ Len(s_blob) <= HdrLen
PaceInv == Room /\ EventsInv /\ LoopInv /\ (gap > ReplyBy => Settled)

TimingInv(q) == BytesInv /\ ExchangeInv(q) /\ PaceInv /\ CleanBusNoErrors

\* The types of the numbers and of what may be None.
LEMMA Numbers ==
    ASSUME TypeOK
    PROVE  /\ gap \in 0 .. PollGap /\ gap \in Nat /\ PollGap \in Nat /\ ReplyBy \in Nat
           /\ RespTimeout \in Nat /\ MaxIters \in Nat /\ iters \in 0 .. MaxIters /\ iters \in Nat
           /\ faults \in Nat /\ MaxBlob \in Nat /\ RxBufSz \in Nat /\ UartQueueSz \in Nat
           /\ Len(s_uart_queue) \in Nat /\ s_uart_queue \in Seq(Events)
           /\ s_pending # None => s_pending \in Pending
           /\ owed # None => owed \in Frame /\ FrameLen(owed) \in Nat
  BY SnifferAssumption, FrameLengths, LenProperties
     DEF TypeOK, BusOK, DriverOK, BlobOK, PairingOK, Events

\* The clock moves only while nothing waits to be received.
LEMMA TickTiming ==
    ASSUME TypeOK, KeptUp, NEW q, TimingInv(q), Tick
    PROVE  TimingInv(q)'
<1>1. line = <<>> /\ s_uart_queue = <<>> /\ pc = "wait" /\ ~Overdue
  BY DEF Tick, KeptUp
<1>2. rx = <<>> /\ HasNone(s_blob) /\ Len(s_blob) <= HdrLen
  BY <1>1 DEF TimingInv, PaceInv, EventsInv, LoopInv
<1>3. Stream = s_blob /\ HasNone(Stream) /\ ~Has(Stream, "req") /\ ~Has(Stream, "rsp")
  BY <1>1, <1>2, Buffers, QuietStream, NoneIsNeither DEF BuffersOK
<1>4. /\ s_blob' = s_blob /\ rx' = rx /\ line' = line /\ owed' = owed /\ faults' = faults
      /\ s_uart_queue' = s_uart_queue /\ pc' = pc /\ iters' = iters
      /\ s_parse_errors' = s_parse_errors /\ s_resync_bytes' = s_resync_bytes
  BY DEF Tick, driverVars, counterVars
<1>5. Stream' = Stream /\ Clean' = Clean
  BY <1>4 DEF Stream, Clean
<1>6. gap' \in Nat /\ gap <= gap' /\ (gap < PollGap => gap' = gap + 1)
  BY Numbers DEF Tick
<1>7. ASSUME s_pending # None
      PROVE  /\ s_pending' # None /\ s_pending'.id = s_pending.id /\ s_pending'.win = s_pending.win
             /\ s_pending'.age = gap' /\ gap' <= RespTimeout + 1
  <2>1. s_pending \in Pending /\ s_pending.age = gap /\ s_pending.age <= RespTimeout
    BY <1>1, <1>7, Numbers DEF TimingInv, ExchangeInv, PendingOf, Overdue, Pending
  <2>2. s_pending' = [s_pending EXCEPT !.age = @ + 1]
    BY <1>7, <2>1 DEF Tick, Ages
  <2>3. gap' = gap + 1
    BY <1>6, <2>1, Numbers DEF KeptUp
  <2>4. s_pending' \in Pending
    BY <2>1, <2>2, Numbers DEF Pending
  <2>5. s_pending'.age = gap + 1 /\ s_pending'.id = s_pending.id /\ s_pending'.win = s_pending.win
    BY <2>1, <2>2 DEF Pending
  <2> QED
    BY <2>1, <2>3, <2>4, <2>5, Numbers, SnifferAssumption
<1>8. s_pending = None => s_pending' = None
  BY DEF Tick, Ages
<1>9. BytesInv'
  BY <1>4, <1>5 DEF TimingInv, BytesInv
<1>10. ExchangeInv(q)'
  <2>1. OwedOf(q)' /\ Lined(Stream, q, Clean)'
    BY <1>4, <1>5 DEF TimingInv, ExchangeInv, OwedOf
  <2>2. PendingOf(q)'
    BY <1>5, <1>7, <1>8 DEF TimingInv, ExchangeInv, PendingOf
  <2>3. Answerable(q)'
    <3>1. gap' <= ReplyBy => gap <= ReplyBy
      BY <1>6, Numbers
    <3> QED
      BY <1>3, <1>4, <1>5, <1>7, <3>1 DEF TimingInv, ExchangeInv, Answerable
  <2>4. ~Has(Stream, "req")' /\ ~Has(Stream, "rsp")'
    BY <1>3, <1>5
  <2> QED
    BY <2>1, <2>2, <2>3, <2>4 DEF ExchangeInv
<1>11. PaceInv'
  <2>1. Room' /\ EventsInv' /\ LoopInv'
    BY <1>4, <1>5 DEF TimingInv, PaceInv, Room, Held, EventsInv, LoopInv
  <2>2. Settled'
    BY <1>1, <1>2, <1>4 DEF Settled
  <2> QED
    BY <2>1, <2>2 DEF PaceInv
<1>12. CleanBusNoErrors'
  BY <1>4 DEF TimingInv, CleanBusNoErrors
<1> QED
  BY <1>9, <1>10, <1>11, <1>12 DEF TimingInv

\* A transmission is appended to the stream.
LEMMA StreamMore ==
    ASSUME BuffersOK, line = <<>>, s_blob' = s_blob, rx' = rx
    PROVE  Stream' = Stream \o line'
<1>1. s_blob \o rx \in Seq(Byte)
  BY JoinOf DEF BuffersOK
<1> QED
  BY <1>1, EmptyJoin DEF Stream

\* A step of the bus leaves what was received sound.
LEMMA BytesLess ==
    ASSUME BytesInv, s_blob' = s_blob, rx' = rx, Clean' => Clean, Sound(line, Clean)'
    PROVE  BytesInv'
  BY SoundLess DEF BytesInv

\* A request opens a new exchange: the one before it is over.
LEMMA RequestTiming ==
    ASSUME TypeOK, KeptUp, NEW q, TimingInv(q), BusRequest, Whole'
    PROVE  Whole /\ \E p \in Frame : TimingInv(p)'
<1>1. PICK t \in Traffic :
        LET f == [dir |-> "req", fc |-> t[1], win |-> t[2], count |-> PayloadLen,
                  good |-> TRUE, id |-> polls % 2]
        IN Transmit(f) /\ owed' = [f EXCEPT !.dir = "rsp"]
  BY DEF BusRequest
<1>2. PICK f \in Frame, g \in Frame :
        /\ f.dir = "req" /\ f.count = PayloadLen /\ f.good = TRUE /\ f.win \in Windows
        /\ g.dir = "rsp" /\ g.fc = f.fc /\ g.win = f.win /\ g.id = f.id /\ g.count = PayloadLen
        /\ g.good = TRUE
        /\ Transmit(f) /\ owed' = g
  <2> DEFINE f == [dir |-> "req", fc |-> t[1], win |-> t[2], count |-> PayloadLen,
                   good |-> TRUE, id |-> polls % 2]
             g == [f EXCEPT !.dir = "rsp"]
  <2>1. t \in {"read", "cmd"} \X Windows
    BY SnifferAssumption
  <2>2. polls % 2 \in Ids
    BY SnifferAssumption DEF TypeOK, BusOK, Ids
  <2>3. f \in Frame /\ g \in Frame /\ f.win \in Windows
    BY <2>1, <2>2 DEF Frame
  <2>4. /\ f.dir = "req" /\ f.count = PayloadLen /\ f.good = TRUE
        /\ g.dir = "rsp" /\ g.fc = f.fc /\ g.win = f.win /\ g.id = f.id /\ g.count = PayloadLen
        /\ g.good = TRUE
    OBVIOUS
  <2>5. Transmit(f) /\ owed' = g
    BY <1>1
  <2> HIDE DEF f, g
  <2> QED
    BY <2>3, <2>4, <2>5
<1>5. FrameLen(f) \in Nat /\ FrameLen(g) \in Nat /\ FrameLen(f) + FrameLen(g) = 2 * MinFrameLen + PayloadLen
  <2>1. f.fc \in {"read", "cmd"}
    BY <1>2 DEF Frame
  <2> QED
    BY <1>2, <2>1, Sizes DEF FrameLen, CarriesPayload
<1>6. /\ line = <<>> /\ gap >= PollGap /\ gap' = 0
      /\ s_blob' = s_blob /\ rx' = rx /\ s_uart_queue' = s_uart_queue
      /\ pc' = pc /\ iters' = iters /\ s_pending' = s_pending
      /\ s_parse_errors' = s_parse_errors /\ s_resync_bytes' = s_resync_bytes
  BY DEF BusRequest, driverVars, taskVars, counterVars, pairingVars
<1>7. Carries(line', f, Clean') /\ Whole /\ (Clean' => Clean)
  BY <1>2, LineCarries, Numbers
<1>8. gap > ReplyBy /\ s_pending = None
  BY <1>6, Numbers DEF KeptUp, TimingInv, ExchangeInv, PendingOf
<1>9. rx = <<>> /\ s_uart_queue = <<>> /\ HasNone(s_blob) /\ Len(s_blob) <= HdrLen
  BY <1>8 DEF TimingInv, PaceInv, Settled
<1>10. /\ Stream = s_blob /\ HasNone(Stream) /\ ~Has(Stream, "req") /\ ~Has(Stream, "rsp")
       /\ Stream \in Seq(Byte)
  BY <1>6, <1>9, Buffers, QuietStream, NoneIsNeither DEF BuffersOK
<1>11. Stream' = Stream \o line'
  BY <1>6, Buffers, StreamMore
<1>12. /\ Lined(Stream', f, Clean')
       /\ ~Has(Stream', "rsp")
       /\ Clean' => Has(Stream', "req")
  <2>1. Lined(Stream, f, Clean') /\ CopyOf(f, f, Clean') /\ Clean' \in BOOLEAN
    BY <1>10, NoneLined DEF CopyOf, Clean
  <2> QED
    BY <1>2, <1>7, <1>10, <1>11, <2>1, LinedMore
<1>13. ExchangeInv(f)'
  <2>1. OwedOf(f)'
    BY <1>2 DEF OwedOf, CopyOf
  <2>2. PendingOf(f)' /\ Answerable(f)'
    BY <1>6, <1>8, <1>12 DEF PendingOf, Answerable
  <2> QED
    BY <1>6, <1>8, <1>12, <2>1, <2>2 DEF ExchangeInv
<1>14. BytesInv'
  BY <1>6, <1>7, BytesLess DEF TimingInv, Carries
<1>15. PaceInv'
  <2>1. Room'
    <3>1. PICK j \in NoiseBursts \cup {0} : Len(line') <= FrameLen(f) + j
      BY <1>7 DEF Carries
    <3>2. Len(Stream') = Len(s_blob) + Len(line') /\ Len(s_blob) \in Nat /\ Len(line') \in Nat
      BY <1>7, <1>10, <1>11, JoinOf DEF Carries
    <3>3. j \in Nat /\ HdrLen \in Nat
      BY SnifferAssumption, Sizes
    <3>4. ASSUME NEW k \in NoiseBursts \cup {0}
          PROVE  Held(k)' <= MaxBlob /\ Held(k)' <= RxBufSz
      <4>1. /\ HdrLen + 2 * MinFrameLen + PayloadLen + j + k <= MaxBlob
            /\ HdrLen + 2 * MinFrameLen + PayloadLen + j + k <= RxBufSz
        BY DEF KeptUp
      <4>2. k \in Nat
        BY SnifferAssumption
      <4>3. Held(k)' = Len(Stream') + (IF owed' = None THEN 0 ELSE FrameLen(g) + k)
        BY <1>2 DEF Held
      <4>4. Held(k)' <= HdrLen + (FrameLen(f) + FrameLen(g)) + j + k
        BY <1>5, <1>9, <3>1, <3>2, <3>3, <4>2, <4>3
      <4>5. Held(k)' \in Nat
        BY <1>5, <3>2, <4>2, <4>3
      <4>6. Held(k)' <= HdrLen + 2 * MinFrameLen + PayloadLen + j + k
        <5> DEFINE x == FrameLen(f) + FrameLen(g)
        <5>1. x = 2 * MinFrameLen + PayloadLen
          BY <1>5
        <5>2. Held(k)' <= HdrLen + x + j + k
          BY <4>4
        <5> HIDE DEF x
        <5> QED
          BY <5>1, <5>2, <3>3, <4>2, <4>5, Sizes
      <4> DEFINE h == Held(k)'
                 m == HdrLen + 2 * MinFrameLen + PayloadLen + j + k
      <4>7. h \in Nat /\ m \in Nat /\ MaxBlob \in Nat /\ RxBufSz \in Nat
        BY <4>2, <4>5, <3>3, Numbers, Sizes
      <4>8. h <= m /\ m <= MaxBlob /\ m <= RxBufSz
        BY <4>1, <4>6
      <4> HIDE DEF h, m
      <4>9. h <= MaxBlob /\ h <= RxBufSz
        BY <4>7, <4>8
      <4> QED
        BY <4>9 DEF h
    <3> QED
      BY <3>4 DEF Room
  <2>2. EventsInv'
    <3>1. s_uart_queue' = <<>> /\ rx' = <<>> /\ Len(<<>>) = 0
      BY <1>6, <1>9
    <3>2. Units(line' # <<>>) \in {0, 1} /\ Units(owed' # None) \in {0, 1}
      BY DEF Units
    <3> QED
      BY <3>1, <3>2 DEF EventsInv
  <2>3. LoopInv'
    BY <1>6 DEF TimingInv, PaceInv, LoopInv
  <2>4. ~(gap' > ReplyBy)
    BY <1>6, Numbers
  <2> QED
    BY <2>1, <2>2, <2>3, <2>4 DEF PaceInv
<1>16. CleanBusNoErrors'
  BY <1>6, <1>7 DEF TimingInv, CleanBusNoErrors, Clean
<1> QED
  BY <1>2, <1>7, <1>13, <1>14, <1>15, <1>16 DEF TimingInv

\* A reply is of the exchange under way, and there is room for it.
LEMMA ReplyTiming ==
    ASSUME TypeOK, KeptUp, NEW q, TimingInv(q), BusReply, Whole'
    PROVE  Whole /\ TimingInv(q)'
<1>1. /\ line = <<>> /\ owed # None /\ gap <= ReplyBy /\ Transmit(owed) /\ owed' = None
      /\ gap' = gap /\ s_blob' = s_blob /\ rx' = rx /\ s_uart_queue' = s_uart_queue
      /\ pc' = pc /\ iters' = iters /\ s_pending' = s_pending
      /\ s_parse_errors' = s_parse_errors /\ s_resync_bytes' = s_resync_bytes
  BY DEF BusReply, driverVars, taskVars, counterVars, pairingVars
<1>2. PICK f \in Frame : f = owed
  BY <1>1, Numbers
<1>3. /\ f.dir = "rsp" /\ CopyOf(f, q, TRUE) /\ f.count = PayloadLen /\ f.good /\ f.win \in Windows
      /\ FrameLen(f) \in Nat
  BY <1>1, <1>2, Numbers DEF TimingInv, ExchangeInv, OwedOf
<1>4. Carries(line', f, Clean') /\ Whole /\ (Clean' => Clean)
  BY <1>1, <1>2, <1>3, LineCarries, Numbers
<1>5. Stream' = Stream \o line' /\ Stream \in Seq(Byte)
  BY <1>1, Buffers, StreamMore, StreamOf
<1>6. ~Has(Stream, "rsp")
  BY <1>1 DEF TimingInv, ExchangeInv
<1>7. /\ Lined(Stream', q, Clean')
      /\ Has(Stream', "req") <=> Has(Stream, "req")
  <2>1. Lined(Stream, q, Clean') /\ CopyOf(f, q, Clean') /\ Clean' \in BOOLEAN
    BY <1>3, <1>4, LinedLess DEF TimingInv, ExchangeInv, CopyOf, Clean
  <2>2. /\ Lined(Stream \o line', q, Clean')
        /\ \A d : Has(Stream, d) => Has(Stream \o line', d)
        /\ \A d : Has(Stream \o line', d) => Has(Stream, d) \/ d = f.dir
    BY <1>3, <1>4, <1>5, <1>6, <2>1, LinedMore
  <2> QED
    BY <1>3, <1>5, <2>2
<1>8. ExchangeInv(q)'
  <2>1. OwedOf(q)' /\ PendingOf(q)'
    BY <1>1, <1>4 DEF TimingInv, ExchangeInv, OwedOf, PendingOf
  <2>2. Answerable(q)'
    BY <1>1, <1>4, <1>7 DEF TimingInv, ExchangeInv, Answerable
  <2> QED
    BY <1>1, <1>7, <2>1, <2>2 DEF TimingInv, ExchangeInv
<1>9. BytesInv'
  BY <1>1, <1>4, BytesLess DEF TimingInv, Carries
<1>10. PaceInv'
  <2>1. Room'
    <3>1. PICK j \in NoiseBursts \cup {0} : Len(line') <= FrameLen(f) + j
      BY <1>4 DEF Carries
    <3>2. Len(Stream') = Len(Stream) + Len(line') /\ Len(Stream) \in Nat /\ Len(line') \in Nat
      BY <1>4, <1>5, JoinOf DEF Carries
    <3>3. j \in Nat
      BY SnifferAssumption
    <3>4. Len(Stream') <= Held(j) /\ Held(j) \in Nat
      BY <1>1, <1>2, <1>3, <3>1, <3>2, <3>3 DEF Held
    <3>5. Held(j) <= MaxBlob /\ Held(j) <= RxBufSz
      BY DEF TimingInv, PaceInv, Room
    <3>6. Len(Stream') <= MaxBlob /\ Len(Stream') <= RxBufSz
      BY <3>2, <3>4, <3>5, Numbers
    <3>7. \A k : Held(k)' = Len(Stream') + 0
      BY <1>1 DEF Held
    <3> QED
      BY <3>2, <3>6, <3>7 DEF Room
  <2>2. EventsInv'
    <3>1. /\ Len(s_uart_queue) + Units(FALSE) + Units(TRUE) <= 2
          /\ Len(s_uart_queue) \in Nat
      BY <1>1, Numbers DEF TimingInv, PaceInv, EventsInv, Units
    <3>2. Len(s_uart_queue') + Units(line' # <<>>) + Units(owed' # None) <= 2
      BY <1>1, <3>1 DEF Units
    <3> QED
      BY <1>1, <3>2 DEF TimingInv, PaceInv, EventsInv
  <2>3. LoopInv'
    BY <1>1 DEF TimingInv, PaceInv, LoopInv
  <2>4. ~(gap' > ReplyBy)
    BY <1>1, Numbers
  <2> QED
    BY <2>1, <2>2, <2>3, <2>4 DEF PaceInv
<1>11. CleanBusNoErrors'
  BY <1>1, <1>4 DEF TimingInv, CleanBusNoErrors, Clean
<1> QED
  BY <1>4, <1>8, <1>9, <1>10, <1>11 DEF TimingInv

\* What ExchangeInv is about does not move with the bytes.
LEMMA ExchangeSame ==
    ASSUME NEW q, ExchangeInv(q), Stream' = Stream,
           faults' = faults, gap' = gap, owed' = owed, s_pending' = s_pending
    PROVE  ExchangeInv(q)'
  BY DEF ExchangeInv, OwedOf, PendingOf, Answerable, Clean

\* What arrives always fits the driver's ring and its event queue.
LEMMA ArriveTiming ==
    ASSUME TypeOK, KeptUp, NEW q, TimingInv(q), Arrive
    PROVE  TimingInv(q)'
<1>1. /\ line # <<>> /\ owed' = owed /\ gap' = gap /\ faults' = faults
      /\ s_blob' = s_blob /\ pc' = pc /\ iters' = iters /\ s_pending' = s_pending
      /\ s_parse_errors' = s_parse_errors /\ s_resync_bytes' = s_resync_bytes
      /\ line' = DropFront(line, Len(line))
      /\ IF Len(rx) + Len(line) <= RxBufSz
         THEN rx' = rx \o SubSeq(line, 1, Len(line)) /\ Post("UART_DATA")
         ELSE rx' = rx /\ Post("UART_BUFFER_FULL")
  BY DEF Arrive, KeptUp, taskVars, counterVars, pairingVars
<1>2. /\ BuffersOK
      /\ Len(Stream) = Len(s_blob) + Len(rx) + Len(line) /\ Len(s_blob) \in Nat
      /\ Len(rx) \in Nat /\ Len(line) \in Nat
  BY Buffers, StreamOf
<1>3. Len(rx) + Len(line) <= RxBufSz
  <2>1. Held(0) <= RxBufSz
    BY DEF TimingInv, PaceInv, Room
  <2>2. Len(Stream) <= Held(0) /\ Held(0) \in Nat
    BY <1>2, Numbers DEF Held
  <2> QED
    BY <1>2, <2>1, <2>2, Numbers
<1>4. line' = <<>> /\ rx' = rx \o line
  <2>1. DropFront(line, Len(line)) = <<>>
    <3>1. Len(DropFront(line, Len(line))) = 0 /\ DropFront(line, Len(line)) \in Seq(Byte)
      BY <1>2, PartsOfSeq DEF BuffersOK
    <3> QED
      BY <3>1, EmptySeq
  <2>2. SubSeq(line, 1, Len(line)) = line
    BY <1>2, SubSeqFull DEF BuffersOK
  <2> QED
    BY <1>1, <1>3, <2>1, <2>2
<1>5. Stream' = Stream
  <2>1. rx \o line \in Seq(Byte) /\ s_blob \o (rx \o line) \in Seq(Byte)
    BY <1>2, JoinOf DEF BuffersOK
  <2>2. (s_blob \o rx) \o line = s_blob \o (rx \o line)
    BY <1>2, ConcatAssociative DEF BuffersOK
  <2>3. (s_blob \o (rx \o line)) \o <<>> = s_blob \o (rx \o line)
    BY <2>1, EmptyJoin
  <2> QED
    BY <1>1, <1>4, <2>2, <2>3 DEF Stream
<1>6. /\ Len(s_uart_queue) + 1 + Units(owed # None) <= 2
      /\ Len(s_uart_queue) \in Nat /\ UartQueueSz >= 2 /\ UartQueueSz \in Nat
      /\ Units(owed # None) \in {0, 1}
  BY <1>1, Numbers DEF TimingInv, PaceInv, EventsInv, KeptUp, Units
<1>7. s_uart_queue' = Append(s_uart_queue, "UART_DATA")
  BY <1>1, <1>3, <1>6 DEF Post
<1>8. /\ Len(s_uart_queue') = Len(s_uart_queue) + 1 /\ s_uart_queue' # <<>>
      /\ \A i \in 1 .. Len(s_uart_queue') : s_uart_queue'[i] = "UART_DATA"
  <2>1. /\ \A i \in 1 .. Len(s_uart_queue) : s_uart_queue[i] = "UART_DATA"
        /\ s_uart_queue \in Seq(Events)
    BY Numbers DEF TimingInv, PaceInv, EventsInv
  <2> QED
    BY <1>6, <1>7, <2>1, AppendProperties DEF Events
<1>9. BytesInv'
  <2>1. Sound(rx \o line, Clean) /\ Sound(<<>>, Clean)
    BY <1>2, SoundJoin, SoundEmpty DEF TimingInv, BytesInv, BuffersOK, Clean
  <2> QED
    BY <1>1, <1>4, <2>1 DEF TimingInv, BytesInv, Clean
<1>10. ExchangeInv(q)'
  BY <1>1, <1>5, ExchangeSame DEF TimingInv
<1>11. PaceInv'
  <2>1. Room' /\ LoopInv'
    BY <1>1, <1>5 DEF TimingInv, PaceInv, Room, Held, LoopInv
  <2>2. EventsInv'
    <3>1. Units(line' # <<>>) = 0 /\ Units(owed' # None) = Units(owed # None)
      BY <1>1, <1>4 DEF Units
    <3> QED
      BY <1>6, <1>8, <3>1 DEF EventsInv
  <2>3. ~(gap' > ReplyBy)
    BY <1>1 DEF TimingInv, PaceInv, Settled
  <2> QED
    BY <2>1, <2>2, <2>3 DEF PaceInv
<1>12. CleanBusNoErrors'
  BY <1>1 DEF TimingInv, CleanBusNoErrors
<1> QED
  BY <1>9, <1>10, <1>11, <1>12 DEF TimingInv

\* One event drains the ring, for the blob has room for all of it.
LEMMA ReceiveTiming ==
    ASSUME TypeOK, KeptUp, NEW q, TimingInv(q), Receive
    PROVE  TimingInv(q)'
<1>1. /\ owed' = owed /\ gap' = gap /\ faults' = faults /\ line' = line /\ pc = "wait"
      /\ pc' = "extract" /\ iters' = iters /\ s_pending' = s_pending
      /\ s_parse_errors' = s_parse_errors /\ s_resync_bytes' = s_resync_bytes
  BY DEF Receive, HandleData, HandleBufferFull, HandleFifoOvf, NoEvent, StartExtracting,
         busVars, counterVars, pairingVars
<1>2. /\ BuffersOK
      /\ Len(Stream) = Len(s_blob) + Len(rx) + Len(line) /\ Len(s_blob) \in Nat
      /\ Len(rx) \in Nat /\ Len(line) \in Nat
  BY Buffers, StreamOf
<1>3. iters = 0
  BY <1>1 DEF TimingInv, PaceInv, LoopInv
<1>4. ~HandleBufferFull /\ ~HandleFifoOvf
  <2> SUFFICES ASSUME s_uart_queue # <<>> PROVE Head(s_uart_queue) = "UART_DATA"
    BY DEF HandleBufferFull, HandleFifoOvf
  <2>1. 1 \in 1 .. Len(s_uart_queue) /\ Head(s_uart_queue) = s_uart_queue[1]
    BY Numbers, EmptySeq
  <2> QED
    BY <2>1 DEF TimingInv, PaceInv, EventsInv
<1>5. CASE HandleData
  <2>1. /\ s_uart_queue # <<>> /\ s_uart_queue' = Tail(s_uart_queue)
        /\ s_blob' = s_blob \o SubSeq(rx, 1, DrainCount) /\ rx' = DropFront(rx, DrainCount)
    BY <1>5 DEF HandleData
  <2>2. DrainCount = Len(rx)
    <3>1. Held(0) <= MaxBlob
      BY DEF TimingInv, PaceInv, Room
    <3>2. Len(Stream) <= Held(0) /\ Held(0) \in Nat
      BY <1>2, Numbers DEF Held
    <3>3. Len(rx) <= MaxBlob - Len(s_blob)
      BY <1>2, <3>1, <3>2, Numbers
    <3> QED
      BY <1>2, <3>3, Numbers DEF DrainCount
  <2>3. rx' = <<>> /\ s_blob' = s_blob \o rx
    <3>1. DropFront(rx, Len(rx)) = <<>>
      <4>1. Len(DropFront(rx, Len(rx))) = 0 /\ DropFront(rx, Len(rx)) \in Seq(Byte)
        BY <1>2, PartsOfSeq DEF BuffersOK
      <4> QED
        BY <4>1, EmptySeq
    <3>2. SubSeq(rx, 1, Len(rx)) = rx
      BY <1>2, SubSeqFull DEF BuffersOK
    <3> QED
      BY <2>1, <2>2, <3>1, <3>2
  <2>4. s_blob \o rx \in Seq(Byte) /\ s_blob \o rx \o <<>> = s_blob \o rx
    BY <1>2, JoinOf, EmptyJoin DEF BuffersOK
  <2>5. Stream' = Stream
    BY <1>1, <2>3, <2>4 DEF Stream
  <2>6. BytesInv'
    <3>1. Sound(s_blob \o rx, Clean) /\ Sound(<<>>, Clean)
      BY <1>2, SoundJoin, SoundEmpty DEF TimingInv, BytesInv, BuffersOK, Clean
    <3> QED
      BY <1>1, <2>3, <3>1 DEF TimingInv, BytesInv, Clean
  <2>7. ExchangeInv(q)'
    BY <1>1, <2>5, ExchangeSame DEF TimingInv
  <2>8. EventsInv'
    <3>1. /\ s_uart_queue \in Seq(Events) /\ Len(s_uart_queue) \in Nat
          /\ \A i \in 1 .. Len(s_uart_queue) : s_uart_queue[i] = "UART_DATA"
          /\ Len(s_uart_queue) + Units(line # <<>>) + Units(owed # None) <= 2
          /\ Units(line # <<>>) \in {0, 1} /\ Units(owed # None) \in {0, 1}
      BY Numbers DEF TimingInv, PaceInv, EventsInv, Units
    <3>2. /\ Len(s_uart_queue') = Len(s_uart_queue) - 1
          /\ \A i \in 1 .. Len(s_uart_queue') : s_uart_queue'[i] = s_uart_queue[i + 1]
      BY <2>1, <3>1, HeadTailProperties
    <3>3. \A i \in 1 .. Len(s_uart_queue') : s_uart_queue'[i] = "UART_DATA"
      BY <3>1, <3>2
    <3>4. Len(s_uart_queue') + Units(line' # <<>>) + Units(owed' # None) <= 2
      BY <1>1, <3>1, <3>2
    <3> QED
      BY <2>3, <3>3, <3>4 DEF EventsInv
  <2>9. Room' /\ LoopInv'
    <3>1. Left(s_blob') \in 0 .. 4
      BY <2>3, <2>4, LeftBounds
    <3>2. iters' + Left(s_blob') <= 4
      BY <1>1, <1>3, <3>1
    <3> QED
      BY <1>1, <2>5, <3>2 DEF TimingInv, PaceInv, Room, Held, LoopInv
  <2>10. ~(gap' > ReplyBy)
    BY <1>1, <2>1 DEF TimingInv, PaceInv, Settled
  <2> QED
    BY <1>1, <2>6, <2>7, <2>8, <2>9, <2>10 DEF TimingInv, PaceInv, CleanBusNoErrors
<1>6. CASE NoEvent
  <2>1. s_blob' = s_blob /\ rx' = rx /\ s_uart_queue' = s_uart_queue
    BY <1>6 DEF NoEvent, driverVars
  <2>2. Stream' = Stream
    BY <1>1, <2>1 DEF Stream
  <2>3. ExchangeInv(q)'
    BY <1>1, <2>2, ExchangeSame DEF TimingInv
  <2>4. LoopInv'
    <3>1. Left(s_blob') \in 0 .. 4
      BY <1>2, <2>1, LeftBounds DEF BuffersOK
    <3>2. iters' + Left(s_blob') <= 4
      BY <1>1, <1>3, <3>1
    <3> QED
      BY <1>1, <3>2 DEF LoopInv
  <2>5. BytesInv' /\ Room' /\ EventsInv' /\ (gap > ReplyBy => Settled)' /\ CleanBusNoErrors'
    BY <1>1, <2>1, <2>2 DEF TimingInv, BytesInv, PaceInv, Room, Held, EventsInv, Settled,
                            CleanBusNoErrors, Clean
  <2> QED
    BY <2>3, <2>4, <2>5 DEF TimingInv, PaceInv
<1> QED
  BY <1>4, <1>5, <1>6 DEF Receive

\* What consume_front leaves of the invariant.
LEMMA Consumed ==
    ASSUME TypeOK, NEW q, TimingInv(q), NEW n \in 0 .. Len(s_blob), consume_front(n),
           UNCHANGED <<busVars, driverVars>>
    PROVE  /\ Lined(Stream, q, Clean)' /\ OwedOf(q)'
           /\ \A d : Has(Stream', d) => Has(Stream, d)
           /\ n >= 1 /\ StartsAt(s_blob, 1) => ~Has(Stream', s_blob[1][1].dir)
           /\ Room' /\ EventsInv' /\ (gap > ReplyBy => Settled)'
<1>1. /\ owed' = owed /\ gap' = gap /\ faults' = faults /\ line' = line /\ rx' = rx
      /\ s_uart_queue' = s_uart_queue /\ s_blob' = DropFront(s_blob, n)
  BY DEF consume_front, busVars, driverVars
<1>2. BuffersOK /\ Stream \in Seq(Byte) /\ Len(Stream) \in Nat
  BY Buffers, StreamOf
<1>3. Stream' = DropFront(Stream, n) /\ n \in 0 .. Len(Stream)
  BY <1>1, <1>2, StreamRest
<1>4. Lined(Stream, q, Clean)
  BY DEF TimingInv, ExchangeInv
<1>5. /\ Lined(Stream', q, Clean)
      /\ \A d : Has(Stream', d) => Has(Stream, d)
      /\ n >= 1 /\ StartsAt(Stream, 1) => ~Has(Stream', Stream[1][1].dir)
  BY <1>2, <1>3, <1>4, LinedRest
<1>6. n >= 1 => 1 \in 1 .. Len(s_blob) /\ Stream[1] = s_blob[1]
  BY <1>2, StreamOf
<1>7. n >= 1 /\ StartsAt(s_blob, 1) => ~Has(Stream', s_blob[1][1].dir)
  BY <1>5, <1>6 DEF StartsAt
<1>8. Len(Stream') <= Len(Stream) /\ Len(Stream') \in Nat
  BY <1>2, <1>3, RestOf
<1>9. Room'
  <2> SUFFICES ASSUME NEW k \in NoiseBursts \cup {0}
               PROVE  Held(k)' <= MaxBlob /\ Held(k)' <= RxBufSz
    BY DEF Room
  <2>1. Held(k) <= MaxBlob /\ Held(k) <= RxBufSz
    BY DEF TimingInv, PaceInv, Room
  <2>2. k \in Nat
    BY SnifferAssumption
  <2>3. Held(k)' <= Held(k) /\ Held(k) \in Nat /\ Held(k)' \in Nat
    <3> DEFINE x == IF owed = None THEN 0 ELSE FrameLen(owed) + k
    <3>1. x \in Nat
      BY <2>2, Numbers
    <3>2. Held(k) = Len(Stream) + x /\ Held(k)' = Len(Stream') + x
      BY <1>1 DEF Held
    <3> HIDE DEF x
    <3> QED
      BY <1>2, <1>8, <3>1, <3>2
  <2> QED
    BY <2>1, <2>3, Numbers
<1>10. EventsInv'
  BY <1>1 DEF TimingInv, PaceInv, EventsInv
<1>11. ASSUME gap > ReplyBy PROVE Settled'
  <2>1. Settled /\ s_blob \in Seq(Byte)
    BY <1>2, <1>11 DEF TimingInv, PaceInv, BuffersOK
  <2>2. Lined(s_blob, q, Clean)
    BY <1>2, <1>4, BlobIsFront
  <2>3. HasNone(s_blob')
    BY <1>1, <2>1, <2>2, LinedRest DEF Settled
  <2>4. Len(s_blob') <= Len(s_blob) /\ Len(s_blob') \in Nat /\ Len(s_blob) \in Nat
    BY <1>1, <2>1, RestOf
  <2> QED
    BY <1>1, <2>1, <2>3, <2>4, Sizes DEF Settled
<1> QED
  BY <1>1, <1>4, <1>5, <1>7, <1>9, <1>10, <1>11 DEF TimingInv, ExchangeInv, OwedOf, Clean

\* What the loop finds in a blob of whole frames.
LEMMA FoundFrame ==
    ASSUME TypeOK, NEW q, TimingInv(q), Looping
    PROVE  /\ s_blob \in Seq(Byte) /\ Len(s_blob) \in Nat /\ Len(s_blob) >= MinFrameLen
           /\ 1 \in 1 .. Len(s_blob) /\ Sound(s_blob, Clean) /\ Lined(s_blob, q, Clean)
           /\ pc = "extract" /\ iters + Left(s_blob) <= 4
           /\ StartsAt(s_blob, 1) =>
                /\ s_blob[1][1] \in Frame
                /\ FrameAt(s_blob, 1) /\ HeaderAt(s_blob, 1)
                /\ ClaimedLens(s_blob) = {FrameLen(s_blob[1][1])}
                /\ FrameLen(s_blob[1][1]) \in 1 .. Len(s_blob)
                /\ FrameLen(s_blob[1][1]) >= MinFrameLen
<1>1. /\ s_blob \in Seq(Byte) /\ Len(s_blob) \in Nat /\ Len(s_blob) >= MinFrameLen
      /\ 1 \in 1 .. Len(s_blob)
  BY Buffers, StreamOf, Sizes DEF BuffersOK, Looping
<1>2. /\ Sound(s_blob, Clean) /\ Lined(s_blob, q, Clean)
      /\ pc = "extract" /\ iters + Left(s_blob) <= 4
  BY Buffers, BlobIsFront DEF TimingInv, BytesInv, ExchangeInv, PaceInv, LoopInv, Looping
<1>3. ASSUME StartsAt(s_blob, 1)
      PROVE  /\ s_blob[1][1] \in Frame
             /\ FrameAt(s_blob, 1) /\ HeaderAt(s_blob, 1)
             /\ FrameLen(s_blob[1][1]) \in 1 .. Len(s_blob)
             /\ FrameLen(s_blob[1][1]) >= MinFrameLen
  <2>1. /\ s_blob[1][1] \in Frame /\ FrameLen(s_blob[1][1]) \in Nat
        /\ FrameLen(s_blob[1][1]) >= MinFrameLen
    BY <1>1, <1>3, ByteOf DEF StartsAt
  <2>2. FrameAt(s_blob, 1)
    BY <1>1, <1>2, <1>3 DEF Sound, Intact
  <2>3. FrameLen(s_blob[1][1]) \in 1 .. Len(s_blob)
    BY <1>1, <2>1, <2>2, Sizes DEF FrameAt
  <2>4. HeaderAt(s_blob, 1)
    <3>1. 1 + HdrLen - 1 <= Len(s_blob)
      BY <1>1, Sizes
    <3>2. \A i \in 1 .. HdrLen : i \in 1 .. FrameLen(s_blob[1][1])
      BY <2>1, Sizes
    <3>3. \A i \in 1 .. HdrLen : s_blob[1 + i - 1] = <<s_blob[1][1], i>>
      BY <2>2, <3>2 DEF FrameAt
    <3> QED
      BY <1>3, <3>1, <3>3 DEF HeaderAt
  <2> QED
    BY <2>1, <2>2, <2>3, <2>4
<1> QED
  BY <1>1, <1>2, <1>3 DEF ClaimedLens

\* What find_frame_start passes over may be discarded; on a clean bus there
\* is nothing to pass over.
LEMMA PassedOver ==
    ASSUME TypeOK, NEW q, TimingInv(q), Looping, NEW n \in FrameStarts(s_blob)
    PROVE  /\ \A j \in 1 .. n : j \in 1 .. Len(s_blob) /\ Discardable(s_blob[j])
           /\ Clean => n = 0
<1>1. n \in 0 .. Len(s_blob) /\ \A k \in 1 .. n : ~PlainHeaderAt(s_blob, k)
  BY DEF FrameStarts
<1>2. /\ s_blob \in Seq(Byte) /\ Len(s_blob) \in Nat /\ Sound(s_blob, Clean)
      /\ 1 \in 1 .. Len(s_blob)
  BY FoundFrame
<1>3. ASSUME NEW k \in 1 .. n, StartsAt(s_blob, k) PROVE Discardable(s_blob[k])
  <2> DEFINE f == s_blob[k][1]
  <2>1. k \in 1 .. Len(s_blob)
    BY <1>1, <1>2
  <2>2. FrameAt(s_blob, k) /\ f \in Frame /\ FrameLen(f) \in Nat /\ FrameLen(f) >= MinFrameLen
    BY <1>2, <1>3, <2>1, ByteOf DEF StartsAt, Sound, Intact
  <2>3. HeaderAt(s_blob, k)
    <3>1. k + HdrLen - 1 <= Len(s_blob)
      BY <1>2, <2>1, <2>2, Sizes DEF FrameAt
    <3>2. \A i \in 1 .. HdrLen : i \in 1 .. FrameLen(f)
      BY <2>2, Sizes
    <3>3. \A i \in 1 .. HdrLen : s_blob[k + i - 1] = <<s_blob[k][1], i>>
      BY <2>2, <3>2 DEF FrameAt
    <3> QED
      BY <1>3, <3>1, <3>3 DEF HeaderAt
  <2>4. ~(f.fc = "cmd" \/ f.win \in Windows)
    BY <1>1, <2>2, <2>3 DEF PlainHeaderAt, FrameAt
  <2> QED
    BY <2>2, <2>4 DEF Discardable, Frame
<1>4. ASSUME NEW j \in 1 .. n, ~Discardable(s_blob[j]) PROVE FALSE
  <2>1. j \in 1 .. Len(s_blob) /\ s_blob[j] # Noise
    BY <1>1, <1>2, <1>4 DEF Discardable
  <2> DEFINE f == s_blob[j][1]
             i == s_blob[j][2]
  <2>2. AnchoredAt(s_blob, j) /\ i \in 1 .. MaxFrameLen /\ f \in Frame
    BY <1>2, <1>4, <2>1, ByteOf DEF Sound, Anchored
  <2>3. i <= j /\ s_blob[j - i + 1] = <<f, 1>>
    BY <2>2 DEF AnchoredAt
  <2>4. f.fc # "read" \/ f.win \in Windows
    BY <1>4 DEF Discardable
  <2> HIDE DEF i, f
  <2>5. j - i + 1 \in 1 .. n
    BY <1>1, <1>2, <2>1, <2>2, <2>3, Sizes
  <2>6. /\ s_blob[j - i + 1] # Noise /\ s_blob[j - i + 1][1] = f /\ s_blob[j - i + 1][2] = 1
    <3>1. <<f, 1>> \in Frame \X (1 .. MaxFrameLen)
      BY <2>2, Sizes
    <3> QED
      BY <2>3, <3>1, NoiseAssumption
  <2> QED
    BY <1>3, <2>4, <2>5, <2>6 DEF StartsAt, Discardable
<1>5. ASSUME Clean PROVE n = 0
  <2> SUFFICES ASSUME n >= 1 PROVE FALSE
    BY <1>1, <1>2
  <2>1. Discardable(s_blob[1])
    BY <1>1, <1>2, <1>4
  <2>2. s_blob[1] # Noise /\ s_blob[1][1].win \in Windows
    BY <1>2, <1>5 DEF Sound, Pure
  <2> QED
    BY <2>1, <2>2 DEF Discardable
<1>6. \A j \in 1 .. n : j \in 1 .. Len(s_blob)
  BY <1>1, <1>2
<1> QED
  BY <1>4, <1>5, <1>6

\* Less than a frame holds none.
LEMMA ShortHasNone ==
    ASSUME NEW b \in Seq(Byte), NEW clean, Sound(b, clean), Len(b) < MinFrameLen
    PROVE  HasNone(b)
<1> SUFFICES ASSUME NEW k \in 1 .. Len(b), StartsAt(b, k) PROVE FALSE
  BY DEF HasNone
<1>1. FrameAt(b, k) /\ FrameLen(b[k][1]) \in Nat /\ FrameLen(b[k][1]) >= MinFrameLen
  BY ByteOf DEF StartsAt, Sound, Intact
<1>2. Len(b) \in Nat
  BY LenProperties
<1> QED
  BY <1>1, <1>2, Sizes DEF FrameAt

\* The front of the blob, a frame or what may be discarded, goes.
LEMMA BytesRest ==
    ASSUME TypeOK, NEW q, TimingInv(q), NEW n \in 0 .. Len(s_blob), consume_front(n),
           UNCHANGED <<busVars, driverVars>>,
           \A j \in 1 .. n : StartsAt(s_blob, j) =>
               Discardable(s_blob[j]) \/ j + FrameLen(s_blob[j][1]) - 1 <= n
    PROVE  BytesInv' /\ s_blob' \in Seq(Byte) /\ Len(s_blob') = Len(s_blob) - n
<1>1. rx' = rx /\ line' = line /\ faults' = faults /\ s_blob' = DropFront(s_blob, n)
  BY DEF consume_front, busVars, driverVars
<1>2. s_blob \in Seq(Byte) /\ Sound(s_blob, Clean) /\ Clean \in BOOLEAN
  BY Buffers DEF BuffersOK, TimingInv, BytesInv, Clean
<1>3. Sound(DropFront(s_blob, n), Clean)
  BY <1>2, SoundRest
<1> QED
  BY <1>1, <1>2, <1>3, RestOf DEF TimingInv, BytesInv, Clean

\* The loop stops for want of bytes, never for its budget.
LEMMA DoneTiming ==
    ASSUME TypeOK, KeptUp, NEW q, TimingInv(q), ExtractDone
    PROVE  TimingInv(q)'
<1>1. /\ pc = "extract" /\ pc' = "deadline" /\ iters' = 0
      /\ owed' = owed /\ gap' = gap /\ faults' = faults /\ line' = line /\ rx' = rx
      /\ s_uart_queue' = s_uart_queue /\ s_blob' = s_blob /\ s_pending' = s_pending
      /\ s_parse_errors' = s_parse_errors /\ s_resync_bytes' = s_resync_bytes
  BY DEF ExtractDone, StopExtracting, busVars, driverVars, counterVars, pairingVars
<1>2. s_blob \in Seq(Byte) /\ Sound(s_blob, Clean) /\ Len(s_blob) \in Nat
  BY Buffers, LenProperties DEF BuffersOK, TimingInv, BytesInv
<1>3. Len(s_blob) < MinFrameLen
  <2>1. Left(s_blob) \in 0 .. 4 /\ iters + Left(s_blob) <= 4
    BY <1>1, <1>2, LeftBounds DEF TimingInv, PaceInv, LoopInv
  <2>2. iters # MaxIters
    BY <2>1, Numbers DEF KeptUp
  <2> QED
    BY <2>2 DEF ExtractDone
<1>4. HasNone(s_blob) /\ Len(s_blob) <= HdrLen
  BY <1>2, <1>3, ShortHasNone, Sizes
<1>5. Stream' = Stream
  BY <1>1 DEF Stream
<1>6. ExchangeInv(q)'
  BY <1>1, <1>5, ExchangeSame DEF TimingInv
<1>7. LoopInv'
  BY <1>1, <1>4 DEF LoopInv
<1>8. BytesInv' /\ Room' /\ EventsInv' /\ (gap > ReplyBy => Settled)' /\ CleanBusNoErrors'
  BY <1>1, <1>5 DEF TimingInv, BytesInv, PaceInv, Room, Held, EventsInv, Settled,
                    CleanBusNoErrors, Clean
<1> QED
  BY <1>6, <1>7, <1>8 DEF TimingInv, PaceInv

\* Once there was damage, discarding keeps the exchange.
LEMMA DiscardExchange ==
    ASSUME TypeOK, NEW q, TimingInv(q), NEW n \in 0 .. Len(s_blob), consume_front(n),
           UNCHANGED <<busVars, driverVars>>, s_pending' = s_pending, ~Clean
    PROVE  ExchangeInv(q)'
<1>1. owed' = owed /\ gap' = gap /\ faults' = faults
  BY DEF busVars
<1>2. /\ Lined(Stream, q, Clean)' /\ OwedOf(q)'
      /\ \A d : Has(Stream', d) => Has(Stream, d)
  BY Consumed
<1>3. PendingOf(q)' /\ Answerable(q)'
  BY <1>1 DEF TimingInv, ExchangeInv, PendingOf, Answerable, Clean
<1> QED
  BY <1>1, <1>2, <1>3 DEF TimingInv, ExchangeInv

\* Without a frame start there is no frame to lose but the last byte.
LEMMA UnframedTiming ==
    ASSUME TypeOK, KeptUp, NEW q, TimingInv(q), DropUnframed
    PROVE  TimingInv(q)'
<1> DEFINE n == Len(s_blob) - 1
<1>1. /\ Looping /\ Len(s_blob) \in FrameStarts(s_blob) /\ consume_front(n)
      /\ pc' = "deadline" /\ iters' = 0 /\ UNCHANGED <<busVars, driverVars>>
      /\ s_pending' = s_pending /\ faults' = faults /\ gap' = gap
  BY DEF DropUnframed, StopExtracting, pairingVars, busVars
<1>2. Len(s_blob) \in Nat /\ Len(s_blob) >= MinFrameLen /\ n \in 0 .. Len(s_blob)
  BY <1>1, FoundFrame, Sizes
<1>3. /\ \A j \in 1 .. Len(s_blob) : Discardable(s_blob[j])
      /\ ~Clean
  BY <1>1, <1>2, PassedOver, Sizes
<1> HIDE DEF n
<1>4. /\ Room' /\ EventsInv' /\ (gap > ReplyBy => Settled)'
  BY <1>1, <1>2, Consumed
<1>5. \A j \in 1 .. n : Discardable(s_blob[j])
  BY <1>2, <1>3
<1>6. BytesInv' /\ s_blob' \in Seq(Byte) /\ Len(s_blob') = Len(s_blob) - n
  BY <1>1, <1>2, <1>5, BytesRest
<1>7. Len(s_blob') = 1 /\ Sound(s_blob', Clean')
  BY <1>2, <1>6 DEF n, BytesInv
<1>8. HasNone(s_blob') /\ Len(s_blob') <= HdrLen
  <2>1. Len(s_blob') < MinFrameLen /\ Len(s_blob') <= HdrLen
    BY <1>7, Sizes
  <2> QED
    BY <1>6, <1>7, <2>1, ShortHasNone
<1>9. ExchangeInv(q)'
  BY <1>1, <1>2, <1>3, DiscardExchange
<1>10. LoopInv'
  BY <1>1, <1>8 DEF LoopInv
<1>11. CleanBusNoErrors'
  BY <1>1, <1>3 DEF CleanBusNoErrors, Clean
<1> QED
  BY <1>4, <1>6, <1>9, <1>10, <1>11 DEF TimingInv, PaceInv

\* Garbage is skipped up to a frame.
LEMMA GarbageTiming ==
    ASSUME TypeOK, KeptUp, NEW q, TimingInv(q), SkipGarbage
    PROVE  TimingInv(q)'
<1>1. PICK n \in FrameStarts(s_blob) \cap 1 .. (Len(s_blob) - 1) : consume_front(n)
  BY DEF SkipGarbage
<1>2. /\ Looping /\ pc' = pc /\ iters' = iters + 1 /\ UNCHANGED <<busVars, driverVars>>
      /\ s_pending' = s_pending /\ faults' = faults /\ gap' = gap
  BY DEF SkipGarbage, pairingVars, busVars
<1>3. /\ Len(s_blob) \in Nat /\ s_blob \in Seq(Byte) /\ Lined(s_blob, q, Clean)
      /\ pc = "extract" /\ iters + Left(s_blob) <= 4
  BY <1>2, FoundFrame
<1>4. n \in 0 .. Len(s_blob) /\ n \in 1 .. Len(s_blob) /\ n < Len(s_blob) /\ n # 0
  BY <1>3
<1>5. (\A j \in 1 .. n : Discardable(s_blob[j])) /\ ~Clean
  BY <1>2, <1>4, PassedOver
<1>6. /\ Room' /\ EventsInv' /\ (gap > ReplyBy => Settled)'
  BY <1>1, <1>2, <1>4, Consumed
<1>7. BytesInv' /\ s_blob' \in Seq(Byte)
  BY <1>1, <1>2, <1>4, <1>5, BytesRest
<1>8. LoopInv'
  <2>1. StartsAt(s_blob, n + 1)
    BY <1>4 DEF FrameStarts
  <2>2. Left(s_blob') + 1 <= Left(s_blob)
    BY <1>1, <1>3, <1>4, <2>1, LeftLess DEF consume_front
  <2>3. Left(s_blob') \in 0 .. 4 /\ Left(s_blob) \in 0 .. 4
    BY <1>3, <1>7, LeftBounds
  <2>4. iters' + Left(s_blob') <= 4
    <3> DEFINE x == Left(s_blob)
               y == Left(s_blob')
    <3>1. /\ x \in 0 .. 4 /\ y \in 0 .. 4 /\ y + 1 <= x /\ iters + x <= 4 /\ iters \in Nat
          /\ iters' = iters + 1
      BY <1>2, <1>3, <2>2, <2>3, Numbers
    <3> HIDE DEF x, y
    <3>2. iters' + y <= 4
      BY <3>1
    <3> QED
      BY <3>2 DEF y
  <2> QED
    BY <1>2, <1>3, <2>4 DEF LoopInv
<1>9. ExchangeInv(q)'
  BY <1>1, <1>2, <1>4, <1>5, DiscardExchange
<1>10. CleanBusNoErrors'
  BY <1>2, <1>5 DEF CleanBusNoErrors, Clean
<1> QED
  BY <1>6, <1>7, <1>8, <1>9, <1>10 DEF TimingInv, PaceInv

\* The length claimed at the front of the blob is that of a whole frame.
LEMMA FrontIsFrame ==
    ASSUME TypeOK, NEW q, TimingInv(q), NEW n, n \in ClaimedLens(s_blob), FrameOfLen(n)
    PROVE  StartsAt(s_blob, 1) /\ n = FrameLen(s_blob[1][1]) /\ n <= MaxFrameLen
           /\ n \in 1 .. Len(s_blob) /\ Looping
<1>1. Looping /\ 0 \in FrameStarts(s_blob)
  BY DEF FrameOfLen
<1>2. 0 < Len(s_blob)
  BY <1>1, FoundFrame, Sizes
<1>3. StartsAt(s_blob, 0 + 1)
  BY <1>1, <1>2 DEF FrameStarts
<1> QED
  BY <1>1, <1>3, FoundFrame DEF FrameAt

\* A frame received without damage is recognised.
LEMMA CleanParses ==
    ASSUME TypeOK, NEW q, TimingInv(q), Looping, Clean, StartsAt(s_blob, 1)
    PROVE  ParseOK(s_blob, FrameLen(s_blob[1][1]))
<1> DEFINE f == s_blob[1][1]
           n == FrameLen(f)
<1>1. /\ s_blob \in Seq(Byte) /\ Len(s_blob) \in Nat /\ 1 \in 1 .. Len(s_blob)
      /\ Sound(s_blob, Clean) /\ f \in Frame /\ HeaderAt(s_blob, 1)
      /\ n \in 1 .. Len(s_blob) /\ FrameAt(s_blob, 1)
  BY FoundFrame
<1>2. Recognised(f)
  <2>1. f.good /\ f.win \in Windows
    BY <1>1 DEF Sound, Pure
  <2> QED
    BY <2>1 DEF Recognised
<1>3. n <= MaxFrameLen /\ \A i \in 1 .. n : s_blob[i] = <<f, i>>
  BY <1>1 DEF FrameAt
<1>4. SubSeq(s_blob, 1, n) = OnWire(f)
  <2>1. /\ SubSeq(s_blob, 1, n) \in Seq(Byte) /\ Len(SubSeq(s_blob, 1, n)) = n
        /\ \A i \in 1 .. n : SubSeq(s_blob, 1, n)[i] = s_blob[i]
    BY <1>1
  <2>2. /\ OnWire(f) \in Seq(Byte) /\ Len(OnWire(f)) = n
    <3>1. OnWire(f) \in Seq(Byte)
      BY <1>1, OnWireType
    <3>2. OnWire(f) = [i \in 1 .. n |-> <<f, i>>]
      BY <1>3 DEF OnWire
    <3> HIDE DEF f, n
    <3> QED
      BY <1>1, <3>1, <3>2
  <2>3. \A i \in 1 .. n : OnWire(f)[i] = <<f, i>>
    BY <1>3 DEF OnWire
  <2> DEFINE a == SubSeq(s_blob, 1, n)
             b == OnWire(f)
  <2>4. \A i \in 1 .. n : a[i] = b[i]
    BY <1>3, <2>1, <2>3
  <2> HIDE DEF a, b, n
  <2>5. a \in Seq(Byte) /\ b \in Seq(Byte) /\ Len(a) = Len(b) /\ \A i \in 1 .. Len(a) : a[i] = b[i]
    BY <2>1, <2>2, <2>4 DEF a, b
  <2>6. a = b
    BY <2>5, SeqEqual
  <2> QED
    BY <2>6 DEF a, b
<1> QED
  BY <1>1, <1>2, <1>4 DEF ParseOK

\* A response received without damage finds its request pending.
LEMMA CleanMatches ==
    ASSUME TypeOK, NEW q, TimingInv(q), Looping, Clean, StartsAt(s_blob, 1),
           s_blob[1][1].fc = "read", s_blob[1][1].dir = "rsp"
    PROVE  Matches(s_pending, s_blob[1][1])
<1>1. /\ s_blob \in Seq(Byte) /\ 1 \in 1 .. Len(s_blob) /\ Lined(s_blob, q, Clean)
  BY FoundFrame
<1>2. 1 \in 1 .. Len(Stream) /\ Stream[1] = s_blob[1] /\ Len(Stream) \in Nat
  BY <1>1, Buffers, StreamOf
<1>3. Start(Stream, 1, "rsp")
  BY <1>2 DEF Start, StartsAt
<1>4. Has(Stream, "rsp")
  BY <1>2, <1>3 DEF Has
<1>5. q.fc = "read" /\ q.win = s_blob[1][1].win
  BY <1>1 DEF Lined, CopyOf
<1>6. gap <= ReplyBy
  <2>1. ~HasNone(s_blob)
    BY <1>1 DEF HasNone
  <2> QED
    BY <2>1, Numbers DEF TimingInv, PaceInv, Settled
<1>7. ~Has(Stream, "req")
  <2> SUFFICES ASSUME NEW j \in 1 .. Len(Stream), Start(Stream, j, "req") PROVE FALSE
    BY DEF Has
  <2>1. j < 1
    BY <1>2, <1>3 DEF TimingInv, ExchangeInv, Lined
  <2> QED
    BY <2>1
<1>8. s_pending # None
  BY <1>4, <1>5, <1>6, <1>7 DEF TimingInv, ExchangeInv, Answerable
<1> QED
  BY <1>5, <1>8 DEF TimingInv, ExchangeInv, PendingOf, Matches

\* What process_frame does with the frame at the front of the blob.
LEMMA TakenCases ==
    ASSUME TypeOK, NEW q, TimingInv(q), TakeFrame
    PROVE  \E n \in 1 .. Len(s_blob), f \in Frame :
             /\ f = s_blob[1][1] /\ n = FrameLen(f) /\ StartsAt(s_blob, 1) /\ Looping
             /\ consume_front(n) /\ process_frame(f, n)
             /\ CopyOf(f, q, Clean)
             /\ Has(Stream, f.dir)
<1>1. PICK n \in ClaimedLens(s_blob) :
        FrameOfLen(n) /\ process_frame(s_blob[1][1], n) /\ consume_front(n)
  BY DEF TakeFrame
<1>2. /\ StartsAt(s_blob, 1) /\ n = FrameLen(s_blob[1][1])
      /\ n \in 1 .. Len(s_blob) /\ Looping
  BY <1>1, FrontIsFrame
<1>3. /\ s_blob[1][1] \in Frame /\ 1 \in 1 .. Len(s_blob) /\ Lined(s_blob, q, Clean)
  BY <1>2, FoundFrame
<1>4. CopyOf(s_blob[1][1], q, Clean)
  BY <1>2, <1>3 DEF Lined
<1>5. Has(Stream, s_blob[1][1].dir)
  <2>1. Has(s_blob, s_blob[1][1].dir)
    BY <1>2, <1>3 DEF Has, Start
  <2>2. Lined(Stream, q, Clean)
    BY DEF TimingInv, ExchangeInv
  <2> QED
    BY <2>1, <2>2, Buffers, BlobIsFront
<1> QED
  BY <1>1, <1>2, <1>3, <1>4, <1>5

\* A frame is taken off the blob, and pairing moves on with it.
LEMMA TakeTiming ==
    ASSUME TypeOK, KeptUp, NEW q, TimingInv(q), TakeFrame
    PROVE  TimingInv(q)'
<1>1. PICK n \in 1 .. Len(s_blob), f \in Frame :
        /\ f = s_blob[1][1] /\ n = FrameLen(f) /\ StartsAt(s_blob, 1) /\ Looping
        /\ consume_front(n) /\ process_frame(f, n)
        /\ CopyOf(f, q, Clean)
        /\ Has(Stream, f.dir)
  BY TakenCases
<1>2. /\ pc' = pc /\ iters' = iters + 1 /\ UNCHANGED <<busVars, driverVars>>
      /\ s_resync_bytes' = s_resync_bytes
      /\ owed' = owed /\ faults' = faults /\ gap' = gap
  BY DEF TakeFrame, busVars
<1>3. /\ Len(s_blob) \in Nat /\ s_blob \in Seq(Byte) /\ Lined(s_blob, q, Clean)
      /\ pc = "extract" /\ iters + Left(s_blob) <= 4 /\ FrameAt(s_blob, 1)
      /\ 1 \in 1 .. Len(s_blob)
  BY <1>1, FoundFrame
<1>4. n \in 0 .. Len(s_blob) /\ n >= 1
  BY <1>3
<1>5. /\ Lined(Stream, q, Clean)' /\ OwedOf(q)'
      /\ \A d : Has(Stream', d) => Has(Stream, d)
      /\ ~Has(Stream', f.dir)
      /\ Room' /\ EventsInv' /\ (gap > ReplyBy => Settled)'
  BY <1>1, <1>2, <1>4, Consumed
<1>6. BytesInv' /\ s_blob' \in Seq(Byte)
  <2>1. ASSUME NEW j \in 1 .. n, StartsAt(s_blob, j)
        PROVE  Discardable(s_blob[j]) \/ j + FrameLen(s_blob[j][1]) - 1 <= n
    <3>1. s_blob[1 + j - 1] = <<f, j>> /\ 1 + j - 1 = j
      BY <1>1, <1>3, <2>1 DEF FrameAt
    <3>2. j = 1
      BY <2>1, <3>1 DEF StartsAt
    <3> QED
      BY <1>1, <1>4, <3>2
  <2> QED
    BY <1>1, <1>2, <1>4, <2>1, BytesRest
<1>7. LoopInv'
  <2>2. Left(s_blob') + 1 <= Left(s_blob)
    BY <1>1, <1>3, LeftLess DEF consume_front
  <2>3. Left(s_blob') \in 0 .. 4 /\ Left(s_blob) \in 0 .. 4
    BY <1>3, <1>6, LeftBounds
  <2>4. iters' + Left(s_blob') <= 4
    <3> DEFINE x == Left(s_blob)
               y == Left(s_blob')
    <3>1. /\ x \in 0 .. 4 /\ y \in 0 .. 4 /\ y + 1 <= x /\ iters + x <= 4 /\ iters \in Nat
          /\ iters' = iters + 1
      BY <1>2, <1>3, <2>2, <2>3, Numbers
    <3> HIDE DEF x, y
    <3>2. iters' + y <= 4
      BY <3>1
    <3> QED
      BY <3>2 DEF y
  <2> QED
    BY <1>2, <1>3, <2>4 DEF LoopInv
<1>8. Clean => ParseOK(s_blob, n) /\ (f.fc = "read" /\ f.dir = "rsp" => Matches(s_pending, f))
  BY <1>1, CleanParses, CleanMatches
<1>9. ASSUME s_pending' = s_pending, Clean => f.fc = "cmd" PROVE ExchangeInv(q)'
  <2>1. PendingOf(q)'
    BY <1>2, <1>9 DEF TimingInv, ExchangeInv, PendingOf, Clean
  <2>2. Answerable(q)'
    BY <1>1, <1>2, <1>9 DEF Answerable, Clean, CopyOf
  <2> QED
    BY <1>2, <1>5, <1>9, <2>1, <2>2 DEF TimingInv, ExchangeInv
<1>10. (Clean => s_parse_errors' = s_parse_errors) /\ ExchangeInv(q)'
  <2>1. CASE RejectFrame(n)
    BY <1>8, <1>9, <2>1 DEF RejectFrame
  <2>2. CASE ProcessCommand(f, n)
    BY <1>9, <2>2 DEF ProcessCommand
  <2>3. CASE ProcessRequest(f, n)
    <3>1. /\ ParseOK(s_blob, n) /\ f.fc = "read" /\ f.dir = "req"
          /\ s_pending' = [win |-> f.win, id |-> f.id, age |-> 0]
          /\ s_parse_errors' = s_parse_errors
      BY <2>3 DEF ProcessRequest
    <3>2. gap = 0
      BY <1>1, <3>1 DEF TimingInv, ExchangeInv
    <3>3. s_pending' # None
      <4>1. f.win \in Windows /\ f.id \in Ids
        BY <1>1, <3>1 DEF ParseOK, Recognised, Frame
      <4>2. s_pending' \in Pending
        BY <3>1, <4>1, Numbers DEF Pending
      <4> QED
        BY <4>2, SnifferAssumption
    <3>4. PendingOf(q)' /\ Answerable(q)'
      BY <1>1, <1>2, <3>1, <3>2, <3>3, Numbers DEF PendingOf, Answerable, CopyOf, Clean
    <3> QED
      BY <1>2, <1>5, <3>1, <3>4 DEF TimingInv, ExchangeInv
  <2>4. CASE ProcessOrphan(f, n)
    BY <1>8, <1>9, <2>4 DEF ProcessOrphan
  <2>5. CASE ProcessResponse(f, n)
    <3>1. f.dir = "rsp" /\ s_pending' = None /\ s_parse_errors' = s_parse_errors
      BY <2>5 DEF ProcessResponse
    <3>2. owed' = None
      BY <1>1, <1>2, <3>1 DEF TimingInv, ExchangeInv
    <3>3. PendingOf(q)' /\ Answerable(q)'
      BY <1>5, <3>1, <3>2 DEF PendingOf, Answerable
    <3> QED
      BY <1>2, <1>5, <3>1, <3>2, <3>3 DEF TimingInv, ExchangeInv
  <2> QED
    BY <1>1, <2>1, <2>2, <2>3, <2>4, <2>5 DEF process_frame
<1>11. CleanBusNoErrors'
  BY <1>2, <1>10 DEF TimingInv, CleanBusNoErrors, Clean
<1> QED
  BY <1>5, <1>6, <1>7, <1>10, <1>11 DEF TimingInv, PaceInv

\* A length is never insane and a frame never incomplete.
LEMMA ExtractTiming ==
    ASSUME TypeOK, KeptUp, NEW q, TimingInv(q), Extract
    PROVE  TimingInv(q)'
<1>1. ~DropInsane
  <2> SUFFICES ASSUME NEW n \in ClaimedLens(s_blob), FrameOfLen(n), n > MaxFrameLen PROVE FALSE
    BY DEF DropInsane
  <2>1. n <= MaxFrameLen /\ n \in 1 .. Len(s_blob)
    BY FrontIsFrame
  <2> QED
    BY <2>1, Sizes
<1>2. ~AwaitRest
  <2> SUFFICES ASSUME NEW n \in ClaimedLens(s_blob), FrameOfLen(n), n > Len(s_blob) PROVE FALSE
    BY DEF AwaitRest
  <2>1. n \in 1 .. Len(s_blob) /\ Looping
    BY FrontIsFrame
  <2>2. Len(s_blob) \in Nat
    BY <2>1, FoundFrame
  <2> QED
    BY <2>1, <2>2
<1> QED
  BY <1>1, <1>2, DoneTiming, UnframedTiming, GarbageTiming, TakeTiming DEF Extract

\* The deadline strikes only after the heat pump stopped answering.
LEMMA DeadlineTiming ==
    ASSUME TypeOK, KeptUp, NEW q, TimingInv(q), Deadline
    PROVE  TimingInv(q)'
<1>1. /\ pc = "deadline" /\ pc' = "wait" /\ iters' = iters
      /\ owed' = owed /\ gap' = gap /\ faults' = faults /\ line' = line /\ rx' = rx
      /\ s_uart_queue' = s_uart_queue /\ s_blob' = s_blob
      /\ s_parse_errors' = s_parse_errors /\ s_resync_bytes' = s_resync_bytes
  BY DEF Deadline, GiveUp, KeepWaiting, busVars, driverVars, counterVars
<1>2. Stream' = Stream
  BY <1>1 DEF Stream
<1>3. HasNone(s_blob)
  BY <1>1 DEF TimingInv, PaceInv, LoopInv
<1>4. ExchangeInv(q)'
  <2>1. CASE KeepWaiting
    BY <1>1, <1>2, <2>1, ExchangeSame DEF TimingInv, KeepWaiting, pairingVars
  <2>2. CASE GiveUp
    <3>1. s_pending' = None /\ Overdue
      BY <2>2 DEF GiveUp
    <3>2. gap > ReplyBy
      <4>1. s_pending # None /\ s_pending.age > RespTimeout
        BY <3>1 DEF Overdue
      <4>2. gap > RespTimeout
        BY <4>1 DEF TimingInv, ExchangeInv, PendingOf
      <4> QED
        BY <4>2, Numbers DEF KeptUp
    <3>3. PendingOf(q)' /\ Answerable(q)'
      BY <1>1, <3>1, <3>2, Numbers DEF PendingOf, Answerable
    <3> QED
      BY <1>1, <1>2, <3>1, <3>3 DEF TimingInv, ExchangeInv, OwedOf, Clean
  <2> QED
    BY <2>1, <2>2 DEF Deadline
<1>5. LoopInv'
  BY <1>1 DEF TimingInv, PaceInv, LoopInv
<1>6. BytesInv' /\ Room' /\ EventsInv' /\ (gap > ReplyBy => Settled)' /\ CleanBusNoErrors'
  BY <1>1, <1>2 DEF TimingInv, BytesInv, PaceInv, Room, Held, EventsInv, Settled,
                    CleanBusNoErrors, Clean
<1> QED
  BY <1>4, <1>5, <1>6 DEF TimingInv, PaceInv

-----------------------------------------------------------------------------
(* The invariant over a whole run *)

\* TimingInv describes the exchange under way: the last poll sent.
Timed == Whole => \E q \in Frame : TimingInv(q)

\* At the start nothing is under way.
LEMMA InitTimed ==
    ASSUME KeptUp, Init
    PROVE  Timed
<1>1. PICK q : q \in Frame
  <2> DEFINE f == [dir |-> "req", fc |-> "read", win |-> StrayWindow, count |-> PayloadLen,
                   good |-> TRUE, id |-> 0]
  <2>1. f \in Frame
    BY DEF Frame, Ids
  <2> HIDE DEF f
  <2> QED
    BY <2>1
<1>2. /\ line = <<>> /\ owed = None /\ gap = PollGap /\ rx = <<>> /\ s_uart_queue = <<>>
      /\ pc = "wait" /\ iters = 0 /\ s_blob = <<>> /\ s_pending = None
      /\ s_parse_errors = 0 /\ s_resync_bytes = 0
  BY DEF Init
<1>3. BuffersOK /\ HasNone(s_blob) /\ Len(s_blob) = 0 /\ Len(s_uart_queue) = 0
  BY <1>2 DEF BuffersOK, HasNone
<1>4. Stream = <<>> /\ HasNone(Stream) /\ ~Has(Stream, "req") /\ ~Has(Stream, "rsp")
  BY <1>2, <1>3, QuietStream, NoneIsNeither DEF BuffersOK
<1>5. BytesInv
  BY <1>2, SoundEmpty DEF BytesInv
<1>6. ExchangeInv(q)
  BY <1>2, <1>4, NoneLined DEF ExchangeInv, OwedOf, PendingOf, Answerable
<1>7. PaceInv
  <2>1. Room
    <3>1. \A k : Held(k) = 0
      BY <1>2, <1>4 DEF Held
    <3> QED
      BY <3>1, SnifferAssumption DEF Room
  <2>2. EventsInv
    BY <1>2, <1>3 DEF EventsInv, Units
  <2>3. LoopInv /\ Settled
    BY <1>2, <1>3, Sizes DEF LoopInv, Settled
  <2> QED
    BY <2>1, <2>2, <2>3 DEF PaceInv
<1> QED
  BY <1>1, <1>2, <1>5, <1>6, <1>7 DEF Timed, TimingInv, CleanBusNoErrors

\* Damage is never undone, and an overrun leaves pieces of frames.
LEMMA WholeBefore ==
    ASSUME TypeOK, Whole', [Next]_vars
    PROVE  Whole /\ ~Overrun
<1>1. faults' = faults \/ faults' = faults + 1
  <2>1. ASSUME Bus \/ Driver PROVE faults' = faults \/ faults' = faults + 1
    BY <2>1 DEF Bus, Driver, BusRequest, BusReply, Transmit, Tick, Arrive, Overrun
  <2>2. ASSUME Receive \/ Deadline PROVE faults' = faults
    BY <2>2 DEF Receive, HandleData, HandleBufferFull, HandleFifoOvf, NoEvent,
                Deadline, GiveUp, KeepWaiting, busVars
  <2>3. ASSUME Extract PROVE faults' = faults
    BY <2>3 DEF Extract, ExtractDone, DropUnframed, SkipGarbage, DropInsane, AwaitRest,
                TakeFrame, busVars
  <2>4. ASSUME UNCHANGED vars PROVE faults' = faults
    BY <2>4 DEF vars, busVars
  <2> QED
    BY <2>1, <2>2, <2>3, <2>4 DEF Next, Task
<1>2. Clean' => Clean
  BY <1>1, Numbers DEF Clean
<1>3. ~Overrun
  <2> SUFFICES ASSUME Overrun PROVE FALSE
    OBVIOUS
  <2>1. faults' = faults + 1 /\ faults \in Nat /\ "overrun" \in Faults
    BY Numbers DEF Overrun
  <2>2. ~Clean' /\ ~(Faults \subseteq WholeKinds)
    BY <2>1 DEF Clean, WholeKinds
  <2> QED
    BY <2>2 DEF Whole
<1> QED
  BY <1>2, <1>3 DEF Whole

\* A step that changes nothing keeps the invariant.
LEMMA IdleTiming ==
    ASSUME NEW q, TimingInv(q), UNCHANGED vars
    PROVE  TimingInv(q)'
<1>1. /\ line' = line /\ owed' = owed /\ gap' = gap /\ faults' = faults
      /\ rx' = rx /\ s_uart_queue' = s_uart_queue
      /\ pc' = pc /\ iters' = iters /\ s_blob' = s_blob /\ s_pending' = s_pending
      /\ s_parse_errors' = s_parse_errors /\ s_resync_bytes' = s_resync_bytes
  BY DEF vars, busVars, driverVars, taskVars, counterVars, pairingVars
<1>2. Stream' = Stream
  BY <1>1 DEF Stream
<1>3. ExchangeInv(q)'
  BY <1>1, <1>2, ExchangeSame DEF TimingInv
<1>4. BytesInv' /\ Room' /\ EventsInv' /\ LoopInv' /\ (gap > ReplyBy => Settled)'
      /\ CleanBusNoErrors'
  BY <1>1, <1>2 DEF TimingInv, BytesInv, PaceInv, Room, Held, EventsInv, LoopInv, Settled,
                    CleanBusNoErrors, Clean
<1> QED
  BY <1>3, <1>4 DEF TimingInv, PaceInv

\* Every step of the bus, the driver or the task keeps the invariant.
LEMMA TimedStep ==
    ASSUME TypeOK, KeptUp, Timed, [Next]_vars
    PROVE  Timed'
<1> SUFFICES ASSUME Whole' PROVE \E q \in Frame : TimingInv(q)'
  BY DEF Timed
<1>1. ~Overrun /\ \E q \in Frame : TimingInv(q)
  BY WholeBefore DEF Timed
<1>2. PICK q \in Frame : TimingInv(q)
  BY <1>1
<1>3. CASE BusRequest
  BY <1>2, <1>3, RequestTiming
<1>4. CASE BusReply
  BY <1>2, <1>4, ReplyTiming
<1>5. CASE Tick
  BY <1>2, <1>5, TickTiming
<1>6. CASE Arrive
  BY <1>2, <1>6, ArriveTiming
<1>7. CASE Task
  BY <1>2, <1>7, ReceiveTiming, ExtractTiming, DeadlineTiming DEF Task
<1>8. CASE UNCHANGED vars
  BY <1>2, <1>8, IdleTiming
<1> QED
  BY <1>1, <1>3, <1>4, <1>5, <1>6, <1>7, <1>8 DEF Next, Bus, Driver

\* As long as frames arrive whole, a task that keeps up has the invariant.
THEOREM StaysTimed == ASSUME KeptUp PROVE Spec => []Timed
<1>1. Init => Timed
  BY InitTimed
<1>2. TypeOK /\ Timed /\ [Next]_vars => Timed'
  BY TimedStep
<1> QED
  BY <1>1, <1>2, TypeCorrect, PTL DEF Spec

-----------------------------------------------------------------------------
(* What follows from it *)

\* CleanBusNoErrors: on a bus that has done no damage so far, whatever damage
\* it may do later, neither s_parse_errors nor s_resync_bytes has moved.
THEOREM CleanBusHasNoErrors == ASSUME KeptUp PROVE Spec => []CleanBusNoErrors
<1>1. Timed => CleanBusNoErrors
  BY DEF Timed, Whole, Clean, TimingInv, CleanBusNoErrors
<1> QED
  BY <1>1, StaysTimed, PTL

\* Only TakeFrame and GiveUp report.
LEMMA ReportSame ==
    ASSUME [Next]_vars, ~TakeFrame, ~GiveUp
    PROVE  report' = report
<1>1. ASSUME Bus \/ Driver PROVE report' = report
  BY <1>1 DEF Bus, Driver, BusRequest, BusReply, Tick, Arrive, Overrun, taskVars, pairingVars
<1>2. ASSUME Receive \/ Deadline PROVE report' = report
  BY <1>2 DEF Receive, HandleData, HandleBufferFull, HandleFifoOvf, NoEvent, Deadline,
              KeepWaiting, pairingVars
<1>3. ASSUME Extract PROVE report' = report
  BY <1>3 DEF Extract, ExtractDone, DropUnframed, SkipGarbage, DropInsane, AwaitRest, pairingVars
<1>4. ASSUME UNCHANGED vars PROVE report' = report
  BY <1>4 DEF vars, taskVars, pairingVars
<1> QED
  BY <1>1, <1>2, <1>3, <1>4 DEF Next, Task

\* The request that is pending when a response arrives is that of its poll.
LEMMA AnswerStep ==
    ASSUME TypeOK, NEW q, TimingInv(q), AnswerOfThisPoll, [Next]_vars
    PROVE  AnswerOfThisPoll'
<1>1. ASSUME report' = report PROVE AnswerOfThisPoll'
  BY <1>1 DEF AnswerOfThisPoll
<1>2. CASE TakeFrame
  <2>1. PICK n \in 1 .. Len(s_blob), f \in Frame :
          process_frame(f, n) /\ CopyOf(f, q, Clean)
    BY <1>2, TakenCases
  <2>2. CASE RejectFrame(n) \/ ProcessCommand(f, n) \/ ProcessOrphan(f, n)
    BY <1>1, <2>2 DEF RejectFrame, ProcessCommand, ProcessOrphan, NoDelivery
  <2>3. CASE ProcessRequest(f, n)
    BY <1>1, <2>3 DEF ProcessRequest, NoDelivery, Deliver, Unanswered, AnswerOfThisPoll
  <2>4. CASE ProcessResponse(f, n)
    <3>1. /\ report' = [req |-> [win |-> s_pending.win, id |-> s_pending.id],
                        ans |-> [win |-> f.win, id |-> f.id]]
          /\ s_pending # None /\ s_pending.win = f.win
      BY <2>4 DEF ProcessResponse, Deliver, Matches
    <3>2. s_pending.id = f.id
      BY <2>1, <3>1 DEF TimingInv, ExchangeInv, PendingOf, CopyOf
    <3> QED
      BY <3>1, <3>2 DEF AnswerOfThisPoll
  <2> QED
    BY <2>1, <2>2, <2>3, <2>4 DEF process_frame
<1>3. CASE GiveUp
  BY <1>3 DEF GiveUp, Deliver, Unanswered, AnswerOfThisPoll
<1> QED
  BY <1>1, <1>2, <1>3, ReportSame

\* AnswerOfThisPoll: process_frame compares only windows, and still no
\* response is paired with the request of another poll.
THEOREM AnswersAreOfTheirPoll ==
    ASSUME KeptUp, Faults \subseteq WholeKinds
    PROVE  Spec => []AnswerOfThisPoll
<1>1. Init => AnswerOfThisPoll
  BY DEF Init, AnswerOfThisPoll
<1>2. TypeOK /\ Timed /\ AnswerOfThisPoll /\ [Next]_vars => AnswerOfThisPoll'
  <2> SUFFICES ASSUME TypeOK, Timed, AnswerOfThisPoll, [Next]_vars PROVE AnswerOfThisPoll'
    OBVIOUS
  <2>1. PICK q \in Frame : TimingInv(q)
    BY DEF Timed, Whole
  <2> QED
    BY <2>1, AnswerStep
<1> QED
  BY <1>1, <1>2, StaysTimed, TypeCorrect, PTL DEF Spec

\* A report of no answer comes from GiveUp only: the next request never finds
\* one pending.
LEMMA OnlyTimeoutGivesUp ==
    ASSUME TypeOK, NEW q, TimingInv(q), [Next]_vars, report' # report, report'.ans = None
    PROVE  GiveUp
<1> SUFFICES ASSUME ~GiveUp PROVE FALSE
  OBVIOUS
<1>1. TakeFrame
  BY ReportSame
<1>2. PICK n \in 1 .. Len(s_blob), f \in Frame :
        process_frame(f, n) /\ Has(Stream, f.dir)
  BY <1>1, TakenCases
<1>3. ~(RejectFrame(n) \/ ProcessCommand(f, n) \/ ProcessOrphan(f, n))
  BY DEF RejectFrame, ProcessCommand, ProcessOrphan, NoDelivery
<1>4. ASSUME ProcessRequest(f, n) PROVE FALSE
  <2>1. f.dir = "req" /\ s_pending # None
    BY <1>4 DEF ProcessRequest, NoDelivery
  <2> QED
    BY <1>2, <2>1 DEF TimingInv, ExchangeInv
<1>5. ASSUME ProcessResponse(f, n) PROVE FALSE
  <2>1. report'.ans = [win |-> f.win, id |-> f.id] /\ ParseOK(s_blob, n) /\ f.fc = "read"
    BY <1>5 DEF ProcessResponse, Deliver
  <2>2. s_pending # None /\ s_pending.win = f.win
    BY <1>5 DEF ProcessResponse, Matches
  <2>3. f.win \in Windows /\ f.id \in Ids
    BY <2>2, Numbers DEF Pending, Frame
  <2>4. [win |-> f.win, id |-> f.id] \in Request
    BY <2>3 DEF Request
  <2> QED
    BY <2>1, <2>4, SnifferAssumption
<1> QED
  BY <1>2, <1>3, <1>4, <1>5 DEF process_frame

\* A buffer in which no frame starts holds no answer.
LEMMA NoAnswerIn ==
    ASSUME NEW b \in Seq(Byte), HasNone(b), NEW a \in Frame, FrameLen(a) <= MaxFrameLen,
           NEW k \in 0 .. (Len(b) - Len(OnWire(a)))
    PROVE  SubSeq(b, k + 1, k + Len(OnWire(a))) # OnWire(a)
<1> DEFINE w == OnWire(a)
<1> SUFFICES ASSUME SubSeq(b, k + 1, k + Len(w)) = w PROVE FALSE
  OBVIOUS
<1>1. w \in Seq(Byte) /\ Len(w) \in Nat /\ Len(w) >= 1 /\ Len(b) \in Nat /\ StartsAt(w, 1)
  <2>1. /\ w \in Seq(Byte) /\ Len(w) = FrameLen(a)
        /\ FrameLen(a) \in Nat /\ FrameLen(a) >= MinFrameLen /\ StartsAt(w, 1)
    <3>1. FALSE \in BOOLEAN
      OBVIOUS
    <3> QED
      BY <3>1, WireOf
  <2> HIDE DEF w
  <2> QED
    BY <2>1, Sizes, LenProperties
<1> HIDE DEF w
<1>2. k + 1 \in 1 .. Len(b) /\ SubSeq(b, k + 1, k + Len(w))[1] = b[k + 1]
  BY <1>1 DEF w
<1>3. StartsAt(b, k + 1)
  BY <1>1, <1>2 DEF StartsAt
<1> QED
  BY <1>2, <1>3 DEF HasNone

\* When the timeout strikes everything received has been consumed.
LEMMA TimeoutStep ==
    ASSUME TypeOK, KeptUp, NEW q, TimingInv(q), GiveUp
    PROVE  ~AnswerReceived
<1>1. s_pending \in Pending /\ gap > RespTimeout
  <2>1. s_pending # None /\ s_pending.age > RespTimeout
    BY DEF GiveUp, Overdue
  <2> QED
    BY <2>1, Numbers DEF TimingInv, ExchangeInv, PendingOf
<1>2. gap > ReplyBy
  BY <1>1, Numbers DEF KeptUp
<1>3. rx = <<>> /\ HasNone(s_blob) /\ s_blob \in Seq(Byte)
  BY <1>2, Buffers DEF TimingInv, PaceInv, Settled, BuffersOK
<1> DEFINE a == [dir |-> "rsp", fc |-> "read", win |-> s_pending.win,
                 count |-> PayloadLen, good |-> TRUE, id |-> s_pending.id]
<1>4. a \in Frame /\ a.count = PayloadLen
  BY <1>1 DEF Frame, Pending
<1>5. s_blob \o rx = s_blob
  BY <1>3, EmptyJoin
<1>6. AnswerReceived <=> \E k \in 0 .. (Len(s_blob) - Len(OnWire(a))) :
                           SubSeq(s_blob, k + 1, k + Len(OnWire(a))) = OnWire(a)
  BY <1>5 DEF AnswerReceived
<1> HIDE DEF a
<1>7. FrameLen(a) <= MaxFrameLen
  BY <1>4, Sizes DEF FrameLen
<1> QED
  BY <1>3, <1>4, <1>6, <1>7, NoAnswerIn

\* NoFalseTimeout: a request whose answer came in time is never reported as
\* unanswered, neither by the deadline nor by the request that follows.
THEOREM NoTimeoutIsFalse ==
    ASSUME KeptUp, Faults \subseteq WholeKinds
    PROVE  Spec => NoFalseTimeout
<1>1. TypeOK /\ Timed /\ [Next]_vars
        => [report' # report /\ report'.ans = None => ~AnswerReceived]_vars
  <2> SUFFICES ASSUME TypeOK, Timed, [Next]_vars, report' # report, report'.ans = None
               PROVE  ~AnswerReceived
    OBVIOUS
  <2>1. PICK q \in Frame : TimingInv(q)
    BY DEF Timed, Whole
  <2> QED
    BY <2>1, OnlyTimeoutGivesUp, TimeoutStep
<1> QED
  BY <1>1, StaysTimed, TypeCorrect, PTL DEF Spec, NoFalseTimeout

\* Only SkipGarbage and DropUnframed discard, and only what they pass over.
LEMMA SkippedStep ==
    ASSUME TypeOK, NEW q, TimingInv(q), [Next]_vars
    PROVE  \A i \in 1 .. (s_resync_bytes' - s_resync_bytes) : Discardable(s_blob[i])
<1>1. s_resync_bytes \in Nat
  BY DEF TypeOK, CountersOK
<1>2. CASE DropUnframed
  <2>1. /\ Looping /\ Len(s_blob) \in FrameStarts(s_blob)
        /\ s_resync_bytes' = s_resync_bytes + (Len(s_blob) - 1)
    BY <1>2 DEF DropUnframed, Skip
  <2>2. \A j \in 1 .. Len(s_blob) : Discardable(s_blob[j])
    BY <2>1, PassedOver
  <2>3. Len(s_blob) \in Nat
    BY <2>1, FoundFrame
  <2>4. s_resync_bytes' - s_resync_bytes = Len(s_blob) - 1
    BY <1>1, <2>1, <2>3
  <2> QED
    BY <2>2, <2>3, <2>4
<1>3. CASE SkipGarbage
  <2>1. PICK n \in FrameStarts(s_blob) \cap 1 .. (Len(s_blob) - 1) :
          s_resync_bytes' = s_resync_bytes + n
    BY <1>3 DEF SkipGarbage, Skip
  <2>2. Looping
    BY <1>3 DEF SkipGarbage
  <2>3. \A j \in 1 .. n : Discardable(s_blob[j])
    BY <2>1, <2>2, PassedOver
  <2>4. s_resync_bytes' - s_resync_bytes = n
    BY <1>1, <2>1
  <2> QED
    BY <2>3, <2>4
<1>4. ASSUME ~DropUnframed, ~SkipGarbage PROVE s_resync_bytes' = s_resync_bytes
  <2>1. ASSUME Bus \/ Driver PROVE s_resync_bytes' = s_resync_bytes
    BY <2>1 DEF Bus, Driver, BusRequest, BusReply, Tick, Arrive, Overrun, taskVars, counterVars
  <2>2. ASSUME Receive \/ Deadline PROVE s_resync_bytes' = s_resync_bytes
    BY <2>2 DEF Receive, HandleData, HandleBufferFull, HandleFifoOvf, NoEvent, Deadline,
                GiveUp, KeepWaiting, counterVars
  <2>3. ASSUME Extract PROVE s_resync_bytes' = s_resync_bytes
    BY <1>4, <2>3 DEF Extract, ExtractDone, DropInsane, AwaitRest, TakeFrame, counterVars
  <2>4. ASSUME UNCHANGED vars PROVE s_resync_bytes' = s_resync_bytes
    BY <2>4 DEF vars, taskVars, counterVars
  <2> QED
    BY <2>1, <2>2, <2>3, <2>4 DEF Next, Task
<1>5. ASSUME s_resync_bytes' = s_resync_bytes PROVE s_resync_bytes' - s_resync_bytes = 0
  BY <1>1, <1>5
<1> QED
  BY <1>2, <1>3, <1>4, <1>5

\* NoFrameSkipped: what resynchronisation discards is noise or a frame of an
\* unknown window, never a command or a frame of a known one.
THEOREM NoFrameIsSkipped ==
    ASSUME KeptUp, Faults \subseteq WholeKinds
    PROVE  Spec => NoFrameSkipped
<1>1. TypeOK /\ Timed /\ [Next]_vars
        => [\A i \in 1 .. (s_resync_bytes' - s_resync_bytes) : Discardable(s_blob[i])]_vars
  <2> SUFFICES ASSUME TypeOK, Timed, [Next]_vars
               PROVE  \A i \in 1 .. (s_resync_bytes' - s_resync_bytes) : Discardable(s_blob[i])
    OBVIOUS
  <2>1. PICK q \in Frame : TimingInv(q)
    BY DEF Timed, Whole
  <2> QED
    BY <2>1, SkippedStep
<1> QED
  BY <1>1, StaysTimed, TypeCorrect, PTL DEF Spec, NoFrameSkipped
=============================================================================
