------------------------- MODULE CaptureAccessProofs -------------------------
(***************************************************************************)
(* Proofs about CaptureAccess, for rings of every size, any values on the  *)
(* wire and any number of recorded things.                                 *)
(*                                                                         *)
(* TypeInv says what each step of an update needs: where in the update     *)
(* every counter stands, and what the sniffer task's local value is.       *)
(* HistoryInv relates the history variables to the program.  On top of     *)
(* them there is one invariant per table, which holds unless an update and *)
(* a clear of that table overlapped ("torn"): SnapInv, UnkInv, CmdInv and  *)
(* SkipInv.  Each says what the table holds between two updates and within *)
(* one, and what a request that is being answered has read so far.         *)
(***************************************************************************)
EXTENDS CaptureAccess, TLAPS

\* What the proofs need of the constants.
LEMMA Constants ==
    CommandRingSz \in Nat \ {0} /\ SkippedRingSz \in Nat \ {0} /\ Raw \subseteq Nat \ {0}
        /\ MaxFrames \in Nat
  BY CaptureAccessAssumption

\* A ring index, before and after one turn.
LEMMA ModOf ==
    ASSUME NEW c \in Nat \ {0}, NEW a \in 0..(c - 1)
    PROVE  a % c = a /\ (a + c) % c = a /\ (a - c) % c = a
<1>1. a % c = a
  BY SMT
<1>2. (a + c) % c = a
  BY SMT
<1>3. (a - c) % c = a
  BY SMT
<1> QED
  BY <1>1, <1>2, <1>3

\* Entries less than a turn apart lie in different slots.
LEMMA ModDiffers ==
    ASSUME NEW c \in Nat \ {0}, NEW a \in Nat, NEW b \in Nat, a < b, b - a < c
    PROVE  a % c # b % c
<1>1. a = c * (a \div c) + (a % c) /\ b = c * (b \div c) + (b % c)
      /\ a \div c \in Int /\ b \div c \in Int /\ a % c \in Int /\ b % c \in Int
  BY SMT
<1> SUFFICES ASSUME a % c = b % c PROVE FALSE
  OBVIOUS
<1> DEFINE q == (b \div c) - (a \div c)
<1>2. q \in Int
  BY <1>1
<1>3. c * q = c * (b \div c) - c * (a \div c)
  BY <1>1
<1>4. c * q = b - a
  BY <1>1, <1>3
<1> HIDE DEF q
<1>5. q > 0
  BY <1>2, <1>4
<1>6. c * q >= c
  BY <1>2, <1>5
<1> QED
  BY <1>4, <1>6

\* A remainder is an index of the ring.
LEMMA ModRange ==
    ASSUME NEW c \in Nat \ {0}, NEW a \in Int
    PROVE  a % c \in 0..(c - 1)
  BY SMT
-----------------------------------------------------------------------------
(***************************************************************************)
(* Types and counters                                                      *)
(***************************************************************************)
\* A counter that the current update has yet to increment leaves room for it.
BeforeSeen   == {"snapValid", "unkTest", "unkSeen"}
BeforeChange == BeforeSeen \cup {"unkCompare", "unkChange"}
BeforeCount  == {"snapValid", "unkTest", "unkNew", "unkRaw", "unkOne", "unkZero", "unkCount"}
BeforeTotal  == {"skipHead", "skipTotal", "skipStore"}

Bounds ==
    /\ frames \in 0..MaxFrames /\ (pc # "idle" => frames > 0)
    /\ s_cmd_count \in 0..frames
    /\ s_unk_seen \in 0..frames /\ (pc \in BeforeSeen => s_unk_seen < frames)
    /\ s_unk_changes \in 0..frames /\ (pc \in BeforeChange => s_unk_changes < frames)
    /\ s_unk_count \in 0..frames /\ (pc \in BeforeCount => s_unk_count < frames)
    /\ s_skipped_total \in 0..frames /\ (pc \in BeforeTotal => s_skipped_total < frames)

\* The sniffer task's local value is what the step at hand needs.
Argument ==
    /\ pc \in CommandSteps => arg \in 0..(CommandRingSz - 1)
    /\ pc \in ResponseSteps => arg \in Raw
    /\ pc = "skipHead" => arg \in 0..(SkippedRingSz - 1)
    /\ pc = "skipStore" => arg \in 0..(frames - 1)

Steps ==
    /\ pc \in {"idle"} \cup CommandSteps \cup ResponseSteps \cup Writing.skipped
    /\ hpc \in {"idle", "clrCommands"} \cup Reading \cup UNION {Clearing[t] : t \in Tables}
    /\ torn \subseteq Tables

Stored ==
    /\ s_cmd_ring \in [0..(CommandRingSz - 1) -> Slot]
    /\ s_snap_raw \in Raw \cup {0} /\ s_snap_valid \in BOOLEAN
    /\ s_unk_valid \in BOOLEAN /\ s_unk_raw \in Raw \cup {0}
    /\ s_skipped_val \in [0..(SkippedRingSz - 1) -> 0..MaxFrames]
    /\ s_skipped_head \in 0..(SkippedRingSz - 1)

TypeInv == Bounds /\ Argument /\ Steps /\ Stored

Pcs == {"idle", "cmdHead", "cmdBody", "unkTest", "snapValid", "unkNew", "unkRaw", "unkOne",
    "unkZero",
        "unkCount", "unkSeen", "unkCompare", "unkChange", "skipHead", "skipTotal", "skipStore"}
Hpcs == {"idle", "clrCommands", "clrSnapValid", "clrUnkValid", "clrUnkSeen", "clrUnkChanges",
         "clrUnkCount", "clrTotal"} \cup Reading

\* The names of the steps, table by table.
LEMMA StepNames ==
    /\ {"idle"} \cup CommandSteps \cup ResponseSteps \cup Writing.skipped = Pcs
    /\ {"idle", "clrCommands"} \cup Reading \cup UNION {Clearing[t] : t \in Tables} = Hpcs
    /\ CommandSteps = {"cmdHead", "cmdBody"} /\ Writing["skipped"] = BeforeTotal
    /\ Writing["snapshot"] = {"snapValid"}
    /\ Writing["unknown"] = {"unkNew", "unkRaw", "unkOne", "unkZero", "unkCount",
                             "unkSeen", "unkCompare", "unkChange"}
    /\ ResponseSteps = {"snapValid", "unkTest"} \cup Writing["unknown"]
    /\ Clearing["snapshot"] = {"clrSnapValid"} /\ Clearing["skipped"] = {"clrTotal"}
    /\ Clearing["unknown"] = {"clrUnkValid", "clrUnkSeen", "clrUnkChanges", "clrUnkCount"}
    /\ Tables = {"snapshot", "unknown", "skipped"}
<1>1. /\ Writing["snapshot"] = {"snapValid"} /\ Writing["skipped"] = BeforeTotal
      /\ Writing["unknown"] = {"unkNew", "unkRaw", "unkOne", "unkZero", "unkCount",
                             "unkSeen", "unkCompare", "unkChange"}
  BY DEF Writing, BeforeTotal
<1>2. /\ Clearing["snapshot"] = {"clrSnapValid"} /\ Clearing["skipped"] = {"clrTotal"}
      /\ Clearing["unknown"] = {"clrUnkValid", "clrUnkSeen", "clrUnkChanges", "clrUnkCount"}
  BY DEF Clearing
<1>3. ResponseSteps = {"snapValid", "unkTest"} \cup Writing["unknown"]
  BY <1>1 DEF ResponseSteps
<1>4. {"idle"} \cup CommandSteps \cup ResponseSteps \cup Writing.skipped = Pcs
  BY <1>1, <1>3 DEF CommandSteps, BeforeTotal, Pcs
<1>5. UNION {Clearing[t] : t \in Tables} = Clearing["snapshot"] \cup Clearing["unknown"]
          \cup Clearing["skipped"]
  BY DEF Tables
<1>6. {"idle", "clrCommands"} \cup Reading \cup UNION {Clearing[t] : t \in Tables} = Hpcs
  BY <1>2, <1>5 DEF Hpcs
<1> QED
  BY <1>1, <1>2, <1>3, <1>4, <1>6 DEF CommandSteps, Tables

\* Only tables are torn.
LEMMA TornTyped ==
    ASSUME torn \subseteq Tables, NEW t \in Tables, Update(t) \/ Clear(t) \/ BeginClear(t)
               \/ UNCHANGED torn
    PROVE  torn' \subseteq Tables
  BY DEF Update, Clear, BeginClear

\* snapshot_store writes the value and then its mark.
LEMMA StoresOne ==
    ASSUME s_snap_valid \in BOOLEAN, NEW v
    PROVE  /\ StoreField(StoreOrder[1], v) => s_snap_raw' = v /\ s_snap_valid' = s_snap_valid
           /\ StoreField(StoreOrder[2], v) => s_snap_raw' = s_snap_raw /\ s_snap_valid' = TRUE
<1>1. StoreOrder[1] = "raw" /\ StoreOrder[2] = "valid"
  BY DEF StoreOrder
<1>2. StoreField("raw", v) => s_snap_raw' = v /\ s_snap_valid' = s_snap_valid
  <2> SUFFICES ASSUME StoreField("raw", v) PROVE s_snap_raw' = v /\ s_snap_valid' = s_snap_valid
    OBVIOUS
  <2>1. "raw" # "valid"
    OBVIOUS
  <2>2. s_snap_raw' = v /\ s_snap_valid' = ("raw" = "valid" \/ s_snap_valid)
    BY Zenon DEF StoreField
  <2> QED
    BY <2>1, <2>2, Zenon
<1>3. StoreField("valid", v) => s_snap_raw' = s_snap_raw /\ s_snap_valid' = TRUE
  <2>1. "raw" # "valid"
    OBVIOUS
  <2> QED
    BY <2>1, Zenon DEF StoreField
<1> QED
  BY <1>1, <1>2, <1>3

\* A slot of the command ring is written in two steps.
LEMMA SlotTyped ==
    ASSUME NEW S, NEW r \in [S -> Slot], NEW i \in S, NEW k \in 0..MaxFrames
    PROVE  /\ [r EXCEPT ![i] = [id |-> k, whole |-> FALSE]] \in [S -> Slot]
           /\ [r EXCEPT ![i].whole = TRUE] \in [S -> Slot]
<1>1. [id |-> k, whole |-> FALSE] \in Slot
  BY DEF Slot
<1>2. [r[i] EXCEPT !.whole = TRUE] \in Slot
  <2>1. r[i] \in Slot
    OBVIOUS
  <2> QED
    BY <2>1 DEF Slot
<1>3. [r EXCEPT ![i].whole = TRUE] = [r EXCEPT ![i] = [r[i] EXCEPT !.whole = TRUE]]
  OBVIOUS
<1>4. \A s \in Slot : [r EXCEPT ![i] = s] \in [S -> Slot]
  OBVIOUS
<1> QED
  BY <1>1, <1>2, <1>3, <1>4

\* Every step of the sniffer task keeps the types.
LEMMA SnifferTyped ==
    ASSUME TypeInv, SnifferTask
    PROVE  TypeInv'
<1> USE DEF TypeInv
<1>0. pc \in Pcs /\ hpc \in Hpcs /\ torn \subseteq Tables /\ Tables = {"snapshot", "unknown",
          "skipped"}
  BY StepNames DEF Steps
<1>a. hpc' = hpc /\ torn' \subseteq Tables
  BY <1>0, TornTyped DEF SnifferTask, CommandCount, CommandFields, Response, SnapValid, UnkTest,
         UnkFirst,
     UnkAgain, SkipByte, SkipHead, SkipTotal, httpVars
<1>1. CASE CommandCount
  <2>1. pc = "idle" /\ frames < MaxFrames /\ frames' = frames + 1 /\ pc' = "cmdHead"
        /\ arg' = CommandIndex(s_cmd_count) /\ s_cmd_count' = s_cmd_count + 1
        /\ UNCHANGED <<s_cmd_ring, snapVars, unkVars, skipVars>>
    BY <1>1 DEF CommandCount, Begin
  <2>2. arg' \in 0..(CommandRingSz - 1)
    BY <2>1, Constants, ModRange DEF CommandIndex, CommandSlot, Bounds
  <2>3. Bounds'
    BY <2>1, Constants DEF Bounds, BeforeSeen, BeforeChange, BeforeCount, BeforeTotal, unkVars,
           skipVars
  <2>4. Argument'
    BY <2>1, <2>2, StepNames DEF Argument, BeforeTotal
  <2>5. Stored'
    BY <2>1 DEF Stored, snapVars, unkVars, skipVars
  <2>6. pc' \in Pcs
    BY <2>1 DEF Pcs
  <2> QED
    BY <1>0, <1>a, <2>3, <2>4, <2>5, <2>6, StepNames DEF Steps
<1>2. CASE CommandFields
  <2>1. /\ \/ pc = "cmdHead" /\ pc' = "cmdBody"
                  /\ s_cmd_ring' = [s_cmd_ring EXCEPT ![arg] = [id |-> frames, whole |-> FALSE]]
           \/ pc = "cmdBody" /\ pc' = "idle"
                  /\ s_cmd_ring' = [s_cmd_ring EXCEPT ![arg].whole = TRUE]
        /\ UNCHANGED <<frames, s_cmd_count, arg, snapVars, unkVars, skipVars>>
    BY <1>2 DEF CommandFields, Step
  <2>2. s_cmd_ring' \in [0..(CommandRingSz - 1) -> Slot]
    <3>1. arg \in 0..(CommandRingSz - 1) /\ frames \in 0..MaxFrames
              /\ s_cmd_ring \in [0..(CommandRingSz - 1) -> Slot]
      BY <2>1, StepNames DEF Argument, Bounds, Stored
    <3>2. /\ [s_cmd_ring EXCEPT ![arg] = [id |-> frames,
                 whole |-> FALSE]] \in [0..(CommandRingSz - 1) -> Slot]
          /\ [s_cmd_ring EXCEPT ![arg].whole = TRUE] \in [0..(CommandRingSz - 1) -> Slot]
      BY <3>1, SlotTyped, Zenon
    <3> QED
      BY <2>1, <3>2, Zenon
  <2>3. Bounds'
    BY <2>1, Constants DEF Bounds, BeforeSeen, BeforeChange, BeforeCount, BeforeTotal, unkVars,
           skipVars
  <2>4. Argument'
    BY <2>1, StepNames DEF Argument, BeforeTotal
  <2>5. Stored'
    BY <2>1, <2>2 DEF Stored, snapVars, unkVars, skipVars
  <2>6. pc' \in Pcs
    BY <2>1 DEF Pcs
  <2> QED
    BY <1>0, <1>a, <2>3, <2>4, <2>5, <2>6, StepNames DEF Steps
<1>3. CASE Response \/ SnapValid
  <2>1. /\ \/ pc = "idle" /\ pc' = "snapValid" /\ frames < MaxFrames /\ frames' = frames + 1
                  /\ arg' \in Raw
              /\ s_snap_raw' = arg' /\ s_snap_valid' = s_snap_valid
           \/ pc = "snapValid" /\ pc' = "unkTest" /\ UNCHANGED <<frames, arg>>
                  /\ s_snap_raw' = s_snap_raw
              /\ s_snap_valid' = TRUE
        /\ UNCHANGED <<cmdVars, unkVars, skipVars>>
    BY <1>3, StoresOne DEF Response, SnapValid, Begin, Step, Stored
  <2>3. Bounds'
    BY <2>1, Constants DEF Bounds, BeforeSeen, BeforeChange, BeforeCount, BeforeTotal, unkVars,
           skipVars, cmdVars
  <2>4. Argument'
    BY <2>1, StepNames DEF Argument, BeforeTotal
  <2>5. Stored'
    BY <2>1 DEF Stored, cmdVars, unkVars, skipVars
  <2>6. pc' \in Pcs
    BY <2>1 DEF Pcs
  <2> QED
    BY <1>0, <1>a, <2>3, <2>4, <2>5, <2>6, StepNames DEF Steps
<1>4. CASE UnkTest \/ UnkFirst \/ UnkAgain
  <2>1. /\ pc \in ResponseSteps /\ pc' \in {"idle"} \cup ResponseSteps
        /\ s_unk_valid' \in {s_unk_valid, TRUE} /\ s_unk_raw' \in {s_unk_raw, arg}
        /\ UNCHANGED <<frames, arg, cmdVars, snapVars, skipVars>>
    BY <1>4, StepNames DEF UnkTest, UnkFirst, UnkAgain, Step, AfterFirst
  <2>3. Bounds'
    BY <1>4, Constants DEF UnkTest, UnkFirst, UnkAgain, Step, AfterFirst, SeenAgain, Bounds,
           BeforeSeen, BeforeChange, BeforeCount, BeforeTotal, skipVars, cmdVars
  <2>4. Argument'
    BY <2>1, StepNames DEF Argument, BeforeTotal
  <2>5. Stored'
    BY <2>1 DEF Stored, Argument, cmdVars, snapVars, skipVars
  <2>6. pc' \in Pcs
    BY <2>1, StepNames DEF Pcs
  <2> QED
    BY <1>0, <1>a, <2>3, <2>4, <2>5, <2>6, StepNames DEF Steps
<1>5. CASE SkipByte \/ SkipHead \/ SkipTotal
  <2>2. pc = "skipHead" => NextHead(arg) \in 0..(SkippedRingSz - 1)
    <3>1. pc = "skipHead" => arg \in Nat /\ arg + 1 \in Int
      BY Constants DEF Argument
    <3> QED
      BY <3>1, Constants, ModRange DEF NextHead
  <2>3. Bounds'
    BY <1>5, Constants DEF SkipByte, SkipHead, SkipTotal, Begin, Step, Bounds, BeforeSeen,
           BeforeChange, BeforeCount, BeforeTotal, cmdVars, unkVars, Argument
  <2>4. Argument'
    BY <1>5, StepNames DEF SkipByte, SkipHead, SkipTotal, Begin, Step, Argument, BeforeTotal,
           Stored, Bounds
  <2>5. Stored'
    <3>1. CASE SkipByte
      <4>1. frames' \in 0..MaxFrames
                /\ s_skipped_val' = [s_skipped_val EXCEPT ![s_skipped_head] = frames']
        BY <2>3, <3>1 DEF SkipByte, Begin, Bounds
      <4> QED
        BY <3>1, <4>1 DEF SkipByte, Stored, cmdVars, snapVars, unkVars
    <3>2. CASE SkipHead \/ SkipTotal
      BY <2>2, <3>2 DEF SkipHead, SkipTotal, Step, Stored, cmdVars, snapVars, unkVars
    <3> QED
      BY <1>5, <3>1, <3>2
  <2>6. pc' \in Pcs
    BY <1>5 DEF SkipByte, SkipHead, SkipTotal, Begin, Step, Pcs
  <2> QED
    BY <1>0, <1>a, <2>3, <2>4, <2>5, <2>6, StepNames DEF Steps
<1> QED
  BY <1>1, <1>2, <1>3, <1>4, <1>5 DEF SnifferTask

\* Every step of the httpd task keeps the types.
LEMMA HttpdTyped ==
    ASSUME TypeInv, HttpdTask
    PROVE  TypeInv'
<1> USE DEF TypeInv
<1>0. pc \in Pcs /\ hpc \in Hpcs /\ torn \subseteq Tables /\ Tables = {"snapshot", "unknown",
          "skipped"}
  BY StepNames DEF Steps
<1>1. UNCHANGED <<pc, arg, frames>> /\ hpc' \in Hpcs /\ torn' \subseteq Tables
  <2>1. CASE ClearSnapshot \/ ClearUnknown \/ ResetStats
    BY <1>0, <2>1, TornTyped DEF ClearSnapshot, ClearUnknown, ResetStats, Go, taskVars, Hpcs
  <2>2. CASE ReadRegister \/ ReadUnknown \/ ReadCommands \/ ReadSkipped
    BY <1>0, <2>2 DEF ReadRegister, ReadUnknown, ReadCommands, ReadSkipped, Go, Respond, taskVars,
           Hpcs, Reading
  <2> QED
    BY <2>1, <2>2 DEF HttpdTask
<1>2. /\ s_cmd_ring' = s_cmd_ring /\ s_cmd_count' \in {s_cmd_count, 0}
      /\ s_snap_raw' \in {s_snap_raw, 0} /\ s_snap_valid' \in {s_snap_valid, FALSE}
      /\ s_unk_valid' \in {s_unk_valid, FALSE} /\ s_unk_raw' \in {s_unk_raw, 0}
      /\ s_unk_seen' \in {s_unk_seen, 0} /\ s_unk_changes' \in {s_unk_changes, 0}
             /\ s_unk_count' \in {s_unk_count, 0}
      /\ s_skipped_val' = s_skipped_val /\ s_skipped_head' \in {s_skipped_head, 0}
      /\ s_skipped_total' \in {s_skipped_total, 0}
  <2>1. CASE ClearSnapshot
    BY <2>1 DEF ClearSnapshot, unkVars, skipVars
  <2>2. CASE ClearUnknown
    BY <2>2 DEF ClearUnknown, cmdVars, snapVars, skipVars
  <2>3. CASE ResetStats
    BY <2>3 DEF ResetStats, cmdVars, snapVars, unkVars
  <2>4. CASE ReadRegister \/ ReadUnknown \/ ReadCommands \/ ReadSkipped
    BY <2>4 DEF ReadRegister, ReadUnknown, ReadCommands, ReadSkipped, tableVars, cmdVars,
           snapVars, unkVars, skipVars
  <2> QED
    BY <2>1, <2>2, <2>3, <2>4 DEF HttpdTask
<1>3. Bounds'
  BY <1>1, <1>2 DEF Bounds, BeforeSeen, BeforeChange, BeforeCount, BeforeTotal
<1>4. Stored'
  <2>1. 0 \in 0..(SkippedRingSz - 1)
    BY Constants
  <2>2. s_snap_valid' \in BOOLEAN /\ s_unk_valid' \in BOOLEAN
    BY <1>2, Zenon DEF Stored
  <2>3. s_snap_raw' \in Raw \cup {0} /\ s_unk_raw' \in Raw \cup {0}
    BY <1>2, Zenon DEF Stored
  <2> QED
    BY <1>2, <2>1, <2>2, <2>3 DEF Stored
<1>5. Argument'
  BY <1>1 DEF Argument
<1> QED
  BY <1>0, <1>1, <1>3, <1>4, <1>5, StepNames DEF Steps

\* The types, with where each update stands.
LEMMA TypeInvariant == Spec => []TypeInv
<1>1. Init => TypeInv
  <2> SUFFICES ASSUME Init PROVE TypeInv
    OBVIOUS
  <2>1. Bounds
    BY Constants DEF Init, Bounds, BeforeSeen, BeforeChange, BeforeCount, BeforeTotal
  <2>2. Argument
    BY StepNames DEF Init, Argument, BeforeTotal
  <2>3. Stored
    <3>1. [id |-> 0, whole |-> TRUE] \in Slot
      BY Constants DEF Slot
    <3>2. s_cmd_ring \in [0..(CommandRingSz - 1) -> Slot]
      BY <3>1, Zenon DEF Init
    <3>3. s_skipped_val \in [0..(SkippedRingSz - 1) -> 0..MaxFrames]
              /\ s_skipped_head \in 0..(SkippedRingSz - 1)
      BY Constants DEF Init
    <3> QED
      BY <3>2, <3>3 DEF Init, Stored
  <2>4. Steps
    BY StepNames DEF Init, Steps
  <2> QED
    BY <2>1, <2>2, <2>3, <2>4 DEF TypeInv
<1>2. TypeInv /\ [Next]_vars => TypeInv'
  <2> SUFFICES ASSUME TypeInv, [Next]_vars PROVE TypeInv'
    OBVIOUS
  <2>1. CASE UNCHANGED vars
    <3>1. UNCHANGED <<s_cmd_ring, s_cmd_count, s_snap_raw, s_snap_valid, s_unk_valid, s_unk_raw,
              s_unk_seen,
            s_unk_changes, s_unk_count, s_skipped_val, s_skipped_head, s_skipped_total, pc, arg,
                frames, hpc, torn>>
      BY <2>1 DEF vars, cmdVars, snapVars, unkVars, skipVars, taskVars, httpVars
    <3> QED
      BY <3>1 DEF TypeInv, Bounds, Argument, Steps, Stored
  <2> QED
    BY <2>1, SnifferTyped, HttpdTyped DEF Next
<1> QED
  BY <1>1, <1>2, PTL DEF Spec

\* In every reachable state of the two tasks, each capture table, counter and
\* index of modbus_sniffer.cpp has its type: no ring index leaves its ring and
\* no counter exceeds what was recorded, for rings of any size.
THEOREM TypeCorrect == Spec => []TypeOK
<1>1. TypeInv => TypeOK
  BY Constants DEF TypeInv, Bounds, Steps, Stored, TypeOK, Counts
<1> QED
  BY <1>1, TypeInvariant, PTL

-----------------------------------------------------------------------------
(***************************************************************************)
(* The history                                                             *)
(***************************************************************************)
Start == [seen : SUBSET Nat, busy : BOOLEAN, newest : Nat]

Answering == {"gotRegister", "readSlots", "gotCommands", "readSkipped", "gotSkipped",
              "readChanges", "gotUnknown"}

HistoryInv ==
    /\ published \in Seq(1..MaxFrames) /\ s_cmd_count = Len(published)
    /\ wire \in Raw \cup {0} /\ (pc \in ResponseSteps => arg = wire)
    /\ sightings \in Nat /\ resetAt \in 0..frames
    /\ start \in Start
    /\ hpc \notin Answering => out = <<>>

\* What Response adds to the record of a read.
LEMMA SeenGrows ==
    ASSUME NEW s \in Start, NEW S \in SUBSET Nat
    PROVE  /\ [s EXCEPT !.seen = S] \in Start
           /\ [s EXCEPT !.seen = S].seen = S
           /\ [s EXCEPT !.seen = S].busy = s.busy
           /\ [s EXCEPT !.seen = S].newest = s.newest
  BY DEF Start

\* The history of a read that begins.
LEMMA StartTyped ==
    ASSUME NEW S \in SUBSET Nat, NEW b \in BOOLEAN, NEW n \in Nat
    PROVE  [seen |-> S, busy |-> b, newest |-> n] \in Start
  BY DEF Start

\* A response adds its value to what the read at hand may return.
LEMMA ResponseStarts ==
    ASSUME TypeInv, HistoryInv, Response
    PROVE  /\ wire' \in Raw /\ arg' = wire' /\ s_snap_raw' = wire' /\ s_snap_valid' = s_snap_valid
           /\ start' \in Start /\ start'.busy = start.busy /\ start'.newest = start.newest
           /\ start'.seen = IF hpc \in Reading THEN start.seen \cup {wire'} ELSE start.seen
<1>1. PICK v \in Raw : /\ StoreField(StoreOrder[1], v) /\ arg' = v /\ wire' = v
                       /\ start' = [start EXCEPT !.seen = IF hpc \in Reading THEN @ \cup {v} ELSE @]
  BY DEF Response
<1> DEFINE S == IF hpc \in Reading THEN start.seen \cup {v} ELSE start.seen
<1>2. start \in Start /\ start.seen \in SUBSET Nat
  BY DEF HistoryInv, Start
<1>3. S \in SUBSET Nat
  BY <1>2, Constants
<1>4. start' = [start EXCEPT !.seen = S]
  BY <1>1
<1> HIDE DEF S
<1>5. start' \in Start /\ start'.busy = start.busy /\ start'.newest = start.newest
          /\ start'.seen = S
  BY <1>2, <1>3, <1>4, SeenGrows, Zenon
<1>6. s_snap_raw' = v /\ s_snap_valid' = s_snap_valid
  BY <1>1, StoresOne DEF TypeInv, Stored
<1> QED
  BY <1>1, <1>5, <1>6 DEF S

\* The sniffer task keeps the history true.
LEMMA HistorySniffer ==
    ASSUME TypeInv, HistoryInv, SnifferTask
    PROVE  HistoryInv'
<1>0. hpc' = hpc /\ out' = out
  BY DEF SnifferTask, CommandCount, CommandFields, Response, SnapValid, UnkTest, UnkFirst,
     UnkAgain, SkipByte, SkipHead, SkipTotal, httpVars, readVars
<1>1. CASE CommandCount
  <2>1. /\ frames' = frames + 1 /\ frames < MaxFrames /\ pc' = "cmdHead"
        /\ published' = Append(published, frames + 1) /\ s_cmd_count' = s_cmd_count + 1
        /\ UNCHANGED <<wire, sightings, resetAt, start>>
    BY <1>1 DEF CommandCount, Begin, snapVars, unkVars, skipVars, httpVars, readVars
  <2>2. frames \in 0..MaxFrames /\ MaxFrames \in Nat
    BY Constants DEF TypeInv, Bounds
  <2>3. published' \in Seq(1..MaxFrames) /\ s_cmd_count' = Len(published')
    BY <2>1, <2>2 DEF HistoryInv
  <2> QED
    BY <1>0, <2>1, <2>2, <2>3, StepNames DEF HistoryInv
<1>2. CASE Response
  <2>1. frames' = frames + 1 /\ UNCHANGED <<published, s_cmd_count, sightings, resetAt>>
    BY <1>2 DEF Response, Begin, cmdVars, unkVars, skipVars
  <2> QED
    BY <1>0, <1>2, <2>1, ResponseStarts DEF HistoryInv, TypeInv, Bounds
<1>3. CASE SkipByte
  <2>1. frames' = frames + 1 /\ pc' = "skipHead" /\ UNCHANGED <<published, s_cmd_count, wire,
            sightings, resetAt, start>>
    BY <1>3 DEF SkipByte, Begin, cmdVars, snapVars, unkVars, httpVars, readVars
  <2> QED
    BY <1>0, <2>1, StepNames DEF HistoryInv, TypeInv, Bounds, BeforeTotal
<1>4. CASE CommandFields \/ SnapValid \/ UnkTest \/ UnkFirst \/ UnkAgain \/ SkipHead \/ SkipTotal
  <2>1. /\ frames' = frames /\ UNCHANGED <<published, s_cmd_count, wire, resetAt, start>>
        /\ sightings' \in {sightings, sightings + 1}
        /\ pc' \in ResponseSteps => pc \in ResponseSteps /\ arg' = arg
    BY <1>4, StepNames DEF CommandFields, SnapValid, UnkTest, UnkFirst, UnkAgain, SkipHead,
           SkipTotal, Step,
       AfterFirst, cmdVars, snapVars, unkVars, skipVars, httpVars, readVars, BeforeTotal
  <2> QED
    BY <1>0, <2>1 DEF HistoryInv
<1> QED
  BY <1>1, <1>2, <1>3, <1>4 DEF SnifferTask

\* The httpd task keeps the history true.
LEMMA HistoryHttpd ==
    ASSUME TypeInv, HistoryInv, HttpdTask
    PROVE  HistoryInv'
<1>0. hpc' \notin Answering => out' = <<>>
  <2>1. CASE ClearSnapshot \/ ClearUnknown \/ ResetStats
    BY <2>1 DEF ClearSnapshot, ClearUnknown, ResetStats, Go, Answering, readVars, HistoryInv
  <2>2. CASE ReadRegister \/ ReadUnknown \/ ReadCommands \/ ReadSkipped
    BY <2>2 DEF ReadRegister, ReadUnknown, ReadCommands, ReadSkipped, Go, Respond, Answering,
           readVars, HistoryInv
  <2> QED
    BY <2>1, <2>2 DEF HttpdTask
<1>1. CASE ClearSnapshot \/ ClearUnknown \/ ResetStats
  <2>1. /\ UNCHANGED <<pc, arg, frames, wire, start>>
        /\ UNCHANGED <<published, s_cmd_count>> \/ (published' = <<>> /\ s_cmd_count' = 0)
        /\ sightings' \in {sightings, 0} /\ resetAt' \in {resetAt, frames}
    BY <1>1 DEF ClearSnapshot, ClearUnknown, ResetStats, cmdVars, snapVars, unkVars, skipVars,
           taskVars, readVars
  <2>2. published' \in Seq(1..MaxFrames) /\ s_cmd_count' = Len(published')
    <3>1. CASE published' = <<>> /\ s_cmd_count' = 0
      BY <3>1
    <3>2. CASE UNCHANGED <<published, s_cmd_count>>
      BY <3>2 DEF HistoryInv
    <3> QED
      BY <2>1, <3>1, <3>2
  <2>3. sightings' \in Nat /\ resetAt' \in 0..frames
    BY <2>1 DEF HistoryInv, TypeInv, Bounds
  <2> QED
    BY <1>0, <2>1, <2>2, <2>3 DEF HistoryInv
<1>2. CASE ReadRegister \/ ReadUnknown \/ ReadCommands \/ ReadSkipped
  <2>1. UNCHANGED <<pc, arg, frames, wire, published, s_cmd_count, sightings, resetAt>>
    BY <1>2 DEF ReadRegister, ReadUnknown, ReadCommands, ReadSkipped, tableVars, cmdVars,
           snapVars, unkVars, skipVars,
                taskVars
  <2>2. start' \in Start
    <3>1. /\ {wire} \in SUBSET Nat /\ {} \in SUBSET Nat /\ Len(published) \in Nat /\ 0 \in Nat
          /\ sightings \in Nat /\ (IF pc = "skipHead" THEN frames - 1 ELSE frames) \in Nat
          /\ (pc \in Writing.unknown) \in BOOLEAN /\ (pc \in CommandSteps) \in BOOLEAN
      BY Constants DEF HistoryInv, TypeInv, Bounds
    <3>2. \/ start' = start
          \/ start' = [seen |-> {wire}, busy |-> FALSE, newest |-> 0]
          \/ start' = [seen |-> {}, busy |-> FALSE, newest |-> 0]
          \/ start' = [seen |-> {}, busy |-> pc \in Writing.unknown, newest |-> sightings]
          \/ start' = [seen |-> {}, busy |-> pc \in CommandSteps, newest |-> Len(published)]
          \/ start' = [seen |-> {}, busy |-> FALSE, newest |-> IF pc = "skipHead" THEN frames - 1
                 ELSE frames]
      BY <1>2, Zenon DEF ReadRegister, ReadUnknown, ReadCommands, ReadSkipped, StartRead, Respond,
             readVars
    <3> QED
      BY <3>1, <3>2, StartTyped, Zenon DEF HistoryInv
  <2> QED
    BY <1>0, <2>1, <2>2 DEF HistoryInv
<1> QED
  BY <1>1, <1>2 DEF HttpdTask

\* The history is true of every state.
LEMMA HistoryInvariant == Spec => []HistoryInv
<1>1. Init => HistoryInv
  <2>1. Init => start \in Start
    BY DEF Init, Start
  <2> QED
    BY <2>1, StepNames DEF Init, HistoryInv
<1>2. TypeInv /\ HistoryInv /\ [Next]_vars => HistoryInv'
  <2>1. UNCHANGED vars => UNCHANGED <<published, s_cmd_count, wire, pc, arg, sightings, resetAt,
            frames, start, hpc, out>>
    BY DEF vars, cmdVars, snapVars, unkVars, skipVars, taskVars, httpVars, readVars
  <2>2. HistoryInv /\ UNCHANGED vars => HistoryInv'
    BY <2>1 DEF HistoryInv
  <2> QED
    BY <2>2, HistorySniffer, HistoryHttpd DEF Next
<1> QED
  BY <1>1, <1>2, TypeInvariant, PTL DEF Spec

-----------------------------------------------------------------------------
(***************************************************************************)
(* The snapshot                                                            *)
(***************************************************************************)
\* A filled entry, or one about to be marked as filled, is the value on the
\* wire; a clear that met no update has not left one behind.
SnapInv ==
    /\ "snapshot" \notin torn =>
         IF hpc = "clrSnapValid" THEN pc # "snapValid"
         ELSE s_snap_valid = TRUE \/ pc = "snapValid" => s_snap_raw = wire
    /\ hpc = "gotRegister" =>
         /\ s_snap_valid = TRUE /\ wire \in start.seen
         /\ out # <<>> /\ "snapshot" \notin torn => out[1] \in start.seen

\* A table that was torn before is torn after an update.
LEMMA TornStays ==
    ASSUME NEW t \in Tables, Update(t) \/ Clear(t) \/ UNCHANGED torn
    PROVE  torn \subseteq torn'
  BY DEF Update, Clear

\* Updates and clears that do not meet.
LEMMA Meeting ==
    ASSUME NEW t \in Tables
    PROVE  /\ Update(t) => (t \notin torn' => hpc \notin Clearing[t])
           /\ Clear(t) \/ BeginClear(t) => (t \notin torn' => pc \notin Writing[t])
           /\ BeginClear(t) => \A u \in Tables \ {t} : u \in torn' <=> u \in torn
  BY DEF Update, Clear, BeginClear

\* Updates keep the snapshot entry true.
LEMMA SnapSniffer ==
    ASSUME TypeInv, HistoryInv, SnapInv, SnifferTask
    PROVE  SnapInv'
<1>0. torn \subseteq torn' /\ hpc' = hpc /\ out' = out
  BY TornStays, StepNames DEF SnifferTask, CommandCount, CommandFields, Response, SnapValid,
         UnkTest, UnkFirst,
     UnkAgain, SkipByte, SkipHead, SkipTotal, httpVars, readVars
<1>1. CASE Response
  <2>1. /\ wire' \in Raw /\ arg' = wire' /\ s_snap_raw' = wire' /\ s_snap_valid' = s_snap_valid
        /\ start'.seen = IF hpc \in Reading THEN start.seen \cup {wire'} ELSE start.seen
    BY <1>1, ResponseStarts
  <2>2. "snapshot" \notin torn' => hpc # "clrSnapValid"
    BY <1>1, Meeting, StepNames DEF Response
  <2> QED
    BY <1>0, <2>1, <2>2 DEF SnapInv, Reading
<1>2. CASE SnapValid
  <2>1. pc = "snapValid" /\ pc' = "unkTest" /\ UNCHANGED <<wire, start>>
        /\ s_snap_raw' = s_snap_raw /\ s_snap_valid' = TRUE
    BY <1>2, StoresOne DEF SnapValid, Step, TypeInv, Stored, httpVars, readVars
  <2>2. "snapshot" \notin torn' => hpc # "clrSnapValid"
    BY <1>2, Meeting, StepNames DEF SnapValid
  <2> QED
    BY <1>0, <2>1, <2>2 DEF SnapInv
<1>3. CASE ~Response /\ ~SnapValid
  <2>1. UNCHANGED <<s_snap_raw, s_snap_valid, wire, start>> /\ pc' # "snapValid"
    BY <1>3 DEF SnifferTask, CommandCount, CommandFields, UnkTest, UnkFirst,
       UnkAgain, SkipByte, SkipHead, SkipTotal, Step, AfterFirst, httpVars, readVars, snapVars
  <2> QED
    BY <1>0, <2>1 DEF SnapInv
<1> QED
  BY <1>1, <1>2, <1>3

\* Clears and reads keep the snapshot entry true.
LEMMA SnapHttpd ==
    ASSUME TypeInv, HistoryInv, SnapInv, HttpdTask
    PROVE  SnapInv'
<1>1. CASE ClearSnapshot
  <2>1. /\ pc' = pc /\ wire' = wire
        /\ \/ hpc = "idle" /\ hpc' = "clrSnapValid" /\ BeginClear("snapshot")
           \/ hpc = "clrSnapValid" /\ hpc' = "clrCommands" /\ Clear("snapshot")
              /\ s_snap_valid' = FALSE
           \/ hpc = "clrCommands" /\ hpc' = "idle" /\ torn' = torn
                  /\ UNCHANGED <<s_snap_raw, s_snap_valid>>
    BY <1>1 DEF ClearSnapshot, Go, taskVars
  <2>2. BeginClear("snapshot") \/ Clear("snapshot") => ("snapshot" \notin torn' => pc # "snapValid")
    BY Meeting, StepNames
  <2> QED
    BY <2>1, <2>2 DEF SnapInv
<1>2. CASE ClearUnknown \/ ResetStats
  <2>1. UNCHANGED <<pc, wire, s_snap_raw, s_snap_valid>> /\ hpc # "clrSnapValid"
            /\ hpc' # "clrSnapValid"
        /\ hpc' # "gotRegister"
    BY <1>2 DEF ClearUnknown, ResetStats, Go, taskVars, snapVars
  <2>2. "snapshot" \in torn => "snapshot" \in torn'
    BY <1>2, Meeting, TornStays, StepNames DEF ClearUnknown, ResetStats
  <2> QED
    BY <2>1, <2>2 DEF SnapInv
<1>3. CASE ReadRegister
  <2>1. UNCHANGED <<pc, wire, s_snap_raw, s_snap_valid, torn>>
    BY <1>3 DEF ReadRegister, tableVars, snapVars, taskVars
  <2>2. \/ hpc = "idle" /\ hpc' = "gotRegister" /\ s_snap_valid = TRUE /\ out' = <<>>
           /\ start' = [seen |-> {wire}, busy |-> FALSE, newest |-> 0]
        \/ hpc = "gotRegister" /\ hpc' = "gotRegister" /\ out' = <<s_snap_raw>> /\ start' = start
        \/ hpc = "gotRegister" /\ hpc' = "idle"
    BY <1>3 DEF ReadRegister, Go, StartRead, Respond, TypeInv, Stored, HistoryInv, Answering
  <2> QED
    BY <2>1, <2>2 DEF SnapInv
<1>4. CASE ReadUnknown \/ ReadCommands \/ ReadSkipped
  <2>1. UNCHANGED <<pc, wire, s_snap_raw, s_snap_valid, torn>> /\ hpc # "clrSnapValid"
            /\ hpc' # "clrSnapValid"
        /\ hpc' # "gotRegister"
    BY <1>4 DEF ReadUnknown, ReadCommands, ReadSkipped, Go, Respond, tableVars, snapVars, taskVars
  <2> QED
    BY <2>1 DEF SnapInv
<1> QED
  BY <1>1, <1>2, <1>3, <1>4 DEF HttpdTask

\* The snapshot entry is true unless it was torn.
LEMMA SnapInvariant == Spec => []SnapInv
<1>1. Init => SnapInv
  BY DEF Init, SnapInv
<1>2. TypeInv /\ HistoryInv /\ SnapInv /\ [Next]_vars => SnapInv'
  <2>1. UNCHANGED vars => UNCHANGED <<s_snap_raw, s_snap_valid, wire, pc, hpc, torn, start, out>>
    BY DEF vars, snapVars, taskVars, httpVars, readVars
  <2>2. SnapInv /\ UNCHANGED vars => SnapInv'
    BY <2>1 DEF SnapInv
  <2> QED
    BY <2>2, SnapSniffer, SnapHttpd DEF Next
<1> QED
  BY <1>1, <1>2, TypeInvariant, HistoryInvariant, PTL DEF Spec

\* GET /api/registers without a lock: whatever is received or cleared meanwhile,
\* the answer is a value the register had on the wire during the request.
THEOREM SnapshotIsTrue == Spec => []SnapshotReadTrue
<1>1. SnapInv => SnapshotReadTrue
  BY DEF SnapInv, SnapshotReadTrue
<1> QED
  BY <1>1, SnapInvariant, PTL

-----------------------------------------------------------------------------
(***************************************************************************)
(* The unknown registers                                                   *)
(***************************************************************************)
FirstSteps == {"unkNew", "unkRaw", "unkOne", "unkZero", "unkCount"}
AgainSteps == {"unkSeen", "unkCompare", "unkChange"}

\* The entry between two updates, and at each step of one.
AtRest ==
    \/ s_unk_valid = FALSE /\ s_unk_seen = 0 /\ s_unk_changes = 0 /\ s_unk_count = 0
           /\ sightings = 0
    \/ s_unk_valid = TRUE /\ s_unk_seen = sightings /\ s_unk_changes < s_unk_seen /\ s_unk_count = 1
         /\ (pc \notin ResponseSteps => s_unk_raw = wire)
BeingFilled ==
    /\ sightings = 1 /\ s_unk_count = 0 /\ s_unk_changes = 0
    /\ (pc = "unkNew" => s_unk_valid = FALSE) /\ (pc # "unkNew" => s_unk_valid = TRUE)
    /\ s_unk_seen = IF pc \in {"unkZero", "unkCount"} THEN 1 ELSE 0
    /\ pc \in {"unkOne", "unkZero", "unkCount"} => s_unk_raw = arg
BeingUpdated ==
    /\ s_unk_valid = TRUE /\ s_unk_count = 1 /\ s_unk_seen >= 1
    /\ sightings = s_unk_seen + (IF pc = "unkSeen" THEN 1 ELSE 0)
    /\ s_unk_changes + (IF pc = "unkSeen" THEN 0 ELSE 1) < s_unk_seen
    /\ pc = "unkChange" => s_unk_raw = arg
Entry ==
    /\ pc \notin FirstSteps \cup AgainSteps => AtRest
    /\ pc \in FirstSteps => BeingFilled
    /\ pc \in AgainSteps => BeingUpdated

\* A clear that meets no update empties the entry field by field.
BeingCleared ==
    /\ pc \notin FirstSteps \cup AgainSteps
    /\ hpc # "clrUnkValid" => s_unk_valid = FALSE
    /\ hpc \in {"clrUnkChanges", "clrUnkCount"} => s_unk_seen = 0
    /\ hpc = "clrUnkCount" => s_unk_changes = 0

\* What a request knows of the sightings.
Overlap == IF start.busy THEN 1 ELSE 0
ReadSoFar ==
    /\ hpc \in {"readSeen", "readChanges", "gotUnknown"} => s_unk_valid = TRUE
           /\ sightings >= start.newest
    /\ hpc = "readSeen" /\ pc \in FirstSteps \cup AgainSteps /\ sightings = start.newest
           => start.busy
    /\ hpc = "readChanges" => out \in Seq(Nat) /\ Len(out) = 1 /\ out[1] + Overlap >= start.newest
    /\ hpc = "gotUnknown" =>
         out \in Seq(Nat) /\ Len(out) = 2
             /\ out[2] + 1 <= out[1] + (sightings - start.newest) + Overlap

UnkInv ==
    "unknown" \notin torn =>
        /\ hpc \in Clearing["unknown"] => BeingCleared
        /\ hpc \notin Clearing["unknown"] => Entry /\ ReadSoFar

\* Each sighting leaves room for one change at most.
LEMMA ChangesBelowSightings ==
    ASSUME TypeInv, HistoryInv, Entry, s_unk_valid = TRUE
    PROVE  /\ s_unk_changes + 1 <= sightings
           /\ s_unk_seen + 1 >= sightings
           /\ pc \notin FirstSteps \cup AgainSteps => s_unk_seen = sightings
<1>0. s_unk_seen \in Nat /\ s_unk_changes \in Nat /\ sightings \in Nat
  BY DEF TypeInv, Bounds, HistoryInv
<1>1. CASE pc \in FirstSteps
  BY <1>0, <1>1 DEF Entry, BeingFilled
<1>2. CASE pc \in AgainSteps
  BY <1>0, <1>2 DEF Entry, BeingUpdated
<1>3. CASE pc \notin FirstSteps \cup AgainSteps
  BY <1>0, <1>3 DEF Entry, AtRest
<1> QED
  BY <1>1, <1>2, <1>3

\* The one and two values of an answer about the register.
LEMMA ShortAnswers ==
    ASSUME NEW q \in Seq(Nat), NEW x \in Nat
    PROVE  /\ Len(q) = 2 => q[1] \in Nat /\ q[2] \in Nat
           /\ Len(q) = 1 => /\ q[1] \in Nat /\ Append(q, x) \in Seq(Nat) /\ Len(Append(q, x)) = 2
                           /\ Append(q, x)[1] = q[1] /\ Append(q, x)[2] = x
<1>1. \A i \in 1..Len(q) : q[i] \in Nat
  OBVIOUS
<1>2. Len(q) = 2 => q[1] \in Nat /\ q[2] \in Nat
  <2> SUFFICES ASSUME Len(q) = 2 PROVE q[1] \in Nat /\ q[2] \in Nat
    OBVIOUS
  <2>1. 1 \in 1..Len(q) /\ 2 \in 1..Len(q)
    OBVIOUS
  <2> QED
    BY <1>1, <2>1
<1>3. Len(q) = 1 => q[1] \in Nat
  <2> SUFFICES ASSUME Len(q) = 1 PROVE q[1] \in Nat
    OBVIOUS
  <2>1. 1 \in 1..Len(q)
    OBVIOUS
  <2> QED
    BY <1>1, <2>1
<1>5. Len(q) = 1 => /\ Append(q, x) \in Seq(Nat) /\ Len(Append(q, x)) = 2
                    /\ Append(q, x)[1] = q[1] /\ Append(q, x)[2] = x
  <2>1. /\ Append(q, x) \in Seq(Nat) /\ Len(Append(q, x)) = Len(q) + 1
               /\ Append(q, x)[Len(q) + 1] = x
        /\ \A i \in 1..Len(q) : Append(q, x)[i] = q[i]
    OBVIOUS
  <2> DEFINE a == Append(q, x)
  <2> HIDE DEF a
  <2>2. Len(q) = 1 => a \in Seq(Nat) /\ Len(a) = 2 /\ a[1] = q[1] /\ a[2] = x
    BY <2>1 DEF a
  <2> QED
    BY <2>2 DEF a
<1> QED
  BY <1>2, <1>3, <1>5

\* Updates keep the unknown-register entry true.
LEMMA UnkSniffer ==
    ASSUME TypeInv, HistoryInv, UnkInv, SnifferTask
    PROVE  UnkInv'
<1>0. torn \subseteq torn' /\ hpc' = hpc /\ out' = out
  BY TornStays, StepNames DEF SnifferTask, CommandCount, CommandFields, Response, SnapValid,
         UnkTest, UnkFirst,
     UnkAgain, SkipByte, SkipHead, SkipTotal, httpVars, readVars
<1>1. start'.busy = start.busy /\ start'.newest = start.newest
  <2>1. CASE Response
    BY <2>1, ResponseStarts
  <2>2. CASE ~Response
    BY <2>2 DEF SnifferTask, CommandCount, CommandFields, SnapValid, UnkTest, UnkFirst,
     UnkAgain, SkipByte, SkipHead, SkipTotal, httpVars, readVars
  <2> QED
    BY <2>1, <2>2
<1>2. /\ s_unk_seen \in Nat /\ s_unk_changes \in Nat /\ s_unk_count \in Nat /\ sightings \in Nat
             /\ start.newest \in Nat
      /\ s_unk_valid \in BOOLEAN
  BY DEF TypeInv, Bounds, Stored, HistoryInv, Start
<1> SUFFICES ASSUME "unknown" \notin torn'
             PROVE  /\ hpc \in Clearing["unknown"] => BeingCleared'
                    /\ hpc \notin Clearing["unknown"] => Entry' /\ ReadSoFar'
  BY <1>0 DEF UnkInv
<1>3. "unknown" \notin torn
  BY <1>0
<1>4. CASE UnkTest
  <2>1. /\ pc = "unkTest" /\ pc' = (IF s_unk_valid THEN "unkSeen" ELSE "unkNew")
               /\ sightings' = sightings + 1
        /\ UNCHANGED <<s_unk_valid, s_unk_raw, s_unk_seen, s_unk_changes, s_unk_count, arg>>
        /\ hpc \notin Clearing["unknown"]
    BY <1>4, Meeting, StepNames DEF UnkTest, Step
  <2>2. AtRest /\ ReadSoFar
    BY <1>3, <2>1 DEF UnkInv, Entry, FirstSteps, AgainSteps
  <2>3. Entry'
    <3>1. CASE s_unk_valid = TRUE
      BY <1>2, <2>1, <2>2, <3>1 DEF Entry, AtRest, BeingUpdated, FirstSteps, AgainSteps
    <3>2. CASE s_unk_valid = FALSE
      BY <1>2, <2>1, <2>2, <3>2 DEF Entry, AtRest, BeingFilled, FirstSteps, AgainSteps
    <3> QED
      BY <1>2, <3>1, <3>2
  <2>4. ReadSoFar'
    <3>1. Overlap' = Overlap /\ Overlap \in {0, 1}
      BY <1>1 DEF Overlap
    <3>2. hpc = "gotUnknown" => out[1] \in Nat /\ out[2] \in Nat
      BY <2>2, ShortAnswers DEF ReadSoFar
    <3> QED
      BY <1>0, <1>1, <1>2, <2>1, <2>2, <3>1, <3>2 DEF ReadSoFar
  <2> QED
    BY <2>1, <2>3, <2>4
<1>5. CASE UnkFirst
  <2>1. /\ pc \in FirstSteps /\ UNCHANGED <<sightings, arg>> /\ hpc \notin Clearing["unknown"]
        /\ \/ pc = "unkNew" /\ pc' = "unkRaw" /\ s_unk_valid' = TRUE
              /\ UNCHANGED <<s_unk_raw, s_unk_seen, s_unk_changes, s_unk_count>>
           \/ pc = "unkRaw" /\ pc' = "unkOne" /\ s_unk_raw' = arg
              /\ UNCHANGED <<s_unk_valid, s_unk_seen, s_unk_changes, s_unk_count>>
           \/ pc = "unkOne" /\ pc' = "unkZero" /\ s_unk_seen' = 1
              /\ UNCHANGED <<s_unk_valid, s_unk_raw, s_unk_changes, s_unk_count>>
           \/ pc = "unkZero" /\ pc' = "unkCount" /\ s_unk_changes' = 0
              /\ UNCHANGED <<s_unk_valid, s_unk_raw, s_unk_seen, s_unk_count>>
           \/ pc = "unkCount" /\ pc' = "idle" /\ s_unk_count' = s_unk_count + 1
              /\ UNCHANGED <<s_unk_valid, s_unk_raw, s_unk_seen, s_unk_changes>>
    BY <1>5, Meeting, StepNames DEF UnkFirst, Step, AfterFirst, FirstSteps
  <2>2. BeingFilled /\ ReadSoFar /\ wire' = wire /\ arg = wire
    BY <1>3, <1>5, <2>1, StepNames DEF UnkInv, Entry, UnkFirst, snapVars, HistoryInv, FirstSteps
  <2>3. Entry'
    <3>1. CASE pc # "unkCount"
      BY <1>2, <2>1, <2>2, <3>1 DEF Entry, BeingFilled, FirstSteps, AgainSteps
    <3>2. CASE pc = "unkCount"
      BY <1>2, <2>1, <2>2, <3>2 DEF Entry, BeingFilled, AtRest, FirstSteps, AgainSteps
    <3> QED
      BY <3>1, <3>2
  <2>4. ReadSoFar'
    BY <1>0, <1>1, <1>2, <2>1, <2>2 DEF ReadSoFar, Overlap
  <2> QED
    BY <2>1, <2>3, <2>4
<1>6. CASE UnkAgain
  <2>1. /\ pc \in AgainSteps /\ UNCHANGED <<sightings, arg, s_unk_valid, s_unk_count>>
               /\ hpc \notin Clearing["unknown"]
        /\ \/ pc = "unkSeen" /\ pc' = "unkCompare" /\ s_unk_seen' = s_unk_seen + 1
              /\ UNCHANGED <<s_unk_raw, s_unk_changes>>
           \/ s_unk_raw = arg /\ pc = "unkCompare" /\ pc' = "idle"
              /\ UNCHANGED <<s_unk_raw, s_unk_seen, s_unk_changes>>
           \/ pc = "unkCompare" /\ pc' = "unkChange" /\ s_unk_raw' = arg
              /\ UNCHANGED <<s_unk_seen, s_unk_changes>>
           \/ pc = "unkChange" /\ pc' = "idle" /\ s_unk_changes' = s_unk_changes + 1
              /\ UNCHANGED <<s_unk_raw, s_unk_seen>>
    BY <1>6, Meeting, StepNames DEF UnkAgain, Step, SeenAgain, AgainSteps
  <2>2. BeingUpdated /\ ReadSoFar /\ wire' = wire /\ arg = wire
    BY <1>3, <1>6, <2>1, StepNames DEF UnkInv, Entry, UnkAgain, snapVars, HistoryInv, AgainSteps,
           FirstSteps
  <2>3. Entry'
    <3>1. CASE pc' # "idle"
      BY <1>2, <2>1, <2>2, <3>1 DEF Entry, BeingUpdated, FirstSteps, AgainSteps
    <3>2. CASE pc' = "idle"
      BY <1>2, <2>1, <2>2, <3>2 DEF Entry, BeingUpdated, AtRest, FirstSteps, AgainSteps
    <3> QED
      BY <3>1, <3>2
  <2>4. ReadSoFar'
    BY <1>0, <1>1, <1>2, <2>1, <2>2 DEF ReadSoFar, Overlap
  <2> QED
    BY <2>1, <2>3, <2>4
<1>7. CASE ~UnkTest /\ ~UnkFirst /\ ~UnkAgain
  <2>1. /\ pc \notin FirstSteps \cup AgainSteps /\ pc' \notin FirstSteps \cup AgainSteps
        /\ UNCHANGED <<s_unk_valid, s_unk_raw, s_unk_seen, s_unk_changes, s_unk_count, sightings>>
        /\ (pc' \notin ResponseSteps => pc \notin ResponseSteps /\ wire' = wire)
    BY <1>7, StepNames DEF SnifferTask, CommandCount, CommandFields, Response, SnapValid,
           SkipByte, SkipHead, SkipTotal,
       Begin, Step, unkVars, snapVars, FirstSteps, AgainSteps
  <2>2. BeingCleared => BeingCleared'
    BY <1>0, <2>1 DEF BeingCleared
  <2>3. Entry => Entry'
    BY <2>1 DEF Entry, AtRest
  <2>4. ReadSoFar => ReadSoFar'
    BY <1>0, <1>1, <2>1 DEF ReadSoFar, Overlap
  <2> QED
    BY <1>3, <2>2, <2>3, <2>4 DEF UnkInv
<1> QED
  BY <1>4, <1>5, <1>6, <1>7

\* Clears and reads keep the unknown-register entry true.
LEMMA UnkHttpd ==
    ASSUME TypeInv, HistoryInv, UnkInv, HttpdTask
    PROVE  UnkInv'
<1>0. UNCHANGED <<pc, arg, wire>>
  BY DEF HttpdTask, ClearSnapshot, ClearUnknown, ResetStats, ReadRegister, ReadUnknown,
         ReadCommands, ReadSkipped,
         tableVars, snapVars, taskVars
<1>1. CASE ClearUnknown
  <2>1. "unknown" \notin torn' => pc \notin FirstSteps \cup AgainSteps
    <3>1. BeginClear("unknown") \/ Clear("unknown")
      BY <1>1 DEF ClearUnknown
    <3> QED
      BY <3>1, Meeting, StepNames DEF FirstSteps, AgainSteps
  <2>2. /\ hpc # "idle" => ("unknown" \in torn => "unknown" \in torn')
               /\ hpc \in Clearing["unknown"]
        /\ \/ hpc' = "clrUnkValid"
           \/ hpc = "clrUnkValid" /\ hpc' = "clrUnkSeen" /\ s_unk_valid' = FALSE
           \/ hpc = "clrUnkSeen" /\ hpc' = "clrUnkChanges" /\ s_unk_valid' = s_unk_valid
                  /\ s_unk_seen' = 0
           \/ hpc = "clrUnkChanges" /\ hpc' = "clrUnkCount" /\ UNCHANGED <<s_unk_valid,
                  s_unk_seen>> /\ s_unk_changes' = 0
           \/ hpc = "clrUnkCount" /\ hpc' = "idle" /\ UNCHANGED <<s_unk_valid, s_unk_seen,
                  s_unk_changes>>
              /\ s_unk_count' = 0 /\ sightings' = 0
    BY <1>1, TornStays, StepNames DEF ClearUnknown, Go
  <2>3. hpc = "idle" => hpc' = "clrUnkValid"
    BY <2>2
  <2>4. CASE hpc' # "idle"
    BY <1>0, <2>1, <2>2, <2>3, <2>4, StepNames DEF UnkInv, BeingCleared
  <2>5. CASE hpc' = "idle"
    BY <1>0, <2>1, <2>2, <2>3, <2>5, StepNames DEF UnkInv, BeingCleared, Entry, AtRest, ReadSoFar
  <2> QED
    BY <2>4, <2>5
<1>2. CASE ReadUnknown
  <2>1. /\ torn' = torn
        /\ UNCHANGED <<s_unk_valid, s_unk_raw, s_unk_seen, s_unk_changes, s_unk_count, sightings>>
    BY <1>2 DEF ReadUnknown, tableVars, unkVars
  <2>2. \/ hpc = "idle" /\ hpc' = "readSeen" /\ s_unk_valid = TRUE
           /\ start' = [seen |-> {}, busy |-> pc \in Writing.unknown, newest |-> sightings]
        \/ hpc = "readSeen" /\ hpc' = "readChanges" /\ out' = <<s_unk_seen>> /\ start' = start
        \/ hpc = "readChanges" /\ hpc' = "gotUnknown" /\ out' = Append(out, s_unk_changes)
               /\ start' = start
        \/ hpc = "gotUnknown" /\ hpc' = "idle"
    BY <1>2 DEF ReadUnknown, Go, StartRead, Respond, TypeInv, Stored
  <2>3. /\ s_unk_seen \in Nat /\ s_unk_changes \in Nat /\ s_unk_count \in Nat /\ sightings \in Nat
               /\ start.newest \in Nat
    BY DEF TypeInv, Bounds, HistoryInv, Start
  <2> SUFFICES ASSUME "unknown" \notin torn PROVE Entry' /\ ReadSoFar'
    BY <2>1, <2>2, StepNames DEF UnkInv
  <2>4. Entry /\ ReadSoFar
    BY <2>2, StepNames DEF UnkInv
  <2>5. Entry'
    BY <1>0, <2>1, <2>4 DEF Entry, AtRest, BeingFilled, BeingUpdated
  <2>6. CASE hpc = "idle"
    <3>1. start'.newest = sightings /\ (pc \in Writing["unknown"] => start'.busy)
      <4>1. start' = [seen |-> {}, busy |-> pc \in Writing["unknown"], newest |-> sightings]
        BY <2>2, <2>6
      <4>2. \A b : [seen |-> {}, busy |-> b, newest |-> sightings].busy = b
        OBVIOUS
      <4>3. start'.busy = (pc \in Writing["unknown"])
        BY <4>1, <4>2, Zenon
      <4>4. start'.newest = sightings
        BY <4>1, Zenon
      <4> QED
        BY <4>3, <4>4, Zenon
    <3> QED
      BY <1>0, <2>1, <2>2, <2>3, <2>5, <2>6, <3>1, StepNames DEF ReadSoFar, FirstSteps, AgainSteps
  <2>7. CASE hpc = "readSeen"
    <3>1. s_unk_seen + Overlap >= start.newest
      <4>1. s_unk_valid = TRUE /\ sightings >= start.newest
            /\ (pc \in FirstSteps \cup AgainSteps /\ sightings = start.newest => start.busy)
        BY <2>4, <2>7 DEF ReadSoFar
      <4>2. s_unk_seen + 1 >= sightings /\ (pc \notin FirstSteps \cup AgainSteps
                => s_unk_seen = sightings)
        BY <2>4, <4>1, ChangesBelowSightings
      <4> QED
        BY <2>3, <4>1, <4>2 DEF Overlap
    <3>0. <<s_unk_seen>> \in Seq(Nat) /\ Len(<<s_unk_seen>>) = 1 /\ <<s_unk_seen>>[1] = s_unk_seen
      BY <2>3
    <3>2. hpc' = "readChanges" /\ out' \in Seq(Nat) /\ Len(out') = 1 /\ out'[1] = s_unk_seen
              /\ Overlap' = Overlap /\ start' = start
      BY <2>2, <2>7, <3>0 DEF Overlap
    <3> QED
      BY <2>1, <2>3, <2>4, <2>5, <2>7, <3>1, <3>2 DEF ReadSoFar
  <2>8. CASE hpc = "readChanges"
    <3>1. s_unk_changes + 1 <= sightings
      BY <2>4, <2>8, ChangesBelowSightings DEF ReadSoFar
    <3>2. Len(out) = 1 /\ out \in Seq(Nat) /\ out[1] + Overlap >= start.newest /\ Overlap \in {0, 1}
      BY <2>4, <2>8 DEF ReadSoFar, Overlap
    <3>3. /\ hpc' = "gotUnknown" /\ Overlap' = Overlap /\ start' = start
          /\ out' \in Seq(Nat) /\ Len(out') = 2 /\ out'[1] = out[1] /\ out'[2] = s_unk_changes
      BY <2>2, <2>3, <2>8, <3>2, ShortAnswers DEF Overlap
    <3> QED
      BY <2>1, <2>3, <2>4, <2>5, <2>8, <3>1, <3>2, <3>3, ShortAnswers DEF ReadSoFar
  <2>9. CASE hpc = "gotUnknown"
    BY <2>2, <2>5, <2>9 DEF ReadSoFar
  <2> QED
    BY <2>2, <2>6, <2>7, <2>8, <2>9
<1>3. CASE ClearSnapshot \/ ResetStats \/ ReadRegister \/ ReadCommands \/ ReadSkipped
  <2>1. /\ UNCHANGED <<s_unk_valid, s_unk_raw, s_unk_seen, s_unk_changes, s_unk_count, sightings>>
        /\ hpc \notin Clearing["unknown"] /\ hpc' \notin Clearing["unknown"]
        /\ hpc' \notin {"readSeen", "readChanges", "gotUnknown"}
    BY <1>3, StepNames DEF ClearSnapshot, ResetStats, ReadRegister, ReadCommands, ReadSkipped, Go,
           Respond, tableVars, unkVars
  <2>2. "unknown" \in torn => "unknown" \in torn'
    BY <1>3, Meeting, TornStays, StepNames DEF ClearSnapshot, ResetStats, ReadRegister,
           ReadCommands, ReadSkipped
  <2>3. Entry => Entry'
    BY <1>0, <2>1 DEF Entry, AtRest, BeingFilled, BeingUpdated
  <2> QED
    BY <2>1, <2>2, <2>3 DEF UnkInv, ReadSoFar
<1> QED
  BY <1>1, <1>2, <1>3 DEF HttpdTask

\* The unknown-register entry adds up unless it was torn.
LEMMA UnkInvariant == Spec => []UnkInv
<1>1. Init => UnkInv
  BY StepNames DEF Init, UnkInv, Entry, AtRest, ReadSoFar, FirstSteps, AgainSteps
<1>2. TypeInv /\ HistoryInv /\ UnkInv /\ [Next]_vars => UnkInv'
  <2>1. UNCHANGED vars => UNCHANGED <<s_unk_valid, s_unk_raw, s_unk_seen, s_unk_changes,
            s_unk_count, sightings,
                                      pc, arg, hpc, torn, start, out, wire>>
    BY DEF vars, snapVars, unkVars, taskVars, httpVars, readVars
  <2>2. UnkInv /\ UNCHANGED vars => UnkInv'
    BY <2>1 DEF UnkInv, BeingCleared, Entry, AtRest, BeingFilled, BeingUpdated, ReadSoFar, Overlap
  <2> QED
    BY <2>2, UnkSniffer, UnkHttpd DEF Next
<1> QED
  BY <1>1, <1>2, TypeInvariant, HistoryInvariant, PTL DEF Spec

\* The unknown-register table agrees with the wire between two updates, and
\* GET /api/unknown, which reads "seen" and "changes" one after the other
\* without a lock, finds them apart by no more than the sightings that overlap
\* the request, however many there are.
THEOREM UnknownTableAddsUp == Spec => []UnknownAddsUp
<1>1. TypeInv /\ HistoryInv /\ UnkInv => UnknownConsistent
  <2> SUFFICES ASSUME TypeInv, HistoryInv, UnkInv, pc \notin ResponseSteps,
                          hpc \notin Clearing.unknown,
                      "unknown" \notin torn
               PROVE  /\ s_unk_valid <=> sightings > 0
                      /\ s_unk_seen = sightings
                      /\ s_unk_valid => s_unk_changes < s_unk_seen /\ s_unk_raw = wire
                      /\ s_unk_count = IF s_unk_valid THEN 1 ELSE 0
    BY DEF UnknownConsistent
  <2>1. AtRest
    BY StepNames DEF UnkInv, Entry, FirstSteps, AgainSteps
  <2>2. s_unk_seen \in Nat /\ s_unk_changes \in Nat /\ sightings \in Nat
    BY DEF TypeInv, Bounds, HistoryInv
  <2>3. CASE s_unk_valid = TRUE
    BY <2>1, <2>2, <2>3 DEF AtRest
  <2>4. CASE s_unk_valid = FALSE
    BY <2>1, <2>2, <2>4 DEF AtRest
  <2> QED
    BY <2>3, <2>4 DEF TypeInv, Stored
<1>2. UnkInv => UnknownReadBounded
  BY StepNames DEF UnkInv, ReadSoFar, Overlap, UnknownReadBounded
<1> QED
  BY <1>1, <1>2, TypeInvariant, HistoryInvariant, UnkInvariant, PTL DEF UnknownAddsUp

-----------------------------------------------------------------------------
(***************************************************************************)
(* The command ring                                                        *)
(***************************************************************************)
\* The slot of command k, counted from 1 since the last clear.
SlotOf(k) == s_cmd_ring[CommandSlot(k - 1)]
Writes(k) == pc \in CommandSteps /\ k = Len(published)

\* The latest commands are in their slots, but for one being written.
RingHolds ==
    /\ \A k \in 1..Len(published) :
         k > Len(published) - CommandRingSz /\ ~Writes(k)
           => SlotOf(k).whole = TRUE /\ SlotOf(k).id = published[k]
    /\ pc \in CommandSteps /\ Len(published) > 0 =>
         /\ arg = CommandSlot(Len(published) - 1) /\ published[Len(published)] = frames
         /\ pc = "cmdBody" => s_cmd_ring[arg].id = frames

\* What GET /api/commands has copied so far: what it promises, or the last
\* entry while it is written, or an entry overwritten since.
Copied(i) ==
    \/ out[i].whole = TRUE
         /\ out[i].id = published[start.newest - Have(total, CommandRingSz) + i]
    \/ i = Have(total, CommandRingSz) /\ start.busy = TRUE
    \/ i <= Len(published) - start.newest
ReadingCommands ==
    hpc \in {"readSlots", "gotCommands"} =>
        /\ total = start.newest /\ start.newest <= Len(published)
        /\ pc \in CommandSteps /\ Len(published) = start.newest => start.busy = TRUE
        /\ out \in Seq(Slot) /\ Len(out) <= Have(total, CommandRingSz)
        /\ hpc = "gotCommands" => Len(out) = Have(total, CommandRingSz)
        /\ \A i \in 1..Len(out) : Copied(i)

CmdInv == RingHolds /\ ReadingCommands

\* What the proofs about commands need of the types.
LEMMA CmdTypes ==
    ASSUME TypeInv, HistoryInv
    PROVE  /\ CommandRingSz \in Nat \ {0} /\ MaxFrames \in Nat /\ frames \in Nat
                  /\ Len(published) \in Nat
           /\ published \in Seq(1..MaxFrames) /\ s_cmd_count = Len(published)
                  /\ start.newest \in Nat
           /\ s_cmd_ring \in [0..(CommandRingSz - 1) -> Slot]
           /\ pc \in CommandSteps => arg \in 0..(CommandRingSz - 1)
  BY Constants DEF TypeInv, Bounds, Stored, Argument, HistoryInv, Start

\* record_command counts a command: its slot is the oldest one's.
LEMMA CountHolds ==
    ASSUME TypeInv, HistoryInv, CmdInv, CommandCount
    PROVE  CmdInv'
<1>1. /\ pc = "idle" /\ pc' = "cmdHead" /\ frames' = frames + 1 /\ arg' = CommandSlot(s_cmd_count)
      /\ published' = Append(published, frames') /\ UNCHANGED <<s_cmd_ring, hpc, total, out, start>>
  BY DEF CommandCount, Begin, CommandIndex, httpVars, readVars
<1> DEFINE L == Len(published)
<1>2. L \in Nat /\ published \in Seq(1..MaxFrames) /\ frames' \in 1..MaxFrames /\ L = s_cmd_count
          /\ CommandRingSz \in Nat
      /\ start.newest \in Nat
  BY CmdTypes, <1>1 DEF TypeInv, Bounds, CommandCount, Begin
<1>3. Len(published') = L + 1 /\ published'[L + 1] = frames'
          /\ \A k \in 1..L : published'[k] = published[k]
  BY <1>1, <1>2
<1> HIDE DEF L
<1>4. pc \notin CommandSteps /\ pc' \in CommandSteps
  BY <1>1, StepNames
<1>5. RingHolds'
  <2>1. ASSUME NEW k \in 1..(L + 1), k > L + 1 - CommandRingSz, k # L + 1
        PROVE  SlotOf(k)'.whole = TRUE /\ SlotOf(k)'.id = published'[k]
    <3>1. k \in 1..L /\ k > L - CommandRingSz
      BY <1>2, <2>1
    <3>2. SlotOf(k).whole = TRUE /\ SlotOf(k).id = published[k]
      BY <1>4, <3>1 DEF CmdInv, RingHolds, Writes, L
    <3>3. SlotOf(k)' = SlotOf(k)
      BY <1>1 DEF SlotOf
    <3> QED
      BY <1>3, <3>1, <3>2, <3>3
  <2>2. arg' = CommandSlot(Len(published') - 1)
    BY <1>1, <1>2, <1>3
  <2>3. ASSUME NEW k \in 1..Len(published'), k > Len(published') - CommandRingSz, ~Writes(k)'
        PROVE  SlotOf(k)'.whole = TRUE /\ SlotOf(k)'.id = published'[k]
    <3>1. k \in 1..(L + 1) /\ k > L + 1 - CommandRingSz
      BY <1>2, <1>3, <2>3
    <3>2. k # L + 1
      BY <1>3, <1>4, <2>3 DEF Writes
    <3> QED
      BY <2>1, <3>1, <3>2
  <2> QED
    BY <1>1, <1>3, <2>2, <2>3 DEF RingHolds
<1>6. ReadingCommands'
  <2> SUFFICES ASSUME hpc \in {"readSlots", "gotCommands"} PROVE ReadingCommands'
    BY <1>1 DEF ReadingCommands
  <2>1. /\ total = start.newest /\ start.newest <= L /\ out \in Seq(Slot)
               /\ Len(out) <= Have(total, CommandRingSz)
        /\ hpc = "gotCommands" => Len(out) = Have(total, CommandRingSz)
        /\ \A i \in 1..Len(out) : Copied(i)
    BY DEF CmdInv, ReadingCommands, L
  <2>2. ASSUME NEW i \in 1..Len(out)
        PROVE  Copied(i)'
    <3>2. Have(total, CommandRingSz)' = Have(total, CommandRingSz)
              /\ Have(total, CommandRingSz) \in 0..total
      BY <1>1, <1>2, <2>1 DEF Have
    <3>1. Copied(i) /\ i <= Have(total, CommandRingSz) /\ i \in Nat
      BY <1>2, <2>1, <3>2
    <3>3. CASE i <= L - start.newest
      <4>1. i <= (L + 1) - start.newest
        BY <1>2, <3>1, <3>3
      <4> QED
        BY <1>1, <1>3, <4>1 DEF Copied
    <3>4. CASE i = Have(total, CommandRingSz) /\ start.busy = TRUE
      BY <1>1, <3>2, <3>4 DEF Copied
    <3>5. CASE out[i].whole = TRUE /\ out[i].id = published[start.newest - Have(total,
                   CommandRingSz) + i]
      <4>1. start.newest - Have(total, CommandRingSz) + i \in 1..L
        BY <1>2, <2>1, <3>1, <3>2
      <4> QED
        BY <1>1, <1>3, <3>2, <3>5, <4>1 DEF Copied
    <3> QED
      BY <3>1, <3>3, <3>4, <3>5 DEF Copied, L
  <2>3. Have(total, CommandRingSz)' = Have(total, CommandRingSz)
    BY <1>1 DEF Have
  <2>4. start.newest <= L + 1 /\ L + 1 # start.newest
    BY <1>2, <2>1
  <2> QED
    BY <1>1, <1>3, <2>1, <2>2, <2>3, <2>4 DEF ReadingCommands
<1> QED
  BY <1>5, <1>6 DEF CmdInv

\* Writing the fields of the slot at hand disturbs no other one that counts.
LEMMA FieldsHold ==
    ASSUME TypeInv, HistoryInv, CmdInv, CommandFields
    PROVE  CmdInv'
<1>1. /\ \/ pc = "cmdHead" /\ pc' = "cmdBody"
                /\ s_cmd_ring' = [s_cmd_ring EXCEPT ![arg] = [id |-> frames, whole |-> FALSE]]
         \/ pc = "cmdBody" /\ pc' = "idle" /\ s_cmd_ring' = [s_cmd_ring EXCEPT ![arg].whole = TRUE]
      /\ UNCHANGED <<frames, published, arg, hpc, total, out, start>>
  BY DEF CommandFields, Step, httpVars, readVars
<1> DEFINE L == Len(published)
<1>2. /\ L \in Nat /\ CommandRingSz \in Nat \ {0} /\ s_cmd_ring \in [0..(CommandRingSz - 1) -> Slot]
      /\ pc \in CommandSteps /\ arg \in 0..(CommandRingSz - 1)
  BY <1>1, CmdTypes, StepNames
<1>3. /\ \A j \in 0..(CommandRingSz - 1) : j # arg => s_cmd_ring'[j] = s_cmd_ring[j]
      /\ pc = "cmdHead" => s_cmd_ring'[arg].id = frames
      /\ pc = "cmdBody" => s_cmd_ring'[arg].id = s_cmd_ring[arg].id /\ s_cmd_ring'[arg].whole = TRUE
  <2>1. s_cmd_ring[arg] \in Slot /\ DOMAIN s_cmd_ring = 0..(CommandRingSz - 1)
    BY <1>2
  <2> QED
    BY <1>1, <1>2, <2>1 DEF Slot
<1> HIDE DEF L
<1>4. RingHolds'
  <2>1. ASSUME NEW k \in 1..L, k > L - CommandRingSz, k # L
        PROVE  SlotOf(k)'.whole = TRUE /\ SlotOf(k)'.id = published[k]
    <3>1. SlotOf(k).whole = TRUE /\ SlotOf(k).id = published[k]
      BY <2>1 DEF CmdInv, RingHolds, Writes, L
    <3>2. k - 1 \in Nat /\ L - 1 \in Nat /\ k - 1 < L - 1 /\ (L - 1) - (k - 1) < CommandRingSz
      BY <1>2, <2>1
    <3>3. CommandSlot(k - 1) # CommandSlot(L - 1) /\ CommandSlot(k - 1) \in 0..(CommandRingSz - 1)
      <4> DEFINE a == k - 1  b == L - 1
      <4>1. a \in Nat /\ a \in Int /\ b \in Nat /\ a < b /\ b - a < CommandRingSz
        BY <3>2
      <4> HIDE DEF a, b
      <4>2. a % CommandRingSz # b % CommandRingSz /\ a % CommandRingSz \in 0..(CommandRingSz - 1)
        BY <1>2, <4>1, ModDiffers, ModRange
      <4> QED
        BY <4>2 DEF CommandSlot, a, b
    <3>4. arg = CommandSlot(L - 1)
      BY <1>2, <2>1 DEF CmdInv, RingHolds, L
    <3> QED
      BY <1>3, <3>1, <3>3, <3>4 DEF SlotOf
  <2>2. pc' = "idle" /\ L > 0 => SlotOf(L)'.whole = TRUE /\ SlotOf(L)'.id = published[L]
    BY <1>1, <1>2, <1>3 DEF CmdInv, RingHolds, SlotOf, L
  <2>3. pc' = "cmdBody" /\ L > 0 => arg = CommandSlot(L - 1) /\ published[L] = frames
            /\ s_cmd_ring'[arg].id = frames
    BY <1>1, <1>2, <1>3 DEF CmdInv, RingHolds, L
  <2>4. pc' = "idle" => pc' \notin CommandSteps
    BY StepNames
  <2>5. L' = L /\ published' = published /\ arg' = arg /\ frames' = frames
    BY <1>1 DEF L
  <2> QED
    BY <1>1, <1>2, <2>1, <2>2, <2>3, <2>4, <2>5, StepNames DEF RingHolds, Writes, L
<1>5. ReadingCommands'
  BY <1>1, <1>2 DEF CmdInv, ReadingCommands, Copied, Have
<1> QED
  BY <1>4, <1>5 DEF CmdInv

\* record_command keeps the ring and the reader's copy true.
LEMMA CmdSniffer ==
    ASSUME TypeInv, HistoryInv, CmdInv, SnifferTask
    PROVE  CmdInv'
<1>1. CASE ~CommandCount /\ ~CommandFields
  <2>1. /\ pc \notin CommandSteps /\ pc' \notin CommandSteps
        /\ UNCHANGED <<s_cmd_ring, published, hpc, total, out>>
    BY <1>1, StepNames DEF SnifferTask, Response, SnapValid, UnkTest, UnkFirst, UnkAgain,
           SkipByte, SkipHead,
       SkipTotal, Begin, Step, AfterFirst, cmdVars, httpVars, readVars
  <2>2. start'.busy = start.busy /\ start'.newest = start.newest
    <3>1. CASE Response
      BY <3>1, ResponseStarts
    <3>2. CASE ~Response
      BY <1>1, <3>2 DEF SnifferTask, SnapValid, UnkTest, UnkFirst, UnkAgain, SkipByte, SkipHead,
             SkipTotal,
         httpVars, readVars
    <3> QED
      BY <3>1, <3>2
  <2>3. RingHolds'
    BY <2>1 DEF CmdInv, RingHolds, Writes, SlotOf
  <2>4. ReadingCommands'
    BY <2>1, <2>2 DEF CmdInv, ReadingCommands, Copied, Have
  <2> QED
    BY <2>3, <2>4 DEF CmdInv
<1> QED
  BY <1>1, CountHolds, FieldsHold

\* The entry that the reader copies next.
LEMMA CopiesNext ==
    ASSUME TypeInv, HistoryInv, CmdInv, hpc = "readSlots", Len(out) < Have(total, CommandRingSz),
           NEW x, x = s_cmd_ring[CommandSlot(total - Have(total, CommandRingSz) + Len(out))]
    PROVE  /\ x \in Slot
           /\ \/ x.whole = TRUE /\ x.id = published[total - Have(total,
                     CommandRingSz) + (Len(out) + 1)]
              \/ Len(out) + 1 = Have(total, CommandRingSz) /\ start.busy = TRUE
              \/ Len(out) + 1 <= Len(published) - total
<1> DEFINE H == Have(total, CommandRingSz)
           L == Len(published)
           k == total - H + (Len(out) + 1)
<1>1. /\ total = start.newest /\ total <= L /\ total \in Nat /\ L \in Nat /\ Len(out) \in Nat
      /\ pc \in CommandSteps /\ L = total => start.busy = TRUE
      /\ CommandRingSz \in Nat \ {0} /\ s_cmd_ring \in [0..(CommandRingSz - 1) -> Slot]
  BY CmdTypes DEF CmdInv, ReadingCommands
<1>2. H \in Nat /\ H <= total /\ H <= CommandRingSz /\ Len(out) < H
  BY <1>1 DEF Have
<1>3. k \in 1..L /\ k - 1 \in Int /\ k - 1 = total - H + Len(out)
  BY <1>1, <1>2
<1>4. x = SlotOf(k)
  BY <1>3 DEF SlotOf
<1> HIDE DEF H, L
<1>5. x \in Slot
  <2> HIDE DEF k
  <2>1. CommandSlot(k - 1) \in 0..(CommandRingSz - 1)
    BY <1>1, <1>3, ModRange DEF CommandSlot
  <2> QED
    BY <1>1, <1>4, <2>1 DEF SlotOf
<1>6. CASE k <= L - CommandRingSz
  BY <1>1, <1>2, <1>5, <1>6 DEF H, L
<1>7. CASE k > L - CommandRingSz /\ Writes(k)
  <2>1. k = L /\ pc \in CommandSteps
    BY <1>7 DEF Writes, L
  <2>2. L = total /\ Len(out) + 1 = H
    BY <1>1, <1>2, <2>1
  <2> QED
    BY <1>1, <1>5, <2>1, <2>2 DEF H
<1>8. CASE k > L - CommandRingSz /\ ~Writes(k)
  <2>1. SlotOf(k).whole = TRUE /\ SlotOf(k).id = published[k]
    BY <1>3, <1>8 DEF CmdInv, RingHolds, L
  <2> QED
    BY <1>4, <1>5, <2>1 DEF H
<1>9. k <= L - CommandRingSz \/ k > L - CommandRingSz
  BY <1>1, <1>3
<1> QED
  BY <1>6, <1>7, <1>8, <1>9

\* A request that copies the command ring.
LEMMA ReadHolds ==
    ASSUME TypeInv, HistoryInv, CmdInv, ReadCommands
    PROVE  CmdInv'
<1>1. UNCHANGED <<s_cmd_ring, published, pc, arg, frames>>
  BY DEF ReadCommands, tableVars, cmdVars, taskVars
<1>2. RingHolds'
  BY <1>1 DEF CmdInv, RingHolds, Writes, SlotOf
<1>3. CASE hpc = "idle"
  <2>1. /\ hpc' = "readSlots" /\ total' = s_cmd_count /\ out' = <<>>
        /\ start' = [seen |-> {}, busy |-> pc \in CommandSteps, newest |-> Len(published)]
    BY <1>3 DEF ReadCommands, Go, StartRead, Respond, HistoryInv, Answering
  <2>2. start'.newest = Len(published) /\ (pc \in CommandSteps => start'.busy = TRUE)
    <3>1. \A b : [seen |-> {}, busy |-> b, newest |-> Len(published)].busy = b
      OBVIOUS
    <3>2. start'.busy = (pc \in CommandSteps)
      BY <2>1, <3>1, Zenon
    <3>3. start'.newest = Len(published)
      BY <2>1, Zenon
    <3> QED
      BY <3>2, <3>3, Zenon
  <2>3. s_cmd_count = Len(published) /\ Len(published) \in Nat /\ CommandRingSz \in Nat
    BY CmdTypes
  <2>4. Have(total, CommandRingSz)' \in Nat
    BY <2>1, <2>3 DEF Have
  <2> QED
    BY <1>1, <1>2, <2>1, <2>2, <2>3, <2>4 DEF CmdInv, ReadingCommands
<1>4. CASE hpc = "readSlots" /\ hpc' = "readSlots"
  <2> DEFINE x == s_cmd_ring[CommandSlot(total - Have(total, CommandRingSz) + Len(out))]
             H == Have(total, CommandRingSz)
  <2>1. out' = Append(out, x) /\ Len(out) < H /\ UNCHANGED <<hpc, total, start>>
    BY <1>4 DEF ReadCommands, Go, Respond
  <2>2. /\ x \in Slot
        /\ \/ x.whole = TRUE /\ x.id = published[total - H + (Len(out) + 1)]
           \/ Len(out) + 1 = H /\ start.busy = TRUE
           \/ Len(out) + 1 <= Len(published) - total
    BY <1>4, <2>1, CopiesNext
  <2>3. /\ total = start.newest /\ total \in Nat /\ H \in Nat /\ out \in Seq(Slot)
        /\ \A i \in 1..Len(out) : Copied(i)
    <3>1. total = start.newest /\ out \in Seq(Slot) /\ \A i \in 1..Len(out) : Copied(i)
      BY <1>4 DEF CmdInv, ReadingCommands
    <3>2. total \in Nat /\ CommandRingSz \in Nat
      BY <3>1, CmdTypes
    <3> QED
      BY <3>1, <3>2 DEF Have
  <2>4. H' = H
    BY <2>1 DEF Have
  <2> HIDE DEF x, H
  <2>5. /\ out' \in Seq(Slot) /\ Len(out') = Len(out) + 1 /\ Len(out) \in Nat
               /\ out'[Len(out) + 1] = x
        /\ \A i \in 1..Len(out) : out'[i] = out[i]
    BY <2>1, <2>2, <2>3
  <2>6. ASSUME NEW i \in 1..(Len(out) + 1)
        PROVE  Copied(i)'
    <3>1. CASE i = Len(out) + 1
      BY <1>1, <2>1, <2>2, <2>3, <2>4, <2>5, <3>1 DEF Copied, H
    <3>2. CASE i # Len(out) + 1
      <4>1. i \in 1..Len(out)
        BY <2>5, <3>2
      <4>2. Copied(i)
        BY <2>3, <4>1
      <4> QED
        BY <1>1, <2>1, <2>4, <2>5, <4>1, <4>2 DEF Copied, H
    <3> QED
      BY <3>1, <3>2
  <2>7. Len(out') <= H
    BY <2>1, <2>3, <2>5
  <2> QED
    BY <1>1, <1>2, <1>4, <2>1, <2>4, <2>5, <2>6, <2>7 DEF CmdInv, ReadingCommands, H
<1>5. CASE hpc' = "gotCommands"
  <2>1. hpc = "readSlots" /\ Len(out) = Have(total, CommandRingSz)
            /\ UNCHANGED <<total, out, start>>
    BY <1>5 DEF ReadCommands, Go, Respond, readVars
  <2> QED
    BY <1>1, <1>2, <2>1 DEF CmdInv, ReadingCommands, Copied, Have
<1>6. CASE hpc' = "idle"
  BY <1>2, <1>6 DEF CmdInv, ReadingCommands
<1> QED
  BY <1>3, <1>4, <1>5, <1>6 DEF ReadCommands, Go, Respond

\* The httpd task keeps the ring and its copy true.
LEMMA CmdHttpd ==
    ASSUME TypeInv, HistoryInv, CmdInv, HttpdTask
    PROVE  CmdInv'
<1>1. CASE ClearSnapshot
  <2>1. /\ hpc' \notin {"readSlots", "gotCommands"} /\ UNCHANGED <<s_cmd_ring, pc, arg, frames>>
        /\ published' = published \/ published' = <<>>
    BY <1>1 DEF ClearSnapshot, Go, taskVars
  <2>2. CASE published' = published
    BY <2>1, <2>2 DEF CmdInv, RingHolds, ReadingCommands, Writes, SlotOf
  <2>3. CASE published' = <<>>
    <3>1. Len(published') = 0
      BY <2>3
    <3> QED
      BY <2>1, <3>1 DEF CmdInv, RingHolds, ReadingCommands
  <2> QED
    BY <2>1, <2>2, <2>3
<1>2. CASE ClearUnknown \/ ResetStats \/ ReadRegister \/ ReadUnknown \/ ReadSkipped
  <2>1. hpc' \notin {"readSlots", "gotCommands"} /\ UNCHANGED <<s_cmd_ring, pc, arg, frames,
            published>>
    BY <1>2 DEF ClearUnknown, ResetStats, ReadRegister, ReadUnknown, ReadSkipped, Go, Respond,
           tableVars, cmdVars,
                taskVars
  <2> QED
    BY <2>1 DEF CmdInv, RingHolds, ReadingCommands, Writes, SlotOf
<1> QED
  BY <1>1, <1>2, ReadHolds DEF HttpdTask

\* The command ring stays true: a clear resets only its count, in one store.
LEMMA CmdInvariant == Spec => []CmdInv
<1>1. Init => CmdInv
  <2>1. Init => Len(published) = 0 /\ pc \notin CommandSteps /\ hpc = "idle"
    BY StepNames DEF Init
  <2> QED
    BY <2>1 DEF CmdInv, RingHolds, ReadingCommands
<1>2. TypeInv /\ HistoryInv /\ CmdInv /\ [Next]_vars => CmdInv'
  <2>1. UNCHANGED vars => UNCHANGED <<s_cmd_ring, published, pc, arg, frames, hpc, total, out,
            start>>
    BY DEF vars, cmdVars, taskVars, httpVars, readVars
  <2>2. CmdInv /\ UNCHANGED vars => CmdInv'
    BY <2>1 DEF CmdInv, RingHolds, ReadingCommands, Copied, Writes, SlotOf, Have
  <2> QED
    BY <2>2, CmdSniffer, CmdHttpd DEF Next
<1> QED
  BY <1>1, <1>2, TypeInvariant, HistoryInvariant, PTL DEF Spec

\* GET /api/commands copies the ring while the sniffer task writes it: for a
\* ring of any size and however many commands arrive meanwhile, each record is
\* the command of its place but for a last one still being written and for as
\* many of the oldest as arrived since.
THEOREM CommandsComeInOrder == Spec => []CommandsInOrder
<1>1. TypeInv /\ HistoryInv /\ CmdInv => CommandsInOrder
  <2> SUFFICES ASSUME TypeInv, HistoryInv, CmdInv, hpc = "gotCommands", NEW i \in 1..Len(out)
               PROVE  \/ out[i].whole /\ out[i].id = published[start.newest - Len(out) + i]
                      \/ i = Len(out) /\ start.busy
                      \/ i <= Len(published) - start.newest
    BY DEF CommandsInOrder
  <2>1. Len(out) = Have(total, CommandRingSz) /\ Copied(i)
    BY DEF CmdInv, ReadingCommands
  <2> QED
    BY <2>1 DEF Copied
<1> QED
  BY <1>1, TypeInvariant, HistoryInvariant, CmdInvariant, PTL

-----------------------------------------------------------------------------
(***************************************************************************)
(* The skipped bytes                                                       *)
(***************************************************************************)
\* Place of the d-th byte before head h, and the d-th latest byte.
Back(h, d) == IF d <= h THEN h - d ELSE h - d + SkippedRingSz
Latest(d) == s_skipped_val[Back(s_skipped_head, d)]

\* Bytes stored behind the head since the last reset.
Counted == IF pc \in {"skipTotal", "skipStore"} THEN s_skipped_total + 1 ELSE s_skipped_total
Kept(d) == d <= Counted /\ d <= SkippedRingSz /\ (pc = "skipHead" => d < SkippedRingSz)

SkippedHolds ==
    /\ pc = "skipStore" => arg = s_skipped_total
    /\ pc = "skipHead" => arg = s_skipped_head /\ s_skipped_val[s_skipped_head] = frames
           /\ resetAt < frames
    /\ \A d \in Nat \ {0} : Kept(d) =>
         /\ Latest(d) > resetAt /\ Latest(d) <= frames
         /\ pc = "skipHead" => Latest(d) < frames
         /\ \A e \in Nat \ {0} : Kept(e) /\ d < e => Latest(d) > Latest(e)

\* What the reader has copied or will find.
Found(i) == IF i <= Len(out) THEN out[i]
            ELSE s_skipped_val[Back(head, Have(total, SkippedRingSz) + 1 - i)]
ReadingSkipped ==
    /\ hpc = "loadHead" => total \in Nat /\ total <= s_skipped_total
    /\ hpc \in {"readSkipped", "gotSkipped"} =>
         /\ total \in Nat /\ head \in 0..(SkippedRingSz - 1) /\ start.newest <= frames
         /\ out \in Seq(Nat) /\ Len(out) <= Have(total, SkippedRingSz)
         /\ hpc = "gotSkipped" => Len(out) = Have(total, SkippedRingSz)
         /\ \A i \in 1..Have(total, SkippedRingSz) :
              /\ Found(i) \in Nat /\ Found(i) > resetAt /\ Found(i) <= frames
              /\ \A j \in 1..Have(total, SkippedRingSz) :
                   i < j => Found(i) < Found(j) \/ Found(i) > start.newest

SkipInv ==
    "skipped" \notin torn =>
        /\ hpc = "clrTotal" => pc \notin BeforeTotal
        /\ hpc # "clrTotal" => SkippedHolds /\ ReadingSkipped

\* What the proofs about skipped bytes need of the types.
LEMMA SkipTypes ==
    ASSUME TypeInv, HistoryInv
    PROVE  /\ SkippedRingSz \in Nat \ {0} /\ MaxFrames \in Nat /\ frames \in Nat
                  /\ start.newest \in Nat
           /\ resetAt \in Nat /\ resetAt <= frames /\ s_skipped_total \in Nat
           /\ s_skipped_val \in [0..(SkippedRingSz - 1) -> 0..MaxFrames]
           /\ s_skipped_head \in 0..(SkippedRingSz - 1)
  BY Constants DEF TypeInv, Bounds, Stored, HistoryInv, Start

\* The ring of skipped bytes seen from its head.
LEMMA BackOf ==
    ASSUME SkippedRingSz \in Nat \ {0}, NEW h \in 0..(SkippedRingSz - 1)
    PROVE  /\ \A d \in 1..SkippedRingSz : Back(h, d) \in 0..(SkippedRingSz - 1)
           /\ \A d \in 1..(SkippedRingSz - 1) : Back(h, d) # h
           /\ NextHead(h) \in 0..(SkippedRingSz - 1) /\ Back(NextHead(h), 1) = h
           /\ \A d \in 2..SkippedRingSz : Back(NextHead(h), d) = Back(h, d - 1)
           /\ \A k \in 1..SkippedRingSz, n \in 0..(SkippedRingSz - 1) :
                n < k => (SkippedStart(h, k) + n) % SkippedRingSz = Back(h, k - n)
<1>1. NextHead(h) = IF h = SkippedRingSz - 1 THEN 0 ELSE h + 1
  <2>1. CASE h = SkippedRingSz - 1
    <3>1. (0 + SkippedRingSz) % SkippedRingSz = 0 /\ h + 1 = 0 + SkippedRingSz
      BY <2>1, ModOf
    <3> QED
      BY <2>1, <3>1 DEF NextHead
  <2>2. CASE h # SkippedRingSz - 1
    <3>1. h + 1 \in 0..(SkippedRingSz - 1)
      BY <2>2
    <3> QED
      BY <2>2, <3>1, ModOf DEF NextHead
  <2> QED
    BY <2>1, <2>2
<1>2. ASSUME NEW k \in 1..SkippedRingSz, NEW n \in 0..(SkippedRingSz - 1), n < k
      PROVE  (SkippedStart(h, k) + n) % SkippedRingSz = Back(h, k - n)
  <2>1. SkippedStart(h, k) = Back(h, k)
    <3>1. CASE k <= h
      <4>1. h - k \in 0..(SkippedRingSz - 1)
        BY <3>1
      <4> QED
        BY <3>1, <4>1, ModOf DEF SkippedStart, Back
    <3>2. CASE k > h
      <4> DEFINE a == h - k + SkippedRingSz
      <4>1. a \in 0..(SkippedRingSz - 1) /\ h - k = a - SkippedRingSz
        BY <3>2
      <4> HIDE DEF a
      <4>2. (a - SkippedRingSz) % SkippedRingSz = a
        BY <4>1, ModOf
      <4>3. SkippedStart(h, k) = a
        BY <4>1, <4>2 DEF SkippedStart
      <4> QED
        BY <3>2, <4>3 DEF Back, a
    <3> QED
      BY <3>1, <3>2
  <2>2. \/ Back(h, k) + n = Back(h, k - n) \/ Back(h, k) + n = Back(h, k - n) + SkippedRingSz
    BY <1>2 DEF Back
  <2>3. Back(h, k - n) \in 0..(SkippedRingSz - 1)
    BY <1>2 DEF Back
  <2> DEFINE b == Back(h, k - n)
  <2> HIDE DEF b
  <2>4. b % SkippedRingSz = b /\ (b + SkippedRingSz) % SkippedRingSz = b
    BY <2>3, ModOf DEF b
  <2> QED
    BY <2>1, <2>2, <2>4 DEF b
<1> QED
  BY <1>1, <1>2 DEF Back

\* record_skipped stores a byte: it takes the place of the oldest, and is newer
\* than all that a reader has found.
LEMMA ByteHolds ==
    ASSUME TypeInv, HistoryInv, "skipped" \notin torn, hpc # "clrTotal", SkippedHolds,
               ReadingSkipped, SkipByte
    PROVE  SkippedHolds' /\ ReadingSkipped'
<1>1. /\ pc = "idle" /\ pc' = "skipHead" /\ frames' = frames + 1 /\ arg' = s_skipped_head
      /\ s_skipped_val' = [s_skipped_val EXCEPT ![s_skipped_head] = frames + 1]
      /\ UNCHANGED <<s_skipped_head, s_skipped_total, resetAt, hpc, total, head, out, start>>
  BY DEF SkipByte, Begin, httpVars, readVars
<1>2. /\ SkippedRingSz \in Nat \ {0} /\ frames \in Nat /\ start.newest \in Nat /\ resetAt \in Nat
             /\ resetAt <= frames
      /\ s_skipped_total \in Nat /\ s_skipped_head \in 0..(SkippedRingSz - 1)
      /\ s_skipped_val \in [0..(SkippedRingSz - 1) -> 0..MaxFrames]
  BY SkipTypes
<1>3. \A p \in 0..(SkippedRingSz - 1) :
        s_skipped_val'[p] = IF p = s_skipped_head THEN frames + 1 ELSE s_skipped_val[p]
  BY <1>1, <1>2
<1>4. SkippedHolds'
  <2>1. Counted' = Counted /\ Counted = s_skipped_total
    BY <1>1 DEF Counted
  <2>2. ASSUME NEW d \in Nat \ {0}, Kept(d)'
        PROVE  Kept(d) /\ Latest(d)' = Latest(d) /\ Latest(d) \in Nat
    <3>1. d \in 1..(SkippedRingSz - 1) /\ d \in 1..SkippedRingSz
      BY <1>1, <1>2, <2>2 DEF Kept
    <3>2. Kept(d)
      BY <1>1, <2>1, <2>2 DEF Kept
    <3>3. Back(s_skipped_head, d) \in 0..(SkippedRingSz - 1)
              /\ Back(s_skipped_head, d) # s_skipped_head
      BY <1>2, <3>1, BackOf
    <3>4. Back(s_skipped_head, d)' = Back(s_skipped_head, d)
      BY <1>1 DEF Back
    <3> QED
      BY <1>2, <1>3, <3>2, <3>3, <3>4 DEF Latest
  <2>3. ASSUME NEW d \in Nat \ {0}, Kept(d)
        PROVE  /\ Latest(d) > resetAt /\ Latest(d) <= frames
               /\ \A e \in Nat \ {0} : Kept(e) /\ d < e => Latest(d) > Latest(e)
    BY <2>3 DEF SkippedHolds
  <2>4. ASSUME NEW d \in Nat \ {0}, Kept(d)'
        PROVE  /\ Latest(d)' > resetAt' /\ Latest(d)' <= frames' /\ Latest(d)' < frames'
               /\ \A e \in Nat \ {0} : Kept(e)' /\ d < e => Latest(d)' > Latest(e)'
    <3>1. Kept(d) /\ Latest(d)' = Latest(d) /\ Latest(d) \in Nat
      BY <2>2, <2>4
    <3>2. Latest(d) > resetAt /\ Latest(d) <= frames
      BY <2>3, <3>1
    <3>3. ASSUME NEW e \in Nat \ {0}, Kept(e)', d < e PROVE Latest(d)' > Latest(e)'
      BY <2>2, <2>3, <3>1, <3>3
    <3> QED
      BY <1>1, <1>2, <3>1, <3>2, <3>3
  <2>5. s_skipped_val'[s_skipped_head'] = frames' /\ arg' = s_skipped_head' /\ resetAt' < frames'
    BY <1>1, <1>2, <1>3
  <2> QED
    BY <1>1, <2>4, <2>5 DEF SkippedHolds
<1>5. ReadingSkipped'
  <2>1. hpc = "loadHead" => total' \in Nat /\ total' <= s_skipped_total'
    BY <1>1 DEF ReadingSkipped
  <2>2. ASSUME hpc \in {"readSkipped", "gotSkipped"} PROVE ReadingSkipped'
    <3> DEFINE H == Have(total, SkippedRingSz)
    <3>1. /\ total \in Nat /\ head \in 0..(SkippedRingSz - 1) /\ start.newest <= frames
          /\ out \in Seq(Nat) /\ Len(out) <= H /\ (hpc = "gotSkipped" => Len(out) = H)
          /\ \A i \in 1..H : Found(i) \in Nat /\ Found(i) > resetAt /\ Found(i) <= frames
          /\ \A i, j \in 1..H : i < j => Found(i) < Found(j) \/ Found(i) > start.newest
      BY <2>2 DEF ReadingSkipped
    <3>2. H' = H /\ H \in 0..SkippedRingSz
      BY <1>1, <1>2, <3>1 DEF Have
    <3> HIDE DEF H
    <3>3. ASSUME NEW i \in 1..H PROVE Found(i)' \in {Found(i), frames + 1}
      <4>1. CASE i <= Len(out)
        BY <1>1, <4>1 DEF Found
      <4>2. CASE ~(i <= Len(out))
        <5>1. H + 1 - i \in 1..SkippedRingSz
          BY <1>2, <3>2
        <5>2. Back(head, H + 1 - i) \in 0..(SkippedRingSz - 1)
          BY <1>2, <3>1, <5>1, BackOf
        <5>3. Found(i) = s_skipped_val[Back(head, H + 1 - i)]
                  /\ Found(i)' = s_skipped_val'[Back(head, H + 1 - i)]
          BY <1>1, <4>2, <3>2 DEF Found, H, Back
        <5> QED
          BY <1>3, <5>2, <5>3
      <4> QED
        BY <4>1, <4>2
    <3>4. ASSUME NEW i \in 1..H
          PROVE  Found(i)' \in Nat /\ Found(i)' > resetAt /\ Found(i)' <= frames + 1
      BY <1>2, <3>1, <3>3
    <3>5. ASSUME NEW i \in 1..H, NEW j \in 1..H, i < j
          PROVE  Found(i)' < Found(j)' \/ Found(i)' > start.newest
      <4>1. Found(i) \in Nat /\ Found(i) <= frames /\ Found(j) \in Nat
            /\ (Found(i) < Found(j) \/ Found(i) > start.newest)
        BY <3>1, <3>5
      <4>2. CASE Found(i)' = frames + 1
        BY <1>2, <3>1, <4>2
      <4>3. CASE Found(i)' = Found(i)
        BY <1>2, <3>3, <4>1, <4>3
      <4> QED
        BY <3>3, <4>2, <4>3
    <3>6. start.newest <= frames + 1
      BY <1>2, <3>1
    <3> QED
      BY <1>1, <3>1, <3>2, <3>4, <3>5, <3>6 DEF ReadingSkipped, H
  <2> QED
    BY <1>1, <2>1, <2>2 DEF ReadingSkipped
<1> QED
  BY <1>4, <1>5

\* The head moves behind the byte, and the counter follows.
LEMMA HeadHolds ==
    ASSUME TypeInv, HistoryInv, "skipped" \notin torn, hpc # "clrTotal", SkippedHolds,
               ReadingSkipped, SkipHead \/ SkipTotal
    PROVE  SkippedHolds' /\ ReadingSkipped'
<1>1. UNCHANGED <<frames, s_skipped_val, resetAt, hpc, total, head, out, start>>
  BY DEF SkipHead, SkipTotal, Step, httpVars, readVars
<1>2. /\ SkippedRingSz \in Nat \ {0} /\ frames \in Nat /\ resetAt \in Nat /\ resetAt <= frames
      /\ s_skipped_total \in Nat /\ s_skipped_head \in 0..(SkippedRingSz - 1)
      /\ s_skipped_val \in [0..(SkippedRingSz - 1) -> 0..MaxFrames]
  BY SkipTypes
<1>3. s_skipped_total' \in {s_skipped_total, s_skipped_total + 1}
  BY DEF SkipHead, SkipTotal, Step, SkippedHolds
<1>4. ReadingSkipped'
  BY <1>1, <1>2, <1>3 DEF ReadingSkipped, Found, Back, Have
<1>5. CASE SkipTotal
  <2>1. /\ pc' # "skipHead" /\ pc # "skipHead" /\ s_skipped_head' = s_skipped_head
               /\ Counted' = Counted
        /\ pc' = "skipStore" => arg' = s_skipped_total'
    BY <1>5 DEF SkipTotal, Step, SkippedHolds, Counted
  <2>2. \A d : (Kept(d)' <=> Kept(d)) /\ Latest(d)' = Latest(d)
    BY <1>1, <2>1 DEF Kept, Latest, Back
  <2>3. SkippedHolds'
    BY <1>1, <2>1, <2>2 DEF SkippedHolds
  <2> QED
    BY <1>4, <2>3
<1>6. CASE SkipHead
  <2>1. /\ pc = "skipHead" /\ pc' = "skipTotal" /\ s_skipped_head' = NextHead(s_skipped_head)
        /\ s_skipped_val[s_skipped_head] = frames /\ resetAt < frames
               /\ s_skipped_total' = s_skipped_total
    BY <1>6 DEF SkipHead, Step, SkippedHolds
  <2>2. Counted' = Counted + 1 /\ Counted = s_skipped_total
    BY <2>1 DEF Counted
  <2>3. Latest(1)' = frames
    <3>1. Back(NextHead(s_skipped_head), 1) = s_skipped_head
      BY <1>2, BackOf
    <3> QED
      BY <1>1, <2>1, <3>1 DEF Latest, Back
  <2>4. ASSUME NEW d \in Nat \ {0}, Kept(d)', d # 1
        PROVE  /\ d - 1 \in Nat \ {0} /\ Kept(d - 1) /\ Latest(d)' = Latest(d - 1)
               /\ Latest(d)' > resetAt /\ Latest(d)' < frames
    <3>1. d \in 2..SkippedRingSz /\ d - 1 \in Nat \ {0} /\ d <= Counted + 1
      BY <1>2, <2>2, <2>4 DEF Kept
    <3>2. Kept(d - 1)
      BY <1>2, <2>2, <3>1 DEF Kept
    <3>3. Back(NextHead(s_skipped_head), d) = Back(s_skipped_head, d - 1)
      BY <1>2, <3>1, BackOf
    <3>4. Latest(d)' = Latest(d - 1)
      BY <1>1, <2>1, <3>3 DEF Latest, Back
    <3> QED
      BY <2>1, <3>1, <3>2, <3>4 DEF SkippedHolds
  <2>5. ASSUME NEW d \in Nat \ {0}, Kept(d)', NEW e \in Nat \ {0}, Kept(e)', d < e
        PROVE  Latest(d)' > Latest(e)'
    <3>1. e # 1 /\ Kept(e - 1) /\ e - 1 \in Nat \ {0} /\ Latest(e)' = Latest(e - 1)
              /\ Latest(e)' < frames
      BY <2>4, <2>5
    <3>2. CASE d = 1
      BY <2>3, <3>1, <3>2
    <3>3. CASE d # 1
      <4>1. Kept(d - 1) /\ d - 1 \in Nat \ {0} /\ Latest(d)' = Latest(d - 1) /\ d - 1 < e - 1
        BY <2>4, <2>5, <3>3
      <4> QED
        BY <3>1, <4>1 DEF SkippedHolds
    <3> QED
      BY <3>2, <3>3
  <2>6. ASSUME NEW d \in Nat \ {0}, Kept(d)'
        PROVE  Latest(d)' > resetAt /\ Latest(d)' <= frames
    <3>1. CASE d = 1
      BY <1>2, <2>1, <2>3, <3>1
    <3>2. CASE d # 1
      <4>1. Latest(d)' > resetAt /\ Latest(d)' < frames
        BY <2>4, <2>6, <3>2
      <4>2. Latest(d)' \in Int
        <5>1. d - 1 \in 1..SkippedRingSz /\ Latest(d)' = Latest(d - 1)
          BY <2>4, <2>6, <3>2 DEF Kept
        <5>2. Back(s_skipped_head, d - 1) \in 0..(SkippedRingSz - 1)
          BY <1>2, <5>1, BackOf
        <5> QED
          BY <1>2, <5>1, <5>2, SkipTypes DEF Latest
      <4> QED
        BY <1>2, <4>1, <4>2
    <3> QED
      BY <3>1, <3>2
  <2> QED
    BY <1>1, <1>4, <2>1, <2>5, <2>6 DEF SkippedHolds
<1> QED
  BY <1>5, <1>6

\* record_skipped keeps the ring and the reader's copy true.
LEMMA SkipSniffer ==
    ASSUME TypeInv, HistoryInv, SkipInv, SnifferTask
    PROVE  SkipInv'
<1>0. torn \subseteq torn' /\ hpc' = hpc
  BY TornStays, StepNames DEF SnifferTask, CommandCount, CommandFields, Response, SnapValid,
         UnkTest, UnkFirst,
     UnkAgain, SkipByte, SkipHead, SkipTotal, httpVars, readVars
<1> SUFFICES ASSUME "skipped" \notin torn'
             PROVE  /\ hpc = "clrTotal" => pc' \notin BeforeTotal
                    /\ hpc # "clrTotal" => SkippedHolds' /\ ReadingSkipped'
  BY <1>0 DEF SkipInv
<1>1. "skipped" \notin torn
  BY <1>0
<1>2. CASE SkipByte \/ SkipHead \/ SkipTotal
  <2>1. hpc # "clrTotal"
    BY <1>2, Meeting, StepNames DEF SkipByte, SkipHead, SkipTotal
  <2> QED
    BY <1>1, <1>2, <2>1, ByteHolds, HeadHolds DEF SkipInv
<1>3. CASE ~SkipByte /\ ~SkipHead /\ ~SkipTotal
  <2>1. /\ pc \notin BeforeTotal /\ pc' \notin BeforeTotal /\ frames' \in {frames, frames + 1}
        /\ UNCHANGED <<s_skipped_val, s_skipped_head, s_skipped_total, resetAt, total, head, out>>
    BY <1>3 DEF SnifferTask, CommandCount, CommandFields, Response, SnapValid, UnkTest, UnkFirst,
           UnkAgain,
       Begin, Step, AfterFirst, skipVars, httpVars, readVars, BeforeTotal
  <2>2. start'.newest = start.newest
    <3>1. CASE Response
      BY <3>1, ResponseStarts
    <3>2. CASE ~Response
      BY <1>3, <3>2 DEF SnifferTask, CommandCount, CommandFields, SnapValid, UnkTest, UnkFirst,
             UnkAgain,
         httpVars, readVars
    <3> QED
      BY <3>1, <3>2
  <2>3. /\ frames \in Nat /\ SkippedRingSz \in Nat \ {0} /\ start.newest \in Nat
        /\ s_skipped_head \in 0..(SkippedRingSz - 1)
               /\ s_skipped_val \in [0..(SkippedRingSz - 1) -> 0..MaxFrames]
        /\ MaxFrames \in Nat
    BY SkipTypes
  <2>4. \A d : (Kept(d)' <=> Kept(d)) /\ Latest(d)' = Latest(d)
    BY <2>1 DEF Kept, Counted, Latest, Back, BeforeTotal
  <2>5. ASSUME NEW d \in Nat \ {0}, Kept(d) PROVE Latest(d) \in Nat
    <3>0. d \in 1..SkippedRingSz
      BY <2>3, <2>5 DEF Kept
    <3>1. Back(s_skipped_head, d) \in 0..(SkippedRingSz - 1)
      BY <2>3, <3>0, BackOf
    <3> QED
      BY <2>3, <3>1 DEF Latest
  <2>6. SkippedHolds => SkippedHolds'
    <3> SUFFICES ASSUME SkippedHolds PROVE SkippedHolds'
      OBVIOUS
    <3>1. ASSUME NEW d \in Nat \ {0}, Kept(d)'
          PROVE  /\ Latest(d)' > resetAt' /\ Latest(d)' <= frames'
                 /\ \A e \in Nat \ {0} : Kept(e)' /\ d < e => Latest(d)' > Latest(e)'
      <4>1. Kept(d) /\ Latest(d) \in Nat
        BY <2>4, <2>5, <3>1
      <4>2. Latest(d) > resetAt /\ Latest(d) <= frames
            /\ \A e \in Nat \ {0} : Kept(e) /\ d < e => Latest(d) > Latest(e)
        BY <4>1 DEF SkippedHolds
      <4>3. Latest(d)' <= frames'
        BY <2>1, <2>3, <2>4, <4>1, <4>2
      <4> QED
        BY <2>1, <2>4, <4>2, <4>3
    <3> QED
      BY <2>1, <3>1 DEF SkippedHolds, BeforeTotal
  <2>7. ReadingSkipped => ReadingSkipped'
    <3>1. Have(total, SkippedRingSz)' = Have(total, SkippedRingSz) /\ \A i : Found(i)' = Found(i)
      BY <2>1 DEF Found, Back, Have
    <3>2. \A n \in Nat : n <= frames => n <= frames'
      BY <2>1, <2>3
    <3> QED
      BY <1>0, <2>1, <2>2, <2>3, <3>1, <3>2 DEF ReadingSkipped
  <2> QED
    BY <1>1, <2>1, <2>6, <2>7 DEF SkipInv
<1> QED
  BY <1>2, <1>3

\* What the reader finds when it loads the head.
LEMMA LoadFinds ==
    ASSUME TypeInv, HistoryInv, SkippedHolds, ReadingSkipped, hpc = "loadHead",
               hpc' = "readSkipped",
           head' = s_skipped_head, start'.newest = (IF pc = "skipHead" THEN frames - 1 ELSE frames),
           UNCHANGED <<s_skipped_val, resetAt, frames, total, out>>
    PROVE  ReadingSkipped'
<1> DEFINE H == Have(total, SkippedRingSz)
           newest == start'.newest
<1>1. /\ SkippedRingSz \in Nat \ {0} /\ frames \in Nat /\ resetAt \in Nat /\ resetAt <= frames
             /\ MaxFrames \in Nat
      /\ s_skipped_total \in Nat /\ s_skipped_head \in 0..(SkippedRingSz - 1)
      /\ s_skipped_val \in [0..(SkippedRingSz - 1) -> 0..MaxFrames]
  BY SkipTypes
<1>2. out = <<>> /\ total \in Nat /\ total <= s_skipped_total
  BY DEF HistoryInv, Answering, ReadingSkipped
<1>3. H' = H /\ H \in 0..SkippedRingSz /\ H <= total
  BY <1>1, <1>2 DEF Have
<1>4. newest \in Int /\ newest <= frames
  BY <1>1
<1> HIDE DEF newest, H
<1>5. ASSUME NEW i \in 1..H PROVE Found(i)' = Latest(H + 1 - i) /\ H + 1 - i \in 1..H
                 /\ Latest(H + 1 - i) \in Nat
  <2>1. H + 1 - i \in 1..SkippedRingSz /\ H + 1 - i \in 1..H
    BY <1>1, <1>3
  <2>2. Found(i)' = s_skipped_val[Back(s_skipped_head, H + 1 - i)]
    BY <1>1, <1>2, <1>3 DEF Found, Back, H
  <2>3. Back(s_skipped_head, H + 1 - i) \in 0..(SkippedRingSz - 1)
    BY <1>1, <2>1, BackOf
  <2> QED
    BY <1>1, <2>1, <2>2, <2>3 DEF Latest
<1>6. ASSUME NEW d \in 1..H
      PROVE  Kept(d) \/ (pc = "skipHead" /\ d = SkippedRingSz /\ Latest(d) = frames
                 /\ resetAt < frames)
  <2>1. d <= Counted /\ d <= SkippedRingSz
    BY <1>1, <1>2, <1>3 DEF Counted
  <2>2. CASE pc = "skipHead" /\ d = SkippedRingSz
    <3>1. Back(s_skipped_head, d) = s_skipped_head
      BY <1>1, <2>2 DEF Back
    <3> QED
      BY <2>2, <3>1 DEF Latest, SkippedHolds
  <2> QED
    BY <1>1, <2>1, <2>2 DEF Kept
<1>7. ASSUME NEW d \in 1..H PROVE Latest(d) > resetAt /\ Latest(d) <= frames
  <2>1. d \in Nat \ {0}
    BY <1>3
  <2> QED
    BY <1>1, <1>6, <2>1 DEF SkippedHolds
<1>8. ASSUME NEW d \in 1..H, NEW e \in 1..H, d < e, Latest(e) \in Nat, Latest(d) \in Nat
      PROVE  Latest(e) < Latest(d) \/ Latest(e) > newest
  <2>1. d \in Nat \ {0} /\ e \in Nat \ {0} /\ d <= SkippedRingSz /\ e <= SkippedRingSz
    BY <1>1, <1>3
  <2>2. CASE Kept(e) /\ Kept(d)
    BY <1>8, <2>1, <2>2 DEF SkippedHolds
  <2>3. CASE ~Kept(e)
    BY <1>1, <1>6, <2>3 DEF newest
  <2>4. CASE ~Kept(d)
    <3>1. d = SkippedRingSz
      BY <1>6, <2>4
    <3> QED
      BY <1>1, <1>8, <2>1, <3>1
  <2> QED
    BY <2>2, <2>3, <2>4
<1>9. ASSUME NEW i \in 1..H, NEW j \in 1..H, i < j PROVE Found(i)' < Found(j)' \/ Found(i)' > newest
  <2>1. H + 1 - j < H + 1 - i
    BY <1>3, <1>9
  <2> QED
    BY <1>5, <1>8, <2>1
<1>10. ASSUME NEW i \in 1..H PROVE Found(i)' \in Nat /\ Found(i)' > resetAt /\ Found(i)' <= frames
  BY <1>5, <1>7
<1>11. head' \in 0..(SkippedRingSz - 1) /\ out' \in Seq(Nat) /\ Len(out') = 0 /\ 0 <= H
           /\ newest <= frames'
  BY <1>1, <1>2, <1>3, <1>4
<1> QED
  BY <1>2, <1>3, <1>9, <1>10, <1>11 DEF ReadingSkipped, newest, H

\* A request that copies the skipped bytes.
LEMMA ReadSkippedHolds ==
    ASSUME TypeInv, HistoryInv, SkipInv, ReadSkipped
    PROVE  SkipInv'
<1>1. /\ UNCHANGED <<s_skipped_val, s_skipped_head, s_skipped_total, resetAt, pc, arg, frames,
             torn>>
      /\ hpc # "clrTotal" /\ hpc' # "clrTotal"
  BY DEF ReadSkipped, tableVars, skipVars, taskVars, Go, Respond
<1> SUFFICES ASSUME "skipped" \notin torn PROVE SkippedHolds' /\ ReadingSkipped'
  BY <1>1 DEF SkipInv
<1>2. SkippedHolds /\ ReadingSkipped
  BY <1>1 DEF SkipInv
<1>3. SkippedHolds'
  BY <1>1, <1>2 DEF SkippedHolds, Kept, Counted, Latest, Back
<1>4. CASE hpc' = "loadHead"
  <2>1. total' = s_skipped_total
    BY <1>4 DEF ReadSkipped, Go, Respond
  <2>2. s_skipped_total \in Nat
    BY SkipTypes
  <2> QED
    BY <1>1, <1>3, <1>4, <2>1, <2>2 DEF ReadingSkipped
<1>5. CASE hpc = "loadHead"
  <2>1. /\ hpc' = "readSkipped" /\ head' = s_skipped_head /\ UNCHANGED <<total, out>>
        /\ start' = [seen |-> {}, busy |-> FALSE, newest |-> IF pc = "skipHead" THEN frames - 1
               ELSE frames]
    BY <1>5 DEF ReadSkipped, Go, Respond, StartRead
  <2>2. start'.newest = IF pc = "skipHead" THEN frames - 1 ELSE frames
    BY <2>1
  <2> QED
    BY <1>1, <1>2, <1>3, <1>5, <2>1, <2>2, LoadFinds
<1>6. CASE hpc = "readSkipped" /\ hpc' = "readSkipped"
  <2> DEFINE H == Have(total, SkippedRingSz)
             x == s_skipped_val[(SkippedStart(head, H) + Len(out)) % SkippedRingSz]
  <2>1. out' = Append(out, x) /\ Len(out) < H /\ UNCHANGED <<total, head, start>>
    BY <1>6 DEF ReadSkipped, Go, Respond
  <2>2. /\ total \in Nat /\ head \in 0..(SkippedRingSz - 1) /\ start.newest <= frames
        /\ out \in Seq(Nat) /\ Len(out) \in Nat
        /\ \A i \in 1..H : Found(i) \in Nat /\ Found(i) > resetAt /\ Found(i) <= frames
        /\ \A i, j \in 1..H : i < j => Found(i) < Found(j) \/ Found(i) > start.newest
    BY <1>2, <1>6 DEF ReadingSkipped
  <2>3. H' = H /\ H \in 0..SkippedRingSz /\ SkippedRingSz \in Nat \ {0}
    BY <2>1, <2>2, SkipTypes DEF Have
  <2>4. x = Found(Len(out) + 1)
    <3>1. H \in 1..SkippedRingSz /\ Len(out) \in 0..(SkippedRingSz - 1)
              /\ H - Len(out) = H + 1 - (Len(out) + 1)
      BY <2>1, <2>2, <2>3
    <3>2. (SkippedStart(head, H) + Len(out)) % SkippedRingSz = Back(head, H - Len(out))
      BY <2>1, <2>2, <2>3, <3>1, BackOf
    <3> QED
      BY <2>2, <3>1, <3>2 DEF Found
  <2> HIDE DEF H, x
  <2>5. x \in Nat /\ Len(out) + 1 \in 1..H
    BY <2>1, <2>2, <2>3, <2>4
  <2>6. /\ out' \in Seq(Nat) /\ Len(out') = Len(out) + 1 /\ out'[Len(out) + 1] = x
        /\ \A i \in 1..Len(out) : out'[i] = out[i]
    BY <2>1, <2>2, <2>5
  <2>7. ASSUME NEW i \in 1..H PROVE Found(i)' = Found(i)
    <3>1. CASE i <= Len(out)
      <4>1. i \in 1..Len(out) /\ i <= Len(out')
        BY <2>2, <2>3, <2>6, <3>1
      <4> QED
        BY <2>6, <3>1, <4>1 DEF Found
    <3>2. CASE i = Len(out) + 1
      BY <2>2, <2>4, <2>6, <3>2 DEF Found
    <3>3. CASE i > Len(out) + 1
      <4>1. ~(i <= Len(out)) /\ ~(i <= Len(out'))
        BY <2>2, <2>3, <2>6, <3>3
      <4> QED
        BY <1>1, <2>1, <2>3, <4>1 DEF Found, Back, H
    <3> QED
      BY <2>2, <2>3, <3>1, <3>2, <3>3
  <2>8. ReadingSkipped'
    BY <1>1, <1>6, <2>1, <2>2, <2>3, <2>5, <2>6, <2>7 DEF ReadingSkipped, H
  <2> QED
    BY <1>3, <2>8
<1>7. CASE hpc' = "gotSkipped"
  <2>1. hpc = "readSkipped" /\ Len(out) = Have(total, SkippedRingSz)
            /\ UNCHANGED <<total, head, out, start>>
    BY <1>7 DEF ReadSkipped, Go, Respond, readVars
  <2>2. Have(total, SkippedRingSz)' = Have(total, SkippedRingSz) /\ \A i : Found(i)' = Found(i)
    BY <1>1, <2>1 DEF Found, Back, Have
  <2> QED
    BY <1>1, <1>2, <1>3, <1>7, <2>1, <2>2 DEF ReadingSkipped
<1>8. CASE hpc' = "idle"
  BY <1>3, <1>8 DEF ReadingSkipped
<1> QED
  BY <1>4, <1>5, <1>6, <1>7, <1>8 DEF ReadSkipped, Go, Respond

\* The httpd task keeps the ring and its copy true.
LEMMA SkipHttpd ==
    ASSUME TypeInv, HistoryInv, SkipInv, HttpdTask
    PROVE  SkipInv'
<1>0. UNCHANGED <<pc, arg, frames>>
  BY DEF HttpdTask, ClearSnapshot, ClearUnknown, ResetStats, ReadRegister, ReadUnknown,
         ReadCommands, ReadSkipped,
         taskVars
<1>1. CASE ResetStats
  <2>1. "skipped" \notin torn' => pc \notin BeforeTotal
    BY <1>1, Meeting, StepNames DEF ResetStats
  <2>2. CASE hpc' = "clrTotal"
    BY <1>0, <2>1, <2>2 DEF SkipInv
  <2>3. CASE hpc' # "clrTotal"
    <3>1. hpc' = "idle" /\ s_skipped_total' = 0
      BY <1>1, <2>3 DEF ResetStats, Go
    <3>2. "skipped" \notin torn' => \A d \in Nat \ {0} : ~Kept(d)'
      BY <1>0, <2>1, <3>1 DEF Kept, Counted, BeforeTotal
    <3> QED
      BY <1>0, <2>1, <3>1, <3>2 DEF SkipInv, SkippedHolds, ReadingSkipped, BeforeTotal
  <2> QED
    BY <2>2, <2>3
<1>2. CASE ClearSnapshot \/ ClearUnknown \/ ReadRegister \/ ReadUnknown \/ ReadCommands
  <2>1. /\ UNCHANGED <<s_skipped_val, s_skipped_head, s_skipped_total, resetAt>>
        /\ hpc # "clrTotal" /\ hpc' # "clrTotal" /\ hpc' \notin {"loadHead", "readSkipped",
               "gotSkipped"}
    BY <1>2 DEF ClearSnapshot, ClearUnknown, ReadRegister, ReadUnknown, ReadCommands, Go, Respond,
           tableVars, skipVars
  <2>2. "skipped" \in torn => "skipped" \in torn'
    BY <1>2, Meeting, TornStays, StepNames DEF ClearSnapshot, ClearUnknown, ReadRegister,
           ReadUnknown, ReadCommands
  <2>3. SkippedHolds => SkippedHolds'
    BY <1>0, <2>1 DEF SkippedHolds, Kept, Counted, Latest, Back
  <2> QED
    BY <2>1, <2>2, <2>3 DEF SkipInv, ReadingSkipped
<1> QED
  BY <1>1, <1>2, ReadSkippedHolds DEF HttpdTask

\* The ring of skipped bytes is true unless it was torn.
LEMMA SkipInvariant == Spec => []SkipInv
<1>1. Init => SkipInv
  <2>1. Init => \A d \in Nat \ {0} : ~Kept(d)
    BY DEF Init, Kept, Counted
  <2> QED
    BY <2>1 DEF Init, SkipInv, SkippedHolds, ReadingSkipped
<1>2. TypeInv /\ HistoryInv /\ SkipInv /\ [Next]_vars => SkipInv'
  <2>1. UNCHANGED vars => UNCHANGED <<s_skipped_val, s_skipped_head, s_skipped_total, resetAt, pc,
            arg, frames,
                                      hpc, total, head, out, start, torn>>
    BY DEF vars, skipVars, taskVars, httpVars, readVars
  <2>2. SkipInv /\ UNCHANGED vars => SkipInv'
    <3> SUFFICES ASSUME SkipInv, UNCHANGED vars PROVE SkipInv'
      OBVIOUS
    <3>1. SkippedHolds => SkippedHolds'
      BY <2>1 DEF SkippedHolds, Kept, Counted, Latest, Back
    <3>2. ReadingSkipped => ReadingSkipped'
      BY <2>1 DEF ReadingSkipped, Found, Back, Have
    <3> QED
      BY <2>1, <3>1, <3>2 DEF SkipInv
  <2> QED
    BY <2>2, SkipSniffer, SkipHttpd DEF Next
<1> QED
  BY <1>1, <1>2, TypeInvariant, HistoryInvariant, PTL DEF Spec

\* GET /api/skipped loads the counter, then the head, then the bytes, while the
\* sniffer task stores more: for a ring of any size, every byte returned was
\* skipped since the last reset and they come in order, but for bytes that
\* replaced the oldest meanwhile.
THEOREM SkippedAreReal == Spec => []SkippedReal
<1>1. TypeInv /\ SkipInv => SkippedReal
  <2> SUFFICES ASSUME TypeInv, SkipInv, hpc = "gotSkipped", "skipped" \notin torn
               PROVE  /\ \A i \in 1..Len(out) : out[i] > resetAt
                      /\ \A i, j \in 1..Len(out) : i < j => out[i] < out[j] \/ out[i] > start.newest
    BY DEF SkippedReal
  <2>1. /\ Len(out) = Have(total, SkippedRingSz) /\ out \in Seq(Nat)
        /\ \A i \in 1..Len(out) : Found(i) > resetAt
        /\ \A i, j \in 1..Len(out) : i < j => Found(i) < Found(j) \/ Found(i) > start.newest
    BY DEF SkipInv, ReadingSkipped
  <2>2. \A i \in 1..Len(out) : Found(i) = out[i]
    BY <2>1 DEF Found
  <2> QED
    BY <2>1, <2>2
<1> QED
  BY <1>1, TypeInvariant, SkipInvariant, PTL
=============================================================================
