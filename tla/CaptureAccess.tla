---------------------------- MODULE CaptureAccess ----------------------------
(***************************************************************************)
(* The capture tables of modbus_sniffer.cpp as two tasks use them without  *)
(* a lock: the sniffer task records commands, register values, unknown     *)
(* registers and skipped bytes; the httpd task, one request after another, *)
(* reads or clears them.  Each load and store of a field is a step.        *)
(*                                                                         *)
(* The register tables are arrays; their elements do not depend on each    *)
(* other and the loops visit them one by one, so this module follows one   *)
(* element, a register the decoder does not know (both tables have it).    *)
(* Command and skipped byte number k of the model is just k, so that an    *)
(* entry says which one it is.                                             *)
(***************************************************************************)
EXTENDS Integers, Sequences

CONSTANTS
    CommandRingSz,  \* COMMAND_RING_SZ
    SkippedRingSz,  \* SKIPPED_RING_SZ
    Raw,            \* values of the register on the wire
    MaxFrames       \* bound: things the sniffer task records

ASSUME CaptureAccessAssumption ==
    /\ CommandRingSz \in Nat \ {0} /\ SkippedRingSz \in Nat \ {0}
    /\ Raw \subseteq Nat \ {0} /\ Raw # {}
    /\ MaxFrames \in Nat

VARIABLES
    s_cmd_ring, s_cmd_count,
    s_snap_raw, s_snap_valid,
    s_unk_valid, s_unk_raw, s_unk_seen, s_unk_changes, s_unk_count,
    s_skipped_val, s_skipped_head, s_skipped_total,
    \* The sniffer task
    pc, arg, frames,
    \* The httpd task: step, its copies, what it will send
    hpc, total, head, out,
    \* History
    published,   \* commands counted since the last clear
    wire,        \* the register's last value on the wire
    sightings,   \* how often it was seen since the last clear
    resetAt,     \* "frames" at the last reset of the skipped bytes
    start,       \* what there was when the present read began
    torn         \* tables that were cleared and written at the same time

cmdVars  == <<s_cmd_ring, s_cmd_count, published>>
snapVars == <<s_snap_raw, s_snap_valid, wire>>
unkVars  == <<s_unk_valid, s_unk_raw, s_unk_seen, s_unk_changes, s_unk_count, sightings>>
skipVars == <<s_skipped_val, s_skipped_head, s_skipped_total, resetAt>>
taskVars == <<pc, arg, frames>>
readVars == <<total, head, out, start>>
httpVars == <<hpc, readVars>>
vars == <<cmdVars, snapVars, unkVars, skipVars, taskVars, httpVars, torn>>

Tables == {"snapshot", "unknown", "skipped"}
\* Inside an update, inside a clear of the table.
Writing == [snapshot |-> {"snapValid"},
            unknown  |-> {"unkNew", "unkRaw", "unkOne", "unkZero", "unkCount",
                          "unkSeen", "unkCompare", "unkChange"},
            skipped  |-> {"skipHead", "skipTotal", "skipStore"}]
Clearing == [snapshot |-> {"clrSnapValid"},
             unknown  |-> {"clrUnkValid", "clrUnkSeen", "clrUnkChanges", "clrUnkCount"},
             skipped  |-> {"clrTotal"}]
CommandSteps == {"cmdHead", "cmdBody"}
ResponseSteps == {"unkTest"} \cup Writing.snapshot \cup Writing.unknown
Reading == {"gotRegister", "readSlots", "gotCommands", "loadHead", "readSkipped",
            "gotSkipped", "readRaw", "readSeen", "readChanges", "gotUnknown"}

Update(t) == torn' = IF hpc \in Clearing[t] THEN torn \cup {t} ELSE torn
Clear(t)  == torn' = IF pc \in Writing[t] THEN torn \cup {t} ELSE torn
BeginClear(t) == torn' = IF pc \in Writing[t] THEN torn \cup {t} ELSE torn \ {t}

Counts == 0..(MaxFrames + 1)
Slot == [id : 0..MaxFrames, whole : BOOLEAN]

TypeOK ==
    /\ s_cmd_ring \in [0..(CommandRingSz - 1) -> Slot] /\ s_cmd_count \in Counts
    /\ s_snap_raw \in Raw \cup {0} /\ s_snap_valid \in BOOLEAN
    /\ s_unk_valid \in BOOLEAN /\ s_unk_raw \in Raw \cup {0}
    /\ {s_unk_seen, s_unk_changes, s_unk_count} \subseteq Counts
    /\ s_skipped_val \in [0..(SkippedRingSz - 1) -> 0..MaxFrames]
    /\ s_skipped_head \in 0..(SkippedRingSz - 1) /\ s_skipped_total \in Counts
    /\ pc \in {"idle"} \cup CommandSteps \cup ResponseSteps \cup Writing.skipped
    /\ hpc \in {"idle", "clrCommands"} \cup Reading \cup UNION {Clearing[t] : t \in Tables}
    /\ torn \subseteq Tables

Init ==
    /\ s_cmd_ring = [i \in 0..(CommandRingSz - 1) |-> [id |-> 0, whole |-> TRUE]]
    /\ s_cmd_count = 0 /\ published = <<>>
    /\ s_snap_raw = 0 /\ s_snap_valid = FALSE /\ wire = 0
    /\ s_unk_valid = FALSE /\ s_unk_raw = 0 /\ s_unk_seen = 0 /\ s_unk_changes = 0
    /\ s_unk_count = 0 /\ sightings = 0
    /\ s_skipped_val = [i \in 0..(SkippedRingSz - 1) |-> 0]
    /\ s_skipped_head = 0 /\ s_skipped_total = 0 /\ resetAt = 0
    /\ pc = "idle" /\ arg = 0 /\ frames = 0
    /\ hpc = "idle" /\ total = 0 /\ head = 0 /\ out = <<>>
    /\ start = [seen |-> {}, busy |-> FALSE, newest |-> 0]
    /\ torn = {}

-----------------------------------------------------------------------------
(***************************************************************************)
(* The sniffer task                                                        *)
(***************************************************************************)
Begin == pc = "idle" /\ frames < MaxFrames /\ frames' = frames + 1
Step(from, to) == pc = from /\ pc' = to /\ UNCHANGED frames

\* record_command: the count is published before the slot is written.
CommandSlot(k) == k % CommandRingSz
NextSlot(k) == CommandSlot(k + 1)
CommandIndex(k) == CommandSlot(k)

CommandCount ==
    /\ Begin /\ pc' = "cmdHead"
    /\ arg' = CommandIndex(s_cmd_count)
    /\ s_cmd_count' = s_cmd_count + 1
    /\ published' = Append(published, frames + 1)
    /\ UNCHANGED <<s_cmd_ring, snapVars, unkVars, skipVars, httpVars, torn>>
CommandFields ==
    /\ \/ Step("cmdHead", "cmdBody")
          /\ s_cmd_ring' = [s_cmd_ring EXCEPT ![arg] = [id |-> frames, whole |-> FALSE]]
       \/ Step("cmdBody", "idle")
          /\ s_cmd_ring' = [s_cmd_ring EXCEPT ![arg].whole = TRUE]
    /\ UNCHANGED <<s_cmd_count, published, arg, snapVars, unkVars, skipVars, httpVars, torn>>

\* A response carries the register.  snapshot_store: the value, then its mark.
ValidFirst == <<"valid", "raw">>
StoreOrder == <<"raw", "valid">>
StoreField(field, v) ==
    /\ s_snap_raw' = IF field = "raw" THEN v ELSE s_snap_raw
    /\ s_snap_valid' = (field = "valid" \/ s_snap_valid)

Response ==
    /\ Begin /\ pc' = "snapValid"
    /\ \E v \in Raw :
         /\ StoreField(StoreOrder[1], v)
         /\ arg' = v /\ wire' = v
         /\ start' = [start EXCEPT !.seen = IF hpc \in Reading THEN @ \cup {v} ELSE @]
    /\ Update("snapshot")
    /\ UNCHANGED <<cmdVars, unkVars, skipVars, hpc, total, head, out>>
SnapValid ==
    /\ Step("snapValid", "unkTest")
    /\ StoreField(StoreOrder[2], arg)
    /\ Update("snapshot")
    /\ UNCHANGED <<cmdVars, wire, unkVars, skipVars, arg, httpVars>>

\* track_unknown
UnkTest ==
    /\ Step("unkTest", IF s_unk_valid THEN "unkSeen" ELSE "unkNew")
    /\ sightings' = sightings + 1
    /\ Update("unknown")
    /\ UNCHANGED <<cmdVars, snapVars, s_unk_valid, s_unk_raw, s_unk_seen, s_unk_changes,
                   s_unk_count, skipVars, arg, httpVars>>
SeenUncounted(k) == k
SeenAgain(k) == k + 1

FallsThrough == "unkSeen"
AfterFirst == "idle"
UnkFirst ==
    /\ \/ Step("unkNew", "unkRaw") /\ s_unk_valid' = TRUE
          /\ UNCHANGED <<s_unk_raw, s_unk_seen, s_unk_changes, s_unk_count>>
       \/ Step("unkRaw", "unkOne") /\ s_unk_raw' = arg
          /\ UNCHANGED <<s_unk_valid, s_unk_seen, s_unk_changes, s_unk_count>>
       \/ Step("unkOne", "unkZero") /\ s_unk_seen' = 1
          /\ UNCHANGED <<s_unk_valid, s_unk_raw, s_unk_changes, s_unk_count>>
       \/ Step("unkZero", "unkCount") /\ s_unk_changes' = 0
          /\ UNCHANGED <<s_unk_valid, s_unk_raw, s_unk_seen, s_unk_count>>
       \/ Step("unkCount", AfterFirst) /\ s_unk_count' = s_unk_count + 1
          /\ UNCHANGED <<s_unk_valid, s_unk_raw, s_unk_seen, s_unk_changes>>
    /\ Update("unknown")
    /\ UNCHANGED <<cmdVars, snapVars, sightings, skipVars, arg, httpVars>>
UnkAgain ==
    /\ \/ Step("unkSeen", "unkCompare") /\ s_unk_seen' = SeenAgain(s_unk_seen)
          /\ UNCHANGED <<s_unk_raw, s_unk_changes>>
       \/ s_unk_raw = arg /\ Step("unkCompare", "idle")
          /\ UNCHANGED <<s_unk_raw, s_unk_seen, s_unk_changes>>
       \/ s_unk_raw # arg /\ Step("unkCompare", "unkChange") /\ s_unk_raw' = arg
          /\ UNCHANGED <<s_unk_seen, s_unk_changes>>
       \/ Step("unkChange", "idle") /\ s_unk_changes' = s_unk_changes + 1
          /\ UNCHANGED <<s_unk_raw, s_unk_seen>>
    /\ Update("unknown")
    /\ UNCHANGED <<cmdVars, snapVars, s_unk_valid, s_unk_count, sightings, skipVars, arg,
                   httpVars>>

HeadUnwrapped(h) == h + 1
NextHead(h) == (h + 1) % SkippedRingSz

\* record_skipped: the byte, s_skipped_head, s_skipped_total++ (load, store).
SkipByte ==
    /\ Begin /\ pc' = "skipHead"
    /\ s_skipped_val' = [s_skipped_val EXCEPT ![s_skipped_head] = frames + 1]
    /\ arg' = s_skipped_head
    /\ Update("skipped")
    /\ UNCHANGED <<cmdVars, snapVars, unkVars, s_skipped_head, s_skipped_total, resetAt,
                   httpVars>>
SkipHead ==
    /\ Step("skipHead", "skipTotal")
    /\ s_skipped_head' = NextHead(arg)
    /\ Update("skipped")
    /\ UNCHANGED <<cmdVars, snapVars, unkVars, s_skipped_val, s_skipped_total, resetAt, arg,
                   httpVars>>
SkipTotal ==
    /\ \/ Step("skipTotal", "skipStore") /\ arg' = s_skipped_total
          /\ UNCHANGED s_skipped_total
       \/ Step("skipStore", "idle") /\ s_skipped_total' = arg + 1 /\ UNCHANGED arg
    /\ Update("skipped")
    /\ UNCHANGED <<cmdVars, snapVars, unkVars, s_skipped_val, s_skipped_head, resetAt,
                   httpVars>>

SnifferTask == \/ CommandCount \/ CommandFields \/ Response \/ SnapValid
               \/ UnkTest \/ UnkFirst \/ UnkAgain
               \/ SkipByte \/ SkipHead \/ SkipTotal
-----------------------------------------------------------------------------
(***************************************************************************)
(* The httpd task: clears                                                  *)
(***************************************************************************)
Go(from, to) == hpc = from /\ hpc' = to

\* POST /api/snapshot/clear
ClearSnapshot ==
    /\ \/ Go("idle", "clrSnapValid") /\ BeginClear("snapshot")
          /\ s_snap_raw' = 0 /\ UNCHANGED <<s_snap_valid, s_cmd_count, published>>
       \/ Go("clrSnapValid", "clrCommands") /\ Clear("snapshot")
          /\ s_snap_valid' = FALSE /\ UNCHANGED <<s_snap_raw, s_cmd_count, published>>
       \/ Go("clrCommands", "idle") /\ UNCHANGED torn
          /\ s_cmd_count' = 0 /\ published' = <<>> /\ UNCHANGED <<s_snap_raw, s_snap_valid>>
    /\ UNCHANGED <<s_cmd_ring, wire, unkVars, skipVars, taskVars, readVars>>

\* DELETE /api/unknown
ClearUnknown ==
    /\ \/ Go("idle", "clrUnkValid") /\ BeginClear("unknown") /\ s_unk_raw' = 0
          /\ UNCHANGED <<s_unk_valid, s_unk_seen, s_unk_changes, s_unk_count, sightings>>
       \/ Go("clrUnkValid", "clrUnkSeen") /\ Clear("unknown") /\ s_unk_valid' = FALSE
          /\ UNCHANGED <<s_unk_raw, s_unk_seen, s_unk_changes, s_unk_count, sightings>>
       \/ Go("clrUnkSeen", "clrUnkChanges") /\ Clear("unknown") /\ s_unk_seen' = 0
          /\ UNCHANGED <<s_unk_raw, s_unk_valid, s_unk_changes, s_unk_count, sightings>>
       \/ Go("clrUnkChanges", "clrUnkCount") /\ Clear("unknown") /\ s_unk_changes' = 0
          /\ UNCHANGED <<s_unk_raw, s_unk_valid, s_unk_seen, s_unk_count, sightings>>
       \/ Go("clrUnkCount", "idle") /\ Clear("unknown")
          /\ s_unk_count' = 0 /\ sightings' = 0
          /\ UNCHANGED <<s_unk_raw, s_unk_valid, s_unk_seen, s_unk_changes>>
    /\ UNCHANGED <<cmdVars, snapVars, skipVars, taskVars, readVars>>

\* DELETE /api/skipped: reset_counters
ResetStats ==
    /\ \/ Go("idle", "clrTotal") /\ BeginClear("skipped")
          /\ s_skipped_head' = 0 /\ UNCHANGED <<s_skipped_total, resetAt>>
       \/ Go("clrTotal", "idle") /\ Clear("skipped")
          /\ s_skipped_total' = 0 /\ resetAt' = frames /\ UNCHANGED s_skipped_head
    /\ UNCHANGED <<cmdVars, snapVars, unkVars, s_skipped_val, taskVars, readVars>>
-----------------------------------------------------------------------------
(***************************************************************************)
(* The httpd task: reads                                                   *)
(***************************************************************************)
tableVars == <<cmdVars, snapVars, unkVars, skipVars>>
Respond(from) == /\ Go(from, "idle")
                 /\ total' = 0 /\ head' = 0 /\ out' = <<>>
                 /\ start' = [seen |-> {}, busy |-> FALSE, newest |-> 0]
StartRead(seen, busy, newest) ==
    start' = [seen |-> seen, busy |-> busy, newest |-> newest]

\* GET /api/registers: the register is skipped or copied.
ReadRegister ==
    /\ \/ /\ Go("idle", "gotRegister") /\ s_snap_valid
          /\ StartRead({wire}, FALSE, 0)
          /\ UNCHANGED <<total, head, out>>
       \/ /\ hpc = "gotRegister" /\ out = <<>>
          /\ out' = <<s_snap_raw>>
          /\ UNCHANGED <<hpc, total, head, start>>
       \/ out # <<>> /\ Respond("gotRegister")
    /\ UNCHANGED <<tableVars, taskVars, torn>>

\* GET /api/unknown; last_raw does not matter to what is stated below.
ReadUnknown ==
    /\ \/ /\ Go("idle", "readSeen") /\ s_unk_valid
          /\ StartRead({}, pc \in Writing.unknown, sightings)
          /\ UNCHANGED <<total, head, out>>
       \/ /\ Go("readSeen", "readChanges")
          /\ out' = <<s_unk_seen>> /\ UNCHANGED <<total, head, start>>
       \/ /\ Go("readChanges", "gotUnknown")
          /\ out' = Append(out, s_unk_changes) /\ UNCHANGED <<total, head, start>>
       \/ Respond("gotUnknown")
    /\ UNCHANGED <<tableVars, taskVars, torn>>

\* get_recent_commands: the newest "have" of them, oldest first.
Have(count, size) == IF count < size THEN count ELSE size
ReadCommands ==
    /\ \/ /\ Go("idle", "readSlots") /\ total' = s_cmd_count
          /\ StartRead({}, pc \in CommandSteps, Len(published))
          /\ UNCHANGED <<head, out>>
       \/ /\ hpc = "readSlots" /\ Len(out) < Have(total, CommandRingSz)
          /\ out' = Append(out, s_cmd_ring[
                      CommandSlot(total - Have(total, CommandRingSz) + Len(out))])
          /\ UNCHANGED <<hpc, total, head, start>>
       \/ /\ Len(out) = Have(total, CommandRingSz)
          /\ Go("readSlots", "gotCommands") /\ UNCHANGED readVars
       \/ Respond("gotCommands")
    /\ UNCHANGED <<tableVars, taskVars, torn>>

AlwaysFromHead(h, have) == h
SkippedStart(h, have) == (h - have) % SkippedRingSz

\* get_skipped_bytes: s_skipped_total is loaded before s_skipped_head.
ReadSkipped ==
    /\ \/ /\ Go("idle", "loadHead") /\ total' = s_skipped_total
          /\ UNCHANGED <<head, out, start>>
       \/ /\ Go("loadHead", "readSkipped")
          /\ head' = s_skipped_head
          /\ StartRead({}, FALSE, IF pc = "skipHead" THEN frames - 1 ELSE frames)
          /\ UNCHANGED <<total, out>>
       \/ /\ hpc = "readSkipped" /\ Len(out) < Have(total, SkippedRingSz)
          /\ out' = Append(out, s_skipped_val[
                      (SkippedStart(head, Have(total, SkippedRingSz)) + Len(out))
                        % SkippedRingSz])
          /\ UNCHANGED <<hpc, total, head, start>>
       \/ /\ Len(out) = Have(total, SkippedRingSz)
          /\ Go("readSkipped", "gotSkipped") /\ UNCHANGED readVars
       \/ Respond("gotSkipped")
    /\ UNCHANGED <<tableVars, taskVars, torn>>

HttpdTask == \/ ClearSnapshot \/ ClearUnknown \/ ResetStats
             \/ ReadRegister \/ ReadUnknown \/ ReadCommands \/ ReadSkipped

Next == SnifferTask \/ HttpdTask

Spec == Init /\ [][Next]_vars
-----------------------------------------------------------------------------
(***************************************************************************)
(* Properties.  An interval of writing that overlaps a clear of the same   *)
(* table can damage it until the next clear; "torn" says so.               *)
(***************************************************************************)
\* GET /api/registers answers with a value the register had on the wire while
\* the request was served, never with the 0 of an entry not filled yet.
SnapshotReadTrue ==
    hpc = "gotRegister" /\ out # <<>> /\ "snapshot" \notin torn => out[1] \in start.seen

\* GET /api/commands: the record at each place is the command that was at this
\* place when the count was read, oldest first, except that the last may be
\* one still being written, and that each command counted since then may have
\* cost one of the oldest.
CommandsInOrder ==
    hpc = "gotCommands" =>
        \A i \in 1..Len(out) :
            \/ /\ out[i].whole
               /\ out[i].id = published[start.newest - Len(out) + i]
            \/ i = Len(out) /\ start.busy
            \/ i <= Len(published) - start.newest

\* GET /api/skipped: every byte returned was skipped since the last reset, and
\* they come in order, but for bytes that replaced the oldest during the read.
SkippedReal ==
    hpc = "gotSkipped" /\ "skipped" \notin torn =>
        /\ \A i \in 1..Len(out) : out[i] > resetAt
        /\ \A i, j \in 1..Len(out) :
             i < j => out[i] < out[j] \/ out[i] > start.newest

\* Between two updates the unknown-register table agrees with the wire: how
\* often the register was seen, fewer changes than that, its value, the count.
UnknownConsistent ==
    /\ pc \notin ResponseSteps /\ hpc \notin Clearing.unknown
    /\ "unknown" \notin torn
    => /\ s_unk_valid <=> sightings > 0
       /\ s_unk_seen = sightings
       /\ s_unk_valid => s_unk_changes < s_unk_seen /\ s_unk_raw = wire
       /\ s_unk_count = IF s_unk_valid THEN 1 ELSE 0

\* GET /api/unknown reads "seen" and "changes" one after the other: they are
\* apart by no more than the sightings that overlap the request.
UnknownReadBounded ==
    hpc = "gotUnknown" /\ "unknown" \notin torn =>
        out[2] + 1 <= out[1] + (sightings - start.newest) + (IF start.busy THEN 1 ELSE 0)

\* The unknown-register table adds up, at rest and as a request reads it.
UnknownAddsUp == UnknownConsistent /\ UnknownReadBounded
=============================================================================
