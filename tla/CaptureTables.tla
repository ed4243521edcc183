---------------------------- MODULE CaptureTables ----------------------------
(***************************************************************************)
(* The reverse-engineering tables of modbus_sniffer.cpp (lines 119-209) as *)
(* operators on one record: the fc=0x06 command ring, the raw register     *)
(* snapshot and the unknown-register tracker.  The valid flags are folded  *)
(* into the values: Unseen for the snapshot, seen = 0 for the tracker.     *)
(* Timestamps and log lines are left out.                                  *)
(***************************************************************************)
EXTENDS Integers, FiniteSets

CONSTANTS
    Regs,          \* registers in the span SNAP_BASE .. SNAP_BASE+SNAP_SPAN-1
    KnownRegs,     \* registers the decoder has metadata for (register_lookup)
    Raw,           \* raw byte values
    Unseen,        \* no value captured
    CommandRingSz, \* COMMAND_RING_SZ (32 in the firmware)
    NoCommand      \* a command slot that was never written

ASSUME TablesAssumption ==
    /\ CommandRingSz \in Nat \ {0}
    /\ IsFiniteSet(Regs)
    /\ Unseen \notin Raw

UnknownEntry == [seen : Nat, changes : Nat, raw : Raw \cup {Unseen}]

\* The tables, when the frames of commands are in cmds.
Tables(cmds) ==
    [cmdRing  : [0..(CommandRingSz - 1) -> cmds \cup {NoCommand}],
     cmdCount : Nat,
     snap     : [Regs -> Raw \cup {Unseen}],
     unk      : [Regs -> UnknownEntry],
     unkCount : Nat]

EmptyTables ==
    [cmdRing  |-> [i \in 0..(CommandRingSz - 1) |-> NoCommand],
     cmdCount |-> 0,
     snap     |-> [r \in Regs |-> Unseen],
     unk      |-> [r \in Regs |-> [seen |-> 0, changes |-> 0, raw |-> Unseen]],
     unkCount |-> 0]

RecordCommand(t, cmd) ==
    [t EXCEPT !.cmdCount = @ + 1,
              !.cmdRing = [@ EXCEPT ![t.cmdCount % CommandRingSz] = cmd]]

\* track_unknown on the entry of one register.
TrackUnknown(e, raw) ==
    [seen    |-> e.seen + 1,
     changes |-> IF e.seen > 0 /\ e.raw # raw THEN e.changes + 1 ELSE e.changes,
     raw     |-> raw]

\* The loop of process_frame over the registers of one response: every value
\* goes to the snapshot, those of unknown registers to the tracker as well.
\* Registers outside the span are in neither table.
StoreResponse(t, values) ==
    LET stored  == DOMAIN values \cap Regs
        tracked == stored \ KnownRegs
    IN [t EXCEPT
          !.snap = [r \in Regs |-> IF r \in stored THEN values[r] ELSE @[r]],
          !.unk  = [r \in Regs |-> IF r \in tracked THEN TrackUnknown(@[r], values[r])
                                                    ELSE @[r]],
          !.unkCount = @ + Cardinality({r \in tracked : t.unk[r].seen = 0})]
=============================================================================
