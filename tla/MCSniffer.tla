------------------------------ MODULE MCSniffer ------------------------------
(* Instances of Sniffer for TLC. *)
EXTENDS Sniffer

CONSTANTS w1, w2   \* two register windows, or command selectors

MCWindows == {w1, w2}

\* One register per window; the decoder does not know the second one.
MCRegs      == {2000, 2150}
MCKnownRegs == {2000}
MCWinRegs   == [w \in MCWindows |-> IF w = w1 THEN {2000} ELSE {2150}]

\* Reads of both windows and writes to one.
MCTraffic     == {<<"read", w1>>, <<"read", w2>>, <<"cmd", w1>>}
StreamTraffic == {<<"read", w1>>, <<"cmd", w1>>}

NoFaults     == {}
StreamFaults == {"length", "overrun"}
TimingFaults == {"checksum", "window", "lost", "noise"}
CutFaults    == {"cut", "noise"}

\* The instance with damage that leaves frames whole is one the task keeps up with.
ASSUME PromptInstance == Faults = TimingFaults => KeptUp
=============================================================================
