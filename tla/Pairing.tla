------------------------------- MODULE Pairing -------------------------------
(***************************************************************************)
(* What the sniffer promises its transaction callback: every read request  *)
(* it recognises is reported exactly once, in the order the requests were  *)
(* seen, either with a response for the same window or as unanswered; at   *)
(* most one request is open at any time.                                   *)
(*                                                                         *)
(* The bus, the buffers and the timing are left out; modbus_sniffer.cpp is *)
(* shown to implement this in Sniffer.tla.                                 *)
(***************************************************************************)
EXTENDS Integers

CONSTANTS Requests,  \* requests, each with the window "win" it asks for
          Answers,   \* responses, each with the window "win" it carries
          None       \* no request open, nothing reported, no answer

VARIABLES open,      \* the request waiting for its response, or None
          reported,  \* the last report: [req, ans], or None
          nAsked,    \* requests recognised so far
          nReported  \* reports made so far

vars == <<open, reported, nAsked, nReported>>

Init == /\ open = None
        /\ reported = None
        /\ nAsked = 0
        /\ nReported = 0

Report(r, a) == /\ reported' = [req |-> r, ans |-> a]
                /\ nReported' = nReported + 1

\* A new request; one still open is given up on first.
Ask == /\ \E r \in Requests : open' = r
       /\ nAsked' = nAsked + 1
       /\ IF open = None THEN UNCHANGED <<reported, nReported>>
                         ELSE Report(open, None)

Answer == /\ open # None
          /\ \E a \in Answers : a.win = open.win /\ Report(open, a)
          /\ open' = None
          /\ UNCHANGED nAsked

GiveUp == /\ open # None
          /\ Report(open, None)
          /\ open' = None
          /\ UNCHANGED nAsked

Next == Ask \/ Answer \/ GiveUp

Spec == Init /\ [][Next]_vars

-----------------------------------------------------------------------------
\* No request is lost and none is reported twice.
ReportedOnce == nAsked = nReported + (IF open = None THEN 0 ELSE 1)
=============================================================================
