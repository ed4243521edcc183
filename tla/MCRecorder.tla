------------------------------ MODULE MCRecorder -----------------------------
(* An instance of Recorder for TLC: the line lengths of the firmware in a   *)
(* buffer of a few lines.                                                   *)
EXTENDS Recorder

\* {"t":<13 digits>,"fc":3,"addr":<4>,"count":<2>,"values":[  is 59 characters;
\* 47 with a one-digit uptime stamp.
MCHeaderLens == {47, 59}

\* 43 or 58 one-digit values with commas, 43 three-digit ones.
MCTextLens   == {85, 115, 171}
MCBurstLens  == {1, 9, 67}
MCStampLens  == {1, 13}
=============================================================================
