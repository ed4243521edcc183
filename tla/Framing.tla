------------------------------- MODULE Framing -------------------------------
(***************************************************************************)
(* Frames on the RS-485 bus and what the tuya_codec operations the sniffer *)
(* calls may answer about a buffer of received bytes.                      *)
(*                                                                         *)
(* The codec lives in a submodule whose sources are not in the repository; *)
(* the operators marked external are taken from how modbus_sniffer.cpp     *)
(* uses it and from tests/test_tuya_codec.cpp.  Where those leave an       *)
(* answer open (a header cut off by the end of the buffer, a header of an  *)
(* unknown window, a header glued from two frames) every answer is allowed.*)
(*                                                                         *)
(* A byte is a position in the frame that was transmitted, or Noise: its   *)
(* value is irrelevant, what matters is which frame a buffer is aligned on.*)
(***************************************************************************)
EXTENDS Integers, Sequences

CONSTANTS
    HdrLen,        \* bytes before the payload (8 in the firmware)
    MaxFrameLen,   \* MAX_FRAME_LEN (256 in the firmware)
    PayloadLen,    \* payload bytes of a known window or of a command
    Windows,       \* register windows the codec knows, and command selectors
    StrayWindow,   \* a field_a/field_b pair outside the known windows
    Noise          \* a byte that belongs to no frame

ASSUME FramingAssumption ==
    /\ HdrLen \in Nat \ {0, 1}
    /\ MaxFrameLen \in Nat
    /\ PayloadLen \in Nat
    /\ HdrLen + 1 + PayloadLen <= MaxFrameLen
    /\ StrayWindow \notin Windows

MinFrameLen == HdrLen + 1

\* Two payloads are told apart; they also tell consecutive polls apart.
Ids == {0, 1}

(***************************************************************************)
(* A frame as transmitted.  "count" is field_b as the header claims it,    *)
(* "good" is whether magic, fields and checksum survive parsing.           *)
(***************************************************************************)
Frame == [dir   : {"req", "rsp"},
          fc    : {"read", "cmd"},
          win   : Windows \cup {StrayWindow},
          count : {PayloadLen, MaxFrameLen},
          good  : BOOLEAN,
          id    : Ids]

\* Read responses and write requests are the frames with a payload.
CarriesPayload(f) == (f.fc = "read") <=> (f.dir = "rsp")

FrameLen(f) == MinFrameLen + (IF CarriesPayload(f) THEN f.count ELSE 0)

Byte == (Frame \X (1..MaxFrameLen)) \cup {Noise}

ASSUME NoiseAssumption == Noise \notin Frame \X (1..MaxFrameLen)

\* The bytes a transmitter puts on the wire for f; a frame whose count was
\* corrupted to an impossible length is as long as the real one was.
OnWire(f) ==
    [i \in 1..(IF FrameLen(f) <= MaxFrameLen THEN FrameLen(f) ELSE MinFrameLen)
        |-> <<f, i>>]

\* ParseResult::OK frames: checksum good and the window or command known.
Recognised(f) == /\ f.good
                 /\ f.fc = "cmd" \/ f.win \in Windows

-----------------------------------------------------------------------------
(* Inspecting a buffer *)

\* b[k] is the first byte of some frame.
StartsAt(b, k) == b[k] # Noise /\ b[k][2] = 1

\* A whole header of one frame stands at position k.
HeaderAt(b, k) ==
    /\ k + HdrLen - 1 <= Len(b)
    /\ StartsAt(b, k)
    /\ \A i \in 1..HdrLen : b[k + i - 1] = <<b[k][1], i>>

\* Headers that find_frame_start cannot pass over.
PlainHeaderAt(b, k) ==
    /\ HeaderAt(b, k)
    /\ b[k][1].fc = "cmd" \/ b[k][1].win \in Windows
    /\ FrameLen(b[k][1]) <= MaxFrameLen

\* The offsets find_frame_start may return; Len(b) stands for "none".
FrameStarts(b) ==
    {s \in 0..Len(b) : /\ s < Len(b) => StartsAt(b, s + 1)
                       /\ \A k \in 1..s : ~PlainHeaderAt(b, k)}

\* The lengths the header fields at the front of b may yield: that of the
\* frame, or anything when the header is glued from two transmissions.
ClaimedLens(b) ==
    IF HeaderAt(b, 1) THEN {FrameLen(b[1][1])}
                      ELSE MinFrameLen..(MaxFrameLen + 1)

\* parse_frame(b, n) returns OK: the n bytes are one recognised frame.
ParseOK(b, n) ==
    /\ HeaderAt(b, 1)
    /\ Recognised(b[1][1])
    /\ SubSeq(b, 1, n) = OnWire(b[1][1])
=============================================================================
