------------------------------ MODULE Framing ------------------------------
(***************************************************************************)
(* How a packet header is read: the part of sessionCore.feed that depends  *)
(* only on the bytes at the front of the receive buffer and on the packet  *)
(* length table.  Shared by the abstract and the detailed framer.          *)
(***************************************************************************)
EXTENDS Integers, Sequences

CONSTANT
    lengths     \* the packet length table without its zero entries:
                \* packet ID -> frame length, or -1 for variable length

Radix == 256
Byte == 0..(Radix - 1)

\* The longest frame a 16-bit length field can describe.
MaxFrame == Radix * Radix - 1

\* No entry of the populate*Lengths tables is a positive length below the two
\* bytes of the packet ID; their int16 values are far below MaxFrame.
ASSUME LengthsAssumption ==
    /\ DOMAIN lengths \subseteq 0..MaxFrame
    /\ \A id \in DOMAIN lengths : lengths[id] \in {-1} \cup 2..MaxFrame

LE16(b, i) == b[i] + Radix * b[i + 1]

PacketID(b) == LE16(b, 1)

HasID(b) == Len(b) >= 2

IsUnknown(b) == HasID(b) /\ PacketID(b) \notin DOMAIN lengths

IsVariable(b) == HasID(b) /\ ~IsUnknown(b) /\ lengths[PacketID(b)] = -1

\* A variable-length packet whose length field has not arrived yet.
LengthPending(b) == IsVariable(b) /\ Len(b) < 4

\* A variable-length packet whose length field does not cover its header.
IsCorrupt(b) == IsVariable(b) /\ Len(b) >= 4 /\ LE16(b, 3) < 4

\* The header says how long the frame is.
IsSized(b) == HasID(b) /\ ~IsUnknown(b) /\ ~LengthPending(b) /\ ~IsCorrupt(b)

FrameLen(b) == IF IsVariable(b) THEN LE16(b, 3) ELSE lengths[PacketID(b)]

\* A whole frame is at the front of b.
IsComplete(b) == IsSized(b) /\ Len(b) >= FrameLen(b)

From(b, i) == SubSeq(b, i, Len(b))

(***************************************************************************)
(* Reference definition: the frames a byte sequence holds, cut one after   *)
(* the other from its start, up to the first header that is not a whole    *)
(* frame.                                                                  *)
(***************************************************************************)
RefFrames(s) ==
    LET cut[i \in 1..(Len(s) + 1)] ==
          LET rest == From(s, i)
          IN  IF IsComplete(rest)
              THEN <<SubSeq(rest, 1, FrameLen(rest))>> \o cut[i + FrameLen(rest)]
              ELSE << >>
    IN  cut[1]
=============================================================================
