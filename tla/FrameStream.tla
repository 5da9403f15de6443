---------------------------- MODULE FrameStream ----------------------------
(***************************************************************************)
(* What the framing engine promises, with no buffer and no chunks: the     *)
(* byte stream the server sent is consumed in order, one whole frame at a  *)
(* time.  The only other things that may happen are that the bytes from an *)
(* unknown packet ID onward are given up, and that a corrupt length field  *)
(* ends the session for good.                                              *)
(***************************************************************************)
EXTENDS Framing

CONSTANT Streams        \* the byte streams a server may send

VARIABLES
    stream,     \* what the server sends on this connection
    pos,        \* how many of its bytes are used up
    delivered,  \* the frames dispatched so far
    corrupt     \* the session has met a corrupt length field

vars == <<stream, pos, delivered, corrupt>>

Rest == From(stream, pos + 1)

Init ==
    /\ stream \in Streams
    /\ pos = 0
    /\ delivered = << >>
    /\ corrupt = FALSE

Deliver ==
    /\ ~corrupt
    /\ IsComplete(Rest)
    /\ delivered' = Append(delivered, SubSeq(Rest, 1, FrameLen(Rest)))
    /\ pos' = pos + FrameLen(Rest)
    /\ UNCHANGED <<stream, corrupt>>

GiveUp ==
    /\ ~corrupt
    /\ IsUnknown(Rest)
    /\ \E n \in 2..Len(Rest) : pos' = pos + n
    /\ UNCHANGED <<stream, delivered, corrupt>>

Corrupt ==
    /\ ~corrupt
    /\ IsCorrupt(Rest)
    /\ corrupt' = TRUE
    /\ UNCHANGED <<stream, pos, delivered>>

Next == Deliver \/ GiveUp \/ Corrupt

Spec == Init /\ [][Next]_vars
=============================================================================
