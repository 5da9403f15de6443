--------------------------- MODULE MCSessionCore ---------------------------
(***************************************************************************)
(* Instances of SessionCore for TLC.  The server sends a concatenation of  *)
(* pieces; the caller cuts the stream into reads in every possible way.    *)
(***************************************************************************)
EXTENDS SessionCore

CONSTANT MaxPieces

\* 0x0001: two bytes.  0x0002: three bytes.  0x0004: variable length.
MCLengths == [id \in {1, 2, 4} |-> CASE id = 1 -> 2 [] id = 2 -> 3 [] id = 4 -> -1]

\* The frames of the table, a variable-length frame of five bytes among them.
Short == <<1, 0>>
Fixed == <<2, 0, 9>>
Variable == <<4, 0, 5, 0, 9>>
\* An ID that is in no table, a length field below four, and a frame that
\* ends before the length in its header.
Unknown == <<3, 0>>
Corrupt == <<4, 0, 3, 0>>
Cut == <<4, 0, 7, 0, 1, 0>>

\* Every sequence of up to three pieces of any kind.
AnyPieces == {Short, Variable, Unknown, Corrupt, Cut}
\* Frames enough for the ring to wrap around before an unknown ID or a
\* corrupt length.
RingPieces == {Short, Fixed}
BadTails == {Unknown, Corrupt}

Concatenations(pieces, n) ==
    LET upTo[k \in 0..n] ==
          IF k = 0 THEN {<< >>}
          ELSE upTo[k - 1] \cup {s \o p : s \in upTo[k - 1], p \in pieces}
    IN  upTo[n]

MCStreams ==
    Concatenations(AnyPieces, MaxPieces)
      \cup {s \o t : s \in Concatenations(RingPieces, MaxPieces + 1), t \in BadTails}
=============================================================================
