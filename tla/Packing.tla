------------------------------ MODULE Packing ------------------------------
(***************************************************************************)
(* The packed position formats (pkg/packing/packing.go): three bytes for a *)
(* cell and a direction, six bytes for a move.  Shifts are products and    *)
(* quotients, masks are remainders; the operands of every | in the code    *)
(* have no bit in common, so | is +.  Values are uint16 and uint8.         *)
(***************************************************************************)
EXTENDS Integers

Uint8 == 0..255
Uint16 == 0..(256 * 256 - 1)
ByteOf(n) == n % 256

EncodePosDir(x, y, dir) ==
    <<ByteOf(x \div 4), ByteOf(64 * x + ((y \div 16) % 64)), ByteOf(16 * y + (dir % 16))>>

DecodePosDir(p) ==
    [x   |-> 4 * p[1] + p[2] \div 64,
     y   |-> 16 * (p[2] % 64) + p[3] \div 16,
     dir |-> p[3] % 16]

EncodeMoveData(fromX, fromY, toX, toY, sx0, sy0) ==
    <<ByteOf(fromX \div 4), ByteOf(64 * fromX + ((fromY \div 16) % 64)),
      ByteOf(16 * fromY + ((toX \div 64) % 16)), ByteOf(4 * toX + ((toY \div 256) % 4)),
      ByteOf(toY), 16 * (sx0 % 16) + (sy0 % 16)>>

DecodeMoveData(p) ==
    [fromX |-> 4 * p[1] + p[2] \div 64,
     fromY |-> 16 * (p[2] % 64) + p[3] \div 16,
     toX   |-> 64 * (p[3] % 16) + p[4] \div 4,
     toY   |-> 256 * (p[4] % 4) + p[5],
     sx0   |-> p[6] \div 16,
     sy0   |-> p[6] % 16]

\* For every uint16 x and y and uint8 dir: what is decoded is what was encoded,
\* cut to its ten or four bits, and no field leaks into another
\* (packing.go:30-46).
PosDirRoundTrip(x, y, dir) ==
    DecodePosDir(EncodePosDir(x, y, dir)) = [x |-> x % 1024, y |-> y % 1024, dir |-> dir % 16]

\* The same for the six fields of a move (packing.go:68-91).
MoveDataRoundTrip(fromX, fromY, toX, toY, sx0, sy0) ==
    DecodeMoveData(EncodeMoveData(fromX, fromY, toX, toY, sx0, sy0)) =
      [fromX |-> fromX % 1024, fromY |-> fromY % 1024,
       toX |-> toX % 1024, toY |-> toY % 1024, sx0 |-> sx0 % 16, sy0 |-> sy0 % 16]
=============================================================================
