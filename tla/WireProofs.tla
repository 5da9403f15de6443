----------------------------- MODULE WireProofs -----------------------------
(***************************************************************************)
(* Theorems about what the decoders and encoders do with bytes.  A list    *)
(* decoder reads only its body: the entry size and the walk through one    *)
(* entry are compared at every packet version, then the loop over a body   *)
(* of any size is bounded.  And the packed formats lose nothing, for every *)
(* value of the Go types: a coordinate is cut into a quotient and a        *)
(* remainder at the bit where the format cuts it; each byte that holds     *)
(* parts of two fields is shown to hold them side by side, and the parts   *)
(* of a field to make up the field.                                        *)
(***************************************************************************)
EXTENDS Wire, Packing, TLAPS

-----------------------------------------------------------------------------
(* List decoders.                                                          *)

\* A list cut into n whole entries stays inside its body, if an entry is read
\* inside its size.
LEMMA ListInBody ==
    ASSUME NEW size \in Nat \ {0}, NEW reads \in Nat, reads <= size, NEW body \in Nat
    PROVE  /\ DecodeList(size, reads, body).end <= body
           /\ DecodeList(size, reads, body).size = size
           /\ DecodeList(size, reads, body).reads = reads
           /\ DecodeList(size, reads, body).body = body
<1> DEFINE n == body \div size
<1>1. n \in Nat /\ n * size <= body
  OBVIOUS
<1>2. n # 0 => (n - 1) * size + reads <= body
  <2>1. (n - 1) * size = n * size - size /\ n * size \in Nat
    BY <1>1
  <2> HIDE DEF n
  <2> QED
    BY <1>1, <2>1
<1>3. DecodeList(size, reads, body) =
        [entries |-> n, size |-> size, reads |-> reads, body |-> body,
         end |-> IF n = 0 THEN 0 ELSE (n - 1) * size + reads]
  BY DEF DecodeList
<1> HIDE DEF n
<1> QED
  BY <1>2, <1>3

\* The entries of each list, at every packet version.
LEMMA EquipEntry ==
    ASSUME NEW pv \in Nat
    PROVE  equipItemSize(pv) \in Nat \ {0} /\ decodeEquipItemEntry(pv) = equipItemSize(pv)
BY DEF equipItemSize, decodeEquipItemEntry, When

LEMMA NormalEntry ==
    ASSUME NEW pv \in Nat
    PROVE  normalItemSize(pv) \in Nat \ {0} /\ decodeNormalItemEntry(pv) = normalItemSize(pv)
BY DEF normalItemSize, decodeNormalItemEntry, When

LEMMA CharacterEntry ==
    ASSUME NEW pv \in Nat
    PROVE  /\ charInfoSize(pv) \in Nat \ {0} /\ decodeCharacterInfoEntry(pv) \in Nat
           /\ decodeCharacterInfoEntry(pv) <= charInfoSize(pv)
BY DEF charInfoSize, decodeCharacterInfoEntry

LEMMA MemberEntry ==
    ASSUME NEW pv \in Nat
    PROVE  /\ zcGroupListMemberSize(pv) \in Nat \ {0}
           /\ decodeZcGroupListMember(pv) = zcGroupListMemberSize(pv)
BY DEF zcGroupListMemberSize, decodeZcGroupListMember, When

\* What EntriesInBounds says of a packet.
InBounds(p) ==
    /\ p.end <= p.body
    /\ p.reads <= p.size
    /\ p.list # "character" => p.reads = p.size

\* The packet a list decoder works on is in bounds.
LEMMA ListStep ==
    ASSUME packetver \in Packetvers, NEW body \in Bodies,
           NEW list \in {"equip", "normal", "character", "member"}, ReceiveList(list, body)
    PROVE  InBounds(packet')
<1>1. packetver \in Nat /\ body \in Nat
  BY WireAssumption
<1> DEFINE d == CASE list = "equip" -> decodeEquipItems(body, packetver)
                  [] list = "normal" -> decodeNormalItems(body, packetver)
                  [] list = "character" -> decodeCharacterInfoList(body, packetver)
                  [] list = "member" -> decodeZcGroupListRoster(body, packetver)
<1>2. /\ packet'.list = list /\ packet'.size = d.size /\ packet'.reads = d.reads
      /\ packet'.body = d.body /\ packet'.end = d.end
  <2>1. packet' = [kind |-> "list", list |-> list, entries |-> d.entries, size |-> d.size,
                   reads |-> d.reads, body |-> d.body, end |-> d.end]
    BY DEF ReceiveList
  <2> HIDE DEF d
  <2> QED
    BY <2>1
<1>3. d.end <= d.body /\ d.reads <= d.size /\ (list # "character" => d.reads = d.size)
  <2>1. CASE list = "equip"
    <3>1. d = DecodeList(equipItemSize(packetver), decodeEquipItemEntry(packetver), body)
      BY <2>1 DEF decodeEquipItems
    <3> HIDE DEF d
    <3>2. /\ equipItemSize(packetver) \in Nat \ {0}
          /\ decodeEquipItemEntry(packetver) = equipItemSize(packetver)
      BY <1>1, EquipEntry
    <3> QED
      BY <1>1, <3>1, <3>2, ListInBody
  <2>2. CASE list = "normal"
    <3>1. d = DecodeList(normalItemSize(packetver), decodeNormalItemEntry(packetver), body)
      BY <2>2 DEF decodeNormalItems
    <3> HIDE DEF d
    <3>2. /\ normalItemSize(packetver) \in Nat \ {0}
          /\ decodeNormalItemEntry(packetver) = normalItemSize(packetver)
      BY <1>1, NormalEntry
    <3> QED
      BY <1>1, <3>1, <3>2, ListInBody
  <2>3. CASE list = "character"
    <3>1. d = DecodeList(charInfoSize(packetver), decodeCharacterInfoEntry(packetver), body)
      BY <2>3 DEF decodeCharacterInfoList
    <3> HIDE DEF d
    <3>2. /\ charInfoSize(packetver) \in Nat \ {0} /\ decodeCharacterInfoEntry(packetver) \in Nat
          /\ decodeCharacterInfoEntry(packetver) <= charInfoSize(packetver)
      BY <1>1, CharacterEntry
    <3> QED
      BY <1>1, <2>3, <3>1, <3>2, ListInBody
  <2>4. CASE list = "member"
    <3>1. d = DecodeList(zcGroupListMemberSize(packetver), decodeZcGroupListMember(packetver), body)
      BY <2>4 DEF decodeZcGroupListRoster
    <3> HIDE DEF d
    <3>2. /\ zcGroupListMemberSize(packetver) \in Nat \ {0}
          /\ decodeZcGroupListMember(packetver) = zcGroupListMemberSize(packetver)
      BY <1>1, MemberEntry
    <3> QED
      BY <1>1, <3>1, <3>2, ListInBody
  <2> QED
    BY <2>1, <2>2, <2>3, <2>4
<1> HIDE DEF d
<1> QED
  BY <1>2, <1>3 DEF InBounds

\* At every packet version and for a body of any size, a list decoder reads inside
\* the body and an entry decoder inside its entry, of which it leaves nothing but,
\* in the character list, a tail (inventory_items_equip.go, character_info.go).
THEOREM EntriesStayInBounds == Spec => []EntriesInBounds
<1> DEFINE Inv == packetver \in Packetvers /\ (packet.kind = "list" => InBounds(packet))
<1>1. Init => Inv
  <2> SUFFICES ASSUME Init PROVE Inv
    OBVIOUS
  <2>1. packet = [kind |-> "idle"] /\ packetver \in Packetvers
    BY DEF Init, Idle
  <2> QED
    BY <2>1
<1>2. Inv /\ [Next]_vars => Inv'
  <2> SUFFICES ASSUME Inv, [Next]_vars PROVE Inv'
    OBVIOUS
  <2>1. packetver' = packetver
    BY DEF Next, Receive, ReceiveList, Send, SendHandshake, Done, vars
  <2>2. ASSUME NEW list \in {"equip", "normal", "character", "member"}, NEW body \in Bodies,
               ReceiveList(list, body)
        PROVE  InBounds(packet')
    BY <2>2, ListStep
  <2>3. ASSUME NEW action, Receive(action) PROVE packet'.kind # "list"
    <3>1. PICK e, l : packet' = [kind |-> "frame", action |-> action, id |-> e[1],
                                 variable |-> applyMapLengthOverrides(packetver, e[1]) = -1,
                                 length |-> l, reads |-> BytesRead(e[1], e[2], packetver, l)]
      BY <2>3, Zenon DEF Receive
    <3> QED
      BY <3>1
  <2>4. ASSUME NEW action, Send(action) PROVE packet'.kind # "list"
    <3>1. \E i, h, s, w, k : packet' = [kind |-> "request", action |-> action, id |-> i,
                                        shuffled |-> h, size |-> s, writes |-> w, keys |-> k]
      BY <2>4, Zenon DEF Send
    <3> QED
      BY <3>1
  <2>5. ASSUME NEW action, SendHandshake(action) PROVE packet'.kind # "list"
    <3>1. \E i, s, w : packet' = [kind |-> "handshake", action |-> action, id |-> i,
                                  size |-> s, writes |-> w]
      BY <2>5, Zenon DEF SendHandshake
    <3> QED
      BY <3>1
  <2>6. CASE Done
    BY <2>6 DEF Done, Idle
  <2>7. CASE UNCHANGED vars
    BY <2>7 DEF vars
  <2>8. packet'.kind = "list" => InBounds(packet')
    BY <2>2, <2>3, <2>4, <2>5, <2>6, <2>7, Zenon DEF Next
  <2> QED
    BY <2>1, <2>8
<1>3. Inv => EntriesInBounds
  BY DEF EntriesInBounds, InBounds
<1> QED
  BY <1>1, <1>2, <1>3, PTL DEF Spec

-----------------------------------------------------------------------------
(* Packed positions.                                                       *)

\* Every number can be cut after its lower two, four, six or eight bits.
LEMMA Cuts2 == ASSUME NEW n \in Nat PROVE \E q \in Nat, r \in 0..3 : n = 4 * q + r
<1>1. n \div 4 \in Nat /\ n % 4 \in 0..3 /\ n = 4 * (n \div 4) + (n % 4)
  OBVIOUS
<1> QED BY <1>1

LEMMA Cuts4 == ASSUME NEW n \in Nat PROVE \E q \in Nat, r \in 0..15 : n = 16 * q + r
<1>1. n \div 16 \in Nat /\ n % 16 \in 0..15 /\ n = 16 * (n \div 16) + (n % 16)
  OBVIOUS
<1> QED BY <1>1

LEMMA Cuts6 == ASSUME NEW n \in Nat PROVE \E q \in Nat, r \in 0..63 : n = 64 * q + r
<1>1. n \div 64 \in Nat /\ n % 64 \in 0..63 /\ n = 64 * (n \div 64) + (n % 64)
  OBVIOUS
<1> QED BY <1>1

LEMMA Cuts8 == ASSUME NEW n \in Nat PROVE \E q \in Nat, r \in 0..255 : n = 256 * q + r
<1>1. n \div 256 \in Nat /\ n % 256 \in 0..255 /\ n = 256 * (n \div 256) + (n % 256)
  OBVIOUS
<1> QED BY <1>1

\* The values of the Go types are natural numbers.
LEMMA UintsAreNats == Uint8 \subseteq Nat /\ Uint16 \subseteq Nat
BY DEF Uint8, Uint16

\* What the encoders and decoders see of a number cut after two bits ...
LEMMA CutAt2 ==
    ASSUME NEW q \in Nat, NEW r \in 0..3
    PROVE  /\ (4 * q + r) \div 4 = q
           /\ (4 * q + r) % 4 = r
           /\ (4 * q + r) % 1024 = 4 * (q % 256) + r
<1>1. (4 * q + r) \div 4 = q
  OBVIOUS
<1>2. (4 * q + r) % 4 = r
  OBVIOUS
<1>3. (4 * q + r) % 1024 = 4 * (q % 256) + r
  OBVIOUS
<1> QED
  BY <1>1, <1>2, <1>3, ZenonT(40)

\* ... and after four bits.
LEMMA CutAt4 ==
    ASSUME NEW q \in Nat, NEW r \in 0..15
    PROVE  /\ (16 * q + r) \div 16 = q
           /\ (16 * q + r) % 16 = r
           /\ (16 * q + r) % 1024 = 16 * (q % 64) + r
<1>1. (16 * q + r) \div 16 = q
  OBVIOUS
<1>2. (16 * q + r) % 16 = r
  OBVIOUS
<1>3. (16 * q + r) % 1024 = 16 * (q % 64) + r
  OBVIOUS
<1> QED
  BY <1>1, <1>2, <1>3, ZenonT(40)

\* The second byte, uint8(x << 6 | m): two bits of x and six of m.
LEMMA SecondByte ==
    ASSUME NEW q \in Nat, NEW r \in 0..3, NEW m \in 0..63
    PROVE  /\ ByteOf(64 * (4 * q + r) + m) \div 64 = r
           /\ ByteOf(64 * (4 * q + r) + m) % 64 = m
<1>1. ByteOf(64 * (4 * q + r) + m) = 64 * r + m
  BY DEF ByteOf
<1>2. (64 * r + m) \div 64 = r
  OBVIOUS
<1>3. (64 * r + m) % 64 = m
  OBVIOUS
<1> QED
  BY <1>1, <1>2, <1>3

\* The third byte, uint8(y << 4 | m): four bits of y and four of m.
LEMMA ThirdByte ==
    ASSUME NEW q \in Nat, NEW r \in 0..15, NEW m \in 0..15
    PROVE  /\ ByteOf(16 * (16 * q + r) + m) \div 16 = r
           /\ ByteOf(16 * (16 * q + r) + m) % 16 = m
<1>1. ByteOf(16 * (16 * q + r) + m) = 16 * r + m
  BY DEF ByteOf
<1>2. (16 * r + m) \div 16 = r
  OBVIOUS
<1>3. (16 * r + m) % 16 = m
  OBVIOUS
<1> QED
  BY <1>1, <1>2, <1>3

\* The fourth byte of a move, uint8(x << 2 | m): six bits of x and two of m.
LEMMA FourthByte ==
    ASSUME NEW q \in Nat, NEW r \in 0..63, NEW m \in 0..3
    PROVE  /\ ByteOf(4 * (64 * q + r) + m) \div 4 = r
           /\ ByteOf(4 * (64 * q + r) + m) % 4 = m
<1>1. ByteOf(4 * (64 * q + r) + m) = 4 * r + m
  BY DEF ByteOf
<1>2. (4 * r + m) \div 4 = r
  OBVIOUS
<1>3. (4 * r + m) % 4 = m
  OBVIOUS
<1> QED
  BY <1>1, <1>2, <1>3

\* Decoding what EncodePosDir wrote gives back the low ten bits of both
\* coordinates and the low four of the direction, whatever the other bits are
\* (packing.go:30-46).
THEOREM PosDirLossless ==
    \A x, y \in Uint16, dir \in Uint8 : PosDirRoundTrip(x, y, dir)
<1> SUFFICES ASSUME NEW x \in Uint16, NEW y \in Uint16, NEW dir \in Uint8
             PROVE  PosDirRoundTrip(x, y, dir)
  OBVIOUS
<1>0. x \in Nat /\ y \in Nat /\ dir \in Nat
  BY UintsAreNats, ZenonT(40)
<1>1. PICK qx \in Nat, rx \in 0..3 : x = 4 * qx + rx
  BY <1>0, Cuts2
<1>2. PICK qy \in Nat, ry \in 0..15 : y = 16 * qy + ry
  BY <1>0, Cuts4
<1>3. PICK m \in 0..63 : m = qy % 64
  OBVIOUS
<1>4. PICK d \in 0..15 : d = dir % 16
  BY <1>0
<1>5. x \div 4 = qx /\ x % 1024 = 4 * ByteOf(qx) + rx
  BY <1>1, CutAt2 DEF ByteOf
<1>6. (y \div 16) % 64 = m /\ y % 1024 = 16 * m + ry
  <2>1. y \div 16 = qy /\ y % 1024 = 16 * (qy % 64) + ry
    <3>1. (16 * qy + ry) \div 16 = qy /\ (16 * qy + ry) % 1024 = 16 * (qy % 64) + ry
      BY <1>2, CutAt4
    <3> QED BY <3>1, <1>2, ZenonT(40)
  <2> QED BY <2>1, <1>3, ZenonT(40)
<1>7. ByteOf(64 * x + m) \div 64 = rx /\ ByteOf(64 * x + m) % 64 = m
  BY <1>1, SecondByte
<1>8. ByteOf(16 * y + d) \div 16 = ry /\ ByteOf(16 * y + d) % 16 = d
  BY <1>2, ThirdByte
<1>9. EncodePosDir(x, y, dir) = <<ByteOf(qx), ByteOf(64 * x + m), ByteOf(16 * y + d)>>
  <2>1. EncodePosDir(x, y, dir) =
          <<ByteOf(x \div 4), ByteOf(64 * x + ((y \div 16) % 64)), ByteOf(16 * y + (dir % 16))>>
    BY Zenon DEF EncodePosDir
  <2>2. ByteOf(x \div 4) = ByteOf(qx)
    BY <1>5, ZenonT(40)
  <2>3. ByteOf(64 * x + ((y \div 16) % 64)) = ByteOf(64 * x + m)
    BY <1>6, ZenonT(40)
  <2>4. ByteOf(16 * y + (dir % 16)) = ByteOf(16 * y + d)
    BY <1>4, ZenonT(40)
  <2> QED
    BY <2>1, <2>2, <2>3, <2>4, ZenonT(40)
<1> DEFINE p == <<ByteOf(qx), ByteOf(64 * x + m), ByteOf(16 * y + d)>>
<1>10. p[1] = ByteOf(qx) /\ p[2] = ByteOf(64 * x + m) /\ p[3] = ByteOf(16 * y + d)
  OBVIOUS
<1> HIDE DEF p
<1>11. DecodePosDir(p) = [x |-> x % 1024, y |-> y % 1024, dir |-> dir % 16]
  BY <1>4, <1>5, <1>6, <1>7, <1>8, <1>10 DEF DecodePosDir
<1> QED
  BY <1>9, <1>11 DEF PosDirRoundTrip, p

\* Decoding what EncodeMoveData wrote gives back the low ten bits of the four
\* coordinates and the low four of the two offsets (packing.go:68-91).
THEOREM MoveDataLossless ==
    \A fromX, fromY, toX, toY \in Uint16, sx0, sy0 \in Uint8 :
      MoveDataRoundTrip(fromX, fromY, toX, toY, sx0, sy0)
<1> SUFFICES ASSUME NEW fromX \in Uint16, NEW fromY \in Uint16,
                    NEW toX \in Uint16, NEW toY \in Uint16,
                    NEW sx0 \in Uint8, NEW sy0 \in Uint8
             PROVE  MoveDataRoundTrip(fromX, fromY, toX, toY, sx0, sy0)
  OBVIOUS
<1>0. /\ fromX \in Nat /\ fromY \in Nat /\ toX \in Nat /\ toY \in Nat
      /\ sx0 \in Nat /\ sy0 \in Nat
  BY UintsAreNats, ZenonT(40)
<1>1. PICK q1 \in Nat, r1 \in 0..3 : fromX = 4 * q1 + r1
  BY <1>0, Cuts2
<1>2. PICK q2 \in Nat, r2 \in 0..15 : fromY = 16 * q2 + r2
  BY <1>0, Cuts4
<1>3. PICK q3 \in Nat, r3 \in 0..63 : toX = 64 * q3 + r3
  BY <1>0, Cuts6
<1>4. PICK q4 \in Nat, r4 \in 0..255 : toY = 256 * q4 + r4
  BY <1>0, Cuts8
\* The upper parts, as far as the format keeps them.
<1>5. PICK m2 \in 0..63 : m2 = q2 % 64
  OBVIOUS
<1>6. PICK m3 \in 0..15 : m3 = q3 % 16
  OBVIOUS
<1>7. PICK m4 \in 0..3 : m4 = q4 % 4
  OBVIOUS
<1>8. PICK a \in 0..15 : a = sx0 % 16
  BY <1>0
<1>9. PICK b \in 0..15 : b = sy0 % 16
  BY <1>0
<1>10. fromX \div 4 = q1 /\ fromX % 1024 = 4 * ByteOf(q1) + r1
  BY <1>1, CutAt2 DEF ByteOf
<1>11. (fromY \div 16) % 64 = m2 /\ fromY % 1024 = 16 * m2 + r2
  <2>1. (16 * q2 + r2) \div 16 = q2 /\ (16 * q2 + r2) % 1024 = 16 * (q2 % 64) + r2
    BY <1>2, CutAt4
  <2> QED BY <2>1, <1>2, <1>5, ZenonT(40)
<1>12. (toX \div 64) % 16 = m3 /\ toX % 1024 = 64 * m3 + r3
  <2>1. (64 * q3 + r3) \div 64 = q3
    OBVIOUS
  <2>2. (64 * q3 + r3) % 1024 = 64 * (q3 % 16) + r3
    OBVIOUS
  <2> QED BY <2>1, <2>2, <1>3, <1>6, ZenonT(40)
<1>13. (toY \div 256) % 4 = m4 /\ toY % 1024 = 256 * m4 + r4 /\ ByteOf(toY) = r4
  <2>1. (256 * q4 + r4) \div 256 = q4
    OBVIOUS
  <2>2. (256 * q4 + r4) % 1024 = 256 * (q4 % 4) + r4
    OBVIOUS
  <2>3. ByteOf(256 * q4 + r4) = r4
    BY DEF ByteOf
  <2> QED BY <2>1, <2>2, <2>3, <1>4, <1>7, ZenonT(40)
\* The six bytes, and what the decoder reads from each.
<1> DEFINE p == <<ByteOf(q1), ByteOf(64 * fromX + m2), ByteOf(16 * fromY + m3),
                  ByteOf(4 * toX + m4), r4, 16 * a + b>>
<1>14. EncodeMoveData(fromX, fromY, toX, toY, sx0, sy0) = p
  <2>1. EncodeMoveData(fromX, fromY, toX, toY, sx0, sy0) =
          <<ByteOf(fromX \div 4), ByteOf(64 * fromX + ((fromY \div 16) % 64)),
            ByteOf(16 * fromY + ((toX \div 64) % 16)), ByteOf(4 * toX + ((toY \div 256) % 4)),
            ByteOf(toY), 16 * (sx0 % 16) + (sy0 % 16)>>
    BY Zenon DEF EncodeMoveData
  <2>2. ByteOf(fromX \div 4) = ByteOf(q1)
    BY <1>10, ZenonT(40)
  <2>3. ByteOf(64 * fromX + ((fromY \div 16) % 64)) = ByteOf(64 * fromX + m2)
    BY <1>11, ZenonT(40)
  <2>4. ByteOf(16 * fromY + ((toX \div 64) % 16)) = ByteOf(16 * fromY + m3)
    BY <1>12, ZenonT(40)
  <2>5. ByteOf(4 * toX + ((toY \div 256) % 4)) = ByteOf(4 * toX + m4)
    BY <1>13
  <2>6. 16 * (sx0 % 16) + (sy0 % 16) = 16 * a + b
    BY <1>8, <1>9, ZenonT(40)
  <2> QED
    BY <2>1, <2>2, <2>3, <2>4, <2>5, <2>6, <1>13, ZenonT(40)
<1>15. p[1] = ByteOf(q1) /\ p[2] = ByteOf(64 * fromX + m2) /\ p[3] = ByteOf(16 * fromY + m3)
       /\ p[4] = ByteOf(4 * toX + m4) /\ p[5] = r4 /\ p[6] = 16 * a + b
  OBVIOUS
<1>16. p[2] \div 64 = r1 /\ p[2] % 64 = m2
  BY <1>1, <1>15, SecondByte
<1>17. p[3] \div 16 = r2 /\ p[3] % 16 = m3
  BY <1>2, <1>15, ThirdByte
<1>18. p[4] \div 4 = r3 /\ p[4] % 4 = m4
  BY <1>3, <1>15, FourthByte
<1>19. p[6] \div 16 = a /\ p[6] % 16 = b
  <2>1. (16 * a + b) \div 16 = a /\ (16 * a + b) % 16 = b
    BY CutAt4
  <2> QED BY <2>1, <1>15, ZenonT(40)
<1> HIDE DEF p
<1>20. DecodeMoveData(p) =
         [fromX |-> fromX % 1024, fromY |-> fromY % 1024,
          toX |-> toX % 1024, toY |-> toY % 1024, sx0 |-> sx0 % 16, sy0 |-> sy0 % 16]
  BY <1>8, <1>9, <1>10, <1>11, <1>12, <1>13, <1>15, <1>16, <1>17, <1>18, <1>19
     DEF DecodeMoveData
<1> QED
  BY <1>14, <1>20 DEF MoveDataRoundTrip
=============================================================================
