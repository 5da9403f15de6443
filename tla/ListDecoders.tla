---------------------------- MODULE ListDecoders ----------------------------
(*
  The hand-written decoders of packets that carry a list of records
  (pkg/decode/inventory_items_equip.go, inventory_items_stackable.go,
  character_info.go, zc_group_list.go).

  Each has a size function, which cuts the body of the frame into entries, and
  an entry decoder, which walks one entry field by field. Both depend on the
  packet version, in separate conditions: here an entry decoder is the offset
  after the last byte it reads.
*)
EXTENDS Integers, Sequences

\* n bytes that are on the wire only when the condition holds.
When(cond, n) == IF cond THEN n ELSE 0

\* A forgotten breakpoint: the option fields without their 26 bytes.
equipItemSize_NoOptions(pv) ==
  CASE pv >= 20200916 -> 68
    [] pv >= 20181121 /\ pv < 20200916 -> 67
    [] pv >= 20120925 /\ pv < 20181121 -> 31
    [] pv >= 20100629 /\ pv < 20120925 -> 28
    [] pv >= 20080102 /\ pv < 20100629 -> 26
    [] pv >= 20071002 /\ pv < 20080102 -> 24
    [] OTHER -> 20

equipItemSize(pv) ==
  CASE pv >= 20200916 -> 68
    [] pv >= 20181121 /\ pv < 20200916 -> 67
    [] pv >= 20150226 /\ pv < 20181121 -> 57
    [] pv >= 20120925 /\ pv < 20150226 -> 31
    [] pv >= 20100629 /\ pv < 20120925 -> 28
    [] pv >= 20080102 /\ pv < 20100629 -> 26
    [] pv >= 20071002 /\ pv < 20080102 -> 24
    [] OTHER -> 20

\* index, ITID, type, IsIdentified, location and WearState, IsDamaged, RefiningLevel, cards,
\* HireExpireDate, bindOnEquipType, wItemSpriteNumber, options, RefiningLevel and grade, flag.
decodeEquipItemEntry(pv) ==
  2 + (IF pv >= 20181121 THEN 4 ELSE 2) + 1
    + When(pv < 20120925, 1)
    + (IF pv >= 20120925 THEN 8 ELSE 4)
    + When(pv < 20120925, 1)
    + When(pv < 20200916, 1)
    + (IF pv >= 20181121 THEN 16 ELSE 8)
    + When(pv >= 20071002, 4)
    + When(pv >= 20080102, 2)
    + When(pv >= 20100629, 2)
    + When(pv >= 20150226, 1 + 5 * 5)
    + When(pv >= 20200916, 2)
    + When(pv >= 20120925, 1)

normalItemSize(pv) ==
  CASE pv >= 20181121 -> 34
    [] pv >= 20120925 /\ pv < 20181121 -> 24
    [] pv >= 20080102 /\ pv < 20120925 -> 22
    [] OTHER -> 18

\* index, ITID, type, IsIdentified, count, WearState, cards, HireExpireDate, flag.
decodeNormalItemEntry(pv) ==
  2 + (IF pv >= 20181121 THEN 4 ELSE 2) + 1
    + When(pv < 20120925, 1)
    + 2
    + (IF pv >= 20120925 THEN 4 ELSE 2)
    + (IF pv >= 20181121 THEN 16 ELSE 8)
    + When(pv >= 20080102, 4)
    + When(pv >= 20120925, 1)

charInfoSize(pv) ==
  CASE pv >= 20220330 -> 175
    [] pv >= 20170830 /\ pv < 20220330 -> 155
    [] pv >= 20141022 /\ pv < 20170830 -> 147
    [] pv >= 20141016 /\ pv < 20141022 -> 145
    [] pv >= 20111025 /\ pv < 20141016 -> 144
    [] pv >= 20110928 /\ pv < 20111025 -> 140
    [] pv >= 20110111 /\ pv < 20110928 -> 136
    [] pv >= 20100803 /\ pv < 20110111 -> 132
    [] pv >= 20100720 /\ pv < 20100803 -> 128
    [] OTHER -> 112

\* The last field of each layout: sex, map name or CharNum.
decodeCharacterInfoEntry(pv) ==
  CASE pv >= 20220330 -> 174 + 1
    [] pv >= 20170830 /\ pv < 20220330 -> 154 + 1
    [] pv >= 20141022 /\ pv < 20170830 -> 146 + 1
    [] pv >= 20141016 /\ pv < 20141022 -> 144 + 1
    [] pv >= 20100720 /\ pv < 20141016 -> 112 + 16
    [] OTHER -> 108 + 1

zcGroupListMemberSize(pv) ==
  CASE pv >= 20171207 -> 54
    [] pv >= 20170524 /\ pv < 20171207 -> 50
    [] OTHER -> 46

\* AID, GID, player name, map name, leader, offline, class and base level.
decodeZcGroupListMember(pv) ==
  4 + When(pv >= 20171207, 4) + 24 + 16 + 1 + 1 + When(pv >= 20170524, 2 + 2)

\* The loops decodeEquipItems, decodeNormalItems, decodeCharacterInfoList and
\* decodeZcGroupListRoster over a body of `body` bytes: the number of entries (a partial
\* one at the end is dropped) and the offset after the last byte any entry decoder reads.
DecodeList(size, reads, body) ==
  LET n == body \div size
  IN  [entries |-> n, size |-> size, reads |-> reads, body |-> body,
       end |-> IF n = 0 THEN 0 ELSE (n - 1) * size + reads]

decodeEquipItems(body, pv) == DecodeList(equipItemSize(pv), decodeEquipItemEntry(pv), body)
decodeNormalItems(body, pv) == DecodeList(normalItemSize(pv), decodeNormalItemEntry(pv), body)
decodeCharacterInfoList(body, pv) ==
  DecodeList(charInfoSize(pv), decodeCharacterInfoEntry(pv), body)
decodeZcGroupListRoster(body, pv) ==
  DecodeList(zcGroupListMemberSize(pv), decodeZcGroupListMember(pv), body)

ListVersions ==
  {20071002, 20080102, 20100629, 20100720, 20100803, 20110111, 20110928, 20111025, 20120925,
   20141016, 20141022, 20150226, 20170524, 20170830, 20171207, 20181121, 20200916, 20220330}
==============================================================================
