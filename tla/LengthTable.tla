--------------------------- MODULE LengthTable ---------------------------
(*
  The packet length tables a session frames its stream with: the generated
  populateLoginLengths, populateCharLengths and populateMapLengths
  (pkg/session/lengths_*.go) and the hand-kept applyMapLengthOverrides.
*)
EXTENDS Integers, Sequences, SequencesExt, MapLengths

\* A block of assignments t[id] = n as a function from IDs to lengths.
Block(pairs) == [id \in {p[1] : p \in pairs} |-> (CHOOSE p \in pairs : p[1] = id)[2]]

\* The blocks newest first: a later block overwrites the entries of an earlier one.
MapBlocks ==
  <<<<20250402, Block(Map_20250402)>>, <<20230607, Block(Map_20230607)>>,
    <<20221005, Block(Map_20221005)>>, <<20220504, Block(Map_20220504)>>,
    <<20210818, Block(Map_20210818)>>, <<20210203, Block(Map_20210203)>>,
    <<20210000, Block(Map_20210000)>>, <<20201118, Block(Map_20201118)>>,
    <<20201007, Block(Map_20201007)>>, <<20200916, Block(Map_20200916)>>,
    <<20200902, Block(Map_20200902)>>, <<20200414, Block(Map_20200414)>>,
    <<20191120, Block(Map_20191120)>>, <<20190807, Block(Map_20190807)>>,
    <<20190731, Block(Map_20190731)>>, <<20190724, Block(Map_20190724)>>,
    <<20190703, Block(Map_20190703)>>, <<20190522, Block(Map_20190522)>>,
    <<20190403, Block(Map_20190403)>>, <<20190227, Block(Map_20190227)>>,
    <<20190116, Block(Map_20190116)>>, <<20181219, Block(Map_20181219)>>,
    <<20181212, Block(Map_20181212)>>, <<20181121, Block(Map_20181121)>>,
    <<20181002, Block(Map_20181002)>>, <<20180801, Block(Map_20180801)>>,
    <<20180418, Block(Map_20180418)>>, <<20180321, Block(Map_20180321)>>,
    <<20180307, Block(Map_20180307)>>, <<20180221, Block(Map_20180221)>>,
    <<20180207, Block(Map_20180207)>>, <<20180103, Block(Map_20180103)>>,
    <<20171207, Block(Map_20171207)>>, <<20171025, Block(Map_20171025)>>,
    <<20170906, Block(Map_20170906)>>, <<20170830, Block(Map_20170830)>>,
    <<20170726, Block(Map_20170726)>>, <<20170524, Block(Map_20170524)>>,
    <<20170502, Block(Map_20170502)>>, <<20170419, Block(Map_20170419)>>,
    <<20170315, Block(Map_20170315)>>, <<20170208, Block(Map_20170208)>>,
    <<20161214, Block(Map_20161214)>>, <<20161130, Block(Map_20161130)>>,
    <<20161102, Block(Map_20161102)>>, <<20161026, Block(Map_20161026)>>,
    <<20161019, Block(Map_20161019)>>, <<20160921, Block(Map_20160921)>>,
    <<20160831, Block(Map_20160831)>>, <<20160601, Block(Map_20160601)>>,
    <<20160525, Block(Map_20160525)>>, <<20160330, Block(Map_20160330)>>,
    <<20160302, Block(Map_20160302)>>, <<20151223, Block(Map_20151223)>>,
    <<20151202, Block(Map_20151202)>>, <<20150916, Block(Map_20150916)>>,
    <<20150520, Block(Map_20150520)>>, <<20150513, Block(Map_20150513)>>,
    <<20150507, Block(Map_20150507)>>, <<20150226, Block(Map_20150226)>>,
    <<20150225, Block(Map_20150225)>>, <<20141119, Block(Map_20141119)>>,
    <<20141022, Block(Map_20141022)>>, <<20141016, Block(Map_20141016)>>,
    <<20141008, Block(Map_20141008)>>, <<20140820, Block(Map_20140820)>>,
    <<20140813, Block(Map_20140813)>>, <<20140611, Block(Map_20140611)>>,
    <<20140430, Block(Map_20140430)>>, <<20140115, Block(Map_20140115)>>,
    <<20131223, Block(Map_20131223)>>, <<20131204, Block(Map_20131204)>>,
    <<20131120, Block(Map_20131120)>>, <<20130821, Block(Map_20130821)>>,
    <<20130731, Block(Map_20130731)>>, <<20130626, Block(Map_20130626)>>,
    <<20130320, Block(Map_20130320)>>, <<20130001, Block(Map_20130001)>>,
    <<20130000, Block(Map_20130000)>>, <<20121212, Block(Map_20121212)>>,
    <<20121205, Block(Map_20121205)>>, <<20121107, Block(Map_20121107)>>,
    <<20121010, Block(Map_20121010)>>, <<20120925, Block(Map_20120925)>>,
    <<20120702, Block(Map_20120702)>>, <<20120618, Block(Map_20120618)>>,
    <<20120418, Block(Map_20120418)>>, <<20120410, Block(Map_20120410)>>,
    <<20120314, Block(Map_20120314)>>, <<20120307, Block(Map_20120307)>>,
    <<20120221, Block(Map_20120221)>>, <<20120000, Block(Map_20120000)>>,
    <<20111122, Block(Map_20111122)>>, <<20111102, Block(Map_20111102)>>,
    <<20111005, Block(Map_20111005)>>, <<20110824, Block(Map_20110824)>>,
    <<20110627, Block(Map_20110627)>>, <<20101124, Block(Map_20101124)>>,
    <<20101123, Block(Map_20101123)>>, <<20100817, Block(Map_20100817)>>,
    <<20100803, Block(Map_20100803)>>, <<20100608, Block(Map_20100608)>>,
    <<20100420, Block(Map_20100420)>>, <<20100413, Block(Map_20100413)>>,
    <<20100309, Block(Map_20100309)>>, <<20100303, Block(Map_20100303)>>,
    <<20100223, Block(Map_20100223)>>, <<20091229, Block(Map_20091229)>>,
    <<20091201, Block(Map_20091201)>>, <<20091124, Block(Map_20091124)>>,
    <<20091103, Block(Map_20091103)>>, <<20091027, Block(Map_20091027)>>,
    <<20090922, Block(Map_20090922)>>, <<20090825, Block(Map_20090825)>>,
    <<20090818, Block(Map_20090818)>>, <<20090617, Block(Map_20090617)>>,
    <<20090603, Block(Map_20090603)>>, <<20090520, Block(Map_20090520)>>,
    <<20090408, Block(Map_20090408)>>, <<20090406, Block(Map_20090406)>>,
    <<20090330, Block(Map_20090330)>>, <<20090225, Block(Map_20090225)>>,
    <<20090218, Block(Map_20090218)>>, <<20090121, Block(Map_20090121)>>,
    <<20090114, Block(Map_20090114)>>, <<20081217, Block(Map_20081217)>>,
    <<20081113, Block(Map_20081113)>>, <<20081112, Block(Map_20081112)>>,
    <<20080910, Block(Map_20080910)>>, <<20080827, Block(Map_20080827)>>,
    <<20080820, Block(Map_20080820)>>, <<20080527, Block(Map_20080527)>>,
    <<20080401, Block(Map_20080401)>>, <<20080325, Block(Map_20080325)>>,
    <<20080318, Block(Map_20080318)>>, <<20080102, Block(Map_20080102)>>,
    <<20071211, Block(Map_20071211)>>, <<20071127, Block(Map_20071127)>>,
    <<20071120, Block(Map_20071120)>>, <<20071113, Block(Map_20071113)>>,
    <<20071106, Block(Map_20071106)>>, <<20071023, Block(Map_20071023)>>,
    <<20071002, Block(Map_20071002)>>, <<20070911, Block(Map_20070911)>>,
    <<20070731, Block(Map_20070731)>>, <<20070227, Block(Map_20070227)>>,
    <<20070212, Block(Map_20070212)>>, <<20070205, Block(Map_20070205)>>,
    <<20070129, Block(Map_20070129)>>, <<20070122, Block(Map_20070122)>>,
    <<20070108, Block(Map_20070108)>>, <<20061218, Block(Map_20061218)>>,
    <<20061023, Block(Map_20061023)>>, <<20060424, Block(Map_20060424)>>,
    <<20060327, Block(Map_20060327)>>, <<20060313, Block(Map_20060313)>>,
    <<20060306, Block(Map_20060306)>>, <<20060126, Block(Map_20060126)>>,
    <<20060109, Block(Map_20060109)>>, <<20051107, Block(Map_20051107)>>,
    <<20051024, Block(Map_20051024)>>, <<20051017, Block(Map_20051017)>>,
    <<20051013, Block(Map_20051013)>>, <<20051010, Block(Map_20051010)>>,
    <<20050912, Block(Map_20050912)>>, <<20050829, Block(Map_20050829)>>,
    <<20050817, Block(Map_20050817)>>, <<20050808, Block(Map_20050808)>>,
    <<20050801, Block(Map_20050801)>>, <<20050719, Block(Map_20050719)>>,
    <<20050718, Block(Map_20050718)>>, <<20050628, Block(Map_20050628)>>,
    <<20050608, Block(Map_20050608)>>, <<20050531, Block(Map_20050531)>>,
    <<20050530, Block(Map_20050530)>>, <<20050523, Block(Map_20050523)>>,
    <<20050509, Block(Map_20050509)>>, <<20050425, Block(Map_20050425)>>,
    <<20050411, Block(Map_20050411)>>, <<20050404, Block(Map_20050404)>>,
    <<20050110, Block(Map_20050110)>>, <<20041213, Block(Map_20041213)>>,
    <<20041129, Block(Map_20041129)>>, <<20041108, Block(Map_20041108)>>,
    <<20041101, Block(Map_20041101)>>, <<20041025, Block(Map_20041025)>>,
    <<20041005, Block(Map_20041005)>>, <<20040920, Block(Map_20040920)>>,
    <<20040906, Block(Map_20040906)>>, <<20040817, Block(Map_20040817)>>,
    <<20040816, Block(Map_20040816)>>, <<20040809, Block(Map_20040809)>>,
    <<20040726, Block(Map_20040726)>>, <<20040713, Block(Map_20040713)>>,
    <<20040705, Block(Map_20040705)>>,
    <<0, Block(MapBase_1 \cup MapBase_2 \cup MapBase_3 \cup MapBase_4)>>>>

\* populateLoginLengths: the login server's table, newest block first.
LoginBlocks ==
  << <<20170315, Block({<<\h0069, 0>>, <<\h0AC4, -1>>})>>,
     <<20120000, Block({<<\h006A, 0>>, <<\h083E, 26>>})>>,
     <<0, Block({<<\h0064, 55>>, <<\h0069, -1>>, <<\h006A, 23>>, <<\h0081, 3>>, <<\h01DB, 2>>, <<\h01DC, -1>>,
       <<\h01DD, 47>>, <<\h01FA, 48>>, <<\h0200, 26>>, <<\h0204, 18>>, <<\h0277, 84>>,
       <<\h027C, 60>>, <<\h02B0, 85>>, <<\h0825, -1>>, <<\h0ACF, 68>>, <<\h0AE3, 34>>})>> >>

\* populateCharLengths: the char server's table, newest block first.
CharBlocks ==
  << <<20201007, Block({<<\h006D, 0>>, <<\h08D5, 0>>, <<\h099D, 0>>, <<\h0B6F, 157>>, <<\h0B70, 8>>, <<\h0B72, -1>>})>>,
     <<20170830, Block({<<\h006D, 157>>})>>,
     <<20170315, Block({<<\h0AC5, 156>>})>>,
     <<20151001, Block({<<\h0970, 0>>, <<\h0A39, 36>>})>>,
     <<20141022, Block({<<\h006D, 149>>})>>,
     <<20141016, Block({<<\h006D, 147>>})>>,
     <<20120307, Block({<<\h0067, 0>>, <<\h0970, 31>>})>>,
     <<20111101, Block({<<\h028F, 0>>, <<\h0290, 0>>, <<\h08FC, 30>>, <<\h08FD, 6>>})>>,
     <<20111025, Block({<<\h006D, 146>>})>>,
     <<20110928, Block({<<\h006D, 142>>})>>,
     <<20110111, Block({<<\h006D, 138>>})>>,
     <<20100803, Block({<<\h006D, 134>>})>>,
     <<20040419, Block({<<\h0068, 0>>, <<\h01FB, 56>>})>>,
     <<0, Block({<<\h0066, 3>>, <<\h0067, 37>>, <<\h0068, 46>>, <<\h006B, -1>>, <<\h006C, 3>>,
       <<\h006D, 114>>, <<\h006E, 3>>, <<\h006F, 2>>, <<\h0070, 3>>, <<\h0081, 3>>, <<\h0187, 6>>,
       <<\h020D, -1>>, <<\h028D, 34>>, <<\h028E, 4>>, <<\h028F, 6>>, <<\h0290, 4>>, <<\h0827, 6>>,
       <<\h0828, 14>>, <<\h0829, 12>>, <<\h082A, 10>>, <<\h082B, 6>>, <<\h082C, 10>>,
       <<\h082D, 29>>, <<\h0840, -1>>, <<\h0841, 4>>, <<\h08B8, 10>>, <<\h08B9, 12>>,
       <<\h08BA, 10>>, <<\h08BE, 14>>, <<\h08C5, 6>>, <<\h08D4, 8>>, <<\h08D5, 8>>, <<\h099D, -1>>,
       <<\h09A0, 6>>, <<\h09A1, 2>>})>> >>

\* What the blocks assign to each ID: << <<from, length>>, ... >>, newest first.
History(blocks) ==
  [id \in UNION {DOMAIN b[2] : b \in Range(blocks)} |->
     LET of == SelectSeq(blocks, LAMBDA b : id \in DOMAIN b[2])
     IN  [i \in DOMAIN of |-> <<of[i][1], of[i][2][id]>>]]

MapHistory == History(MapBlocks)
LoginHistory == History(LoginBlocks)
CharHistory == History(CharBlocks)

\* The entry of a populated table: the newest block that applies, 0 (unknown: a stream
\* fault) when none assigns the ID, -1 for a packet that carries its own length.
Entry(history, pv, id) ==
  IF id \notin DOMAIN history THEN 0
  ELSE LET since == SelectSeq(history[id], LAMBDA h : h[1] <= pv)
       IN  IF since = <<>> THEN 0 ELSE since[1][2]

populateMapLengths(pv, id) == Entry(MapHistory, pv, id)
populateLoginLengths(pv, id) == Entry(LoginHistory, pv, id)
populateCharLengths(pv, id) == Entry(CharHistory, pv, id)

\* The generated table without its corrections.
applyMapLengthOverrides_None(pv, id) == populateMapLengths(pv, id)

\* The corrections NewMapSession applies over the generated map table.
applyMapLengthOverrides(pv, id) ==
  CASE id = \h009E /\ pv = 20130000 -> 19
    [] id = \h08C7 /\ pv >= 20110718 /\ pv < 20121212 -> 19
    [] id = \h0ADD /\ pv >= 20181121 -> 24
    [] id = \h00FD -> 30
    [] OTHER -> populateMapLengths(pv, id)

OverrideVersions == {20110718, 20121212, 20130000, 20130001, 20181121}
LengthVersions == {b[1] : b \in Range(MapBlocks \o LoginBlocks \o CharBlocks)} \cup OverrideVersions
==============================================================================
