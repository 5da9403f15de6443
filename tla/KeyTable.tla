----------------------------- MODULE KeyTable -----------------------------
(*
The client-to-server packet-ID obfuscation keys of
  pkg/session/obfuscation_keys.go, for the exact packet versions that have them.
*)
EXTENDS Integers

\* The cases of the switch: <<packetver, k0, k1, k2>>.
Keys_1 == {
  <<20110817, \h053D5CED, \h3DED6DED, \h6DED6DED>>,
  <<20110824, \h35C91401, \h262A5556, \h28FA03AA>>,
  <<20110831, \h3AD67ED0, \h44703C69, \h6F876809>>,
  <<20110906, \h3AD67ED0, \h44703C69, \h6F876809>>,
  <<20111005, \h291E6762, \h77CD391A, \h60AC2F16>>,
  <<20111012, \h7F3C2D29, \h59B01DE6, \h1DBB44CA>>,
  <<20111021, \h357D55DC, \h5A8D759F, \h245C30F5>>,
  <<20111025, \h50AE1A63, \h3CE579B5, \h29C10406>>,
  <<20111102, \h5324329D, \h5D545D52, \h06137269>>,
  <<20111109, \h0B642BDA, \h6ECB1D1C, \h61C7454B>>,
  <<20111122, \h3B550F07, \h1F666C7C, \h60304EF5>>,
  <<20111207, \h2A610886, \h3E09165E, \h57C11888>>,
  <<20111214, \h5151306B, \h7AE32886, \h53060628>>,
  <<20111220, \h05D53871, \h7D0027B4, \h29975333>>,
  <<20111228, \h0FF87E93, \h6CFF7860, \h3A3D1DEC>>,
  <<20120104, \h262034A1, \h674542A5, \h73A50BA5>>,
  <<20120111, \h2B412AFC, \h4FF94487, \h6705339D>>,
  <<20120120, \h504345D0, \h3D427B1B, \h794C2DCC>>,
  <<20120202, \h2CFC0A71, \h2BA91D8D, \h087E39E0>>,
  <<20120207, \h1D373F5D, \h5ACD604D, \h1C4D7C4D>>,
  <<20120214, \h7A255EFA, \h30977276, \h2D4A0448>>,
  <<20120229, \h520B4C64, \h2800407D, \h47651458>>,
  <<20120307, \h382A6DEF, \h5CBE7202, \h61F46637>>,
  <<20120314, \h689C1729, \h11812639, \h60F82967>>,
  <<20120321, \h21F9683F, \h710C5CA5, \h1FD910E9>>,
  <<20120328, \h75B8553B, \h37F20B12, \h385C2B40>>,
  <<20120404, \h0036310C, \h2DCD0BED, \h1EE62A78>>,
  <<20120410, \h01581359, \h452D6FFA, \h6AFB6E2E>>,
  <<20120418, \h01540E48, \h13041224, \h31247924>>,
  <<20120424, \h411D1DBB, \h4CBA4848, \h1A432FC4>>,
  <<20120509, \h16CF3301, \h1F472B9B, \h0B4A3CD2>>,
  <<20120515, \h4A715EF9, \h79103E4F, \h405C1238>>,
  <<20120525, \h70EB4CCB, \h0487713C, \h398D4B08>>,
  <<20120605, \h68CA3080, \h31B74BDD, \h505208F1>>,
  <<20120612, \h32E45D64, \h35643564, \h35643564>>,
  <<20120618, \h261F261F, \h261F261F, \h261F261F>>,
  <<20120702, \h25733B31, \h53486CFD, \h398649BD>>,
  <<20120716, \h76052205, \h22052205, \h22052205>>,
  <<20130320, \h3F094C49, \h55F86C1E, \h58AA359A>>,
  <<20130515, \h75794A38, \h58A96BC1, \h296E6FB8>>,
  <<20130522, \h6948050B, \h06511D9D, \h725D4DF1>>,
  <<20130529, \h023A6C87, \h14BF1F1E, \h5CC70CC9>>,
  <<20130605, \h646E08D9, \h5F153AB5, \h61B509B5>>,
  <<20130612, \h6D166F66, \h3C000FCF, \h295B0FCB>>,
  <<20130618, \h434115DE, \h34A10FE9, \h6791428E>>,
  <<20130626, \h38F453EF, \h6A040FD8, \h65BD6668>>,
  <<20130703, \h4FF90E23, \h0F1432F2, \h4CFA1EDA>>,
  <<20130710, \h458F758F, \h4CCF3F8F, \h4A9C4237>>,
  <<20130717, \h2BED4F91, \h5F9E00CF, \h5EE5520C>>,
  <<20130807, \h7E241DE0, \h5E805580, \h3D807D80>>,
  <<20130814, \h23A23148, \h0C41420E, \h53785AD7>>,
  <<20131218, \h6A596301, \h76866D0E, \h32294A45>>,
  <<20131223, \h631C511C, \h111C111C, \h111C111C>>,
  <<20131230, \h611B7097, \h01F957A1, \h768A0FCB>>,
  <<20140115, \h63224335, \h0F3A1F27, \h6D217B24>>,
  <<20140205, \h63DC7BDC, \h7BDC7BDC, \h7BDC7BDC>>,
  <<20140305, \h116763F2, \h41117DAC, \h7FD13C45>>,
  <<20140402, \h15D3271C, \h004D725B, \h111A3A37>>,
  <<20140416, \h04810281, \h42814281, \h42814281>>,
  <<20141016, \h2DFF467C, \h444B37EE, \h2C1B634F>>,
  <<20141022, \h290551EA, \h2B952C75, \h2D67669B>>,
  <<20150107, \h6C494A14, \h4DDB6427, \h3E6D7B65>>,
  <<20150114, \h21C96102, \h13142934, \h1ABF4EA3>>,
  <<20150128, \h77CA2D55, \h28B608F0, \h75B47957>>,
  <<20150204, \h134529DB, \h5B4F6CEF, \h29EF11EF>>,
  <<20150225, \h57FD4B7B, \h19CC16FB, \h0D255D72>>,
  <<20150311, \h48C45D97, \h06CE09B0, \h5836642F>>,
  <<20150325, \h68F62B8C, \h337C3468, \h38FC0AC7>>,
  <<20150401, \h207F3A08, \h57E6160C, \h02A60382>>, <<20150422, \h10D22CE2, \h69E279E2, \h79E279E2>> }
Keys_2 == {
  <<20150429, \h2BF61A71, \h565D5DDF, \h0FB90019>>,
  <<20150507, \h55B54373, \h58967821, \h67F41832>>,
  <<20150513, \h62C86D09, \h75944F17, \h112C133D>>,
  <<20150527, \h35AE7BAE, \h3BAE3BAE, \h3BAE3BAE>>,
  <<20150617, \h250F7E09, \h25416076, \h029A780E>>,
  <<20150819, \h1A2400E0, \h736E5686, \h10F315D5>>,
  <<20150826, \h77883C56, \h1829359F, \h0DE635B6>>,
  <<20150916, \h17F83A19, \h116944F4, \h1CC541E9>>,
  <<20151001, \h45B945B9, \h45B945B9, \h45B945B9>>,
  <<20151007, \h3C6447A8, \h032170D7, \h6490476C>>,
  <<20151014, \h402728A8, \h5D0E309F, \h240018FD>>,
  <<20151022, \h0311104D, \h46C326D6, \h00E82720>>,
  <<20151028, \h45B945B9, \h45B945B9, \h45B945B9>>,
  <<20151029, \h45B945B9, \h45B945B9, \h45B945B9>>,
  <<20151104, \h4C17382A, \h7ED174C9, \h29961E4F>>,
  <<20151111, \h46097C77, \h5F193871, \h29140A21>>,
  <<20151118, \h734C3241, \h6E846F34, \h731C06D6>>,
  <<20151125, \h237446C0, \h5EFB343A, \h0EDF06C5>>,
  <<20151202, \h4EDE52DE, \h52DE52DE, \h52DE52DE>>,
  <<20151209, \h652C5898, \h7A351FB3, \h67EA2886>>,
  <<20151216, \h25DD643D, \h61AC39DE, \h77A8206D>>,
  <<20151223, \h347D68D0, \h2C705320, \h7B4A199D>>,
  <<20160106, \h40520265, \h33FE26FC, \h7136294F>>,
  <<20160113, \h18005C4B, \h19A94A72, \h73F678EC>>,
  <<20160120, \h51495149, \h51495149, \h51495149>>,
  <<20160127, \h6B1E7146, \h612C47E6, \h274E56EE>>,
  <<20160203, \h3E1411AF, \h6C744497, \h7CFA1BDE>>,
  <<20160211, \h613813EA, \h05251DAB, \h1FD35E33>>,
  <<20160217, \h25895A8E, \h09421C19, \h763A2D7A>>,
  <<20160224, \h7088019A, \h13471F02, \h42356A7D>>,
  <<20160302, \h7B4441B9, \h5BBC63AF, \h45DA0E71>>,
  <<20160309, \h21587520, \h353A7706, \h1B722B25>>,
  <<20160316, \h62363E36, \h3E363E36, \h3E363E36>>,
  <<20160323, \h73E35A83, \h62142FA8, \h12BA36BD>>,
  <<20160330, \h02050940, \h545336FF, \h7E7D4902>>,
  <<20160406, \h568611EA, \h32457D8D, \h2B020477>>,
  <<20160414, \h31BD479A, \h40C61398, \h397C1A80>>,
  <<20160420, \h67D2163A, \h3068215B, \h4835474D>>,
  <<20160427, \h12DC378E, \h4E3E7EBE, \h0ABE2ABE>>,
  <<20160504, \h09E0544C, \h0231251D, \h2F4E195F>>,
  <<20160511, \h3C666FE2, \h27E84E3E, \h53E11BA5>>,
  <<20160518, \h57DB7CA1, \h1FEA1629, \h26DD244D>>,
  <<20160525, \h485C45B6, \h47DC6192, \h76B34A36>>,
  <<20160601, \h3DAD32C4, \h59F001BE, \h73F65E56>>,
  <<20160608, \h11D74609, \h77C43E8A, \h44290F53>>,
  <<20160615, \h062C5C26, \h6CF47E82, \h4DD53480>>,
  <<20160622, \h426548AB, \h5C0F5DD4, \h03022710>>,
  <<20160629, \h0DF31CCC, \h54281606, \h5C4C6855>>,
  <<20160706, \h33A766D0, \h743F04F8, \h0FA0276C>>,
  <<20160713, \h714F2495, \h7DDC6F32, \h3FD8533D>>,
  <<20160720, \h4F8A19C0, \h2D8E085C, \h37BB67D6>>,
  <<20160727, \h3C6952AB, \h26E4077F, \h37E25DF7>>,
  <<20160803, \h67F438C2, \h512A4EB7, \h2D353182>>,
  <<20160810, \h2F252886, \h242234A2, \h48BC5032>>,
  <<20160831, \h564E13B0, \h7F680549, \h382D273B>>,
  <<20160907, \h32E5237D, \h57BD4DBD, \h5DBD5DBD>>,
  <<20160913, \h7C79748F, \h1AA03B1D, \h6EAC4747>>,
  <<20160921, \h11CD15CD, \h15CD15CD, \h15CD15CD>>,
  <<20160928, \h2F8C67F5, \h22D42C38, \h57513774>>,
  <<20161005, \h5BAE21F8, \h021E2FFC, \h3BEB7C31>>,
  <<20161012, \h5E2311F2, \h14FD012C, \h76EB64F6>>,
  <<20161019, \h34882F11, \h7C870E70, \h7E61350D>>,
  <<20161026, \h2CB86AE6, \h7D12660E, \h1B004DEB>>,
  <<20161102, \h76725C17, \h72FE4EC1, \h07A91BFD>>,
  <<20161109, \h0A5277C0, \h2DB17506, \h0E8F26DA>>,
  <<20161116, \h780C5C3F, \h15E92272, \h2BA770C5>>,
  <<20161123, \h66FF559F, \h00D3535B, \h236246F7>>,
  <<20161130, \h2ED80296, \h0D837373, \h20266F9A>>,
  <<20161207, \h52D267AA, \h4FE42156, \h1292153E>>, <<20161214, \h4DDE217B, \h07863AE0, \h5B591656>> }
Keys_3 == {
  <<20161221, \h69CB4F56, \h793C165E, \h673A2354>>,
  <<20161228, \h09366971, \h005672F1, \h6F3712AE>>,
  <<20170104, \h44416BC3, \h6C8D1817, \h072D75D5>>,
  <<20170111, \h19B637F9, \h0E9C378A, \h41673186>>,
  <<20170118, \h456B36EB, \h15EB34B0, \h18C42E43>>,
  <<20170125, \h066E04FE, \h3004224A, \h04FF0458>>,
  <<20170201, \h2011228E, \h00453005, \h628E7F0A>>,
  <<20170208, \h6A764E5F, \h0609570D, \h28AE07FA>>,
  <<20170215, \h50C01315, \h51012A42, \h679E16C3>>,
  <<20170222, \h5A242F2F, \h6C556187, \h73C022CB>>,
  <<20170228, \h771D4F2B, \h20EF1F4C, \h0D5135C8>>,
  <<20170308, \h653470A9, \h6B316A71, \h5C712C71>>,
  <<20170315, \h399A0856, \h56642A94, \h7F77157D>>,
  <<20170322, \h2050167B, \h01731233, \h40337033>>,
  <<20170329, \h18B31A80, \h1B0B1D56, \h16857D6A>>,
  <<20170405, \h1FDE7DAC, \h2F9F5B63, \h3F2062AF>>,
  <<20170412, \h39223393, \h5C847779, \h10217985>>,
  <<20170419, \h1F8F4B3F, \h2E481F03, \h39ED4178>>,
  <<20170426, \h167642A7, \h1DEC3D26, \h6D046D4C>>,
  <<20170502, \h05224194, \h466D4204, \h31F02EE0>>,
  <<20170517, \h2CC4749A, \h1FA954DC, \h72276857>>,
  <<20170524, \h0B4E03A6, \h2B93427C, \h583D4477>>,
  <<20170531, \h03FA5A97, \h20B802D5, \h339F1977>>,
  <<20170607, \h50564ACD, \h79CA4E15, \h405F4894>>,
  <<20170614, \h5ED10A48, \h667F4301, \h2E5D761F>>,
  <<20170621, \h155F34EC, \h2D943FA9, \h3D9170EB>>,
  <<20170628, \h04691C86, \h43C210E2, \h2FE277E2>>,
  <<20170705, \h7EB000AE, \h02FB1DBC, \h5CB131E6>>,
  <<20170712, \h2C3C202C, \h3F2C2F2C, \h2F2C2F2C>>,
  <<20170719, \h46465C88, \h10116F66, \h200866F9>>,
  <<20170726, \h102F23DB, \h7E767751, \h3BC172EF>>,
  <<20170801, \h26B52A7F, \h5377619D, \h4F580AC4>>,
  <<20170816, \h78914673, \h3F8B7634, \h55B814BC>>,
  <<20170823, \h22677205, \h393D1002, \h58DC6BB4>>,
  <<20170830, \h1D49592B, \h00970C17, \h1E640103>>,
  <<20170906, \h7DEF7677, \h351F36E6, \h52303485>>,
  <<20170913, \h7A645935, \h1DA05062, \h5A7A4C43>>,
  <<20170920, \h53024DA5, \h04EC212D, \h0BF87CD4>>,
  <<20170927, \h15624100, \h0CE1463E, \h0E5D6534>>,
  <<20171002, \h15E1716C, \h4E765B63, \h357D2370>>,
  <<20171011, \h4F121B3E, \h12670E17, \h19896C11>>,
  <<20171018, \h2CAA109C, \h158C1EC2, \h7A5E58F3>>,
  <<20171025, \h165C565C, \h565C565C, \h565C565C>>,
  <<20171101, \h7056317F, \h7EEE0589, \h02672373>>,
  <<20171108, \h03695685, \h7FAC12CE, \h182F7A7B>>,
  <<20171115, \h23B97A3B, \h34610993, \h2892070E>>,
  <<20171122, \h03221B0E, \h73AB7A5F, \h0DD80FD4>>,
  <<20171129, \h581B77A7, \h62F74D7A, \h4F102173>>,
  <<20171206, \h39D54BD3, \h577A0C21, \h4C1C316E>>,
  <<20171213, \h44E41107, \h3B126921, \h00E06AAC>>,
  <<20171220, \h6EFE009A, \h440B7BFA, \h052339C8>>,
  <<20171227, \h257A2F6E, \h51140EEE, \h00FA4452>>,
  <<20180103, \h348F4BD7, \h7A425A54, \h628F589A>>,
  <<20180117, \h21F477F4, \h37F437F4, \h37F437F4>>,
  <<20180124, \h7EAA1CE0, \h415D1CFD, \h4C8F19FA>>,
  <<20180207, \h45AA1B44, \h20E716B7, \h5388105C>>,
  <<20180213, \h189D69B2, \h43B85EAD, \h2B7A687E>>,
  <<20180221, \h6E2F6233, \h193B0A66, \h0D1D2CA5>>, <<20180307, \h47DA10EB, \h4B922CCF, \h765C5055>> }

KeyRows == Keys_1 \cup Keys_2 \cup Keys_3

KeyedVersions == {r[1] : r \in KeyRows}

Keys == [v \in KeyedVersions |-> (CHOOSE r \in KeyRows : r[1] = v)]

\* Obfuscation discontinued one version early.
obfuscationKeysFor_Early(packetver) ==
  IF packetver \in KeyedVersions /\ packetver < 20180307
  THEN <<Keys[packetver][2], Keys[packetver][3], Keys[packetver][4]>>
  ELSE <<0, 0, 0>>

\* The three obfuscation keys of a packet version, zeros where the table has none.
obfuscationKeysFor(packetver) ==
  IF packetver \in KeyedVersions
  THEN <<Keys[packetver][2], Keys[packetver][3], Keys[packetver][4]>>
  ELSE <<0, 0, 0>>
==============================================================================
