----------------------------- MODULE MapLengths ------------------------------
(*
  The assignments of populateMapLengths (pkg/session/lengths_map.go): one set
  of pairs <<id, length>> per `if packetver >= ...` block.
*)
EXTENDS Integers

\* populateMapLengths: the unconditional assignments, in the order of the source.
MapBase_1 == {
  <<\h0064, 55>>, <<\h0065, 17>>, <<\h0066, 6>>, <<\h0067, 37>>, <<\h0068, 46>>, <<\h0069, -1>>,
  <<\h006A, 23>>, <<\h006B, -1>>, <<\h006C, 3>>, <<\h006D, 108>>, <<\h006E, 3>>, <<\h006F, 2>>,
  <<\h0070, 6>>, <<\h0071, 28>>, <<\h0072, 19>>, <<\h0073, 11>>, <<\h0074, 3>>, <<\h0075, -1>>,
  <<\h0076, 9>>, <<\h0077, 5>>, <<\h0079, 53>>, <<\h007A, 58>>, <<\h007B, 60>>, <<\h007C, 41>>,
  <<\h007D, 2>>, <<\h007E, 6>>, <<\h007F, 6>>, <<\h0080, 7>>, <<\h0081, 3>>, <<\h0082, 2>>,
  <<\h0083, 2>>, <<\h0084, 2>>, <<\h0085, 5>>, <<\h0086, 16>>, <<\h0087, 12>>, <<\h0088, 10>>,
  <<\h0089, 7>>, <<\h008A, 29>>, <<\h008B, 2>>, <<\h008C, -1>>, <<\h008D, -1>>, <<\h008E, -1>>,
  <<\h0090, 7>>, <<\h0091, 22>>, <<\h0092, 28>>, <<\h0093, 2>>, <<\h0094, 6>>, <<\h0095, 30>>,
  <<\h0096, -1>>, <<\h0097, -1>>, <<\h0098, 3>>, <<\h0099, -1>>, <<\h009A, -1>>, <<\h009B, 5>>,
  <<\h009C, 9>>, <<\h009D, 17>>, <<\h009E, 17>>, <<\h009F, 6>>, <<\h00A0, 23>>, <<\h00A1, 6>>,
  <<\h00A2, 6>>, <<\h00A3, -1>>, <<\h00A4, -1>>, <<\h00A5, -1>>, <<\h00A6, -1>>, <<\h00A7, 8>>,
  <<\h00A9, 6>>, <<\h00AA, 7>>, <<\h00AB, 4>>, <<\h00AC, 7>>, <<\h00AE, -1>>, <<\h00AF, 6>>,
  <<\h00B0, 8>>, <<\h00B1, 8>>, <<\h00B2, 3>>, <<\h00B3, 3>>, <<\h00B4, -1>>, <<\h00B5, 6>>,
  <<\h00B6, 6>>, <<\h00B7, -1>>, <<\h00B8, 7>>, <<\h00B9, 6>>, <<\h00BA, 2>>, <<\h00BB, 5>>,
  <<\h00BC, 6>>, <<\h00BD, 44>>, <<\h00BE, 5>>, <<\h00BF, 3>>, <<\h00C0, 7>>, <<\h00C1, 2>>,
  <<\h00C2, 6>>, <<\h00C3, 8>>, <<\h00C4, 6>>, <<\h00C5, 7>>, <<\h00C6, -1>>, <<\h00C7, -1>>,
  <<\h00C8, -1>>, <<\h00C9, -1>>, <<\h00CA, 3>>, <<\h00CB, 3>>, <<\h00CC, 6>>, <<\h00CD, 3>>,
  <<\h00CE, 2>>, <<\h00CF, 27>>, <<\h00D0, 3>>, <<\h00D1, 4>>, <<\h00D2, 4>>, <<\h00D3, 2>>,
  <<\h00D4, -1>>, <<\h00D5, -1>>, <<\h00D6, 3>>, <<\h00D7, -1>>, <<\h00D8, 6>>, <<\h00D9, 14>>,
  <<\h00DA, 3>>, <<\h00DB, -1>>, <<\h00DC, 28>>, <<\h00DD, 29>>, <<\h00DE, -1>>, <<\h00DF, -1>>,
  <<\h00E0, 30>>, <<\h00E1, 30>>, <<\h00E2, 26>>, <<\h00E3, 2>>, <<\h00E4, 6>>, <<\h00E5, 26>>,
  <<\h00E6, 3>>, <<\h00E7, 9>>, <<\h00E8, 8>>, <<\h00E9, 19>>, <<\h00EA, 5>>, <<\h00EB, 2>>,
  <<\h00EC, 3>>, <<\h00ED, 2>>, <<\h00EE, 2>>, <<\h00EF, 2>>, <<\h00F0, 3>>, <<\h00F1, 2>>,
  <<\h00F2, 6>>, <<\h00F3, 8>> }
MapBase_2 == {
  <<\h00F4, 22>>, <<\h00F5, 8>>, <<\h00F6, 8>>, <<\h00F7, 2>>, <<\h00F8, 2>>, <<\h00F9, 26>>,
  <<\h00FA, 3>>, <<\h00FB, -1>>, <<\h00FC, 6>>, <<\h00FD, 27>>, <<\h00FE, 30>>, <<\h00FF, 10>>,
  <<\h0100, 2>>, <<\h0101, 6>>, <<\h0102, 6>>, <<\h0103, 30>>, <<\h0104, 79>>, <<\h0105, 31>>,
  <<\h0106, 10>>, <<\h0107, 10>>, <<\h0108, -1>>, <<\h0109, -1>>, <<\h010A, 4>>, <<\h010B, 6>>,
  <<\h010C, 6>>, <<\h010D, 2>>, <<\h010E, 11>>, <<\h010F, -1>>, <<\h0110, 10>>, <<\h0111, 39>>,
  <<\h0112, 4>>, <<\h0113, 10>>, <<\h0114, 31>>, <<\h0115, 35>>, <<\h0116, 10>>, <<\h0117, 18>>,
  <<\h0118, 2>>, <<\h0119, 13>>, <<\h011A, 15>>, <<\h011B, 20>>, <<\h011C, 68>>, <<\h011D, 2>>,
  <<\h011E, 3>>, <<\h011F, 16>>, <<\h0120, 6>>, <<\h0121, 14>>, <<\h0122, -1>>, <<\h0123, -1>>,
  <<\h0124, 22>>, <<\h0125, 8>>, <<\h0126, 8>>, <<\h0127, 8>>, <<\h0128, 8>>, <<\h0129, 8>>,
  <<\h012A, 2>>, <<\h012B, 2>>, <<\h012C, 3>>, <<\h012D, 4>>, <<\h012E, 2>>, <<\h012F, -1>>,
  <<\h0130, 6>>, <<\h0131, 86>>, <<\h0132, 6>>, <<\h0133, -1>>, <<\h0134, -1>>, <<\h0135, 7>>,
  <<\h0136, -1>>, <<\h0137, 6>>, <<\h0138, 3>>, <<\h0139, 16>>, <<\h013A, 4>>, <<\h013B, 4>>,
  <<\h013C, 4>>, <<\h013D, 6>>, <<\h013F, 26>>, <<\h0140, 22>>, <<\h0141, 14>>, <<\h0142, 6>>,
  <<\h0143, 10>>, <<\h0144, 23>>, <<\h0145, 19>>, <<\h0146, 6>>, <<\h0147, 39>>, <<\h0148, 8>>,
  <<\h0149, 9>>, <<\h014A, 6>>, <<\h014B, 27>>, <<\h014C, -1>>, <<\h014D, 2>>, <<\h014E, 6>>,
  <<\h014F, 6>>, <<\h0150, 110>>, <<\h0151, 6>>, <<\h0152, -1>>, <<\h0153, -1>>, <<\h0154, -1>>,
  <<\h0155, -1>>, <<\h0156, -1>>, <<\h0157, 6>>, <<\h0158, -1>>, <<\h0159, 54>>, <<\h015A, 46>>,
  <<\h015B, 54>>, <<\h015C, 46>>, <<\h015D, 42>>, <<\h015E, 6>>, <<\h015F, 42>>, <<\h0160, -1>>,
  <<\h0161, -1>>, <<\h0162, -1>>, <<\h0163, -1>>, <<\h0164, -1>>, <<\h0165, 30>>, <<\h0166, -1>>,
  <<\h0167, 3>>, <<\h0168, 14>>, <<\h0169, 3>>, <<\h016A, 30>>, <<\h016B, 10>>, <<\h016C, 43>>,
  <<\h016E, 186>>, <<\h016F, 182>>, <<\h0170, 14>>, <<\h0171, 30>>, <<\h0172, 10>>, <<\h0173, 3>>,
  <<\h0174, -1>>, <<\h0175, 6>>, <<\h0176, 106>>, <<\h0177, -1>>, <<\h0178, 4>>, <<\h0179, 5>>,
  <<\h017A, 4>>, <<\h017B, -1>>, <<\h017C, 6>>, <<\h017D, 7>>, <<\h017E, -1>>, <<\h017F, -1>>,
  <<\h0180, 6>>, <<\h0181, 3>> }
MapBase_3 == {
  <<\h0182, 106>>, <<\h0183, 10>>, <<\h0184, 10>>, <<\h0185, 34>>, <<\h0187, 6>>, <<\h0188, 8>>,
  <<\h0189, 4>>, <<\h018A, 4>>, <<\h018B, 4>>, <<\h018C, 29>>, <<\h018D, -1>>, <<\h018E, 10>>,
  <<\h018F, 6>>, <<\h0190, 90>>, <<\h0191, 86>>, <<\h0192, 24>>, <<\h0193, 6>>, <<\h0194, 30>>,
  <<\h0195, 102>>, <<\h0196, 9>>, <<\h0197, 4>>, <<\h0198, 8>>, <<\h0199, 4>>, <<\h019A, 14>>,
  <<\h019B, 10>>, <<\h019C, -1>>, <<\h019D, 6>>, <<\h019E, 2>>, <<\h019F, 6>>, <<\h01A0, 3>>,
  <<\h01A1, 3>>, <<\h01A2, 35>>, <<\h01A3, 5>>, <<\h01A4, 11>>, <<\h01A5, 26>>, <<\h01A6, -1>>,
  <<\h01A7, 4>>, <<\h01A8, 4>>, <<\h01A9, 6>>, <<\h01AA, 10>>, <<\h01AB, 12>>, <<\h01AC, 6>>,
  <<\h01AD, -1>>, <<\h01AE, 4>>, <<\h01AF, 4>>, <<\h01B0, 11>>, <<\h01B1, 7>>, <<\h01B2, -1>>,
  <<\h01B3, 67>>, <<\h01B4, 12>>, <<\h01B5, 18>>, <<\h01B6, 114>>, <<\h01B7, 6>>, <<\h01B8, 3>>,
  <<\h01B9, 6>>, <<\h01BA, 26>>, <<\h01BB, 26>>, <<\h01BC, 26>>, <<\h01BD, 26>>, <<\h01BE, 2>>,
  <<\h01BF, 3>>, <<\h01C0, 2>>, <<\h01C1, 14>>, <<\h01C2, 10>>, <<\h01C3, -1>>, <<\h01C4, 22>>,
  <<\h01C5, 22>>, <<\h01C6, 4>>, <<\h01C7, 2>>, <<\h01C8, 13>>, <<\h01C9, 97>>, <<\h01CB, 9>>,
  <<\h01CC, 9>>, <<\h01CE, 6>>, <<\h01CF, 28>>, <<\h01D0, 8>>, <<\h01D1, 14>>, <<\h01D2, 10>>,
  <<\h01D3, 35>>, <<\h01D4, 6>>, <<\h01D5, -1>>, <<\h01D6, 4>>, <<\h01D7, 11>>, <<\h01D8, 54>>,
  <<\h01D9, 53>>, <<\h01DA, 60>>, <<\h01DB, 2>>, <<\h01DC, -1>>, <<\h01DD, 47>>, <<\h01DE, 33>>,
  <<\h01DF, 6>>, <<\h01E0, 30>>, <<\h01E1, 8>>, <<\h01E2, 34>>, <<\h01E3, 14>>, <<\h01E4, 2>>,
  <<\h01E5, 6>>, <<\h01E6, 26>>, <<\h01E7, 2>>, <<\h01E8, 28>>, <<\h01E9, 81>>, <<\h01EA, 6>>,
  <<\h01EB, 10>>, <<\h01EC, 26>>, <<\h01ED, 2>>, <<\h01F0, -1>>, <<\h01F1, -1>>, <<\h01F2, 20>>,
  <<\h01F3, 10>>, <<\h01F4, 32>>, <<\h01F5, 9>>, <<\h01F6, 34>>, <<\h01F7, 14>>, <<\h01F8, 2>>,
  <<\h01F9, 6>>, <<\h01FA, 48>>, <<\h01FB, 56>>, <<\h01FC, -1>>, <<\h01FD, 15>>, <<\h01FE, 5>>,
  <<\h01FF, 10>>, <<\h0200, 26>>, <<\h0201, -1>>, <<\h0202, 26>>, <<\h0203, 10>>, <<\h0204, 18>>,
  <<\h0205, 26>>, <<\h0206, 11>>, <<\h0207, 34>>, <<\h0208, 11>>, <<\h0209, 36>>, <<\h020A, 10>>,
  <<\h020D, -1>>, <<\h0215, 6>>, <<\h0217, 2>>, <<\h0218, 2>>, <<\h0219, 282>>, <<\h021A, 282>>,
  <<\h021B, 10>>, <<\h021C, 10>> }
MapBase_4 == {
  <<\h021D, 6>>, <<\h0221, -1>>, <<\h0223, 8>>, <<\h0224, 10>>, <<\h0225, 2>>, <<\h0226, 282>>,
  <<\h0229, 15>>, <<\h022F, 5>>, <<\h0230, 12>>, <<\h0232, 9>>, <<\h0235, -1>>, <<\h0236, 10>>,
  <<\h0237, 2>>, <<\h0238, 282>>, <<\h0239, 11>>, <<\h024D, 12>>, <<\h024F, 10>>, <<\h0251, 34>>,
  <<\h025A, -1>>, <<\h025B, 6>>, <<\h0283, 6>>, <<\h0287, -1>>, <<\h028A, 18>>, <<\h0291, 4>>,
  <<\h0293, 70>>, <<\h0298, 8>>, <<\h0299, 6>>, <<\h02B6, 7>>, <<\h02BB, 8>>, <<\h02C4, 26>>,
  <<\h02C7, 7>>, <<\h02C8, 3>>, <<\h02D3, 4>>, <<\h02DA, 3>>, <<\h0440, 10>>, <<\h0441, 4>>,
  <<\h0442, -1>>, <<\h0443, 8>>, <<\h07DB, 8>>, <<\h07E1, 15>>, <<\h07E2, 8>>, <<\h07E6, 8>>,
  <<\h07F6, 14>>, <<\h07FA, 8>>, <<\h0801, -1>>, <<\h0802, 18>>, <<\h0803, 4>>, <<\h0804, 8>>,
  <<\h0805, -1>>, <<\h0806, 4>>, <<\h0808, 4>>, <<\h0813, -1>>, <<\h0818, -1>>, <<\h081E, 8>>,
  <<\h0824, 6>>, <<\h082D, 29>>, <<\h0837, 3>>, <<\h083A, 4>>, <<\h083C, 12>>, <<\h083D, 6>>,
  <<\h083E, 23>>, <<\h0840, -1>>, <<\h0846, 4>>, <<\h0848, -1>>, <<\h08B3, -1>>, <<\h08B9, 12>>,
  <<\h08C0, -1>>, <<\h08C8, 29>>, <<\h08CA, -1>>, <<\h08CF, 10>>, <<\h08D6, 6>>, <<\h08FF, 24>>,
  <<\h0907, 5>>, <<\h0908, 5>>, <<\h090E, 2>>, <<\h0916, 26>>, <<\h096E, -1>>, <<\h0977, 14>>,
  <<\h097C, 4>>, <<\h097D, 288>>, <<\h097E, 12>>, <<\h0988, 6>>, <<\h0989, 2>>, <<\h098E, -1>>,
  <<\h09A6, 12>>, <<\h09A7, 10>>, <<\h09A8, 16>>, <<\h09A9, 10>>, <<\h09AA, 16>>, <<\h09AB, 6>>,
  <<\h09AC, 10>>, <<\h09AD, 10>>, <<\h09AE, 17>>, <<\h09B0, 8>>, <<\h09B2, 8>>, <<\h09B3, 4>>,
  <<\h09B6, 6>>, <<\h09B7, 4>>, <<\h09B8, 6>>, <<\h09B9, 4>>, <<\h09C4, 8>>, <<\h09CD, 8>>,
  <<\h09DA, -1>>, <<\h0A02, 4>>, <<\h0A20, 21>>, <<\h0A28, 3>>, <<\h0A46, 14>>, <<\h0A47, 3>>,
  <<\h0A48, 2>>, <<\h0AB2, 7>>, <<\h0AC4, -1>>, <<\h0AC7, 28>>, <<\h0AE3, 34>>, <<\h0AE6, 10>>,
  <<\h0AE7, 38>>, <<\h0AF6, 88>>, <<\h0AF8, 11>>, <<\h0AFA, 58>>, <<\h0AFC, 16>>, <<\h0AFD, -1>>,
  <<\h0B0D, 10>>, <<\h0B24, 6>>, <<\h0B46, 10>>, <<\h0B68, 12>>, <<\h0B6B, 14>>, <<\h0B6C, 12>>,
  <<\h0B8D, -1>>, <<\h0B98, 6>>, <<\h0B9A, 11>>, <<\h0BB1, 3>>, <<\h0BDD, 4>>, <<\h0BE2, 137>>,
  <<\h0BE9, 6>>, <<\h0BF3, 4>>, <<\h0C0B, 18>>, <<\h0C0C, 4>>, <<\h0C22, 12>> }

\* populateMapLengths: one set per `if pv >= ...` block.
Map_20040705 ==
  { <<\h0072, 22>>, <<\h0085, 8>>, <<\h00A7, 13>>, <<\h0113, 15>>, <<\h0116, 15>>, <<\h0190, 95>>,
    <<\h0208, 14>>, <<\h020E, 24>> }
Map_20040713 ==
  { <<\h0072, 39>>, <<\h0085, 9>>, <<\h009B, 13>>, <<\h009F, 10>>, <<\h00A7, 17>>, <<\h0113, 19>>,
    <<\h0116, 19>>, <<\h0190, 99>> }
Map_20040726 ==
  { <<\h0072, 14>>, <<\h007E, 33>>, <<\h0085, 20>>, <<\h0089, 15>>, <<\h008C, 23>>, <<\h0094, 10>>,
    <<\h009B, 6>>, <<\h009F, 13>>, <<\h00A2, 103>>, <<\h00A7, 12>>, <<\h00F3, -1>>, <<\h00F5, 17>>,
    <<\h00F7, 10>>, <<\h0113, 16>>, <<\h0116, 2>>, <<\h0190, 26>>, <<\h0193, 9>> }
Map_20040809 ==
  { <<\h0072, 17>>, <<\h007E, 37>>, <<\h0085, 26>>, <<\h0089, 12>>, <<\h008C, 40>>, <<\h0094, 13>>,
    <<\h009B, 15>>, <<\h009F, 12>>, <<\h00A2, 120>>, <<\h00A7, 11>>, <<\h00F5, 24>>, <<\h00F7, 13>>,
    <<\h0113, 23>>, <<\h0193, 18>> }
Map_20040816 == { <<\h0212, 26>>, <<\h0213, 26>>, <<\h0214, 42>> }
Map_20040817 == { <<\h020F, 10>>, <<\h0210, 22>> }
Map_20040906 ==
  { <<\h0072, 20>>, <<\h007E, 19>>, <<\h0085, 23>>, <<\h0089, 9>>, <<\h008C, 105>>, <<\h0094, 17>>,
    <<\h009B, 14>>, <<\h009F, -1>>, <<\h00A2, 14>>, <<\h00A7, 25>>, <<\h00F3, 10>>, <<\h00F5, 34>>,
    <<\h00F7, 2>>, <<\h0113, 11>>, <<\h0116, 11>>, <<\h0190, 22>>, <<\h0193, 17>> }
Map_20040920 ==
  { <<\h0072, 18>>, <<\h007E, 25>>, <<\h0085, 9>>, <<\h0089, 14>>, <<\h008C, 109>>, <<\h0094, 19>>,
    <<\h009B, 10>>, <<\h00A2, 10>>, <<\h00A7, 29>>, <<\h00F3, 18>>, <<\h00F5, 32>>, <<\h0113, 14>>,
    <<\h0116, 14>>, <<\h0190, 14>>, <<\h0193, 12>> }
Map_20041005 ==
  { <<\h0072, 17>>, <<\h007E, 16>>, <<\h0089, 6>>, <<\h008C, 103>>, <<\h0094, 14>>, <<\h009B, 15>>,
    <<\h00A2, 12>>, <<\h00A7, 23>>, <<\h00F3, 13>>, <<\h00F5, 33>>, <<\h0113, 10>>, <<\h0116, 10>>,
    <<\h0190, 20>>, <<\h0193, 26>> }
Map_20041025 ==
  { <<\h0072, 13>>, <<\h007E, 13>>, <<\h0085, 15>>, <<\h008C, 108>>, <<\h0094, 12>>, <<\h009B, 10>>,
    <<\h00A2, 16>>, <<\h00A7, 28>>, <<\h00F3, 15>>, <<\h00F5, 29>>, <<\h0113, 9>>, <<\h0116, 9>>,
    <<\h0190, 26>>, <<\h0193, 22>> }
Map_20041101 == { <<\h0084, -1>> }
Map_20041108 == { <<\h0084, 2>>, <<\h0216, 6>> }
Map_20041129 ==
  { <<\h0072, 22>>, <<\h007E, 30>>, <<\h0085, -1>>, <<\h0089, 7>>, <<\h008C, 13>>, <<\h0094, 14>>,
    <<\h009B, 2>>, <<\h009F, 18>>, <<\h00A2, 7>>, <<\h00A7, 7>>, <<\h00F3, 8>>, <<\h00F7, 14>>,
    <<\h0113, 110>>, <<\h0116, 12>>, <<\h0190, 15>>, <<\h0193, 21>>, <<\h0222, 6>> }
Map_20041213 ==
  { <<\h0066, 3>>, <<\h0070, 3>>, <<\h01CA, 3>>, <<\h021E, 6>>, <<\h021F, 66>>, <<\h0220, 10>> }
Map_20050110 ==
  { <<\h0072, 26>>, <<\h007E, 114>>, <<\h0085, 23>>, <<\h0089, 9>>, <<\h008C, 8>>, <<\h0094, 20>>,
    <<\h009B, 32>>, <<\h009F, 17>>, <<\h00A2, 11>>, <<\h00A7, 13>>, <<\h00F3, -1>>, <<\h00F5, 9>>,
    <<\h00F7, 21>>, <<\h0113, 34>>, <<\h0116, 20>>, <<\h0190, 20>>, <<\h0193, 2>> }
Map_20050404 == { <<\h0227, 18>>, <<\h0228, 18>> }
Map_20050411 == { <<\h022A, 58>>, <<\h022B, 57>>, <<\h022C, 64>> }
Map_20050425 == { <<\h022D, 5>>, <<\h0233, 11>>, <<\h0234, 6>> }
Map_20050509 ==
  { <<\h0072, 25>>, <<\h007E, 102>>, <<\h0085, 11>>, <<\h0089, 8>>, <<\h008C, 11>>, <<\h0094, 14>>,
    <<\h009B, 26>>, <<\h009F, 14>>, <<\h00A2, 15>>, <<\h00A7, 8>>, <<\h00F5, 8>>, <<\h00F7, 22>>,
    <<\h0113, 22>>, <<\h0116, 10>>, <<\h0190, 19>> }
Map_20050523 == { <<\h022E, 69>> }
Map_20050530 == { <<\h022E, 71>> }
Map_20050531 == { <<\h0216, 2>> }
Map_20050608 == { <<\h0216, 6>>, <<\h0231, 26>>, <<\h023A, 4>>, <<\h023B, 36>>, <<\h023C, 6>> }
Map_20050628 ==
  { <<\h0072, 34>>, <<\h007E, 113>>, <<\h0085, 17>>, <<\h0089, 13>>, <<\h008C, 8>>, <<\h0094, 31>>,
    <<\h009B, 32>>, <<\h009F, 19>>, <<\h00A2, 9>>, <<\h00A7, 11>>, <<\h00F5, 13>>, <<\h00F7, 18>>,
    <<\h0113, 33>>, <<\h0116, 12>>, <<\h0190, 24>>, <<\h0216, -1>>, <<\h023D, -1>>, <<\h023E, 4>> }
Map_20050718 ==
  { <<\h0072, 19>>, <<\h007E, 110>>, <<\h0085, 11>>, <<\h0089, 7>>, <<\h008C, 11>>, <<\h0094, 21>>,
    <<\h009B, 31>>, <<\h009F, 12>>, <<\h00A2, 18>>, <<\h00A7, 15>>, <<\h00F5, 7>>, <<\h00F7, 13>>,
    <<\h0113, 30>>, <<\h0190, 21>>, <<\h0216, 6>>, <<\h023F, 2>>, <<\h0240, 8>>, <<\h0241, 6>>,
    <<\h0242, -1>>, <<\h0243, 6>>, <<\h0244, 6>>, <<\h0245, 7>>, <<\h0246, 4>>, <<\h0247, 8>>,
    <<\h0248, 68>>, <<\h0249, 3>>, <<\h024A, 70>>, <<\h024B, 4>>, <<\h024C, 8>>, <<\h024D, 14>>,
    <<\h024E, 6>>, <<\h0250, 3>>, <<\h0251, 2>>, <<\h0252, -1>> }
Map_20050719 ==
  { <<\h0072, 34>>, <<\h007E, 113>>, <<\h0085, 17>>, <<\h0089, 13>>, <<\h008C, 8>>, <<\h0094, 31>>,
    <<\h009B, 32>>, <<\h009F, 19>>, <<\h00A2, 9>>, <<\h00A7, 11>>, <<\h00F5, 13>>, <<\h00F7, 18>>,
    <<\h0113, 33>>, <<\h0190, 24>> }
Map_20050801 == { <<\h0245, 3>>, <<\h0251, 4>> }
Map_20050808 == { <<\h024E, 4>> }
Map_20050817 == { <<\h0253, 3>>, <<\h0254, 3>> }
Map_20050829 == { <<\h0240, -1>>, <<\h0248, -1>>, <<\h0255, 5>>, <<\h0256, -1>>, <<\h0257, 8>> }
Map_20050912 == { <<\h0256, 5>>, <<\h0258, 2>>, <<\h0259, 3>> }
Map_20051010 == { <<\h020E, 32>> }
Map_20051013 == { <<\h007A, 6>>, <<\h0251, 32>>, <<\h025C, 4>> }
Map_20051017 == { <<\h007A, 58>>, <<\h025D, 6>>, <<\h025E, 4>> }
Map_20051024 == { <<\h025F, 6>>, <<\h0260, 6>> }
Map_20051107 == { <<\h024E, 6>> }
Map_20060109 ==
  { <<\h0261, 11>>, <<\h0262, 11>>, <<\h0263, 11>>, <<\h0264, 20>>, <<\h0265, 20>>, <<\h0266, 30>>,
    <<\h0267, 4>>, <<\h0268, 4>>, <<\h0269, 4>>, <<\h026A, 4>>, <<\h026B, 4>>, <<\h026C, 4>>,
    <<\h026D, 4>>, <<\h026F, 2>>, <<\h0270, 2>>, <<\h0271, 38>>, <<\h0272, 44>> }
Map_20060126 == { <<\h0271, 40>> }
Map_20060306 == { <<\h0273, 6>>, <<\h0274, 8>> }
Map_20060313 == { <<\h0273, 30>> }
Map_20060327 ==
  { <<\h0072, 26>>, <<\h007E, 120>>, <<\h0085, 12>>, <<\h008C, 12>>, <<\h0094, 23>>, <<\h009B, 37>>,
    <<\h009F, 24>>, <<\h00A2, 11>>, <<\h00A7, 15>>, <<\h00F7, 26>>, <<\h0113, 40>>, <<\h0116, 17>>,
    <<\h0190, 18>> }
Map_20060424 ==
  { <<\h023E, 8>>, <<\h0277, 84>>, <<\h0278, 2>>, <<\h0279, 2>>, <<\h027A, -1>>, <<\h027B, 14>>,
    <<\h027C, 60>>, <<\h027D, 62>>, <<\h027E, -1>>, <<\h027F, 8>>, <<\h0280, 12>>, <<\h0281, 4>>,
    <<\h0282, 284>>, <<\h0284, 14>>, <<\h0285, 6>>, <<\h0286, 4>>, <<\h0288, 6>>, <<\h0289, 8>>,
    <<\h028B, -1>>, <<\h028C, 46>>, <<\h028D, 34>>, <<\h028E, 4>>, <<\h028F, 6>>, <<\h0290, 4>>,
    <<\h0292, 2>>, <<\h0294, 10>>, <<\h029C, 66>>, <<\h029D, -1>>, <<\h029E, 11>>, <<\h029F, 3>>,
    <<\h02A0, -1>>, <<\h02A1, -1>>, <<\h02A2, 8>> }
Map_20061023 == { <<\h006D, 110>> }
Map_20061218 == { <<\h029A, 27>> }
Map_20070108 ==
  { <<\h0072, 30>>, <<\h0085, 14>>, <<\h0089, 11>>, <<\h008C, 17>>, <<\h0094, 17>>, <<\h009B, 35>>,
    <<\h009F, 21>>, <<\h00A2, 10>>, <<\h00A7, 8>>, <<\h00F5, 11>>, <<\h00F7, 15>>, <<\h0116, 19>>,
    <<\h0190, 10>> }
Map_20070122 == { <<\h02A3, 18>>, <<\h02A4, 2>> }
Map_20070129 == { <<\h029B, 72>>, <<\h02A3, -1>>, <<\h02A4, -1>>, <<\h02A5, 8>> }
Map_20070205 == { <<\h02AA, 4>>, <<\h02AB, 36>>, <<\h02AC, 6>> }
Map_20070212 ==
  { <<\h0072, 25>>, <<\h007E, 102>>, <<\h0085, 11>>, <<\h0089, 8>>, <<\h008C, 11>>, <<\h0094, 14>>,
    <<\h009B, 26>>, <<\h009F, 14>>, <<\h00A2, 15>>, <<\h00F5, 8>>, <<\h00F7, 22>>, <<\h0113, 22>>,
    <<\h0116, 10>>, <<\h0190, 19>> }
Map_20070227 ==
  { <<\h0288, 10>>, <<\h0289, 12>>, <<\h02A6, 22>>, <<\h02A7, 22>>, <<\h02A8, 162>>, <<\h02A9, 58>>,
    <<\h02AD, 8>>, <<\h02B0, 85>>, <<\h02B1, -1>>, <<\h02B2, -1>>, <<\h02B3, 107>>, <<\h02B4, 6>>,
    <<\h02B5, -1>>, <<\h02B7, 7>>, <<\h02B9, 191>>, <<\h02BA, 11>>, <<\h02BC, 6>>, <<\h02BF, 10>>,
    <<\h02C0, 2>>, <<\h02C1, -1>>, <<\h02C2, -1>>, <<\h02C5, 30>>, <<\h02CA, 3>>, <<\h02CB, 20>>,
    <<\h02CC, 4>>, <<\h02CD, 26>>, <<\h02CE, 10>>, <<\h02CF, 6>>, <<\h02D5, 2>>, <<\h02D6, 6>>,
    <<\h02D8, 10>>, <<\h02D9, 10>>, <<\h02DB, -1>>, <<\h02DC, -1>>, <<\h02DD, 32>>, <<\h02DE, 6>>,
    <<\h02DF, 36>>, <<\h02E0, 34>> }
Map_20070731 == { <<\h02B8, 22>> }
Map_20070911 == { <<\h02C9, 3>> }
Map_20071002 ==
  { <<\h00A3, 0>>, <<\h00A4, 0>>, <<\h00A5, 0>>, <<\h00A6, 0>>, <<\h0122, 0>>, <<\h0123, 0>>,
    <<\h01EE, -1>>, <<\h01EF, -1>>, <<\h0295, -1>>, <<\h0296, -1>>, <<\h0297, -1>>, <<\h029A, 0>>,
    <<\h02D4, 29>> }
Map_20071023 == { <<\h02CB, 65>>, <<\h02CD, 71>> }
Map_20071106 == { <<\h007C, 42>>, <<\h022C, 65>>, <<\h029B, 80>> }
Map_20071113 ==
  { <<\h008A, 33>>, <<\h00A0, 0>>, <<\h00FE, 0>>, <<\h02C6, 30>>, <<\h02E1, 33>>, <<\h08C8, 33>> }
Map_20071120 == { <<\h02E2, 14>>, <<\h02E3, 25>>, <<\h02E4, 8>>, <<\h02E5, 8>>, <<\h02E6, 6>> }
Map_20071127 == { <<\h02E7, -1>> }
Map_20071211 == { <<\h02D7, -1>> }
Map_20080102 ==
  { <<\h0073, 0>>, <<\h01EE, 0>>, <<\h01EF, 0>>, <<\h0295, 0>>, <<\h0296, 0>>, <<\h0297, 0>>,
    <<\h02D0, -1>>, <<\h02D1, -1>>, <<\h02D2, -1>>, <<\h02E8, -1>>, <<\h02E9, -1>>, <<\h02EA, -1>>,
    <<\h02EB, 13>>, <<\h02EC, 67>>, <<\h02ED, 59>>, <<\h02EE, 60>>, <<\h02EF, 8>> }
Map_20080318 == { <<\h02BF, -1>>, <<\h02C0, -1>>, <<\h02F0, 10>>, <<\h02F1, 2>>, <<\h02F2, 2>> }
Map_20080325 ==
  { <<\h02F3, -1>>, <<\h02F4, -1>>, <<\h02F5, -1>>, <<\h02F6, -1>>, <<\h02F7, -1>>, <<\h02F8, -1>>,
    <<\h02F9, -1>>, <<\h02FA, -1>>, <<\h02FB, -1>>, <<\h02FC, -1>>, <<\h02FD, -1>>, <<\h02FE, -1>>,
    <<\h02FF, -1>>, <<\h0300, -1>> }
Map_20080401 ==
  { <<\h0301, -1>>, <<\h0302, -1>>, <<\h0303, -1>>, <<\h0304, -1>>, <<\h0305, -1>>, <<\h0306, -1>>,
    <<\h0307, -1>>, <<\h0308, -1>>, <<\h0309, -1>>, <<\h030A, -1>>, <<\h030B, -1>>, <<\h030C, -1>>,
    <<\h030D, -1>>, <<\h030E, -1>>, <<\h030F, -1>>, <<\h0310, -1>>, <<\h0311, -1>>, <<\h0312, -1>>,
    <<\h0313, -1>>, <<\h0314, -1>>, <<\h0315, -1>>, <<\h0316, -1>>, <<\h0317, -1>>, <<\h0318, -1>>,
    <<\h0319, -1>>, <<\h031A, -1>>, <<\h031B, -1>>, <<\h031C, -1>>, <<\h031D, -1>>, <<\h031E, -1>>,
    <<\h031F, -1>>, <<\h0320, -1>>, <<\h0321, -1>>, <<\h0322, -1>>, <<\h0323, -1>>, <<\h0324, -1>>,
    <<\h0325, -1>>, <<\h0326, -1>>, <<\h0327, -1>>, <<\h0328, -1>>, <<\h0329, -1>>, <<\h032A, -1>>,
    <<\h032B, -1>>, <<\h032C, -1>>, <<\h032D, -1>>, <<\h032E, -1>>, <<\h032F, -1>>, <<\h0330, -1>>,
    <<\h0331, -1>>, <<\h0332, -1>>, <<\h0333, -1>>, <<\h0334, -1>>, <<\h0335, -1>>, <<\h0336, -1>>,
    <<\h0337, -1>>, <<\h0338, -1>>, <<\h0339, -1>>, <<\h033A, -1>>, <<\h033B, -1>>, <<\h033C, -1>>,
    <<\h033D, -1>>, <<\h033E, -1>>, <<\h033F, -1>>, <<\h0340, -1>>, <<\h0341, -1>>, <<\h0342, -1>>,
    <<\h0343, -1>>, <<\h0344, -1>>, <<\h0345, -1>>, <<\h0346, -1>>, <<\h0347, -1>>, <<\h0348, -1>>,
    <<\h0349, -1>>, <<\h034A, -1>>, <<\h034B, -1>>, <<\h034C, -1>>, <<\h034D, -1>>, <<\h034E, -1>>,
    <<\h034F, -1>>, <<\h0350, -1>>, <<\h0351, -1>>, <<\h0352, -1>>, <<\h0353, -1>>, <<\h0354, -1>>,
    <<\h0355, -1>>, <<\h0356, -1>>, <<\h0357, -1>>, <<\h0358, -1>>, <<\h0359, -1>>, <<\h035A, -1>> }
Map_20080527 ==
  { <<\h035B, -1>>, <<\h035C, 2>>, <<\h035D, -1>>, <<\h035E, 2>>, <<\h035F, -1>>, <<\h0389, -1>> }
Map_20080820 ==
  { <<\h040C, -1>>, <<\h040D, -1>>, <<\h040E, -1>>, <<\h040F, -1>>, <<\h0410, -1>>, <<\h0411, -1>>,
    <<\h0412, -1>>, <<\h0413, -1>>, <<\h0414, -1>>, <<\h0415, -1>>, <<\h0416, -1>>, <<\h0417, -1>>,
    <<\h0418, -1>>, <<\h0419, -1>>, <<\h041A, -1>>, <<\h041B, -1>>, <<\h041C, -1>>, <<\h041D, -1>>,
    <<\h041E, -1>>, <<\h041F, -1>>, <<\h0420, -1>>, <<\h0421, -1>>, <<\h0422, -1>>, <<\h0423, -1>>,
    <<\h0424, -1>>, <<\h0425, -1>>, <<\h0426, -1>>, <<\h0427, -1>>, <<\h0428, -1>>, <<\h0429, -1>>,
    <<\h042A, -1>>, <<\h042B, -1>>, <<\h042C, -1>>, <<\h042D, -1>>, <<\h042E, -1>>, <<\h042F, -1>>,
    <<\h0430, -1>>, <<\h0431, -1>>, <<\h0432, -1>>, <<\h0433, -1>>, <<\h0434, -1>>, <<\h0435, -1>> }
Map_20080827 ==
  { <<\h0072, 22>>, <<\h007C, 44>>, <<\h007E, 105>>, <<\h0085, 10>>, <<\h0089, 11>>, <<\h008C, 14>>,
    <<\h0094, 19>>, <<\h009B, 34>>, <<\h009F, 20>>, <<\h00A2, 14>>, <<\h00A7, 9>>, <<\h00F5, 11>>,
    <<\h00F7, 17>>, <<\h0113, 25>>, <<\h0116, 17>>, <<\h0190, 23>>, <<\h02E2, 20>>, <<\h02E3, 22>>,
    <<\h02E4, 11>>, <<\h02E5, 9>> }
Map_20080910 == { <<\h0436, 19>>, <<\h0437, 7>>, <<\h0438, 10>>, <<\h0439, 8>> }
Map_20081112 == { <<\h043D, 8>>, <<\h043F, 8>> }
Map_20081113 == { <<\h043E, -1>> }
Map_20081217 == { <<\h006D, 114>> }
Map_20090114 == { <<\h0444, -1>>, <<\h0445, 10>> }
Map_20090121 == { <<\h043F, 25>> }
Map_20090218 == { <<\h0446, 14>> }
Map_20090225 == { <<\h0448, -1>> }
Map_20090330 == { <<\h0449, 4>> }
Map_20090406 == { <<\h013E, 24>>, <<\h01CD, 30>> }
Map_20090408 == { <<\h02A6, -1>>, <<\h02A7, -1>>, <<\h044A, 6>> }
Map_20090520 == { <<\h0447, 2>> }
Map_20090603 == { <<\h07D7, 8>>, <<\h07D8, 8>>, <<\h07D9, 254>>, <<\h07DA, 6>> }
Map_20090617 == { <<\h07D9, 268>> }
Map_20090818 == { <<\h07E3, 6>>, <<\h07E4, -1>> }
Map_20090825 == { <<\h07E7, 5>> }
Map_20090922 == { <<\h07E5, 8>>, <<\h07E7, 32>>, <<\h07E8, -1>>, <<\h07E9, 5>> }
Map_20091027 == { <<\h07F5, 6>> }
Map_20091103 == { <<\h07F7, -1>>, <<\h07F8, -1>>, <<\h07F9, -1>> }
Map_20091124 == { <<\h013E, 0>>, <<\h07FB, 25>> }
Map_20091201 == { <<\h07FC, 10>>, <<\h07FD, 35>>, <<\h07FE, 26>> }
Map_20091229 ==
  { <<\h0804, 14>>, <<\h0806, 2>>, <<\h0807, 4>>, <<\h0808, 14>>, <<\h0809, 50>>, <<\h080A, 18>>,
    <<\h080B, 6>> }
Map_20100223 == { <<\h080F, 20>> }
Map_20100303 == { <<\h0810, 3>>, <<\h0811, -1>> }
Map_20100309 == { <<\h0816, 6>>, <<\h081D, 22>> }
Map_20100413 == { <<\h0820, 11>> }
Map_20100420 ==
  { <<\h0812, 8>>, <<\h0814, 86>>, <<\h0815, 2>>, <<\h0817, 6>>, <<\h0819, -1>>, <<\h081A, 4>>,
    <<\h081B, 10>>, <<\h081C, 10>> }
Map_20100608 == { <<\h0838, 2>>, <<\h083B, 2>> }
Map_20100803 ==
  { <<\h015C, 0>>, <<\h0839, 46>>, <<\h0842, 6>>, <<\h0843, 6>>, <<\h099D, -1>>, <<\h09A0, 6>> }
Map_20100817 == { <<\h0835, -1>>, <<\h0836, -1>> }
Map_20101123 == { <<\h0845, 10>>, <<\h0849, 16>>, <<\h0859, -1>> }
Map_20101124 ==
  { <<\h0288, -1>>, <<\h035F, 5>>, <<\h0360, 6>>, <<\h0361, 5>>, <<\h0362, 6>>, <<\h0363, 6>>,
    <<\h0364, 8>>, <<\h0365, 8>>, <<\h0366, 10>>, <<\h0367, 90>>, <<\h0368, 6>>, <<\h0369, 6>>,
    <<\h0856, -1>>, <<\h0857, -1>>, <<\h0858, -1>> }
Map_20110627 == { <<\h08CB, -1>> }
Map_20110824 ==
  { <<\h00AA, 9>>, <<\h00AC, 0>>, <<\h00E9, 0>>, <<\h0106, 0>>, <<\h0133, 0>>, <<\h01A2, 37>>,
    <<\h02D7, 0>>, <<\h0800, -1>>, <<\h080E, 14>>, <<\h083A, 5>>, <<\h0844, 2>>, <<\h08D1, 7>> }
Map_20111005 ==
  { <<\h0364, 5>>, <<\h0366, 5>>, <<\h0369, 10>>, <<\h0815, 6>>, <<\h0838, 6>>, <<\h0885, 6>>,
    <<\h088A, 6>>, <<\h0893, 8>>, <<\h0897, 8>>, <<\h08AD, 90>>, <<\h08D2, 10>> }
Map_20111102 ==
  { <<\h0281, 36>>, <<\h02C4, 10>>, <<\h0436, 26>>, <<\h083C, 19>>, <<\h088B, 2>>, <<\h088D, 26>>,
    <<\h0890, 8>>, <<\h0898, 5>>, <<\h089B, 2>>, <<\h089E, -1>>, <<\h08A1, 6>>, <<\h08A5, 18>>,
    <<\h08AA, 7>>, <<\h08AB, -1>> }
Map_20111122 == { <<\h0906, -1>> }
Map_20120000 == { <<\h083E, 26>> }
Map_20120221 == { <<\h090F, 73>>, <<\h0914, 80>>, <<\h0915, 74>> }
Map_20120307 ==
  { <<\h02C4, 6>>, <<\h0365, 41>>, <<\h0366, 90>>, <<\h0369, 26>>, <<\h0437, 5>>, <<\h0815, -1>>,
    <<\h0817, 2>>, <<\h0835, 2>>, <<\h0861, 36>>, <<\h0863, 5>>, <<\h0865, 6>>, <<\h086A, 19>>,
    <<\h0870, -1>>, <<\h0884, -1>>, <<\h0885, 7>>, <<\h0887, 6>>, <<\h0889, 10>>, <<\h0890, 5>>,
    <<\h090F, -1>>, <<\h0914, -1>>, <<\h0915, -1>>, <<\h0929, 26>>, <<\h093B, 8>>, <<\h0963, 8>>,
    <<\h096A, 6>> }
Map_20120314 == { <<\h096D, -1>>, <<\h096F, 7>> }
Map_20120410 ==
  { <<\h0369, 7>>, <<\h083C, 10>>, <<\h084A, 2>>, <<\h086C, 8>>, <<\h0871, 5>>, <<\h0884, 6>>,
    <<\h0885, 5>>, <<\h0886, 6>>, <<\h0889, 6>>, <<\h0891, 6>>, <<\h089C, 26>>, <<\h08A6, 8>>,
    <<\h08C9, 2>>, <<\h08D7, 28>>, <<\h08D8, 27>>, <<\h08D9, 30>>, <<\h08DA, 26>>, <<\h08DB, 27>>,
    <<\h08DC, 26>>, <<\h08DD, 27>>, <<\h08DE, 27>>, <<\h08DF, 50>>, <<\h08E0, 51>>, <<\h08E1, 51>>,
    <<\h08E6, 4>>, <<\h08E7, 10>>, <<\h08E8, -1>>, <<\h08E9, 2>>, <<\h08EA, 4>>, <<\h08EB, 39>>,
    <<\h08EC, 73>>, <<\h08ED, 43>>, <<\h08EE, 6>>, <<\h08EF, 6>>, <<\h08F0, 6>>, <<\h08F1, 6>>,
    <<\h08F2, 36>>, <<\h08F3, -1>>, <<\h08F4, 6>>, <<\h08F5, -1>>, <<\h08F6, 22>>, <<\h08F7, 3>>,
    <<\h08F8, 7>>, <<\h08F9, 6>>, <<\h08FA, 6>>, <<\h08FB, 6>>, <<\h090A, 26>>, <<\h091C, 26>>,
    <<\h091D, 41>>, <<\h0938, 6>>, <<\h0945, -1>>, <<\h094B, 19>>, <<\h0961, 36>>, <<\h0974, 2>> }
Map_20120418 ==
  { <<\h0202, 5>>, <<\h022D, 19>>, <<\h023B, 26>>, <<\h0281, -1>>, <<\h035F, 6>>, <<\h0364, 8>>,
    <<\h07E4, 6>>, <<\h07EC, 8>>, <<\h0802, 26>>, <<\h08A8, 36>>, <<\h08E5, 41>> }
Map_20120618 ==
  { <<\h0859, 0>>, <<\h0861, 41>>, <<\h08CB, 0>>, <<\h08FF, 0>>, <<\h097B, -1>>, <<\h0983, 29>>,
    <<\h0984, 28>> }
Map_20120702 ==
  { <<\h0363, 19>>, <<\h0364, 6>>, <<\h085A, 7>>, <<\h0861, 8>>, <<\h0862, 10>>, <<\h0863, 10>>,
    <<\h0879, 41>>, <<\h0889, 90>>, <<\h089E, 6>>, <<\h089F, 6>>, <<\h08A0, 8>>, <<\h094A, 6>>,
    <<\h0953, 5>>, <<\h0960, 5>> }
Map_20120925 ==
  { <<\h00A9, 0>>, <<\h02D0, 0>>, <<\h02D1, 0>>, <<\h02D2, 0>>, <<\h02D4, 0>>, <<\h02E8, 0>>,
    <<\h02E9, 0>>, <<\h02EA, 0>>, <<\h0990, 31>>, <<\h0991, -1>>, <<\h0992, -1>>, <<\h0993, -1>>,
    <<\h0994, -1>>, <<\h0995, -1>>, <<\h0996, -1>>, <<\h0998, 8>> }
Map_20121010 == { <<\h099B, 8>> }
Map_20121107 == { <<\h0997, -1>> }
Map_20121205 == { <<\h0999, 11>> }
Map_20121212 == { <<\h08C7, 20>>, <<\h099F, 22>> }
Map_20130000 == { <<\h00AA, 0>>, <<\h08D1, 0>>, <<\h0906, 0>>, <<\h099A, 9>> }
Map_20130001 == { <<\h084B, 19>> }
Map_20130320 ==
  { <<\h0363, 6>>, <<\h0438, 6>>, <<\h085A, 90>>, <<\h085D, 18>>, <<\h0868, -1>>, <<\h086D, 26>>,
    <<\h086F, 26>>, <<\h0874, 8>>, <<\h0881, 5>>, <<\h0886, 2>>, <<\h0888, 19>>, <<\h088E, 7>>,
    <<\h0897, 5>>, <<\h0898, 6>>, <<\h089B, 10>>, <<\h08AC, 8>>, <<\h0922, -1>>, <<\h0933, 6>>,
    <<\h0938, -1>>, <<\h093F, 5>>, <<\h0947, 36>>, <<\h094C, 6>>, <<\h094E, -1>>, <<\h0959, 10>>,
    <<\h0978, 6>>, <<\h0979, 50>> }
Map_20130626 == { <<\h098A, 74>> }
Map_20130731 == { <<\h09C1, 10>>, <<\h09CA, 23>> }
Map_20130821 == { <<\h09D1, 14>> }
Map_20131120 == { <<\h09D5, -1>>, <<\h09D7, -1>> }
Map_20131204 == { <<\h09DE, -1>> }
Map_20131223 ==
  { <<\h008A, 34>>, <<\h0097, 0>>, <<\h0098, 7>>, <<\h011A, 0>>, <<\h02E1, 0>>, <<\h08C8, 34>>,
    <<\h097A, -1>>, <<\h098D, -1>>, <<\h09AF, 4>>, <<\h09B1, 4>>, <<\h09B4, 6>>, <<\h09BC, 6>>,
    <<\h09C3, 8>>, <<\h09CB, 17>>, <<\h09CE, 102>>, <<\h09D4, 2>>, <<\h09D6, -1>>, <<\h09D8, 2>>,
    <<\h09DB, -1>>, <<\h09DC, -1>>, <<\h09DD, -1>>, <<\h09DF, 7>> }
Map_20140115 == { <<\h09EB, -1>> }
Map_20140430 == { <<\h0A17, 6>> }
Map_20140611 == { <<\h0A15, 12>> }
Map_20140813 == { <<\h00F4, 47>>, <<\h0124, 47>> }
Map_20140820 == { <<\h0A2D, -1>> }
Map_20141008 == { <<\h09FB, -1>>, <<\h09FC, 6>>, <<\h0A1E, 3>> }
Map_20141016 ==
  { <<\h0137, 18>>, <<\h01C4, 0>>, <<\h01C5, 0>>, <<\h0845, 0>>, <<\h0997, 0>>, <<\h09E5, 18>>,
    <<\h09E6, 22>>, <<\h09F7, 75>>, <<\h0A00, 269>>, <<\h0A01, 3>>, <<\h0A0A, 47>>, <<\h0A0B, 47>>,
    <<\h0A0E, 14>>, <<\h0A13, 26>>, <<\h0A16, 26>>, <<\h0A19, 2>>, <<\h0A1A, 23>>, <<\h0A1B, 2>>,
    <<\h0A1C, -1>>, <<\h0A1D, 2>>, <<\h0A1F, 2>>, <<\h0A21, 3>>, <<\h0A22, 5>>, <<\h0A2B, 14>> }
Map_20141022 ==
  { <<\h006D, 149>>, <<\h013D, 8>>, <<\h02EB, 0>>, <<\h08E3, 149>>, <<\h09FD, -1>>, <<\h09FE, -1>>,
    <<\h09FF, -1>>, <<\h0A18, 14>>, <<\h0A27, 8>> }
Map_20141119 == { <<\h0A05, 53>>, <<\h0A14, 10>> }
Map_20150225 == { <<\h0A30, 106>> }
Map_20150226 ==
  { <<\h0992, 0>>, <<\h0994, 0>>, <<\h0996, 0>>, <<\h0A09, 45>>, <<\h0A0C, 56>>, <<\h0A0D, -1>>,
    <<\h0A0F, -1>>, <<\h0A10, -1>> }
Map_20150507 == { <<\h0A3B, -1>> }
Map_20150513 ==
  { <<\h08FE, -1>>, <<\h09E7, 3>>, <<\h09E8, 11>>, <<\h09E9, 2>>, <<\h09EA, 11>>, <<\h09EC, -1>>,
    <<\h09ED, 3>>, <<\h09EE, 11>>, <<\h09EF, 11>>, <<\h09F0, -1>>, <<\h09F1, 11>>, <<\h09F2, 12>>,
    <<\h09F3, 11>>, <<\h09F4, 12>>, <<\h09F5, 11>>, <<\h09F6, 11>>, <<\h09F8, -1>>, <<\h09F9, 143>>,
    <<\h09FA, -1>>, <<\h0A03, 2>>, <<\h0A04, 6>>, <<\h0A06, 6>>, <<\h0A07, 9>>, <<\h0A08, 26>>,
    <<\h0A12, 27>>, <<\h0A23, -1>>, <<\h0A24, 66>>, <<\h0A25, 6>>, <<\h0A26, 7>>, <<\h0A2E, 6>>,
    <<\h0A2F, 7>>, <<\h0A32, 2>>, <<\h0A35, 4>> }
Map_20150520 == { <<\h0195, 0>>, <<\h080F, 0>>, <<\h0990, 0>>, <<\h09AE, 18>> }
Map_20150916 == { <<\h097F, -1>>, <<\h0980, 7>> }
Map_20151202 == { <<\h0A38, 3>> }
Map_20151223 == { <<\h0A41, 18>> }
Map_20160302 == { <<\h0A51, 34>> }
Map_20160330 ==
  { <<\h0A53, 10>>, <<\h0A55, 2>>, <<\h0A57, 6>>, <<\h0A58, 8>>, <<\h0A59, -1>>, <<\h0A5B, 7>>,
    <<\h0A5D, 6>>, <<\h0A6A, 12>>, <<\h0A6B, -1>>, <<\h0A6D, -1>>, <<\h0A6E, -1>> }
Map_20160525 == { <<\h0A77, 15>>, <<\h0A78, 15>> }
Map_20160601 == { <<\h0A4E, 4>>, <<\h0A50, 4>>, <<\h0A7D, -1>> }
Map_20160831 == { <<\h0A3F, 9>> }
Map_20160921 == { <<\h0A37, 59>>, <<\h0A84, 114>> }
Map_20161019 == { <<\h015A, 0>>, <<\h0839, 0>>, <<\h0A82, 46>>, <<\h0A83, 46>>, <<\h0A84, 94>> }
Map_20161026 == { <<\h0A96, 45>>, <<\h0AA5, -1>> }
Map_20161102 == { <<\h0A96, 51>> }
Map_20161130 == { <<\h0AA0, 2>>, <<\h0AA2, -1>> }
Map_20161214 == { <<\h0AA7, 6>> }
Map_20170208 ==
  { <<\h0A97, 8>>, <<\h0A98, 12>>, <<\h0A99, 8>>, <<\h0A9A, 10>>, <<\h0A9B, -1>>, <<\h0A9C, 2>>,
    <<\h0A9D, 4>> }
Map_20170315 ==
  { <<\h0092, 0>>, <<\h0163, 0>>, <<\h02EB, 13>>, <<\h0A09, 0>>, <<\h0A0C, 0>>, <<\h0A18, 0>>,
    <<\h0A4F, -1>>, <<\h0A52, 20>>, <<\h0A54, -1>>, <<\h0A56, 6>>, <<\h0A5A, 2>>, <<\h0A5C, 18>>,
    <<\h0A69, 6>>, <<\h0A6C, 7>>, <<\h0A70, 2>>, <<\h0A87, -1>>, <<\h0A88, 2>>, <<\h0AA1, 4>>,
    <<\h0AA3, 7>>, <<\h0AA4, 2>>, <<\h0AB5, 2>>, <<\h0AB6, 6>>, <<\h0AC5, 156>>, <<\h0AC7, 156>> }
Map_20170419 == { <<\h0AC0, 26>>, <<\h0AC1, 26>> }
Map_20170502 ==
  { <<\h011C, 0>>, <<\h0A44, -1>>, <<\h0A98, 10>>, <<\h0A99, 4>>, <<\h0ABD, 10>>, <<\h0ABE, -1>>,
    <<\h0ACE, 4>> }
Map_20170524 == { <<\h00FB, 0>>, <<\h01E9, 0>>, <<\h0A43, 85>> }
Map_20170726 == { <<\h0AB4, 4>>, <<\h0AB7, 4>>, <<\h0AB9, 39>> }
Map_20170830 == { <<\h0ACC, 18>>, <<\h0ADB, -1>> }
Map_20170906 == { <<\h0ACB, 12>>, <<\h0ADA, 30>> }
Map_20171025 == { <<\h0ADE, 6>> }
Map_20171207 == { <<\h0A43, 0>>, <<\h0A44, 0>>, <<\h0AE4, 89>>, <<\h0AE5, -1>> }
Map_20180103 == { <<\h0AE8, 2>> }
Map_20180207 == { <<\h0AF4, 11>> }
Map_20180221 ==
  { <<\h0095, 0>>, <<\h0194, 0>>, <<\h0A38, 0>>, <<\h0ADF, 58>>, <<\h0AE2, 7>>, <<\h0AF7, 32>> }
Map_20180307 == { <<\h0206, 35>>, <<\h0A68, 3>>, <<\h0AEF, 2>>, <<\h0AF0, 10>> }
Map_20180321 == { <<\h0A4A, 6>>, <<\h0A4B, 22>>, <<\h0A4C, 28>> }
Map_20180418 == { <<\h0ADD, 22>> }
Map_20180801 == { <<\h0B03, -1>> }
Map_20181002 ==
  { <<\h0991, 0>>, <<\h0993, 0>>, <<\h0995, 0>>, <<\h0A0D, 0>>, <<\h0A0F, 0>>, <<\h0A10, 0>>,
    <<\h0B08, -1>>, <<\h0B09, -1>>, <<\h0B0A, -1>>, <<\h0B0B, 4>> }
Map_20181121 ==
  { <<\h009D, 19>>, <<\h00F4, 57>>, <<\h010A, 6>>, <<\h0110, 14>>, <<\h0124, 57>>, <<\h018E, 18>>,
    <<\h018F, 8>>, <<\h01AE, 6>>, <<\h01C8, 15>>, <<\h01D7, 15>>, <<\h01FD, 25>>, <<\h0223, 10>>,
    <<\h025B, 8>>, <<\h0298, 10>>, <<\h0299, 8>>, <<\h02B8, 32>>, <<\h07FD, 39>>, <<\h0824, 8>>,
    <<\h09AC, 12>>, <<\h09AD, 12>>, <<\h09AE, 20>>, <<\h09B0, 10>>, <<\h09B2, 10>>, <<\h09B3, 6>>,
    <<\h09C4, 10>>, <<\h0A05, 63>>, <<\h0A0A, 57>>, <<\h0A0B, 57>>, <<\h0A20, 23>>, <<\h0A2D, 0>>,
    <<\h0A37, 69>>, <<\h0A3F, 11>>, <<\h0A4E, 6>>, <<\h0A96, 61>>, <<\h0AA3, 9>>, <<\h0AB4, 6>>,
    <<\h0AB6, 8>>, <<\h0AB9, 48>>, <<\h0ADA, 32>>, <<\h0B10, 10>>, <<\h0B11, 4>>, <<\h0B13, 48>>,
    <<\h0B14, 2>>, <<\h0B16, 2>>, <<\h0B19, 2>> }
Map_20181212 == { <<\h0B1A, 29>> }
Map_20181219 == { <<\h0B15, 7>>, <<\h0B17, 3>>, <<\h0B18, 4>> }
Map_20190116 == { <<\h0B0E, -1>> }
Map_20190227 == { <<\h0B1D, 2>> }
Map_20190403 == { <<\h0B1B, 2>> }
Map_20190522 == { <<\h0B20, 271>> }
Map_20190703 == { <<\h0B1F, 14>> }
Map_20190724 == { <<\h0B4C, 2>> }
Map_20190731 == { <<\h0B27, -1>>, <<\h0B2D, 11>>, <<\h0B2E, 4>> }
Map_20190807 == { <<\h0B31, 39>>, <<\h0B32, -1>>, <<\h0B33, 15>>, <<\h0B47, 14>> }
Map_20191120 ==
  { <<\h01B4, 0>>, <<\h01CD, 0>>, <<\h07FB, 0>>, <<\h0AFB, -1>>, <<\h0B0F, -1>>, <<\h0B12, 2>>,
    <<\h0B1C, 2>>, <<\h0B1E, 14>>, <<\h0B21, 13>>, <<\h0B22, 5>>, <<\h0B28, 3>>, <<\h0B2C, 3>>,
    <<\h0B2F, 73>>, <<\h0B35, 3>>, <<\h0B36, -1>>, <<\h0B4E, -1>>, <<\h0B56, -1>>, <<\h0B57, -1>>,
    <<\h0B58, 2>>, <<\h0B59, 4>>, <<\h0B5B, 14>>, <<\h0B5C, 2>> }
Map_20200414 == { <<\h0B73, 8>> }
Map_20200902 == { <<\h0B7B, 118>> }
Map_20200916 ==
  { <<\h00F4, 0>>, <<\h0124, 0>>, <<\h0136, 0>>, <<\h02B8, 0>>, <<\h0800, 0>>, <<\h0836, 0>>,
    <<\h09EB, 0>>, <<\h0A05, 0>>, <<\h0A0A, 0>>, <<\h0A0B, 0>>, <<\h0A2B, 0>>, <<\h0A37, 0>>,
    <<\h0A84, 0>>, <<\h0A87, 0>>, <<\h0A96, 0>>, <<\h0AB9, 0>>, <<\h0B03, 0>>, <<\h0B0A, 0>>,
    <<\h0B13, 0>>, <<\h0B2F, 0>>, <<\h0B37, -1>>, <<\h0B39, -1>>, <<\h0B3D, -1>>, <<\h0B3F, 64>>,
    <<\h0B40, -1>>, <<\h0B41, 70>>, <<\h0B42, 62>>, <<\h0B43, 48>>, <<\h0B44, 58>>, <<\h0B45, 58>>,
    <<\h0B5A, -1>>, <<\h0B5D, 10>>, <<\h0B5E, 33>>, <<\h0B63, -1>>, <<\h0B64, -1>>, <<\h0B65, -1>>,
    <<\h0B66, 26>>, <<\h0B67, 33>>, <<\h0B69, 18>>, <<\h0B6D, 6>>, <<\h0B6E, 14>>, <<\h0B76, 77>>,
    <<\h0B7C, -1>>, <<\h0B7D, -1>>, <<\h0B90, 2>>, <<\h0B91, 8>> }
Map_20201007 == { <<\h0B6F, 2>>, <<\h0B72, -1>> }
Map_20201118 == { <<\h0B8F, 6>>, <<\h0B92, 5>> }
Map_20210000 ==
  { <<\h07DB, 0>>, <<\h0B97, 27>>, <<\h0B9B, 12>>, <<\h0B9C, 16>>, <<\h0B9D, 14>>, <<\h0B9E, 12>>,
    <<\h0BA0, 2>>, <<\h0BA5, 12>> }
Map_20210203 ==
  { <<\h09D5, 0>>, <<\h0B0E, 0>>, <<\h0B56, 0>>, <<\h0B77, -1>>, <<\h0B78, -1>>, <<\h0B79, -1>>,
    <<\h0B7A, -1>>, <<\h0B9F, 10>>, <<\h0BA1, 3>> }
Map_20210818 == { <<\h0BAE, 3>> }
Map_20220504 == { <<\h0BA2, 10>>, <<\h0BA3, 10>>, <<\h0BB5, 10>> }
Map_20221005 == { <<\h0BBE, 6>> }
Map_20230607 == { <<\h0B93, 12>> }
Map_20250402 ==
  { <<\h07FD, 0>>, <<\h07FE, 0>>, <<\h0972, -1>>, <<\h0973, 7>>, <<\h0B76, 0>>, <<\h0B8C, -1>>,
    <<\h0BA4, 85>>, <<\h0BA8, 7>>, <<\h0BAF, 16>>, <<\h0BB0, 9>>, <<\h0BBA, 44>>, <<\h0BF5, 6>> }
==============================================================================
