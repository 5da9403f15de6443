--------------------------- MODULE ShuffleTable ---------------------------
(*
The client-to-server packet IDs of pkg/encode/shuffle_map.go.

  rAthena renumbers its request packets for every weekly client between 20130515
  and 20180307 (clif_shuffle.hpp). An encoder names a request by its base ID and
  shuffledCtoSID gives the ID that the client of one packet version sends.
*)
EXTENDS Integers, Sequences, SequencesExt

\* The base IDs that any block of the switch names, in the order of the rows below.
Bases == <<
  \h0064, \h0072, \h007E, \h0085, \h0089, \h0094, \h009B, \h009F, \h00A2, \h00F3, \h00F5, \h0113,
  \h0116, \h0190, \h0193, \h0202, \h022D, \h023B, \h07E4, \h0802, \h0811, \h0815, \h0817, \h0819,
  \h0835, \h0838, \h088D >>

\* The block `if packetver > 20180307`: the IDs of the last clients.
Shuffle_after_20180307 ==
  <<\h0281, \h0436, \h0360, \h035F, \h0437, \h0368, \h0361, \h0362, \h0363, \h0364, \h0365, \h0438,
    \h0366, \h0367, \h0369, \h0202, \h022D, \h023B, \h07E4, \h0802, \h0811, \h0815, \h0817, \h0819,
    \h0835, \h0838, \h02C4>>

\* One row per `case` of the switch on packetver, aligned with Bases; a base that the
\* block does not name keeps its own ID.
\* A pasted row: 0x0089 with the ID of 0x0085.
Shuffle_20130515_Pasted ==
  <<\h0862, \h0943, \h035F, \h0437, \h0437, \h096A, \h0362, \h08A1, \h0944, \h0887, \h08AC, \h083C,
    \h0438, \h0366, \h0368, \h0962, \h0931, \h093E, \h0963, \h092D, \h0815, \h0817, \h0360, \h0811,
    \h0819, \h0835, \h0947>>

Shuffle_20130515 ==
  <<\h0862, \h0943, \h035F, \h0437, \h0369, \h096A, \h0362, \h08A1, \h0944, \h0887, \h08AC, \h083C,
    \h0438, \h0366, \h0368, \h0962, \h0931, \h093E, \h0963, \h092D, \h0815, \h0817, \h0360, \h0811,
    \h0819, \h0835, \h0947>>
Shuffle_20130522 ==
  <<\h08AC, \h08A9, \h07EC, \h0360, \h08A2, \h08A6, \h0925, \h095E, \h089C, \h08A3, \h087E, \h095C,
    \h0811, \h0964, \h0369, \h0362, \h0926, \h088E, \h086A, \h089B, \h0874, \h086E, \h0368, \h0952,
    \h095B, \h08AA, \h0950>>
Shuffle_20130529 ==
  <<\h0888, \h0919, \h0897, \h0876, \h0890, \h0863, \h0951, \h0895, \h08A7, \h0938, \h0957, \h0438,
    \h0917, \h085E, \h0937, \h0877, \h023B, \h0956, \h0958, \h0874, \h0869, \h0964, \h0892, \h0936,
    \h0918, \h0941, \h08A8>>
Shuffle_20130605 ==
  <<\h0363, \h022D, \h035F, \h0437, \h0369, \h096A, \h0202, \h07E4, \h0362, \h07EC, \h0364, \h083C,
    \h0438, \h0366, \h0368, \h023B, \h0361, \h0883, \h0281, \h0365, \h0815, \h0817, \h0360, \h0811,
    \h0819, \h0835, \h0802>>
Shuffle_20130612 ==
  <<\h0363, \h0919, \h035F, \h0437, \h0369, \h096A, \h087E, \h07E4, \h0362, \h07EC, \h0364, \h083C,
    \h0438, \h0366, \h0368, \h0940, \h093A, \h0964, \h0281, \h0365, \h0815, \h0817, \h0360, \h0811,
    \h0819, \h0835, \h0802>>
Shuffle_20130618 ==
  <<\h0878, \h095B, \h0930, \h088E, \h0889, \h0944, \h08A6, \h0962, \h0917, \h0885, \h0936, \h0951,
    \h096A, \h094F, \h0945, \h0953, \h02C4, \h0864, \h0942, \h08A7, \h0932, \h085A, \h0862, \h0891,
    \h0281, \h0363, \h0887>>
Shuffle_20130626 ==
  <<\h0860, \h088C, \h035F, \h0437, \h0369, \h096A, \h094D, \h088B, \h0952, \h0921, \h0817, \h083C,
    \h0438, \h0366, \h0368, \h08AB, \h0960, \h0930, \h08A5, \h0894, \h0815, \h0365, \h0360, \h0811,
    \h0819, \h0835, \h0895>>
Shuffle_20130703 ==
  <<\h0363, \h022D, \h035F, \h0437, \h0369, \h096A, \h0930, \h07E4, \h0362, \h07EC, \h0364, \h083C,
    \h0438, \h0366, \h0368, \h0360, \h094A, \h0873, \h0281, \h0365, \h0815, \h0817, \h0202, \h0811,
    \h0819, \h0835, \h0802>>
Shuffle_20130710 ==
  <<\h0363, \h022D, \h035F, \h0437, \h0369, \h096A, \h0202, \h07E4, \h0362, \h07EC, \h0364, \h083C,
    \h0438, \h0366, \h0368, \h023B, \h0361, \h0880, \h0281, \h0365, \h0815, \h0817, \h0360, \h0811,
    \h0819, \h0835, \h0802>>
Shuffle_20130717 ==
  <<\h086C, \h091D, \h02C4, \h083C, \h0918, \h0958, \h088C, \h08A9, \h0917, \h089B, \h0956, \h091E,
    \h0882, \h0952, \h0967, \h0863, \h088A, \h095B, \h0897, \h0862, \h08AA, \h096A, \h0898, \h093B,
    \h086B, \h0819, \h092F>>
Shuffle_20130807 ==
  <<\h0363, \h022D, \h035F, \h0437, \h0369, \h096A, \h0202, \h07E4, \h0362, \h07EC, \h0364, \h083C,
    \h0438, \h0366, \h0368, \h023B, \h0361, \h0887, \h0281, \h0365, \h0815, \h0817, \h0360, \h0811,
    \h0819, \h0835, \h0802>>
Shuffle_20131223 ==
  <<\h0363, \h022D, \h035F, \h0437, \h0369, \h096A, \h0202, \h07E4, \h0362, \h07EC, \h0364, \h083C,
    \h0438, \h0366, \h0368, \h023B, \h0361, \h08A4, \h0281, \h0365, \h0815, \h0817, \h0360, \h0811,
    \h0819, \h0835, \h0802>>
Shuffle_20141016 ==
  <<\h0363, \h086E, \h035F, \h0437, \h0369, \h096A, \h0967, \h07E4, \h0362, \h07EC, \h022D, \h083C,
    \h0438, \h0366, \h0368, \h094B, \h0364, \h0936, \h0281, \h0365, \h0815, \h0817, \h0360, \h0811,
    \h0819, \h0835, \h088D>>
Shuffle_20141022 ==
  <<\h08AB, \h093B, \h035F, \h0437, \h0369, \h096A, \h08AD, \h094E, \h087D, \h0878, \h08AA, \h083C,
    \h023B, \h0366, \h0368, \h091A, \h0899, \h0438, \h0281, \h0955, \h0815, \h0817, \h0360, \h0811,
    \h0819, \h0940, \h0896>>
Shuffle_20150107 ==
  <<\h0363, \h0947, \h035F, \h0437, \h0369, \h096A, \h0943, \h07E4, \h0362, \h07EC, \h0364, \h083C,
    \h0438, \h0366, \h0368, \h087C, \h092D, \h0895, \h0281, \h0365, \h0815, \h0817, \h0360, \h0811,
    \h0819, \h0835, \h0802>>
Shuffle_20150114 ==
  <<\h0363, \h083C, \h035F, \h0437, \h0369, \h096A, \h0957, \h07E4, \h0362, \h07EC, \h0364, \h0436,
    \h0438, \h0366, \h0368, \h0868, \h0899, \h0946, \h0281, \h0365, \h0815, \h0817, \h0360, \h0811,
    \h0819, \h0835, \h0802>>
Shuffle_20150128 ==
  <<\h0368, \h0944, \h091F, \h0870, \h0838, \h0874, \h023B, \h08AB, \h0968, \h086D, \h094E, \h093A,
    \h0864, \h0952, \h087D, \h0963, \h0876, \h0929, \h0888, \h089A, \h085A, \h094D, \h035F, \h0875,
    \h0365, \h092D, \h0927>>
Shuffle_20150204 ==
  <<\h0363, \h022D, \h035F, \h0437, \h0369, \h096A, \h0202, \h07E4, \h0362, \h07EC, \h0364, \h083C,
    \h0438, \h0366, \h0368, \h023B, \h0361, \h0966, \h0281, \h0365, \h0815, \h0817, \h0360, \h0811,
    \h0819, \h0835, \h0802>>
Shuffle_20150225 ==
  <<\h0885, \h096A, \h035F, \h0437, \h0369, \h0436, \h0955, \h0817, \h0948, \h089C, \h0952, \h083C,
    \h0438, \h0366, \h0368, \h0946, \h094F, \h08A4, \h0896, \h0867, \h0815, \h0362, \h02C4, \h0811,
    \h0940, \h0819, \h0360>>
Shuffle_20150311 ==
  <<\h092A, \h0815, \h0958, \h0886, \h0896, \h086A, \h0928, \h08A3, \h0963, \h0964, \h092E, \h08A1,
    \h0838, \h091C, \h0943, \h08A6, \h023B, \h086C, \h0883, \h087B, \h095B, \h0360, \h0957, \h0438,
    \h0436, \h0888, \h093B>>
Shuffle_20150325 ==
  <<\h0802, \h094A, \h0954, \h0932, \h08A1, \h0891, \h087E, \h092C, \h0363, \h087C, \h0969, \h0365,
    \h0885, \h08A7, \h085D, \h0940, \h0938, \h0919, \h0950, \h0899, \h086F, \h0947, \h0819, \h0897,
    \h0931, \h0438, \h0202>>
Shuffle_20150401 ==
  <<\h087E, \h0939, \h088F, \h086F, \h0362, \h0367, \h0964, \h0949, \h088C, \h08A5, \h0895, \h094B,
    \h093A, \h091C, \h095F, \h0953, \h0898, \h089C, \h0875, \h0924, \h0922, \h0938, \h0437, \h093B,
    \h083C, \h093E, \h091B>>
Shuffle_20150422 ==
  <<\h0363, \h022D, \h035F, \h0437, \h0369, \h096A, \h0202, \h07E4, \h0362, \h07EC, \h0364, \h083C,
    \h0438, \h0366, \h0368, \h023B, \h0361, \h0955, \h0281, \h0365, \h0815, \h0817, \h0360, \h0811,
    \h0819, \h0835, \h0802>>
Shuffle_20150429 ==
  <<\h08A6, \h086A, \h035F, \h0437, \h0369, \h096A, \h0363, \h0943, \h0894, \h0899, \h0929, \h083C,
    \h0438, \h0366, \h0368, \h093D, \h088F, \h0867, \h089F, \h08AD, \h0815, \h0817, \h0360, \h0811,
    \h0819, \h0835, \h0886>>
Shuffle_20150507 ==
  <<\h0887, \h0924, \h035F, \h0437, \h0369, \h096A, \h093B, \h0817, \h0955, \h085A, \h0941, \h083C,
    \h0438, \h0366, \h0368, \h0958, \h023B, \h0953, \h092E, \h0889, \h0815, \h0362, \h0360, \h0811,
    \h0819, \h0835, \h0864>>
Shuffle_20150513 ==
  <<\h02C4, \h0363, \h035F, \h0437, \h0369, \h096A, \h0924, \h0958, \h0885, \h0879, \h0864, \h083C,
    \h0438, \h0366, \h0368, \h08A8, \h0817, \h0923, \h0960, \h0883, \h0815, \h022D, \h0360, \h0811,
    \h0819, \h0835, \h094A>>
Shuffle_20150527 ==
  <<\h0363, \h022D, \h035F, \h0437, \h0369, \h096A, \h0202, \h07E4, \h0362, \h07EC, \h0364, \h0838,
    \h0438, \h0366, \h0368, \h023B, \h0361, \h083C, \h0281, \h0365, \h0815, \h0817, \h0360, \h0811,
    \h0819, \h0835, \h0802>>
Shuffle_20150617 ==
  <<\h0811, \h0436, \h035F, \h0437, \h0369, \h096A, \h086B, \h0360, \h0940, \h087A, \h0869, \h083C,
    \h0438, \h0366, \h0368, \h094E, \h0886, \h0363, \h0365, \h086A, \h0815, \h0817, \h0362, \h07EC,
    \h0819, \h0835, \h0870>>
Shuffle_20150819 ==
  <<\h0436, \h0927, \h035F, \h0437, \h0369, \h096A, \h0967, \h0281, \h0940, \h0919, \h085D, \h022D,
    \h0438, \h0366, \h0368, \h0865, \h0888, \h091E, \h0202, \h0871, \h0815, \h0817, \h0360, \h0811,
    \h0819, \h0835, \h0961>>
Shuffle_20150826 ==
  <<\h0861, \h0964, \h0951, \h0865, \h07EC, \h093B, \h094F, \h08A4, \h0924, \h08A1, \h0368, \h0891,
    \h086B, \h092E, \h087B, \h088D, \h0945, \h0362, \h0959, \h0436, \h0870, \h0928, \h0819, \h08A8,
    \h0969, \h0890, \h088B>>
Shuffle_20150916 ==
  <<\h0938, \h0969, \h08AC, \h0877, \h0869, \h095A, \h0936, \h089C, \h092F, \h0934, \h085E, \h093E,
    \h022D, \h0873, \h0942, \h089E, \h0960, \h0941, \h0961, \h089B, \h0948, \h092E, \h0835, \h0881,
    \h0920, \h0817, \h0924>>
Shuffle_20151001 ==
  <<\h0363, \h022D, \h035F, \h0437, \h0369, \h096A, \h0202, \h07E4, \h0362, \h07EC, \h0364, \h083C,
    \h0438, \h0190, \h0368, \h023B, \h0361, \h0860, \h0281, \h0802, \h0815, \h0817, \h0360, \h0811,
    \h0819, \h0835, \h0802>>
Shuffle_20151007 ==
  <<\h0363, \h0961, \h035F, \h0437, \h0369, \h096A, \h095F, \h07E4, \h0362, \h07EC, \h0364, \h083C,
    \h0438, \h0366, \h0368, \h0811, \h093F, \h0967, \h0281, \h0365, \h0815, \h0817, \h0360, \h0202,
    \h0819, \h0835, \h0802>>
Shuffle_20151014 ==
  <<\h088E, \h0964, \h0883, \h089F, \h085C, \h0961, \h0863, \h08AA, \h0860, \h095E, \h0881, \h085A,
    \h0874, \h0930, \h0956, \h0817, \h0872, \h091D, \h0884, \h0202, \h0934, \h089B, \h0889, \h0867,
    \h0838, \h094F, \h091C>>
Shuffle_20151022 ==
  <<\h0363, \h023B, \h035F, \h0437, \h0369, \h096A, \h07EC, \h07E4, \h0362, \h0361, \h0364, \h083C,
    \h0438, \h0366, \h0368, \h086A, \h091D, \h02C4, \h0281, \h0365, \h0815, \h0817, \h0360, \h0811,
    \h0819, \h0835, \h0940>>
Shuffle_20151028 ==
  <<\h0363, \h022D, \h035F, \h0437, \h0369, \h096A, \h0202, \h07E4, \h0362, \h07EC, \h0364, \h083C,
    \h0438, \h0366, \h0368, \h023B, \h0361, \h0860, \h0281, \h0365, \h0815, \h0817, \h0360, \h0811,
    \h0819, \h0835, \h0802>>
Shuffle_20151029 ==
  <<\h0363, \h022D, \h035F, \h0437, \h0369, \h096A, \h0202, \h07E4, \h0362, \h07EC, \h0364, \h083C,
    \h0438, \h0366, \h0368, \h023B, \h0361, \h0860, \h0281, \h0365, \h0815, \h0817, \h0360, \h0811,
    \h0819, \h0835, \h0802>>
Shuffle_20151104 ==
  <<\h08A3, \h0360, \h0886, \h0363, \h0369, \h0887, \h0928, \h0964, \h0437, \h088B, \h0364, \h083C,
    \h0438, \h0366, \h0368, \h07EC, \h088D, \h0940, \h093A, \h0811, \h023B, \h0817, \h0436, \h0815,
    \h0819, \h0835, \h08A5>>
Shuffle_20151111 ==
  <<\h0802, \h0967, \h035F, \h0437, \h0885, \h096A, \h089C, \h094A, \h0862, \h0369, \h0966, \h083C,
    \h0438, \h0366, \h0368, \h0871, \h0362, \h0969, \h085D, \h0942, \h02C4, \h0817, \h0360, \h0811,
    \h0819, \h0835, \h0815>>
Shuffle_20151118 ==
  <<\h092F, \h0925, \h022D, \h0437, \h0369, \h096A, \h092E, \h0943, \h093C, \h086B, \h08AB, \h083C,
    \h0438, \h0366, \h0368, \h0921, \h035F, \h088B, \h0946, \h095C, \h0815, \h0817, \h0360, \h0811,
    \h0819, \h0835, \h0365>>
Shuffle_20151125 ==
  <<\h0885, \h088D, \h088C, \h0365, \h089C, \h085E, \h0883, \h0438, \h08A9, \h085F, \h0366, \h092A,
    \h092E, \h0959, \h0920, \h0899, \h0951, \h0884, \h0368, \h0838, \h0802, \h0863, \h0939, \h08AD,
    \h089F, \h0361, \h0956>>
Shuffle_20151202 ==
  <<\h0363, \h022D, \h035F, \h0437, \h0369, \h096A, \h0202, \h07E4, \h0362, \h07EC, \h0364, \h083C,
    \h0438, \h0366, \h0368, \h023B, \h0361, \h0870, \h0281, \h0365, \h0815, \h0817, \h0360, \h0811,
    \h0819, \h0835, \h0802>>
Shuffle_20151209 ==
  <<\h088F, \h0948, \h0811, \h0365, \h0961, \h085D, \h0866, \h07EC, \h0930, \h093B, \h092D, \h088E,
    \h0894, \h0956, \h0369, \h0964, \h08A1, \h085B, \h0932, \h094A, \h085E, \h0819, \h087F, \h0920,
    \h0861, \h0875, \h07E4>>
Shuffle_20151216 ==
  <<\h0364, \h0947, \h085B, \h08A2, \h089D, \h088B, \h022D, \h08A9, \h0966, \h08AC, \h0864, \h0968,
    \h0865, \h0874, \h089E, \h091D, \h0362, \h0885, \h0949, \h0365, \h0870, \h083C, \h0361, \h0954,
    \h0944, \h0960, \h086E>>
Shuffle_20151223 ==
  <<\h0362, \h0866, \h0924, \h0920, \h0881, \h0864, \h0923, \h0364, \h0876, \h02C4, \h0884, \h0875,
    \h086E, \h0898, \h095E, \h091B, \h088D, \h0965, \h0890, \h0872, \h0891, \h095F, \h091A, \h0886,
    \h0815, \h0918, \h08AA>>
Shuffle_20160106 ==
  <<\h086C, \h087F, \h035F, \h0437, \h0369, \h096A, \h0889, \h0861, \h086A, \h0885, \h0891, \h083C,
    \h0438, \h0366, \h0368, \h08A0, \h07EC, \h0878, \h091D, \h087A, \h0815, \h0817, \h0360, \h0811,
    \h0819, \h0835, \h088A>>
Shuffle_20160113 ==
  <<\h0873, \h094D, \h08A0, \h023B, \h089A, \h091B, \h085B, \h08A6, \h0924, \h0932, \h093C, \h0892,
    \h022D, \h0888, \h0930, \h0899, \h086D, \h0815, \h0941, \h035F, \h0967, \h088C, \h0864, \h0893,
    \h08AA, \h0875, \h088B>>
Shuffle_20160120 ==
  <<\h0363, \h022D, \h035F, \h0437, \h0369, \h096A, \h0202, \h07E4, \h0362, \h07EC, \h0364, \h083C,
    \h0438, \h0366, \h0368, \h023B, \h0361, \h0865, \h0281, \h0365, \h0815, \h0817, \h0360, \h0811,
    \h0819, \h0835, \h0802>>
Shuffle_20160127 ==
  <<\h0363, \h022D, \h035F, \h0437, \h0369, \h096A, \h085E, \h07E4, \h0362, \h07EC, \h0364, \h083C,
    \h0438, \h0366, \h0368, \h0961, \h0922, \h095A, \h0281, \h0365, \h0815, \h0817, \h0360, \h0811,
    \h0819, \h0835, \h0802>>
Shuffle_20160203 ==
  <<\h088C, \h0819, \h0437, \h0940, \h0369, \h096A, \h0811, \h095A, \h0947, \h095D, \h0954, \h083C,
    \h0438, \h0366, \h0368, \h0361, \h0872, \h0873, \h0835, \h086C, \h0815, \h0817, \h0360, \h0202,
    \h0436, \h07E4, \h093E>>
Shuffle_20160211 ==
  <<\h0363, \h022D, \h035F, \h0437, \h0369, \h096A, \h086C, \h07E4, \h0362, \h07EC, \h0364, \h083C,
    \h0438, \h0366, \h0368, \h0870, \h0886, \h0365, \h0281, \h023B, \h0815, \h0817, \h0360, \h0811,
    \h0819, \h0835, \h0802>>
Shuffle_20160217 ==
  <<\h0899, \h087A, \h0888, \h091D, \h0920, \h0966, \h0362, \h0941, \h088F, \h0864, \h08A0, \h0926,
    \h094A, \h092E, \h0967, \h0870, \h0873, \h095E, \h093B, \h08AC, \h0969, \h023B, \h088D, \h0202,
    \h093E, \h08AD, \h08A9>>
Shuffle_20160224 ==
  <<\h086B, \h0861, \h035F, \h0888, \h0884, \h096A, \h0929, \h0938, \h0436, \h083C, \h0369, \h0364,
    \h0438, \h0366, \h0368, \h08A9, \h0961, \h0936, \h092F, \h094C, \h0815, \h0817, \h0885, \h0811,
    \h0819, \h0835, \h022D>>
Shuffle_20160302 ==
  <<\h092D, \h0802, \h095A, \h0819, \h0968, \h0945, \h022D, \h0927, \h091A, \h0960, \h08A9, \h0883,
    \h087A, \h092F, \h0967, \h085B, \h0868, \h094E, \h0957, \h0961, \h0864, \h08A6, \h0367, \h0867,
    \h0865, \h0875, \h087D>>
Shuffle_20160309 ==
  <<\h0873, \h087C, \h0956, \h0838, \h094F, \h091D, \h089D, \h096A, \h023B, \h085A, \h0920, \h085F,
    \h0819, \h087E, \h0368, \h0361, \h0932, \h0364, \h089B, \h08A7, \h0922, \h092E, \h0281, \h092A,
    \h086A, \h0866, \h083C>>
Shuffle_20160316 ==
  <<\h0363, \h022D, \h035F, \h0437, \h0369, \h096A, \h0202, \h07E4, \h0362, \h07EC, \h0364, \h083C,
    \h0438, \h0366, \h0368, \h023B, \h0361, \h0922, \h0281, \h0365, \h0815, \h0817, \h0360, \h0811,
    \h0819, \h0835, \h0802>>
Shuffle_20160323 ==
  <<\h0867, \h0878, \h035F, \h0437, \h0369, \h096A, \h0933, \h0869, \h093C, \h0926, \h086A, \h083C,
    \h0438, \h0366, \h0368, \h0365, \h089A, \h0872, \h0896, \h0927, \h0815, \h0817, \h0360, \h0811,
    \h0819, \h0835, \h0883>>
Shuffle_20160330 ==
  <<\h0878, \h0925, \h035F, \h0437, \h0369, \h096A, \h0930, \h086D, \h0939, \h0918, \h087F, \h083C,
    \h0438, \h0889, \h0368, \h093B, \h088B, \h0365, \h092A, \h092C, \h0815, \h0817, \h0360, \h0811,
    \h0819, \h0835, \h0867>>
Shuffle_20160406 ==
  <<\h08AC, \h0895, \h0940, \h095F, \h08A1, \h089B, \h0933, \h0877, \h07E4, \h0927, \h089E, \h0934,
    \h085C, \h0892, \h0364, \h0878, \h095D, \h0953, \h0949, \h085A, \h0879, \h08A9, \h094D, \h0884,
    \h0869, \h0819, \h0898>>
Shuffle_20160414 ==
  <<\h087A, \h0862, \h035F, \h0437, \h0369, \h096A, \h0922, \h0363, \h0931, \h0953, \h0885, \h083C,
    \h0438, \h0366, \h0368, \h0945, \h0934, \h0927, \h0362, \h0880, \h0815, \h0817, \h0360, \h0811,
    \h0819, \h0835, \h089E>>
Shuffle_20160420 ==
  <<\h0870, \h0888, \h02C4, \h0437, \h0369, \h096A, \h0872, \h0864, \h0884, \h0874, \h088B, \h083C,
    \h0438, \h0366, \h0368, \h0935, \h0819, \h08A5, \h094E, \h092F, \h0815, \h0817, \h0360, \h0811,
    \h022D, \h0835, \h035F>>
Shuffle_20160427 ==
  <<\h0363, \h022D, \h035F, \h0437, \h0369, \h096A, \h0202, \h07E4, \h0362, \h07EC, \h0364, \h083C,
    \h0438, \h0366, \h0368, \h023B, \h0361, \h0835, \h0281, \h0365, \h0815, \h0817, \h0360, \h0811,
    \h0940, \h0819, \h0802>>
Shuffle_20160504 ==
  <<\h0365, \h0940, \h0918, \h0924, \h085F, \h0922, \h08AD, \h088A, \h0890, \h0886, \h0941, \h088D,
    \h0884, \h0921, \h089D, \h0952, \h0202, \h0969, \h088F, \h0893, \h0363, \h087F, \h095B, \h086B,
    \h093E, \h083C, \h0887>>
Shuffle_20160511 ==
  <<\h0363, \h0920, \h035F, \h0437, \h0369, \h096A, \h085E, \h07E4, \h0362, \h07EC, \h0364, \h083C,
    \h0438, \h0366, \h0368, \h0894, \h0918, \h0940, \h0281, \h0365, \h0815, \h0817, \h0360, \h0811,
    \h0819, \h0835, \h0802>>
Shuffle_20160518 ==
  <<\h0363, \h0874, \h035F, \h0437, \h0369, \h096A, \h086C, \h07E4, \h0362, \h07EC, \h0364, \h083C,
    \h0438, \h0366, \h0368, \h08A9, \h0928, \h089A, \h0281, \h0365, \h0815, \h0817, \h0360, \h0811,
    \h0819, \h0835, \h0802>>
Shuffle_20160525 ==
  <<\h085A, \h086A, \h035F, \h0437, \h0369, \h096A, \h089C, \h0899, \h085E, \h094A, \h0956, \h083C,
    \h0438, \h0366, \h0368, \h0951, \h0867, \h091D, \h0937, \h092C, \h0815, \h0817, \h0360, \h0811,
    \h0819, \h0835, \h0945>>
Shuffle_20160601 ==
  <<\h08A7, \h08AC, \h035F, \h0437, \h0369, \h096A, \h095B, \h0863, \h088D, \h088F, \h0870, \h083C,
    \h0438, \h0366, \h0368, \h0817, \h0895, \h095F, \h087D, \h0961, \h0815, \h0202, \h0360, \h0811,
    \h0819, \h0835, \h02C4>>
Shuffle_20160608 ==
  <<\h085C, \h0437, \h0802, \h0436, \h0369, \h096A, \h07EC, \h0899, \h094D, \h095B, \h08A6, \h083C,
    \h0438, \h0885, \h0368, \h0969, \h089B, \h0958, \h022D, \h02C4, \h0815, \h0817, \h0360, \h0889,
    \h0819, \h0835, \h035F>>
Shuffle_20160615 ==
  <<\h0870, \h0363, \h088A, \h0866, \h0948, \h083C, \h0954, \h087E, \h0898, \h0957, \h0958, \h0888,
    \h0891, \h087F, \h087D, \h0281, \h0369, \h0364, \h088D, \h095C, \h095E, \h0947, \h094A, \h0887,
    \h094B, \h092F, \h093E>>
Shuffle_20160622 ==
  <<\h0865, \h0936, \h092D, \h0437, \h089E, \h0959, \h0965, \h091C, \h0969, \h093B, \h035F, \h092F,
    \h023B, \h0366, \h08A2, \h0890, \h07E4, \h08A8, \h0946, \h089A, \h093F, \h0887, \h0891, \h0861,
    \h0880, \h0892, \h0361>>
Shuffle_20160629 ==
  <<\h035F, \h0881, \h0893, \h022D, \h095A, \h088E, \h0948, \h0969, \h0861, \h096A, \h0922, \h0925,
    \h0968, \h085C, \h0863, \h094A, \h0885, \h0867, \h0368, \h091E, \h0946, \h0957, \h0363, \h093E,
    \h0860, \h086B, \h0926>>
Shuffle_20160706 ==
  <<\h0886, \h08A5, \h08A8, \h092D, \h0860, \h0945, \h0926, \h0958, \h093D, \h0939, \h0929, \h0899,
    \h0924, \h0918, \h0362, \h0884, \h0892, \h094C, \h091B, \h08A4, \h086B, \h0952, \h0436, \h0869,
    \h0889, \h0927, \h085F>>
Shuffle_20160713 ==
  <<\h089F, \h08A4, \h087B, \h091C, \h0945, \h092C, \h0363, \h0838, \h0957, \h0947, \h08A2, \h0931,
    \h0877, \h0921, \h091D, \h0939, \h0922, \h022D, \h0364, \h088D, \h0869, \h0944, \h0860, \h0865,
    \h0883, \h0875, \h089A>>
Shuffle_20160720 ==
  <<\h0917, \h07E4, \h0946, \h0838, \h0365, \h0887, \h093B, \h091C, \h087F, \h0960, \h089E, \h0363,
    \h0883, \h0362, \h094D, \h092A, \h089C, \h089A, \h08AA, \h095B, \h093E, \h085B, \h086D, \h0819,
    \h0897, \h086A, \h0969>>
Shuffle_20160727 ==
  <<\h023B, \h0887, \h0438, \h092E, \h0883, \h0946, \h0202, \h08A7, \h07EC, \h0951, \h0949, \h088E,
    \h089F, \h0436, \h08A4, \h0363, \h0936, \h08A2, \h0969, \h0877, \h095F, \h0966, \h0874, \h0891,
    \h0362, \h0941, \h0868>>
Shuffle_20160803 ==
  <<\h0878, \h0364, \h093E, \h087F, \h0934, \h0887, \h0891, \h091B, \h089C, \h0886, \h0955, \h0932,
    \h0937, \h0888, \h0959, \h0895, \h0952, \h0929, \h0956, \h0881, \h08A1, \h088B, \h085D, \h096A,
    \h093F, \h089E, \h095A>>
Shuffle_20160810 ==
  <<\h0926, \h0885, \h0943, \h087A, \h095B, \h091B, \h089D, \h091A, \h085E, \h08A9, \h092D, \h091C,
    \h0819, \h0935, \h0860, \h0888, \h0875, \h0361, \h089F, \h085F, \h086F, \h0959, \h0879, \h092B,
    \h0890, \h094B, \h0838>>
Shuffle_20160831 ==
  <<\h0876, \h0835, \h08A9, \h0865, \h0878, \h087C, \h094A, \h0960, \h0366, \h094F, \h095E, \h0967,
    \h0964, \h022D, \h0946, \h092C, \h093A, \h0917, \h0954, \h0870, \h0950, \h086D, \h07EC, \h08A8,
    \h0957, \h0938, \h0874>>
Shuffle_20160907 ==
  <<\h0363, \h022D, \h035F, \h0437, \h0369, \h096A, \h0202, \h07E4, \h0362, \h07EC, \h0364, \h083C,
    \h0438, \h0366, \h0368, \h023B, \h0361, \h091C, \h0281, \h0365, \h0815, \h0817, \h0360, \h0811,
    \h0819, \h0835, \h0802>>
Shuffle_20160913 ==
  <<\h087A, \h0952, \h0875, \h0954, \h0950, \h0865, \h08A5, \h0889, \h0879, \h0817, \h089B, \h088E,
    \h0892, \h094A, \h0963, \h0928, \h093A, \h089C, \h0887, \h0361, \h0935, \h0968, \h0874, \h088F,
    \h0891, \h087B, \h0949>>
Shuffle_20160921 ==
  <<\h0363, \h022D, \h035F, \h0437, \h0369, \h096A, \h0202, \h07E4, \h0362, \h07EC, \h0364, \h083C,
    \h0438, \h0366, \h0368, \h023B, \h0361, \h094A, \h0281, \h0365, \h0815, \h0817, \h0360, \h0811,
    \h0819, \h0835, \h0802>>
Shuffle_20160928 ==
  <<\h0811, \h0889, \h091E, \h0919, \h089A, \h035F, \h0944, \h0957, \h086D, \h08A9, \h0864, \h0927,
    \h092D, \h0897, \h0878, \h094E, \h0872, \h08A2, \h0202, \h0955, \h0366, \h094D, \h0436, \h0953,
    \h088E, \h0866, \h0838>>
Shuffle_20161005 ==
  <<\h091E, \h095B, \h092B, \h0945, \h0368, \h0863, \h0891, \h089C, \h0942, \h08A0, \h088E, \h0967,
    \h093B, \h0202, \h0919, \h0931, \h094D, \h0838, \h0886, \h0892, \h094A, \h08AC, \h095A, \h08AD,
    \h0944, \h0918, \h089B>>
Shuffle_20161012 ==
  <<\h085B, \h086D, \h0365, \h0966, \h0863, \h0936, \h08A0, \h0868, \h0362, \h0893, \h0944, \h0962,
    \h0880, \h0951, \h092D, \h0819, \h095C, \h0967, \h0364, \h0943, \h07EC, \h085E, \h0937, \h0939,
    \h0875, \h023B, \h0369>>
Shuffle_20161019 ==
  <<\h0363, \h0946, \h035F, \h0361, \h0369, \h096A, \h0437, \h07E4, \h0362, \h07EC, \h0364, \h083C,
    \h0438, \h0366, \h0368, \h0963, \h0360, \h0889, \h0281, \h0365, \h0815, \h0817, \h022D, \h0811,
    \h0819, \h0835, \h0802>>
Shuffle_20161026 ==
  <<\h086E, \h091A, \h0862, \h0438, \h085F, \h0930, \h0962, \h091B, \h0886, \h085A, \h094B, \h0894,
    \h087F, \h095E, \h0926, \h0898, \h092E, \h0363, \h095C, \h0802, \h092C, \h092F, \h0891, \h0861,
    \h087A, \h086A, \h0953>>
Shuffle_20161102 ==
  <<\h0367, \h0946, \h0966, \h08AA, \h0436, \h092F, \h0949, \h0802, \h0890, \h0869, \h0361, \h085F,
    \h0965, \h0886, \h0925, \h0928, \h088F, \h091B, \h0964, \h083C, \h0838, \h0936, \h0922, \h08A2,
    \h0874, \h086C, \h089F>>
Shuffle_20161109 ==
  <<\h087A, \h0870, \h0365, \h0865, \h086A, \h093F, \h0956, \h0898, \h089A, \h0881, \h0362, \h0954,
    \h086D, \h085E, \h0835, \h0937, \h08A7, \h093C, \h088E, \h02C4, \h089D, \h085D, \h0876, \h08AD,
    \h0366, \h0361, \h0927>>
Shuffle_20161116 ==
  <<\h095D, \h088F, \h0368, \h0890, \h0893, \h094A, \h08A1, \h086F, \h085F, \h0369, \h08AC, \h092A,
    \h0925, \h0920, \h0957, \h0835, \h088B, \h095B, \h0892, \h08A2, \h0931, \h0952, \h088D, \h093C,
    \h0885, \h095F, \h0864>>
Shuffle_20161123 ==
  <<\h0871, \h0926, \h0437, \h0861, \h095B, \h088B, \h089C, \h092F, \h086F, \h091A, \h0962, \h094D,
    \h08A9, \h085C, \h096A, \h0941, \h0930, \h0880, \h0281, \h035F, \h094F, \h0862, \h092A, \h0882,
    \h0362, \h0866, \h087F>>
Shuffle_20161130 ==
  <<\h0363, \h0943, \h0361, \h0437, \h0369, \h096A, \h035F, \h07E4, \h0362, \h07EC, \h0364, \h083C,
    \h0438, \h0366, \h0368, \h0959, \h0931, \h0954, \h0281, \h0365, \h0815, \h0817, \h0360, \h0811,
    \h0819, \h0835, \h0802>>
Shuffle_20161207 ==
  <<\h0868, \h0361, \h035F, \h0437, \h0886, \h096A, \h08A1, \h08A2, \h08AD, \h0875, \h091D, \h083C,
    \h0438, \h0366, \h0368, \h0867, \h023B, \h095D, \h087E, \h0918, \h0815, \h0817, \h0360, \h0811,
    \h0819, \h0835, \h0965>>
Shuffle_20161214 ==
  <<\h0819, \h0369, \h035F, \h0437, \h0436, \h096A, \h093D, \h092E, \h0887, \h0364, \h02C4, \h083C,
    \h0438, \h0366, \h0368, \h0862, \h0360, \h0899, \h085A, \h08A6, \h0815, \h0817, \h022D, \h0811,
    \h0281, \h0835, \h086D>>
Shuffle_20161221 ==
  <<\h0884, \h0964, \h08AA, \h0438, \h089B, \h0881, \h0965, \h035F, \h0362, \h0817, \h089A, \h0943,
    \h0946, \h085B, \h0366, \h0928, \h0930, \h0890, \h0885, \h092E, \h094B, \h092C, \h095A, \h088C,
    \h0866, \h091E, \h0926>>
Shuffle_20161228 ==
  <<\h0935, \h086D, \h0944, \h0886, \h093D, \h085A, \h0871, \h086C, \h0893, \h089F, \h08AB, \h08A2,
    \h0929, \h0865, \h08AC, \h091C, \h085E, \h08AD, \h0889, \h08A5, \h086A, \h0875, \h08A3, \h0362,
    \h0870, \h092C, \h0934>>
Shuffle_20170104 ==
  <<\h0363, \h0438, \h035F, \h0437, \h0369, \h096A, \h0896, \h07E4, \h0362, \h07EC, \h0364, \h0940,
    \h083C, \h0366, \h0368, \h085A, \h091B, \h087F, \h0281, \h0365, \h0815, \h0817, \h0360, \h0811,
    \h0819, \h0835, \h0802>>
Shuffle_20170111 ==
  <<\h0436, \h091B, \h035F, \h0437, \h0369, \h096A, \h08A1, \h08A3, \h0940, \h088A, \h094C, \h083C,
    \h0438, \h0366, \h0368, \h0877, \h085D, \h091A, \h0961, \h08A6, \h0815, \h0817, \h0360, \h0811,
    \h0819, \h0835, \h0969>>
Shuffle_20170118 ==
  <<\h0873, \h0438, \h035F, \h0437, \h0369, \h0364, \h0865, \h086F, \h0933, \h096A, \h0862, \h083C,
    \h022D, \h0366, \h0368, \h0962, \h0436, \h0958, \h08AD, \h091F, \h0815, \h0817, \h0360, \h0811,
    \h0819, \h0835, \h089E>>
Shuffle_20170125 ==
  <<\h0884, \h0811, \h0943, \h0930, \h0438, \h0965, \h0881, \h087B, \h0877, \h091C, \h095C, \h0879,
    \h092B, \h089B, \h0898, \h0920, \h0876, \h0893, \h0895, \h0944, \h08A5, \h091D, \h091B, \h087D,
    \h093C, \h0968, \h086E>>
Shuffle_20170201 ==
  <<\h0879, \h094C, \h035F, \h0884, \h0369, \h096A, \h085E, \h0875, \h088B, \h0881, \h0966, \h083C,
    \h0438, \h0885, \h0368, \h0919, \h0938, \h0886, \h0969, \h085D, \h0940, \h0817, \h0360, \h0815,
    \h0819, \h0835, \h0920>>
Shuffle_20170208 ==
  <<\h02C4, \h088C, \h035F, \h0437, \h0369, \h096A, \h0860, \h0923, \h0921, \h08AC, \h0932, \h083C,
    \h0438, \h0366, \h0368, \h0892, \h092D, \h0937, \h0367, \h08A1, \h0815, \h0817, \h0360, \h0811,
    \h0819, \h0835, \h085C>>
Shuffle_20170215 ==
  <<\h0884, \h0811, \h0360, \h0969, \h083C, \h094E, \h087D, \h0942, \h085C, \h089B, \h0925, \h087E,
    \h0890, \h088A, \h0883, \h0876, \h0962, \h02C4, \h087C, \h08A8, \h088C, \h091C, \h095F, \h035F,
    \h092B, \h092D, \h088B>>
Shuffle_20170222 ==
  <<\h0871, \h0939, \h035F, \h0437, \h0369, \h096A, \h08A3, \h0894, \h0866, \h095D, \h0962, \h083C,
    \h0438, \h0366, \h0368, \h085F, \h0202, \h0943, \h0937, \h0870, \h0815, \h0817, \h0360, \h0811,
    \h0889, \h0835, \h08A8>>
Shuffle_20170228 ==
  <<\h08A6, \h086B, \h0937, \h0884, \h0360, \h0893, \h0889, \h092A, \h022D, \h089E, \h0944, \h091F,
    \h0952, \h085E, \h0947, \h08A0, \h0362, \h08A2, \h0873, \h0955, \h0874, \h0876, \h08A7, \h092E,
    \h0863, \h0883, \h0948>>
Shuffle_20170308 ==
  <<\h0363, \h022D, \h035F, \h0437, \h0369, \h096A, \h0202, \h07E4, \h0362, \h07EC, \h0364, \h083C,
    \h0438, \h0366, \h0368, \h023B, \h0361, \h087D, \h0281, \h0365, \h0815, \h0817, \h0360, \h0811,
    \h0819, \h0835, \h0802>>
Shuffle_20170315 ==
  <<\h085C, \h094E, \h07EC, \h088F, \h0884, \h0944, \h0360, \h0366, \h091A, \h08AA, \h086A, \h0892,
    \h02C4, \h0367, \h0920, \h0872, \h0863, \h0952, \h0922, \h088B, \h091B, \h089C, \h094A, \h0436,
    \h035F, \h0950, \h087B>>
Shuffle_20170322 ==
  <<\h0363, \h022D, \h035F, \h0437, \h0369, \h096A, \h0202, \h07E4, \h0362, \h07EC, \h0364, \h083C,
    \h0438, \h0366, \h0368, \h023B, \h0361, \h091A, \h0281, \h0365, \h0815, \h0817, \h0360, \h0811,
    \h0819, \h0835, \h0802>>
Shuffle_20170329 ==
  <<\h0917, \h092E, \h035F, \h0437, \h0369, \h096A, \h0926, \h0929, \h08A8, \h0363, \h0949, \h083C,
    \h0438, \h0366, \h0368, \h0939, \h0362, \h085D, \h0937, \h087A, \h0815, \h0817, \h0360, \h0811,
    \h0888, \h0835, \h0281>>
Shuffle_20170405 ==
  <<\h0363, \h08A5, \h035F, \h0437, \h0362, \h096A, \h0865, \h0369, \h0964, \h085F, \h0893, \h083C,
    \h0438, \h0366, \h0368, \h086F, \h0835, \h094C, \h0860, \h0281, \h0815, \h0817, \h0360, \h0811,
    \h0819, \h022D, \h0864>>
Shuffle_20170412 ==
  <<\h0879, \h091E, \h0929, \h0878, \h08A1, \h095B, \h091A, \h0959, \h089C, \h0945, \h086D, \h087B,
    \h023B, \h0938, \h0898, \h0942, \h089A, \h095D, \h0890, \h0869, \h0893, \h0952, \h0365, \h0863,
    \h088B, \h0949, \h094F>>
Shuffle_20170419 ==
  <<\h0872, \h0922, \h0898, \h085E, \h085A, \h0838, \h0811, \h095C, \h0897, \h08AA, \h0930, \h0920,
    \h093F, \h0935, \h091B, \h093A, \h088F, \h0881, \h088D, \h086A, \h089D, \h0931, \h0965, \h095D,
    \h0868, \h0942, \h0862>>
Shuffle_20170426 ==
  <<\h086F, \h08A2, \h035F, \h0437, \h0369, \h096A, \h0927, \h08A4, \h0940, \h0963, \h0899, \h083C,
    \h0438, \h0366, \h0887, \h0958, \h089C, \h0281, \h0866, \h087A, \h0815, \h0817, \h0360, \h0811,
    \h0819, \h0835, \h0802>>
Shuffle_20170502 ==
  <<\h0363, \h089C, \h035F, \h0437, \h0369, \h096A, \h0894, \h07E4, \h0362, \h07EC, \h0364, \h083C,
    \h0438, \h0366, \h0368, \h093C, \h0950, \h0875, \h0281, \h0365, \h0815, \h0817, \h0360, \h0811,
    \h0819, \h0835, \h0802>>
Shuffle_20170517 ==
  <<\h0364, \h0923, \h08A2, \h08A8, \h0437, \h0894, \h088D, \h0964, \h093B, \h08AA, \h088C, \h0815,
    \h0817, \h0868, \h087B, \h0960, \h0958, \h0947, \h0945, \h0802, \h0367, \h089F, \h0946, \h091B,
    \h087D, \h0875, \h0899>>
Shuffle_20170524 ==
  <<\h091E, \h0873, \h0860, \h089C, \h085E, \h095A, \h0934, \h0864, \h0802, \h0868, \h0894, \h088D,
    \h0946, \h0925, \h0968, \h0967, \h086D, \h0368, \h0923, \h095B, \h087D, \h0964, \h085F, \h0882,
    \h0866, \h0874, \h0364>>
Shuffle_20170531 ==
  <<\h085B, \h0894, \h0819, \h07E4, \h087B, \h092D, \h0361, \h0963, \h088D, \h08AD, \h0933, \h0369,
    \h0875, \h08AC, \h085F, \h0861, \h089C, \h089A, \h0885, \h0940, \h088B, \h0873, \h0945, \h07EC,
    \h0968, \h08A2, \h0878>>
Shuffle_20170607 ==
  <<\h0873, \h0871, \h07E4, \h0934, \h0938, \h0862, \h085A, \h0897, \h0864, \h089D, \h088A, \h08A9,
    \h0927, \h08AB, \h0944, \h0885, \h0942, \h0364, \h0361, \h0918, \h0949, \h093D, \h0863, \h0919,
    \h085E, \h0917, \h0925>>
Shuffle_20170614 ==
  <<\h0865, \h0944, \h0866, \h0361, \h083C, \h0936, \h087E, \h08AD, \h0367, \h0879, \h023B, \h091B,
    \h0838, \h0889, \h087D, \h0867, \h0364, \h0437, \h089D, \h0877, \h08A2, \h086B, \h0860, \h092F,
    \h086C, \h0928, \h0899>>
Shuffle_20170621 ==
  <<\h0956, \h0961, \h035F, \h0437, \h0369, \h096A, \h085D, \h0361, \h087D, \h095C, \h0889, \h083C,
    \h0438, \h0802, \h0368, \h07E4, \h08A8, \h0957, \h0365, \h0366, \h0815, \h0817, \h0360, \h0811,
    \h0819, \h0835, \h0885>>
Shuffle_20170628 ==
  <<\h0363, \h022D, \h035F, \h0437, \h0369, \h096A, \h0202, \h07E4, \h0362, \h07EC, \h0364, \h083C,
    \h0438, \h0366, \h0368, \h023B, \h0361, \h0863, \h0281, \h0365, \h0815, \h0817, \h0360, \h0811,
    \h0819, \h0835, \h0802>>
Shuffle_20170705 ==
  <<\h088D, \h089A, \h035F, \h0437, \h0369, \h096A, \h091A, \h0932, \h089D, \h0879, \h0934, \h083C,
    \h0438, \h0366, \h0368, \h0886, \h094C, \h0202, \h0930, \h02C4, \h0815, \h0817, \h0360, \h0811,
    \h0819, \h0835, \h088E>>
Shuffle_20170712 ==
  <<\h0363, \h022D, \h035F, \h0437, \h0369, \h096A, \h0202, \h07E4, \h0362, \h07EC, \h0364, \h083C,
    \h0438, \h0366, \h0368, \h023B, \h0361, \h0944, \h0281, \h0365, \h0815, \h0817, \h0360, \h0811,
    \h0819, \h0835, \h0802>>
Shuffle_20170719 ==
  <<\h0368, \h08A8, \h085A, \h093D, \h022D, \h07E4, \h0944, \h087D, \h091B, \h0966, \h08A6, \h0898,
    \h0891, \h0881, \h091F, \h0946, \h0369, \h089A, \h0885, \h092F, \h085E, \h0367, \h0863, \h092C,
    \h089D, \h092E, \h086E>>
Shuffle_20170726 ==
  <<\h0881, \h0366, \h08AC, \h088E, \h0878, \h08AA, \h0952, \h08AB, \h0943, \h0364, \h094F, \h0369,
    \h0950, \h095A, \h0921, \h091D, \h091F, \h08A7, \h0874, \h0954, \h0363, \h0838, \h0873, \h0923,
    \h0963, \h0888, \h0438>>
Shuffle_20170801 ==
  <<\h0363, \h095A, \h035F, \h0437, \h0369, \h096A, \h0281, \h07E4, \h022D, \h07EC, \h0364, \h083C,
    \h0438, \h0366, \h0368, \h094F, \h0362, \h087D, \h0361, \h0365, \h0815, \h0817, \h0360, \h0811,
    \h0819, \h0835, \h0802>>
Shuffle_20170816 ==
  <<\h0884, \h093D, \h0889, \h08A9, \h0438, \h022D, \h0950, \h087E, \h0941, \h0959, \h0925, \h0940,
    \h0862, \h0362, \h085A, \h08A3, \h08AC, \h0882, \h0361, \h0888, \h092C, \h0864, \h0921, \h0881,
    \h0960, \h035F, \h093A>>
Shuffle_20170823 ==
  <<\h0363, \h086C, \h035F, \h0437, \h0369, \h096A, \h0802, \h07E4, \h0362, \h07EC, \h0364, \h083C,
    \h0438, \h0366, \h0368, \h08AC, \h095B, \h086D, \h0281, \h0365, \h0815, \h0817, \h0360, \h0811,
    \h0819, \h0835, \h0361>>
Shuffle_20170830 ==
  <<\h0364, \h0884, \h091E, \h0865, \h093E, \h092E, \h0281, \h02C4, \h0899, \h089E, \h08A8, \h0888,
    \h0959, \h0885, \h0940, \h0939, \h0921, \h08A2, \h089A, \h0363, \h0897, \h0860, \h0925, \h0947,
    \h0943, \h0951, \h086A>>
Shuffle_20170906 ==
  <<\h0202, \h0953, \h035F, \h0437, \h0369, \h096A, \h0802, \h091A, \h0860, \h087B, \h08A2, \h083C,
    \h0438, \h02C4, \h0368, \h08A3, \h091E, \h0281, \h0866, \h08A7, \h0815, \h0817, \h0360, \h0811,
    \h0819, \h0835, \h0366>>
Shuffle_20170913 ==
  <<\h08A7, \h0835, \h091B, \h0923, \h0817, \h0281, \h08AC, \h0860, \h091D, \h0891, \h07E4, \h08AA,
    \h095A, \h0890, \h095C, \h035F, \h088C, \h0892, \h08AD, \h08AB, \h0866, \h085A, \h08A6, \h0927,
    \h0437, \h0920, \h0865>>
Shuffle_20170920 ==
  <<\h0875, \h0923, \h088E, \h085A, \h089B, \h0889, \h0939, \h0369, \h086C, \h0926, \h07EC, \h0862,
    \h0919, \h0966, \h0921, \h0861, \h095D, \h0864, \h0436, \h0945, \h0865, \h0874, \h0961, \h092E,
    \h094C, \h096A, \h086A>>
Shuffle_20170927 ==
  <<\h0361, \h0366, \h0945, \h0927, \h0899, \h035F, \h087E, \h094D, \h0923, \h0959, \h089B, \h085C,
    \h095A, \h093B, \h0873, \h094B, \h02C4, \h089A, \h08A5, \h0942, \h0362, \h08A3, \h091E, \h087D,
    \h08AD, \h088B, \h0922>>
Shuffle_20171002 ==
  <<\h093E, \h089D, \h035F, \h0437, \h0369, \h096A, \h0897, \h093D, \h022D, \h0885, \h093B, \h083C,
    \h0363, \h0366, \h0368, \h0899, \h0438, \h0934, \h0928, \h092D, \h0815, \h0817, \h0360, \h0811,
    \h0819, \h0835, \h0943>>
Shuffle_20171011 ==
  <<\h0363, \h0950, \h035F, \h023B, \h0369, \h096A, \h0954, \h07E4, \h0362, \h07EC, \h0364, \h083C,
    \h0438, \h0366, \h0368, \h087B, \h0882, \h0437, \h0281, \h0365, \h0815, \h0817, \h0360, \h0811,
    \h0819, \h0835, \h0802>>
Shuffle_20171018 ==
  <<\h086A, \h0363, \h035F, \h0437, \h0369, \h096A, \h08A6, \h0436, \h089A, \h0364, \h0889, \h083C,
    \h0438, \h0366, \h0368, \h094A, \h087E, \h0944, \h0938, \h094F, \h0815, \h0817, \h0360, \h0811,
    \h0819, \h0835, \h089F>>
Shuffle_20171025 ==
  <<\h0363, \h022D, \h035F, \h0437, \h0369, \h096A, \h0202, \h07E4, \h0362, \h07EC, \h0364, \h083C,
    \h0438, \h0366, \h0368, \h023B, \h0361, \h08A2, \h0281, \h0365, \h0815, \h0817, \h0360, \h0811,
    \h0819, \h0835, \h0802>>
Shuffle_20171101 ==
  <<\h0886, \h0368, \h0438, \h0939, \h0957, \h0860, \h0876, \h0962, \h0835, \h091B, \h08A0, \h086C,
    \h0966, \h0952, \h094D, \h0872, \h085B, \h022D, \h08AB, \h089C, \h089B, \h094A, \h088E, \h095A,
    \h0369, \h0890, \h0899>>
Shuffle_20171108 ==
  <<\h0896, \h0949, \h0202, \h0863, \h0963, \h08AD, \h091F, \h0945, \h0965, \h0941, \h095A, \h08A2,
    \h0967, \h0819, \h07E4, \h0878, \h08A9, \h0815, \h0884, \h0958, \h0838, \h091D, \h0940, \h087E,
    \h0897, \h0361, \h094E>>
Shuffle_20171115 ==
  <<\h086D, \h0360, \h035F, \h0437, \h0369, \h096A, \h08A4, \h0926, \h0365, \h088B, \h087E, \h083C,
    \h0438, \h0366, \h0368, \h0802, \h0958, \h0898, \h086F, \h0890, \h0815, \h0817, \h0436, \h0811,
    \h0819, \h0835, \h095A>>
Shuffle_20171122 ==
  <<\h035F, \h0867, \h0890, \h0947, \h089E, \h085B, \h0897, \h0891, \h0898, \h0838, \h089A, \h093B,
    \h08A6, \h091E, \h0281, \h0946, \h083C, \h0934, \h0862, \h0923, \h0968, \h0920, \h08A9, \h0877,
    \h02C4, \h0945, \h0962>>
Shuffle_20171129 ==
  <<\h0876, \h0966, \h0940, \h0437, \h0369, \h096A, \h02C4, \h0862, \h0365, \h08A5, \h0953, \h083C,
    \h0438, \h0366, \h0368, \h0363, \h089C, \h0878, \h088A, \h086D, \h0815, \h0817, \h035F, \h0811,
    \h0819, \h0835, \h0838>>
Shuffle_20171206 ==
  <<\h086A, \h0897, \h0885, \h0437, \h0369, \h096A, \h0936, \h0961, \h0867, \h0923, \h08A4, \h083C,
    \h0438, \h0366, \h0368, \h091D, \h0942, \h089D, \h0958, \h086E, \h0815, \h0817, \h0360, \h0811,
    \h0819, \h0888, \h08A2>>
Shuffle_20171213 ==
  <<\h0363, \h0860, \h035F, \h0437, \h0369, \h096A, \h091A, \h07E4, \h0362, \h07EC, \h0364, \h083C,
    \h0438, \h0366, \h0368, \h0802, \h0957, \h0890, \h0281, \h0365, \h0815, \h0817, \h0360, \h0811,
    \h0819, \h0835, \h0202>>
Shuffle_20171220 ==
  <<\h0946, \h0281, \h0882, \h089E, \h093E, \h0873, \h0933, \h091B, \h0929, \h0924, \h0366, \h0872,
    \h088C, \h0960, \h091E, \h0957, \h0951, \h0899, \h0885, \h0437, \h085E, \h08A7, \h0941, \h0861,
    \h0369, \h0436, \h0964>>
Shuffle_20171227 ==
  <<\h088A, \h092C, \h035F, \h0437, \h0361, \h0802, \h0369, \h088D, \h0969, \h08A0, \h0888, \h083C,
    \h0438, \h0366, \h0368, \h0946, \h08A5, \h087D, \h0945, \h096A, \h0815, \h0817, \h0360, \h0811,
    \h0819, \h0835, \h0938>>
Shuffle_20180103 ==
  <<\h0865, \h0811, \h0876, \h0941, \h091D, \h08AB, \h08A9, \h0935, \h095F, \h02C4, \h092C, \h0938,
    \h095D, \h0960, \h089F, \h0899, \h0948, \h0946, \h08AC, \h0927, \h094E, \h088E, \h0872, \h0879,
    \h086B, \h0922, \h0363>>
Shuffle_20180117 ==
  <<\h0363, \h022D, \h035F, \h0437, \h0369, \h096A, \h0202, \h07E4, \h0362, \h07EC, \h0364, \h083C,
    \h0438, \h0366, \h0368, \h023B, \h0361, \h0875, \h0281, \h0365, \h0815, \h0817, \h0360, \h0811,
    \h0819, \h0835, \h0802>>
Shuffle_20180124 ==
  <<\h0868, \h0888, \h035F, \h0437, \h0369, \h096A, \h0958, \h094D, \h0802, \h0436, \h0890, \h083C,
    \h0438, \h0366, \h0368, \h0919, \h0961, \h085F, \h0946, \h086A, \h0815, \h0817, \h0360, \h0811,
    \h0940, \h0819, \h087A>>
Shuffle_20180207 ==
  <<\h0360, \h0870, \h0940, \h0437, \h0369, \h096A, \h092E, \h07E4, \h0362, \h07EC, \h0364, \h083C,
    \h0438, \h0366, \h0368, \h0881, \h092C, \h0950, \h0281, \h0365, \h0815, \h0817, \h035F, \h0811,
    \h0819, \h0835, \h0802>>
Shuffle_20180213 ==
  <<\h089C, \h08A3, \h0874, \h0922, \h0933, \h093C, \h0878, \h0892, \h0802, \h0955, \h0875, \h0882,
    \h0924, \h0817, \h08AD, \h0917, \h0962, \h0369, \h095A, \h0943, \h08A5, \h08A9, \h087B, \h0898,
    \h088C, \h0936, \h086F>>
Shuffle_20180221 ==
  <<\h0366, \h0897, \h089D, \h087D, \h096A, \h0957, \h0838, \h094E, \h0871, \h0879, \h091E, \h094B,
    \h094D, \h0202, \h088F, \h0436, \h0876, \h0917, \h0880, \h0881, \h086F, \h0929, \h086C, \h0883,
    \h0867, \h0899, \h093D>>
Shuffle_20180307 ==
  <<\h0951, \h07E4, \h086C, \h0877, \h0969, \h0941, \h08AB, \h0954, \h0437, \h0920, \h088D, \h0893,
    \h0917, \h0861, \h0957, \h08AA, \h0944, \h0939, \h0870, \h0872, \h035F, \h093D, \h0862, \h0937,
    \h0864, \h08A6, \h0948>>

\* The switch on packetver: the exact versions that have a block, and its row.
ShuffleRows ==
  <<<<20130515, Shuffle_20130515>>, <<20130522, Shuffle_20130522>>, <<20130529, Shuffle_20130529>>,
    <<20130605, Shuffle_20130605>>, <<20130612, Shuffle_20130612>>, <<20130618, Shuffle_20130618>>,
    <<20130626, Shuffle_20130626>>, <<20130703, Shuffle_20130703>>, <<20130710, Shuffle_20130710>>,
    <<20130717, Shuffle_20130717>>, <<20130807, Shuffle_20130807>>, <<20131223, Shuffle_20131223>>,
    <<20141016, Shuffle_20141016>>, <<20141022, Shuffle_20141022>>, <<20150107, Shuffle_20150107>>,
    <<20150114, Shuffle_20150114>>, <<20150128, Shuffle_20150128>>, <<20150204, Shuffle_20150204>>,
    <<20150225, Shuffle_20150225>>, <<20150311, Shuffle_20150311>>, <<20150325, Shuffle_20150325>>,
    <<20150401, Shuffle_20150401>>, <<20150422, Shuffle_20150422>>, <<20150429, Shuffle_20150429>>,
    <<20150507, Shuffle_20150507>>, <<20150513, Shuffle_20150513>>, <<20150527, Shuffle_20150527>>,
    <<20150617, Shuffle_20150617>>, <<20150819, Shuffle_20150819>>, <<20150826, Shuffle_20150826>>,
    <<20150916, Shuffle_20150916>>, <<20151001, Shuffle_20151001>>, <<20151007, Shuffle_20151007>>,
    <<20151014, Shuffle_20151014>>, <<20151022, Shuffle_20151022>>, <<20151028, Shuffle_20151028>>,
    <<20151029, Shuffle_20151029>>, <<20151104, Shuffle_20151104>>, <<20151111, Shuffle_20151111>>,
    <<20151118, Shuffle_20151118>>, <<20151125, Shuffle_20151125>>, <<20151202, Shuffle_20151202>>,
    <<20151209, Shuffle_20151209>>, <<20151216, Shuffle_20151216>>, <<20151223, Shuffle_20151223>>,
    <<20160106, Shuffle_20160106>>, <<20160113, Shuffle_20160113>>, <<20160120, Shuffle_20160120>>,
    <<20160127, Shuffle_20160127>>, <<20160203, Shuffle_20160203>>, <<20160211, Shuffle_20160211>>,
    <<20160217, Shuffle_20160217>>, <<20160224, Shuffle_20160224>>, <<20160302, Shuffle_20160302>>,
    <<20160309, Shuffle_20160309>>, <<20160316, Shuffle_20160316>>, <<20160323, Shuffle_20160323>>,
    <<20160330, Shuffle_20160330>>, <<20160406, Shuffle_20160406>>, <<20160414, Shuffle_20160414>>,
    <<20160420, Shuffle_20160420>>, <<20160427, Shuffle_20160427>>, <<20160504, Shuffle_20160504>>,
    <<20160511, Shuffle_20160511>>, <<20160518, Shuffle_20160518>>, <<20160525, Shuffle_20160525>>,
    <<20160601, Shuffle_20160601>>, <<20160608, Shuffle_20160608>>, <<20160615, Shuffle_20160615>>,
    <<20160622, Shuffle_20160622>>, <<20160629, Shuffle_20160629>>, <<20160706, Shuffle_20160706>>,
    <<20160713, Shuffle_20160713>>, <<20160720, Shuffle_20160720>>, <<20160727, Shuffle_20160727>>,
    <<20160803, Shuffle_20160803>>, <<20160810, Shuffle_20160810>>, <<20160831, Shuffle_20160831>>,
    <<20160907, Shuffle_20160907>>, <<20160913, Shuffle_20160913>>, <<20160921, Shuffle_20160921>>,
    <<20160928, Shuffle_20160928>>, <<20161005, Shuffle_20161005>>, <<20161012, Shuffle_20161012>>,
    <<20161019, Shuffle_20161019>>, <<20161026, Shuffle_20161026>>, <<20161102, Shuffle_20161102>>,
    <<20161109, Shuffle_20161109>>, <<20161116, Shuffle_20161116>>, <<20161123, Shuffle_20161123>>,
    <<20161130, Shuffle_20161130>>, <<20161207, Shuffle_20161207>>, <<20161214, Shuffle_20161214>>,
    <<20161221, Shuffle_20161221>>, <<20161228, Shuffle_20161228>>, <<20170104, Shuffle_20170104>>,
    <<20170111, Shuffle_20170111>>, <<20170118, Shuffle_20170118>>, <<20170125, Shuffle_20170125>>,
    <<20170201, Shuffle_20170201>>, <<20170208, Shuffle_20170208>>, <<20170215, Shuffle_20170215>>,
    <<20170222, Shuffle_20170222>>, <<20170228, Shuffle_20170228>>, <<20170308, Shuffle_20170308>>,
    <<20170315, Shuffle_20170315>>, <<20170322, Shuffle_20170322>>, <<20170329, Shuffle_20170329>>,
    <<20170405, Shuffle_20170405>>, <<20170412, Shuffle_20170412>>, <<20170419, Shuffle_20170419>>,
    <<20170426, Shuffle_20170426>>, <<20170502, Shuffle_20170502>>, <<20170517, Shuffle_20170517>>,
    <<20170524, Shuffle_20170524>>, <<20170531, Shuffle_20170531>>, <<20170607, Shuffle_20170607>>,
    <<20170614, Shuffle_20170614>>, <<20170621, Shuffle_20170621>>, <<20170628, Shuffle_20170628>>,
    <<20170705, Shuffle_20170705>>, <<20170712, Shuffle_20170712>>, <<20170719, Shuffle_20170719>>,
    <<20170726, Shuffle_20170726>>, <<20170801, Shuffle_20170801>>, <<20170816, Shuffle_20170816>>,
    <<20170823, Shuffle_20170823>>, <<20170830, Shuffle_20170830>>, <<20170906, Shuffle_20170906>>,
    <<20170913, Shuffle_20170913>>, <<20170920, Shuffle_20170920>>, <<20170927, Shuffle_20170927>>,
    <<20171002, Shuffle_20171002>>, <<20171011, Shuffle_20171011>>, <<20171018, Shuffle_20171018>>,
    <<20171025, Shuffle_20171025>>, <<20171101, Shuffle_20171101>>, <<20171108, Shuffle_20171108>>,
    <<20171115, Shuffle_20171115>>, <<20171122, Shuffle_20171122>>, <<20171129, Shuffle_20171129>>,
    <<20171206, Shuffle_20171206>>, <<20171213, Shuffle_20171213>>, <<20171220, Shuffle_20171220>>,
    <<20171227, Shuffle_20171227>>, <<20180103, Shuffle_20180103>>, <<20180117, Shuffle_20180117>>,
    <<20180124, Shuffle_20180124>>, <<20180207, Shuffle_20180207>>, <<20180213, Shuffle_20180213>>,
    <<20180221, Shuffle_20180221>>, <<20180307, Shuffle_20180307>>>>

ShuffledVersions == {r[1] : r \in Range(ShuffleRows)}

Shuffle == [v \in ShuffledVersions |-> (CHOOSE r \in Range(ShuffleRows) : r[1] = v)[2]]

\* The position of a base ID in the rows, 0 for an ID no block names.
BaseIndex(baseID) == IF baseID \in Range(Bases) THEN CHOOSE i \in DOMAIN Bases : Bases[i] = baseID ELSE 0

\* The wire ID of a request at a packet version. Only exact versions are shuffled; a version
\* between two of them, like every version before 20130515, keeps the base ID.
shuffledCtoSID(packetver, baseID) ==
  LET i == BaseIndex(baseID)
  IN  IF i = 0 THEN baseID
      ELSE IF packetver > 20180307 THEN Shuffle_after_20180307[i]
      ELSE IF packetver \in ShuffledVersions THEN Shuffle[packetver][i]
      ELSE baseID
==============================================================================
