--------------------------- MODULE ZcDecodersOtoZ ----------------------------
(*
  The decoders of pkg/decode named after packets of the map server, ZcO... to ZcZ...

  A decoder is the number of bytes of the frame it reads, by packet version:
  << <<from, bytes>>, ... >>, newest first, one rung per arm of its
  `if packetver >= ...` ladder. The fields' names and types are left out; a
  trailing variable part (data[n:]) counts as the n bytes it needs.
*)
EXTENDS Integers

ZcOpenEditdlg_0x0142 == << <<0, 6>> >>
ZcOpenEditdlgstr_0x01D4 == << <<0, 6>> >>
ZcOpenRefiningUi_0x0AA0 == << <<0, 0>> >>
ZcOpenReformUi_0x0B8F == << <<0, 6>> >>
ZcOpenSearchStoreInfo_0x083A == << <<20100701, 5>>, <<0, 4>> >>
ZcOpenstore_0x012D == << <<0, 4>> >>
ZcParChangeUser_0x01AB == << <<0, 12>> >>
ZcPartyConfig_0x02C9 == << <<0, 3>> >>
ZcPartyJoinReqAck_0x00FD == << <<0, 30>> >>
ZcPartyJoinReqAck_0x02C5 == << <<0, 30>> >>
ZcPartyJoinReq_0x00FE == << <<0, 30>> >>
ZcPartyJoinReq_0x02C6 == << <<0, 30>> >>
ZcPcPurchaseItemlistFrommc_0x0133 == << <<20100105, 12>>, <<0, 8>> >>
ZcPcPurchaseItemlistFrommc_0x0B3D == << <<0, 12>> >>
ZcPcPurchaseMyitemlist_0x0136 == << <<0, 8>> >>
ZcPcPurchaseMyitemlist_0x0B40 == << <<0, 8>> >>
ZcPcPurchaseResultFrommc_0x0135 == << <<0, 7>> >>
ZcPcPurchaseResult_0x00CA == << <<0, 3>> >>
ZcPcSellItemlist_0x00C7 == << <<0, 4>> >>
ZcPersonalInfomation_0x08CB == << <<20120503, 16>>, <<0, 10>> >>
ZcPingLive_0x0B1D == << <<0, 0>> >>
ZcPlayNpcBgm_0x07FE == << <<20220504, 5>>, <<0, 26>> >>
ZcPositionIdNameInfo_0x0166 == << <<0, 32>> >>
ZcPositionInfo_0x0160 == << <<0, 4>> >>
ZcPreviewMacroDetectorCaptcha_0x0A6B == << <<0, 8>> >>
ZcPropertyHomun_0x022E == << <<20210303, 85>>, <<20200819, 77>>, <<20190619, 73>>, <<20181121, 77>>, <<20131230, 75>>, <<0, 71>> >>
ZcRandomCombineItemUiOpen_0x0A4E == << <<20181121, 6>>, <<0, 4>> >>
ZcRandomUpgradeItemUiOpen_0x0AB4 == << <<20181121, 6>>, <<0, 4>> >>
ZcRecovery_0x013D == << <<20141022, 8>>, <<0, 6>> >>
ZcRefiningMaterialList_0x0AA2 == << <<0, 7>> >>
ZcRefuseEnterRoom_0x00DA == << <<0, 3>> >>
ZcRepairitemlist_0x01FC == << <<0, 4>> >>
ZcRepairitemlist_0x0B65 == << <<0, 4>> >>
ZcReputeInfo_0x0B8D == << <<0, 5>> >>
ZcReqAckAgitInvestment_0x0B2D == << <<0, 11>> >>
ZcReqAckMoveGuildAgit_0x0B2E == << <<0, 4>> >>
ZcReqAnswerMacroDetector_0x0A5B == << <<0, 7>> >>
ZcReqJoinGuild_0x016A == << <<0, 30>> >>
ZcReqTakeoffEquipAck_0x00AC == << <<0, 7>> >>
ZcReqTakeoffEquipAck_0x08D1 == << <<0, 7>> >>
ZcReqTakeoffEquipAck_0x099A == << <<0, 9>> >>
ZcReqWearEquipAck_0x00AA == << <<20101123, 9>>, <<0, 7>> >>
ZcReqWearEquipAck_0x0999 == << <<0, 11>> >>
ZcResponseEnchant_0x0B9F == << <<0, 10>> >>
ZcRestartAck_0x00B3 == << <<0, 3>> >>
ZcResultMakeGuild_0x0167 == << <<0, 3>> >>
ZcResurrection_0x0148 == << <<0, 8>> >>
ZcRoleChange_0x00E1 == << <<0, 30>> >>
ZcSayDialog_0x00B4 == << <<0, 8>> >>
ZcSeCashshopOpen_0x0845 == << <<20140730, 14>>, <<0, 10>> >>
ZcSePcBuyCashitemResult_0x0849 == << <<0, 16>> >>
ZcSearchStoreInfoAck_0x0836 == << <<0, 7>> >>
ZcSearchStoreInfoAck_0x0B64 == << <<0, 7>> >>
ZcSearchStoreInfoFailed_0x0837 == << <<0, 3>> >>
ZcSelectDealtype_0x00C4 == << <<0, 6>> >>
ZcShortcutKeyList_0x02B9 == << <<20090603, 254>>, <<0, 191>> >>
ZcShortcutKeyList_0x07D9 == << <<0, 268>> >>
ZcShortcutKeyList_0x0A00 == << <<0, 269>> >>
ZcShortcutKeyList_0x0B20 == << <<0, 271>> >>
ZcShowImage_0x01B3 == << <<0, 67>> >>
ZcSkillDisappear_0x0120 == << <<0, 6>> >>
ZcSkillSelectRequest_0x0442 == << <<0, 8>> >>
ZcSkillUpdate_0x01AC == << <<0, 6>> >>
ZcSkillinfoUpdate2_0x07E1 == << <<0, 15>> >>
ZcSkillinfoUpdate2_0x0B33 == << <<0, 15>> >>
ZcSoulenergy_0x0B73 == << <<0, 8>> >>
ZcSound_0x01D3 == << <<0, 35>> >>
ZcSpecialpopup_0x0BBE == << <<0, 6>> >>
ZcSpirits2_0x01E1 == << <<0, 8>> >>
ZcSpiritsAttribute_0x08CF == << <<0, 10>> >>
ZcSpirits_0x01D0 == << <<0, 8>> >>
ZcSsilistItemClickAck_0x083D == << <<0, 6>> >>
ZcStartCapture_0x019E == << <<0, 0>> >>
ZcStateChange_0x0119 == << <<0, 15>> >>
ZcStateChange_0x0229 == << <<0, 15>> >>
ZcStatusChangeAck_0x00BC == << <<0, 6>> >>
ZcStatus_0x00BD == << <<0, 44>> >>
ZcStopmove_0x0088 == << <<0, 10>> >>
ZcSummonHpInit_0x0B6B == << <<0, 14>> >>
ZcSummonHpUpdate_0x0B6C == << <<0, 12>> >>
ZcTalkboxChatcontents_0x0191 == << <<0, 86>> >>
ZcTargetSpirits_0x0B68 == << <<0, 12>> >>
ZcTrycaptureMonster_0x01A0 == << <<0, 3>> >>
ZcUiOpen2_0x0B9A == << <<0, 11>> >>
ZcUiOpen_0x0A38 == << <<20171122, 7>>, <<0, 3>> >>
ZcUpdateCardslot_0x0A3F == << <<20181121, 11>>, <<0, 9>> >>
ZcUpdateGdid_0x016C == << <<20220216, 47>>, <<0, 43>> >>
ZcUseskillAck_0x013E == << <<0, 24>> >>
ZcViewCamerainfo_0x0A78 == << <<0, 15>> >>
ZcWaitDialog_0x00B5 == << <<0, 6>> >>
==============================================================================
