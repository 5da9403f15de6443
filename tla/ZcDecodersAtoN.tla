--------------------------- MODULE ZcDecodersAtoN ----------------------------
(*
  The decoders of pkg/decode named after packets of the map server, ZcA... to ZcN...

  A decoder is the number of bytes of the frame it reads, by packet version:
  << <<from, bytes>>, ... >>, newest first, one rung per arm of its
  `if packetver >= ...` ladder. The fields' names and types are left out; a
  trailing variable part (data[n:]) counts as the n bytes it needs.
*)
EXTENDS Integers

ZcAcceptEnter_0x0073 == << <<0, 11>> >>
ZcAcceptEnter_0x02EB == << <<0, 13>> >>
ZcAcceptEnter_0x0A18 == << <<0, 14>> >>
ZcAckAddExchangeItem_0x00EA == << <<0, 5>> >>
ZcAckAddItemRodex_0x0A05 == << <<20181121, 63>>, <<0, 53>> >>
ZcAckAddItemRodex_0x0B3F == << <<0, 64>> >>
ZcAckAdditemToCart_0x012C == << <<0, 3>> >>
ZcAckApplyMacroDetector_0x0A57 == << <<0, 6>> >>
ZcAckCashBargainSaleItemInfo_0x09AD == << <<20181121, 12>>, <<0, 10>> >>
ZcAckCloseBanking_0x09B9 == << <<0, 4>> >>
ZcAckCloseRoulette_0x0A1E == << <<0, 3>> >>
ZcAckCountBargainSaleItem_0x09C4 == << <<20181121, 10>>, <<0, 8>> >>
ZcAckCreateChatroom_0x00D6 == << <<0, 3>> >>
ZcAckDisorganizeGuildResult_0x015E == << <<0, 6>> >>
ZcAckExtendBodyitemSize_0x0B17 == << <<0, 3>> >>
ZcAckGuildstorageLog_0x09DA == << <<0, 8>> >>
ZcAckItemcomposition_0x017D == << <<0, 7>> >>
ZcAckItemidentify_0x0179 == << <<0, 5>> >>
ZcAckItemrefining_0x0188 == << <<0, 8>> >>
ZcAckItemrepair_0x01FE == << <<0, 5>> >>
ZcAckMakeGroup_0x00FA == << <<0, 3>> >>
ZcAckMergeItem_0x096F == << <<0, 7>> >>
ZcAckOpenMsgboxExtendBodyitemSize_0x0B15 == << <<0, 7>> >>
ZcAckOpenstore2_0x0A28 == << <<0, 3>> >>
ZcAckPlayerAidInRange_0x0A6D == << <<0, 4>> >>
ZcAckPreviewMacroDetector_0x0A6A == << <<0, 12>> >>
ZcAckRandomCombineItem_0x0A50 == << <<0, 4>> >>
ZcAckRandomUpgradeItem_0x0AB7 == << <<0, 4>> >>
ZcAckRanking_0x097D == << <<0, 8>> >>
ZcAckReadRodex_0x09EB == << <<0, 24>> >>
ZcAckReadRodex_0x0B63 == << <<0, 24>> >>
ZcAckRememberWarppoint_0x011E == << <<0, 3>> >>
ZcAckReqJoinGuild_0x0169 == << <<0, 3>> >>
ZcAckReqnameallNpc_0x0095 == << <<20180207, 58>>, <<0, 30>> >>
ZcAckReqnameall_0x0195 == << <<0, 102>> >>
ZcAckReqnameall_0x0A30 == << <<0, 106>> >>
ZcAckSeCashItemList2_0x08C0 == << <<0, 10>> >>
ZcAckTakeoffEquipAll_0x0BAE == << <<0, 3>> >>
ZcAckUploadMacroDetector_0x0A53 == << <<0, 10>> >>
ZcActionFailure_0x013B == << <<0, 4>> >>
ZcAddItemToCart_0x0124 == << <<20181121, 57>>, <<20140813, 47>>, <<0, 22>> >>
ZcAddItemToCart_0x0B45 == << <<0, 58>> >>
ZcAddItemToStore_0x00F4 == << <<20181121, 57>>, <<20140813, 47>>, <<0, 22>> >>
ZcAddItemToStore_0x0B44 == << <<0, 58>> >>
ZcAdventurerAgencyJoinReq_0x0AE7 == << <<0, 38>> >>
ZcAdventurerAgencyJoinResult_0x0AFA == << <<0, 58>> >>
ZcApplyMacroDetectorCaptcha_0x0A59 == << <<0, 8>> >>
ZcApplyMacroDetector_0x0A58 == << <<0, 8>> >>
ZcAutorunSkill_0x0147 == << <<0, 39>> >>
ZcAutospelllist_0x01CD == << <<20181128, 4>>, <<0, 30>> >>
ZcBattlefieldNotifyHp_0x02E0 == << <<20140312, 12>>, <<0, 34>> >>
ZcBossInfo_0x0293 == << <<0, 70>> >>
ZcBroadcast2_0x01C3 == << <<0, 16>> >>
ZcBroadcastItemrefiningResult_0x0ADA == << <<20181121, 32>>, <<0, 30>> >>
ZcBroadcast_0x009A == << <<0, 4>> >>
ZcBroadcastingSpecialItemObtainItem_0x07FD == << <<20220518, 44>>, <<20181121, 39>>, <<0, 35>> >>
ZcBuyingStoreEntry_0x0814 == << <<0, 86>> >>
ZcCMarkerinfo_0x09C1 == << <<0, 10>> >>
ZcCancelExchangeItem_0x00EE == << <<0, 0>> >>
ZcCartoff_0x012B == << <<0, 0>> >>
ZcChangeGuild_0x01B4 == << <<0, 12>> >>
ZcChangeGuild_0x0B1F == << <<0, 14>> >>
ZcChangeGuild_0x0B47 == << <<0, 14>> >>
ZcChangeItemOption_0x0AB9 == << <<20181121, 48>>, <<20181017, 40>>, <<0, 39>> >>
ZcChangeItemOption_0x0B43 == << <<0, 48>> >>
ZcChangestatePet_0x01A4 == << <<0, 11>> >>
ZcCheckname_0x0A14 == << <<0, 10>> >>
ZcCheckname_0x0A51 == << <<0, 34>> >>
ZcClaninfo_0x098A == << <<0, 74>> >>
ZcClearDialog_0x08D6 == << <<0, 6>> >>
ZcCloseDialog_0x00B6 == << <<0, 6>> >>
ZcCloseMacroDetector_0x0A5D == << <<0, 6>> >>
ZcCloseStore_0x00F8 == << <<0, 0>> >>
ZcCompass_0x0144 == << <<0, 23>> >>
ZcCouplename_0x01E6 == << <<0, 26>> >>
ZcCouplestatus_0x0141 == << <<0, 14>> >>
ZcDebugmsg_0x0ADB == << <<0, 8>> >>
ZcDeleteItemFromBody_0x07FA == << <<0, 8>> >>
ZcDeleteItemFromCart_0x0125 == << <<0, 8>> >>
ZcDeleteItemFromStore_0x00F6 == << <<0, 8>> >>
ZcDeleteMemberFromGroup_0x0105 == << <<0, 31>> >>
ZcDeleteitemFromMcstore_0x0137 == << <<20141016, 18>>, <<0, 6>> >>
ZcDialogTextAlign_0x0BA1 == << <<0, 3>> >>
ZcDialogWindowPos2_0x0BB5 == << <<0, 10>> >>
ZcDialogWindowPos_0x0BA3 == << <<0, 10>> >>
ZcDialogWindowSize_0x0BA2 == << <<0, 10>> >>
ZcDisappearBuyingStoreEntry_0x0816 == << <<0, 6>> >>
ZcDynamicnpcCreateResult_0x0A17 == << <<0, 6>> >>
ZcElParChange_0x081E == << <<0, 8>> >>
ZcEntryQueueInit_0x090E == << <<0, 0>> >>
ZcEquipArrow_0x013C == << <<0, 4>> >>
ZcEquipitemDamaged_0x02BB == << <<0, 8>> >>
ZcEquipmentEffect_0x0A3B == << <<0, 9>> >>
ZcEquipwinMicroscope_0x02D7 == << <<0, 43>> >>
ZcEquipwinMicroscope_0x0859 == << <<0, 45>> >>
ZcEquipwinMicroscope_0x0906 == << <<0, 45>> >>
ZcEquipwinMicroscope_0x0997 == << <<0, 45>> >>
ZcEquipwinMicroscope_0x0A2D == << <<0, 45>> >>
ZcEquipwinMicroscope_0x0B03 == << <<0, 47>> >>
ZcEquipwinMicroscope_0x0B37 == << <<0, 47>> >>
ZcExchangeitemUndo_0x00F1 == << <<0, 0>> >>
ZcExecExchangeItem_0x00F0 == << <<0, 3>> >>
ZcExtendBodyitemSize_0x0B18 == << <<0, 4>> >>
ZcFriendsList_0x0201 == << <<0, 4>> >>
ZcGoldpccafePoint_0x0A15 == << <<0, 12>> >>
ZcGradeEnchantAck_0x0B5D == << <<0, 10>> >>
ZcGradeEnchantBroadcastResult_0x0B5E == << <<0, 33>> >>
ZcGradeEnchantMaterialList_0x0B5A == << <<0, 34>> >>
ZcGroupList_0x00FB == << <<0, 28>> >>
ZcGroupList_0x0A44 == << <<0, 28>> >>
ZcGroupList_0x0AE5 == << <<0, 28>> >>
ZcGuildAgitInfo_0x0B27 == << <<0, 4>> >>
ZcGuildEmblemImg_0x0152 == << <<20190821, 14>>, <<0, 12>> >>
ZcGuildInfo_0x01B6 == << <<0, 114>> >>
ZcGuildInfo_0x0A84 == << <<0, 94>> >>
ZcGuildInfo_0x0B7B == << <<20200916, 118>>, <<0, 94>> >>
ZcGuildNotice_0x016F == << <<0, 182>> >>
ZcGuildSkillinfo_0x0162 == << <<0, 6>> >>
ZcHoParChange_0x07DB == << <<0, 8>> >>
ZcHoskillinfoList_0x0235 == << <<0, 4>> >>
ZcHoskillinfoList_0x029D == << <<0, 4>> >>
ZcHoskillinfoUpdate_0x0239 == << <<0, 11>> >>
ZcInventoryEnd_0x0B0B == << <<0, 4>> >>
ZcInventoryStart_0x0B08 == << <<0, 5>> >>
ZcInventoryTab_0x0908 == << <<0, 5>> >>
ZcItemDisappear_0x00A1 == << <<0, 6>> >>
ZcItemPickupParty_0x02B8 == << <<20181121, 32>>, <<0, 22>> >>
ZcItemPickupParty_0x0B67 == << <<0, 33>> >>
ZcItemReformAck_0x0B92 == << <<0, 5>> >>
ZcItemThrowAck_0x00AF == << <<0, 6>> >>
ZcLonglongparChange_0x0ACB == << <<0, 12>> >>
ZcMakingarrowList_0x01AD == << <<0, 4>> >>
ZcMakingitemList_0x025A == << <<0, 6>> >>
ZcMembermgrInfo_0x0154 == << <<0, 4>> >>
ZcMenuList_0x00B7 == << <<0, 8>> >>
ZcMergeItemOpen_0x096D == << <<0, 4>> >>
ZcMillenniumshield_0x0440 == << <<0, 10>> >>
ZcMoveItemFailed_0x0AA7 == << <<0, 6>> >>
ZcMyguildBasicInfo_0x014C == << <<0, 4>> >>
ZcNotifyActorinit_0x0B1B == << <<0, 0>> >>
ZcNotifyBargainSaleClose_0x09B3 == << <<20181121, 6>>, <<0, 4>> >>
ZcNotifyBargainSaleSelling_0x09B2 == << <<20181121, 10>>, <<0, 8>> >>
ZcNotifyBindOnEquip_0x02D3 == << <<0, 4>> >>
ZcNotifyCartitemCountinfo_0x0121 == << <<0, 14>> >>
ZcNotifyChatParty_0x0109 == << <<0, 8>> >>
ZcNotifyEffect3_0x0284 == << <<20191127, 18>>, <<0, 14>> >>
ZcNotifyEffect_0x019B == << <<0, 10>> >>
ZcNotifyGroundskill_0x0117 == << <<0, 18>> >>
ZcNotifyHpToGroupm_0x0106 == << <<20100119, 12>>, <<0, 10>> >>
ZcNotifyMapinfo_0x0189 == << <<0, 4>> >>
ZcNotifyMapproperty2_0x01D6 == << <<0, 4>> >>
ZcNotifyMapproperty2_0x099B == << <<0, 8>> >>
ZcNotifyMemberinfoToGroupm_0x0ABD == << <<0, 10>> >>
ZcNotifyPositionToGroupm_0x0107 == << <<0, 10>> >>
ZcNotifyPositionToGuildm_0x01EB == << <<0, 10>> >>
ZcNotifyStoreitemCountinfo_0x00F2 == << <<0, 6>> >>
ZcNpcBarterMarketIteminfo_0x0B0E == << <<0, 4>> >>
ZcNpcMarketOpen_0x09D5 == << <<0, 4>> >>
ZcNpcMarketPurchaseResult_0x09D7 == << <<20190807, 6>>, <<0, 5>> >>
ZcNpcShowefstUpdate_0x028A == << <<0, 18>> >>
==============================================================================
