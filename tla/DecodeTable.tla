----------------------------- MODULE DecodeTable -----------------------------
(*
  The dispatch table of pkg/session/receive_dispatch.go: for each semantic
  action, the packet IDs that carry it and the decoder of each.
*)
EXTENDS Integers, Sequences, TLC, ActionDecoders, ZcDecodersAtoN, ZcDecodersOtoZ

\* receiveDispatch: the packet IDs of each action and the decoder of each ID.
Dispatch_1 == [
  AcAcceptLogin |-> <<<<\h0069, AcAcceptLogin_0x0069>>, <<\h0AC4, AcAcceptLogin_0x0AC4>>>>,
  AcAckHash |-> <<<<\h01DC, AcAckHash_0x01DC>>>>,
  AcRefuseLogin |-> <<<<\h006A, AcRefuseLogin_0x006A>>>>,
  AccessibleMaps |-> <<<<\h0840, AccessibleMaps_0x0840>>>>,
  AccountId |-> <<<<\h0283, AccountId_0x0283>>>>,
  ActorAction |-> <<<<\h008A, ActorAction_0x008A>>, <<\h08C8, ActorAction_0x08C8>>>>,
  ActorConnected |->
    <<<<\h0079, ActorConnected_0x0079>>, <<\h01D9, ActorConnected_0x01D9>>,
      <<\h02ED, ActorConnected_0x02ED>>, <<\h09FE, ActorConnected_0x09FE>>,
      <<\h022B, ActorConnected_0x022B>>, <<\h09DC, ActorConnected_0x09DC>>,
      <<\h07F8, ActorConnected_0x07F8>>, <<\h0858, ActorConnected_0x0858>>,
      <<\h090F, ActorConnected_0x090F>>>>,
  ActorDiedOrDisappeared |-> <<<<\h0080, ActorDiedOrDisappeared_0x0080>>>>,
  ActorExists |->
    <<<<\h0078, ActorExists_0x0078>>, <<\h01D8, ActorExists_0x01D8>>,
      <<\h09FF, ActorExists_0x09FF>>, <<\h022A, ActorExists_0x022A>>,
      <<\h02EE, ActorExists_0x02EE>>, <<\h09DD, ActorExists_0x09DD>>,
      <<\h07F9, ActorExists_0x07F9>>, <<\h0857, ActorExists_0x0857>>, <<\h0915, ActorExists_0x0915>>>>,
  ActorMoved |->
    <<<<\h007B, ActorMoved_0x007B>>, <<\h01DA, ActorMoved_0x01DA>>, <<\h022C, ActorMoved_0x022C>>,
      <<\h09FD, ActorMoved_0x09FD>>, <<\h02EC, ActorMoved_0x02EC>>, <<\h07F7, ActorMoved_0x07F7>>,
      <<\h0856, ActorMoved_0x0856>>, <<\h0914, ActorMoved_0x0914>>, <<\h09DB, ActorMoved_0x09DB>>>>,
  ActorStatusActive |->
    <<<<\h0196, ActorStatusActive_0x0196>>, <<\h0983, ActorStatusActive_0x0983>>>>,
  ActorStatusEffectExtended |-> <<<<\h043F, ActorStatusEffectExtended_0x043F>>>>,
  AddExchangeItem |->
    <<<<\h00E9, AddExchangeItem_0x00E9>>, <<\h080F, AddExchangeItem_0x080F>>,
      <<\h0A09, AddExchangeItem_0x0A09>>, <<\h0A96, AddExchangeItem_0x0A96>>,
      <<\h0B42, AddExchangeItem_0x0B42>>>>,
  AreaSpell |->
    <<<<\h011F, AreaSpell_0x011F>>, <<\h08C7, AreaSpell_0x08C7>>, <<\h099F, AreaSpell_0x099F>>,
      <<\h09CA, AreaSpell_0x09CA>>>>,
  AttackFailureForDistance |-> <<<<\h0139, AttackFailureForDistance_0x0139>>>>,
  AttackRange |-> <<<<\h013A, AttackRange_0x013A>>>>,
  BankingCheck |-> <<<<\h09A6, BankingCheck_0x09A6>>>>,
  BankingDeposit |-> <<<<\h09A8, BankingDeposit_0x09A8>>>>,
  BankingOpen |-> <<<<\h09B7, BankingOpen_0x09B7>>>>,
  BankingWithdraw |-> <<<<\h09AA, BankingWithdraw_0x09AA>>>>,
  CastCancelled |-> <<<<\h01B9, CastCancelled_0x01B9>>>>,
  CharCreated |-> <<<<\h006D, CharCreated_0x006D>>, <<\h0B6F, CharCreated_0x0B6F>>>>,
  CharacterBlocked |-> <<<<\h020D, CharacterBlocked_0x020D>>>>,
  CharacterCreationFailed |-> <<<<\h006E, CharacterCreationFailed_0x006E>>>>,
  CharacterMoves |-> <<<<\h0087, CharacterMoves_0x0087>>>>,
  CharacterPagesNotify |-> <<<<\h09A0, CharacterPagesNotify_0x09A0>>>>,
  CharacterServerRefused |->
    <<<<\h006C, CharacterServerRefused_0x006C>>, <<\h02CA, CharacterServerRefused_0x02CA>>>>,
  ChatMessage |-> <<<<\h008D, ChatMessage_0x008D>>>>,
  DealFinalize |-> <<<<\h00EC, DealFinalize_0x00EC>>>>,
  DealRequest |->
    <<<<\h01F5, DealRequest_0x01F5>>, <<\h00E7, DealRequest_0x00E7>>, <<\h01F4, DealRequest_0x01F4>>>>,
  EntityMove |-> <<<<\h0086, EntityMove_0x0086>>>>,
  EntitySpawn |-> <<<<\h007C, EntitySpawn_0x007C>>>>,
  Exp |-> <<<<\h07F6, Exp_0x07F6>>, <<\h0ACC, Exp_0x0ACC>>>>,
  GuildChat |-> <<<<\h017F, GuildChat_0x017F>>>>,
  HomunculusInfo |-> <<<<\h0230, HomunculusInfo_0x0230>>>> ]
Dispatch_2 == [
  InventoryItemsEquip |->
    <<<<\h00A4, InventoryItemsEquip_0x00A4>>, <<\h0992, InventoryItemsEquip_0x0992>>,
      <<\h0A0D, InventoryItemsEquip_0x0A0D>>, <<\h0B0A, InventoryItemsEquip_0x0B0A>>,
      <<\h0B39, InventoryItemsEquip_0x0B39>>, <<\h0295, InventoryItemsEquip_0x0295>>,
      <<\h02D0, InventoryItemsEquip_0x02D0>>>>,
  InventoryItemsStackable |->
    <<<<\h00A3, InventoryItemsStackable_0x00A3>>, <<\h01EE, InventoryItemsStackable_0x01EE>>,
      <<\h02E8, InventoryItemsStackable_0x02E8>>, <<\h0991, InventoryItemsStackable_0x0991>>,
      <<\h0B09, InventoryItemsStackable_0x0B09>>>>,
  ItemAppeared |->
    <<<<\h009E, ItemAppeared_0x009E>>, <<\h084B, ItemAppeared_0x084B>>,
      <<\h0ADD, ItemAppeared_0x0ADD>>>>,
  ItemExists |-> <<<<\h009D, ItemExists_0x009D>>>>,
  ItemPickup |->
    <<<<\h00A0, ItemPickup_0x00A0>>, <<\h0A37, ItemPickup_0x0A37>>, <<\h029A, ItemPickup_0x029A>>,
      <<\h02D4, ItemPickup_0x02D4>>, <<\h0990, ItemPickup_0x0990>>, <<\h0A0C, ItemPickup_0x0A0C>>,
      <<\h0B41, ItemPickup_0x0B41>>>>,
  LoginError |-> <<<<\h083E, LoginError_0x083E>>>>,
  MailReceive |-> <<<<\h0274, MailReceive_0x0274>>>>,
  MapChanged |->
    <<<<\h0091, MapChanged_0x0091>>, <<\h0AC7, MapChanged_0x0AC7>>, <<\h0092, MapChanged_0x0092>>>>,
  MonsterHpUpdate |-> <<<<\h0977, MonsterHpUpdate_0x0977>>>>,
  NpcStoreInfo |-> <<<<\h00C6, NpcStoreInfo_0x00C6>>>>,
  PetEggList |-> <<<<\h01A6, PetEggList_0x01A6>>>>,
  PetInfo |-> <<<<\h01A2, PetInfo_0x01A2>>>>,
  PinCodeRequest |-> <<<<\h08B9, PinCodeRequest_0x08B9>>, <<\h02AD, PinCodeRequest_0x02AD>>>>,
  PrivateMessage |-> <<<<\h0097, PrivateMessage_0x0097>>, <<\h09DE, PrivateMessage_0x09DE>>>>,
  ReceivedCharacters |-> <<<<\h006B, ReceivedCharacters_0x006B>>>>,
  ReceivedCharactersInfo |-> <<<<\h082D, ReceivedCharactersInfo_0x082D>>>>,
  ReceivedCharactersPage |->
    <<<<\h099D, ReceivedCharactersPage_0x099D>>, <<\h0B72, ReceivedCharactersPage_0x0B72>>>>,
  ReceivedMapServerInfo |->
    <<<<\h0AC5, ReceivedMapServerInfo_0x0AC5>>, <<\h0071, ReceivedMapServerInfo_0x0071>>>>,
  ScNotifyBan |-> <<<<\h0081, ScNotifyBan_0x0081>>>>,
  SelfChat |-> <<<<\h008E, SelfChat_0x008E>>>>,
  SellResult |-> <<<<\h00CB, SellResult_0x00CB>>>>,
  SkillAdd |-> <<<<\h0111, SkillAdd_0x0111>>, <<\h0B31, SkillAdd_0x0B31>>>>,
  SkillCast |-> <<<<\h07FB, SkillCast_0x07FB>>, <<\h0B1A, SkillCast_0x0B1A>>>>,
  SkillDelete |-> <<<<\h0441, SkillDelete_0x0441>>>>,
  SkillPostDelay |-> <<<<\h043D, SkillPostDelay_0x043D>>>>,
  SkillUpdate |-> <<<<\h010E, SkillUpdate_0x010E>>>>,
  SkillUse |-> <<<<\h01DE, SkillUse_0x01DE>>, <<\h0114, SkillUse_0x0114>>>>,
  SkillUseFailed |-> <<<<\h0110, SkillUseFailed_0x0110>>>>,
  SkillUsedNoDamage |-> <<<<\h011A, SkillUsedNoDamage_0x011A>>>>,
  SkillsList |-> <<<<\h010F, SkillsList_0x010F>>, <<\h0B32, SkillsList_0x0B32>>>>,
  StatUpdate |->
    <<<<\h00B0, StatUpdate_0x00B0>>, <<\h00B1, StatUpdate_0x00B1>>, <<\h00BE, StatUpdate_0x00BE>>,
      <<\h02A2, StatUpdate_0x02A2>>>>,
  Sync |-> <<<<\h007F, Sync_0x007F>>>>,
  TcResult |-> <<<<\h0AE3, TcResult_0x0AE3>>>>,
  VenderFound |-> <<<<\h0131, VenderFound_0x0131>>>>,
  WhisperSent |-> <<<<\h0098, WhisperSent_0x0098>>>>,
  ZcAcceptEnter |->
    <<<<\h0A18, ZcAcceptEnter_0x0A18>>, <<\h0073, ZcAcceptEnter_0x0073>>,
      <<\h02EB, ZcAcceptEnter_0x02EB>>>>,
  ZcAckAddExchangeItem |-> <<<<\h00EA, ZcAckAddExchangeItem_0x00EA>>>>,
  ZcAckAddItemRodex |->
    <<<<\h0A05, ZcAckAddItemRodex_0x0A05>>, <<\h0B3F, ZcAckAddItemRodex_0x0B3F>>>> ]
Dispatch_3 == [
  ZcAckAdditemToCart |-> <<<<\h012C, ZcAckAdditemToCart_0x012C>>>>,
  ZcAckApplyMacroDetector |-> <<<<\h0A57, ZcAckApplyMacroDetector_0x0A57>>>>,
  ZcAckCashBargainSaleItemInfo |-> <<<<\h09AD, ZcAckCashBargainSaleItemInfo_0x09AD>>>>,
  ZcAckCloseBanking |-> <<<<\h09B9, ZcAckCloseBanking_0x09B9>>>>,
  ZcAckCloseRoulette |-> <<<<\h0A1E, ZcAckCloseRoulette_0x0A1E>>>>,
  ZcAckCountBargainSaleItem |-> <<<<\h09C4, ZcAckCountBargainSaleItem_0x09C4>>>>,
  ZcAckCreateChatroom |-> <<<<\h00D6, ZcAckCreateChatroom_0x00D6>>>>,
  ZcAckDisorganizeGuildResult |-> <<<<\h015E, ZcAckDisorganizeGuildResult_0x015E>>>>,
  ZcAckExtendBodyitemSize |-> <<<<\h0B17, ZcAckExtendBodyitemSize_0x0B17>>>>,
  ZcAckGuildstorageLog |-> <<<<\h09DA, ZcAckGuildstorageLog_0x09DA>>>>,
  ZcAckItemcomposition |-> <<<<\h017D, ZcAckItemcomposition_0x017D>>>>,
  ZcAckItemidentify |-> <<<<\h0179, ZcAckItemidentify_0x0179>>>>,
  ZcAckItemrefining |-> <<<<\h0188, ZcAckItemrefining_0x0188>>>>,
  ZcAckItemrepair |-> <<<<\h01FE, ZcAckItemrepair_0x01FE>>>>,
  ZcAckMakeGroup |-> <<<<\h00FA, ZcAckMakeGroup_0x00FA>>>>,
  ZcAckMergeItem |-> <<<<\h096F, ZcAckMergeItem_0x096F>>>>,
  ZcAckOpenMsgboxExtendBodyitemSize |-> <<<<\h0B15, ZcAckOpenMsgboxExtendBodyitemSize_0x0B15>>>>,
  ZcAckOpenstore2 |-> <<<<\h0A28, ZcAckOpenstore2_0x0A28>>>>,
  ZcAckPlayerAidInRange |-> <<<<\h0A6D, ZcAckPlayerAidInRange_0x0A6D>>>>,
  ZcAckPreviewMacroDetector |-> <<<<\h0A6A, ZcAckPreviewMacroDetector_0x0A6A>>>>,
  ZcAckRandomCombineItem |-> <<<<\h0A50, ZcAckRandomCombineItem_0x0A50>>>>,
  ZcAckRandomUpgradeItem |-> <<<<\h0AB7, ZcAckRandomUpgradeItem_0x0AB7>>>>,
  ZcAckRanking |-> <<<<\h097D, ZcAckRanking_0x097D>>>>,
  ZcAckReadRodex |-> <<<<\h09EB, ZcAckReadRodex_0x09EB>>, <<\h0B63, ZcAckReadRodex_0x0B63>>>>,
  ZcAckRememberWarppoint |-> <<<<\h011E, ZcAckRememberWarppoint_0x011E>>>>,
  ZcAckReqJoinGuild |-> <<<<\h0169, ZcAckReqJoinGuild_0x0169>>>>,
  ZcAckReqnameall |-> <<<<\h0195, ZcAckReqnameall_0x0195>>, <<\h0A30, ZcAckReqnameall_0x0A30>>>>,
  ZcAckReqnameallNpc |-> <<<<\h0095, ZcAckReqnameallNpc_0x0095>>>>,
  ZcAckSeCashItemList2 |-> <<<<\h08C0, ZcAckSeCashItemList2_0x08C0>>>>,
  ZcAckTakeoffEquipAll |-> <<<<\h0BAE, ZcAckTakeoffEquipAll_0x0BAE>>>>,
  ZcAckUploadMacroDetector |-> <<<<\h0A53, ZcAckUploadMacroDetector_0x0A53>>>>,
  ZcActionFailure |-> <<<<\h013B, ZcActionFailure_0x013B>>>>,
  ZcAddItemToCart |-> <<<<\h0124, ZcAddItemToCart_0x0124>>, <<\h0B45, ZcAddItemToCart_0x0B45>>>>,
  ZcAddItemToStore |->
    <<<<\h00F4, ZcAddItemToStore_0x00F4>>, <<\h0B44, ZcAddItemToStore_0x0B44>>>>,
  ZcAdventurerAgencyJoinReq |-> <<<<\h0AE7, ZcAdventurerAgencyJoinReq_0x0AE7>>>>,
  ZcAdventurerAgencyJoinResult |-> <<<<\h0AFA, ZcAdventurerAgencyJoinResult_0x0AFA>>>>,
  ZcApplyMacroDetector |-> <<<<\h0A58, ZcApplyMacroDetector_0x0A58>>>>,
  ZcApplyMacroDetectorCaptcha |-> <<<<\h0A59, ZcApplyMacroDetectorCaptcha_0x0A59>>>>,
  ZcAutorunSkill |-> <<<<\h0147, ZcAutorunSkill_0x0147>>>>,
  ZcAutospelllist |-> <<<<\h01CD, ZcAutospelllist_0x01CD>>>>,
  ZcBattlefieldNotifyHp |-> <<<<\h02E0, ZcBattlefieldNotifyHp_0x02E0>>>>,
  ZcBossInfo |-> <<<<\h0293, ZcBossInfo_0x0293>>>>,
  ZcBroadcast |-> <<<<\h009A, ZcBroadcast_0x009A>>>>,
  ZcBroadcast2 |-> <<<<\h01C3, ZcBroadcast2_0x01C3>>>>,
  ZcBroadcastItemrefiningResult |-> <<<<\h0ADA, ZcBroadcastItemrefiningResult_0x0ADA>>>>,
  ZcBroadcastingSpecialItemObtainItem |->
    <<<<\h07FD, ZcBroadcastingSpecialItemObtainItem_0x07FD>>>>,
  ZcBuyingStoreEntry |-> <<<<\h0814, ZcBuyingStoreEntry_0x0814>>>>,
  ZcCMarkerinfo |-> <<<<\h09C1, ZcCMarkerinfo_0x09C1>>>> ]
Dispatch_4 == [
  ZcCancelExchangeItem |-> <<<<\h00EE, ZcCancelExchangeItem_0x00EE>>>>,
  ZcCartoff |-> <<<<\h012B, ZcCartoff_0x012B>>>>,
  ZcChangeGuild |->
    <<<<\h01B4, ZcChangeGuild_0x01B4>>, <<\h0B1F, ZcChangeGuild_0x0B1F>>,
      <<\h0B47, ZcChangeGuild_0x0B47>>>>,
  ZcChangeItemOption |->
    <<<<\h0AB9, ZcChangeItemOption_0x0AB9>>, <<\h0B43, ZcChangeItemOption_0x0B43>>>>,
  ZcChangestatePet |-> <<<<\h01A4, ZcChangestatePet_0x01A4>>>>,
  ZcCheckname |-> <<<<\h0A14, ZcCheckname_0x0A14>>, <<\h0A51, ZcCheckname_0x0A51>>>>,
  ZcClaninfo |-> <<<<\h098A, ZcClaninfo_0x098A>>>>,
  ZcClearDialog |-> <<<<\h08D6, ZcClearDialog_0x08D6>>>>,
  ZcCloseDialog |-> <<<<\h00B6, ZcCloseDialog_0x00B6>>>>,
  ZcCloseMacroDetector |-> <<<<\h0A5D, ZcCloseMacroDetector_0x0A5D>>>>,
  ZcCloseStore |-> <<<<\h00F8, ZcCloseStore_0x00F8>>>>,
  ZcCompass |-> <<<<\h0144, ZcCompass_0x0144>>>>,
  ZcCompleteUploadMacroDetectorCaptcha |-> <<>>,
  ZcCouplename |-> <<<<\h01E6, ZcCouplename_0x01E6>>>>,
  ZcCouplestatus |-> <<<<\h0141, ZcCouplestatus_0x0141>>>>,
  ZcDebugmsg |-> <<<<\h0ADB, ZcDebugmsg_0x0ADB>>>>,
  ZcDeleteItemFromBody |-> <<<<\h07FA, ZcDeleteItemFromBody_0x07FA>>>>,
  ZcDeleteItemFromCart |-> <<<<\h0125, ZcDeleteItemFromCart_0x0125>>>>,
  ZcDeleteItemFromStore |-> <<<<\h00F6, ZcDeleteItemFromStore_0x00F6>>>>,
  ZcDeleteMemberFromGroup |-> <<<<\h0105, ZcDeleteMemberFromGroup_0x0105>>>>,
  ZcDeleteitemFromMcstore |-> <<<<\h0137, ZcDeleteitemFromMcstore_0x0137>>>>,
  ZcDialogTextAlign |-> <<<<\h0BA1, ZcDialogTextAlign_0x0BA1>>>>,
  ZcDialogWindowPos |-> <<<<\h0BA3, ZcDialogWindowPos_0x0BA3>>>>,
  ZcDialogWindowPos2 |-> <<<<\h0BB5, ZcDialogWindowPos2_0x0BB5>>>>,
  ZcDialogWindowSize |-> <<<<\h0BA2, ZcDialogWindowSize_0x0BA2>>>>,
  ZcDisappearBuyingStoreEntry |-> <<<<\h0816, ZcDisappearBuyingStoreEntry_0x0816>>>>,
  ZcDynamicnpcCreateResult |-> <<<<\h0A17, ZcDynamicnpcCreateResult_0x0A17>>>>,
  ZcElParChange |-> <<<<\h081E, ZcElParChange_0x081E>>>>,
  ZcEntryQueueInit |-> <<<<\h090E, ZcEntryQueueInit_0x090E>>>>,
  ZcEquipArrow |-> <<<<\h013C, ZcEquipArrow_0x013C>>>>,
  ZcEquipitemDamaged |-> <<<<\h02BB, ZcEquipitemDamaged_0x02BB>>>>,
  ZcEquipmentEffect |-> <<<<\h0A3B, ZcEquipmentEffect_0x0A3B>>>>,
  ZcEquipwinMicroscope |->
    <<<<\h02D7, ZcEquipwinMicroscope_0x02D7>>, <<\h0859, ZcEquipwinMicroscope_0x0859>>,
      <<\h0906, ZcEquipwinMicroscope_0x0906>>, <<\h0997, ZcEquipwinMicroscope_0x0997>>,
      <<\h0A2D, ZcEquipwinMicroscope_0x0A2D>>, <<\h0B03, ZcEquipwinMicroscope_0x0B03>>,
      <<\h0B37, ZcEquipwinMicroscope_0x0B37>>>>,
  ZcExchangeitemUndo |-> <<<<\h00F1, ZcExchangeitemUndo_0x00F1>>>>,
  ZcExecExchangeItem |-> <<<<\h00F0, ZcExecExchangeItem_0x00F0>>>>,
  ZcExtendBodyitemSize |-> <<<<\h0B18, ZcExtendBodyitemSize_0x0B18>>>>,
  ZcFriendsList |-> <<<<\h0201, ZcFriendsList_0x0201>>>>,
  ZcGoldpccafePoint |-> <<<<\h0A15, ZcGoldpccafePoint_0x0A15>>>>,
  ZcGradeEnchantAck |-> <<<<\h0B5D, ZcGradeEnchantAck_0x0B5D>>>>,
  ZcGradeEnchantBroadcastResult |-> <<<<\h0B5E, ZcGradeEnchantBroadcastResult_0x0B5E>>>>,
  ZcGradeEnchantMaterialList |-> <<<<\h0B5A, ZcGradeEnchantMaterialList_0x0B5A>>>>,
  ZcGroupList |->
    <<<<\h00FB, ZcGroupList_0x00FB>>, <<\h0A44, ZcGroupList_0x0A44>>, <<\h0AE5, ZcGroupList_0x0AE5>>>>,
  ZcGuildAgitInfo |-> <<<<\h0B27, ZcGuildAgitInfo_0x0B27>>>>,
  ZcGuildEmblemImg |-> <<<<\h0152, ZcGuildEmblemImg_0x0152>>>> ]
Dispatch_5 == [
  ZcGuildInfo |->
    <<<<\h0A84, ZcGuildInfo_0x0A84>>, <<\h01B6, ZcGuildInfo_0x01B6>>, <<\h0B7B, ZcGuildInfo_0x0B7B>>>>,
  ZcGuildNotice |-> <<<<\h016F, ZcGuildNotice_0x016F>>>>,
  ZcGuildSkillinfo |-> <<<<\h0162, ZcGuildSkillinfo_0x0162>>>>,
  ZcHoParChange |-> <<<<\h07DB, ZcHoParChange_0x07DB>>>>,
  ZcHoskillinfoList |->
    <<<<\h0235, ZcHoskillinfoList_0x0235>>, <<\h029D, ZcHoskillinfoList_0x029D>>>>,
  ZcHoskillinfoUpdate |-> <<<<\h0239, ZcHoskillinfoUpdate_0x0239>>>>,
  ZcInventoryEnd |-> <<<<\h0B0B, ZcInventoryEnd_0x0B0B>>>>,
  ZcInventoryStart |-> <<<<\h0B08, ZcInventoryStart_0x0B08>>>>,
  ZcInventoryTab |-> <<<<\h0908, ZcInventoryTab_0x0908>>>>,
  ZcItemDisappear |-> <<<<\h00A1, ZcItemDisappear_0x00A1>>>>,
  ZcItemPickupParty |->
    <<<<\h02B8, ZcItemPickupParty_0x02B8>>, <<\h0B67, ZcItemPickupParty_0x0B67>>>>,
  ZcItemReformAck |-> <<<<\h0B92, ZcItemReformAck_0x0B92>>>>,
  ZcItemThrowAck |-> <<<<\h00AF, ZcItemThrowAck_0x00AF>>>>,
  ZcLonglongparChange |-> <<<<\h0ACB, ZcLonglongparChange_0x0ACB>>>>,
  ZcMakingarrowList |-> <<<<\h01AD, ZcMakingarrowList_0x01AD>>>>,
  ZcMakingitemList |-> <<<<\h025A, ZcMakingitemList_0x025A>>>>,
  ZcMembermgrInfo |-> <<<<\h0154, ZcMembermgrInfo_0x0154>>>>,
  ZcMenuList |-> <<<<\h00B7, ZcMenuList_0x00B7>>>>,
  ZcMergeItemOpen |-> <<<<\h096D, ZcMergeItemOpen_0x096D>>>>,
  ZcMillenniumshield |-> <<<<\h0440, ZcMillenniumshield_0x0440>>>>,
  ZcMoveItemFailed |-> <<<<\h0AA7, ZcMoveItemFailed_0x0AA7>>>>,
  ZcMyguildBasicInfo |-> <<<<\h014C, ZcMyguildBasicInfo_0x014C>>>>,
  ZcNotifyActorinit |-> <<<<\h0B1B, ZcNotifyActorinit_0x0B1B>>>>,
  ZcNotifyBargainSaleClose |-> <<<<\h09B3, ZcNotifyBargainSaleClose_0x09B3>>>>,
  ZcNotifyBargainSaleSelling |-> <<<<\h09B2, ZcNotifyBargainSaleSelling_0x09B2>>>>,
  ZcNotifyBindOnEquip |-> <<<<\h02D3, ZcNotifyBindOnEquip_0x02D3>>>>,
  ZcNotifyCartitemCountinfo |-> <<<<\h0121, ZcNotifyCartitemCountinfo_0x0121>>>>,
  ZcNotifyChatParty |-> <<<<\h0109, ZcNotifyChatParty_0x0109>>>>,
  ZcNotifyEffect |-> <<<<\h019B, ZcNotifyEffect_0x019B>>>>,
  ZcNotifyEffect3 |-> <<<<\h0284, ZcNotifyEffect3_0x0284>>>>,
  ZcNotifyGroundskill |-> <<<<\h0117, ZcNotifyGroundskill_0x0117>>>>,
  ZcNotifyHpToGroupm |-> <<<<\h0106, ZcNotifyHpToGroupm_0x0106>>>>,
  ZcNotifyMapinfo |-> <<<<\h0189, ZcNotifyMapinfo_0x0189>>>>,
  ZcNotifyMapproperty2 |->
    <<<<\h01D6, ZcNotifyMapproperty2_0x01D6>>, <<\h099B, ZcNotifyMapproperty2_0x099B>>>>,
  ZcNotifyMemberinfoToGroupm |-> <<<<\h0ABD, ZcNotifyMemberinfoToGroupm_0x0ABD>>>>,
  ZcNotifyPositionToGroupm |-> <<<<\h0107, ZcNotifyPositionToGroupm_0x0107>>>>,
  ZcNotifyPositionToGuildm |-> <<<<\h01EB, ZcNotifyPositionToGuildm_0x01EB>>>>,
  ZcNotifyStoreitemCountinfo |-> <<<<\h00F2, ZcNotifyStoreitemCountinfo_0x00F2>>>>,
  ZcNpcBarterMarketIteminfo |-> <<<<\h0B0E, ZcNpcBarterMarketIteminfo_0x0B0E>>>>,
  ZcNpcMarketOpen |-> <<<<\h09D5, ZcNpcMarketOpen_0x09D5>>>>,
  ZcNpcMarketPurchaseResult |-> <<<<\h09D7, ZcNpcMarketPurchaseResult_0x09D7>>>>,
  ZcNpcShowefstUpdate |-> <<<<\h028A, ZcNpcShowefstUpdate_0x028A>>>>,
  ZcOpenEditdlg |-> <<<<\h0142, ZcOpenEditdlg_0x0142>>>>,
  ZcOpenEditdlgstr |-> <<<<\h01D4, ZcOpenEditdlgstr_0x01D4>>>>,
  ZcOpenRefiningUi |-> <<<<\h0AA0, ZcOpenRefiningUi_0x0AA0>>>>,
  ZcOpenReformUi |-> <<<<\h0B8F, ZcOpenReformUi_0x0B8F>>>>,
  ZcOpenSearchStoreInfo |-> <<<<\h083A, ZcOpenSearchStoreInfo_0x083A>>>>,
  ZcOpenstore |-> <<<<\h012D, ZcOpenstore_0x012D>>>> ]
Dispatch_6 == [
  ZcParChangeUser |-> <<<<\h01AB, ZcParChangeUser_0x01AB>>>>,
  ZcPartyConfig |-> <<<<\h02C9, ZcPartyConfig_0x02C9>>>>,
  ZcPartyJoinReq |-> <<<<\h02C6, ZcPartyJoinReq_0x02C6>>, <<\h00FE, ZcPartyJoinReq_0x00FE>>>>,
  ZcPartyJoinReqAck |->
    <<<<\h02C5, ZcPartyJoinReqAck_0x02C5>>, <<\h00FD, ZcPartyJoinReqAck_0x00FD>>>>,
  ZcPcPurchaseItemlistFrommc |->
    <<<<\h0133, ZcPcPurchaseItemlistFrommc_0x0133>>, <<\h0B3D, ZcPcPurchaseItemlistFrommc_0x0B3D>>>>,
  ZcPcPurchaseMyitemlist |->
    <<<<\h0136, ZcPcPurchaseMyitemlist_0x0136>>, <<\h0B40, ZcPcPurchaseMyitemlist_0x0B40>>>>,
  ZcPcPurchaseResult |-> <<<<\h00CA, ZcPcPurchaseResult_0x00CA>>>>,
  ZcPcPurchaseResultFrommc |-> <<<<\h0135, ZcPcPurchaseResultFrommc_0x0135>>>>,
  ZcPcSellItemlist |-> <<<<\h00C7, ZcPcSellItemlist_0x00C7>>>>,
  ZcPersonalInfomation |-> <<<<\h08CB, ZcPersonalInfomation_0x08CB>>>>,
  ZcPingLive |-> <<<<\h0B1D, ZcPingLive_0x0B1D>>>>,
  ZcPlayNpcBgm |-> <<<<\h07FE, ZcPlayNpcBgm_0x07FE>>>>,
  ZcPositionIdNameInfo |-> <<<<\h0166, ZcPositionIdNameInfo_0x0166>>>>,
  ZcPositionInfo |-> <<<<\h0160, ZcPositionInfo_0x0160>>>>,
  ZcPreviewMacroDetectorCaptcha |-> <<<<\h0A6B, ZcPreviewMacroDetectorCaptcha_0x0A6B>>>>,
  ZcPropertyHomun |-> <<<<\h022E, ZcPropertyHomun_0x022E>>>>,
  ZcRandomCombineItemUiOpen |-> <<<<\h0A4E, ZcRandomCombineItemUiOpen_0x0A4E>>>>,
  ZcRandomUpgradeItemUiOpen |-> <<<<\h0AB4, ZcRandomUpgradeItemUiOpen_0x0AB4>>>>,
  ZcRecovery |-> <<<<\h013D, ZcRecovery_0x013D>>>>,
  ZcRefiningMaterialList |-> <<<<\h0AA2, ZcRefiningMaterialList_0x0AA2>>>>,
  ZcRefuseEnterRoom |-> <<<<\h00DA, ZcRefuseEnterRoom_0x00DA>>>>,
  ZcRepairitemlist |->
    <<<<\h01FC, ZcRepairitemlist_0x01FC>>, <<\h0B65, ZcRepairitemlist_0x0B65>>>>,
  ZcReputeInfo |-> <<<<\h0B8D, ZcReputeInfo_0x0B8D>>>>,
  ZcReqAckAgitInvestment |-> <<<<\h0B2D, ZcReqAckAgitInvestment_0x0B2D>>>>,
  ZcReqAckMoveGuildAgit |-> <<<<\h0B2E, ZcReqAckMoveGuildAgit_0x0B2E>>>>,
  ZcReqAnswerMacroDetector |-> <<<<\h0A5B, ZcReqAnswerMacroDetector_0x0A5B>>>>,
  ZcReqJoinGuild |-> <<<<\h016A, ZcReqJoinGuild_0x016A>>>>,
  ZcReqTakeoffEquipAck |->
    <<<<\h00AC, ZcReqTakeoffEquipAck_0x00AC>>, <<\h08D1, ZcReqTakeoffEquipAck_0x08D1>>,
      <<\h099A, ZcReqTakeoffEquipAck_0x099A>>>>,
  ZcReqWearEquipAck |->
    <<<<\h0999, ZcReqWearEquipAck_0x0999>>, <<\h00AA, ZcReqWearEquipAck_0x00AA>>>>,
  ZcResponseEnchant |-> <<<<\h0B9F, ZcResponseEnchant_0x0B9F>>>>,
  ZcRestartAck |-> <<<<\h00B3, ZcRestartAck_0x00B3>>>>,
  ZcResultMakeGuild |-> <<<<\h0167, ZcResultMakeGuild_0x0167>>>>,
  ZcResurrection |-> <<<<\h0148, ZcResurrection_0x0148>>>>,
  ZcRoleChange |-> <<<<\h00E1, ZcRoleChange_0x00E1>>>>,
  ZcSayDialog |-> <<<<\h00B4, ZcSayDialog_0x00B4>>>>,
  ZcSeCashshopOpen |-> <<<<\h0845, ZcSeCashshopOpen_0x0845>>>>,
  ZcSePcBuyCashitemResult |-> <<<<\h0849, ZcSePcBuyCashitemResult_0x0849>>>>,
  ZcSearchStoreInfoAck |->
    <<<<\h0836, ZcSearchStoreInfoAck_0x0836>>, <<\h0B64, ZcSearchStoreInfoAck_0x0B64>>>>,
  ZcSearchStoreInfoFailed |-> <<<<\h0837, ZcSearchStoreInfoFailed_0x0837>>>>,
  ZcSelectDealtype |-> <<<<\h00C4, ZcSelectDealtype_0x00C4>>>>,
  ZcShortcutKeyList |->
    <<<<\h02B9, ZcShortcutKeyList_0x02B9>>, <<\h07D9, ZcShortcutKeyList_0x07D9>>,
      <<\h0A00, ZcShortcutKeyList_0x0A00>>, <<\h0B20, ZcShortcutKeyList_0x0B20>>>>,
  ZcShowImage |-> <<<<\h01B3, ZcShowImage_0x01B3>>>>,
  ZcSkillDisappear |-> <<<<\h0120, ZcSkillDisappear_0x0120>>>>,
  ZcSkillSelectRequest |-> <<<<\h0442, ZcSkillSelectRequest_0x0442>>>>,
  ZcSkillUpdate |-> <<<<\h01AC, ZcSkillUpdate_0x01AC>>>> ]
Dispatch_7 == [
  ZcSkillinfoUpdate2 |->
    <<<<\h07E1, ZcSkillinfoUpdate2_0x07E1>>, <<\h0B33, ZcSkillinfoUpdate2_0x0B33>>>>,
  ZcSoulenergy |-> <<<<\h0B73, ZcSoulenergy_0x0B73>>>>,
  ZcSound |-> <<<<\h01D3, ZcSound_0x01D3>>>>,
  ZcSpecialpopup |-> <<<<\h0BBE, ZcSpecialpopup_0x0BBE>>>>,
  ZcSpirits |-> <<<<\h01D0, ZcSpirits_0x01D0>>>>,
  ZcSpirits2 |-> <<<<\h01E1, ZcSpirits2_0x01E1>>>>,
  ZcSpiritsAttribute |-> <<<<\h08CF, ZcSpiritsAttribute_0x08CF>>>>,
  ZcSsilistItemClickAck |-> <<<<\h083D, ZcSsilistItemClickAck_0x083D>>>>,
  ZcStartCapture |-> <<<<\h019E, ZcStartCapture_0x019E>>>>,
  ZcStateChange |-> <<<<\h0119, ZcStateChange_0x0119>>, <<\h0229, ZcStateChange_0x0229>>>>,
  ZcStatus |-> <<<<\h00BD, ZcStatus_0x00BD>>>>,
  ZcStatusChangeAck |-> <<<<\h00BC, ZcStatusChangeAck_0x00BC>>>>,
  ZcStopmove |-> <<<<\h0088, ZcStopmove_0x0088>>>>,
  ZcSummonHpInit |-> <<<<\h0B6B, ZcSummonHpInit_0x0B6B>>>>,
  ZcSummonHpUpdate |-> <<<<\h0B6C, ZcSummonHpUpdate_0x0B6C>>>>,
  ZcTalkboxChatcontents |-> <<<<\h0191, ZcTalkboxChatcontents_0x0191>>>>,
  ZcTargetSpirits |-> <<<<\h0B68, ZcTargetSpirits_0x0B68>>>>,
  ZcTrycaptureMonster |-> <<<<\h01A0, ZcTrycaptureMonster_0x01A0>>>>,
  ZcUiOpen |-> <<<<\h0A38, ZcUiOpen_0x0A38>>>>,
  ZcUiOpen2 |-> <<<<\h0B9A, ZcUiOpen2_0x0B9A>>>>,
  ZcUpdateCardslot |-> <<<<\h0A3F, ZcUpdateCardslot_0x0A3F>>>>,
  ZcUpdateGdid |-> <<<<\h016C, ZcUpdateGdid_0x016C>>>>,
  ZcUseskillAck |-> <<<<\h013E, ZcUseskillAck_0x013E>>>>,
  ZcViewCamerainfo |-> <<<<\h0A78, ZcViewCamerainfo_0x0A78>>>>,
  ZcWaitDialog |-> <<<<\h00B5, ZcWaitDialog_0x00B5>>>> ]

receiveDispatch ==
  Dispatch_1 @@ Dispatch_2 @@ Dispatch_3 @@ Dispatch_4 @@ Dispatch_5 @@ Dispatch_6 @@ Dispatch_7
==============================================================================
