--------------------------- MODULE EncodeTable ---------------------------
(*
The client-to-server encoders of pkg/encode and their registration
  (pkg/encode/register.go, RegisterSendEncoder in pkg/session/semantic.go).
  The values of the fields are left out: an encoder is where it writes.
*)
EXTENDS Integers, Sequences, TLC

\* The packet ID an arm writes: a literal, or the shuffled ID of a base.
Id(n) == [shuffled |-> FALSE, n |-> n]
Shuffled(base) == [shuffled |-> TRUE, n |-> base]

\* An arm of an encoder: from which packetver it applies, the ID it writes, the size of the
\* packet (of its fixed part, when the packet is variable) and the byte ranges it writes
\* after the ID, in the order of the writes. A slice of the request copied without a limit
\* may reach the end of the packet.
Fixed(from, id, size, writes) ==
  [from |-> from, id |-> id, size |-> size, variable |-> FALSE, writes |-> writes]
Variable(from, id, size, writes) ==
  [from |-> from, id |-> id, size |-> size, variable |-> TRUE, writes |-> writes]

\* No arm applies: the encoder panics.
Panic(from) == [from |-> from, id |-> Id(0), size |-> 0, variable |-> FALSE, writes |-> <<>>]

\* One ladder per encoder, newest arm first.
EncodeActorAction ==
  << Fixed(20130515, Shuffled(\h0089), 7, <<<<2, 6>>>>),
     Fixed(20130320, Id(\h088E), 7, <<<<2, 6>>>>), Fixed(20120702, Id(\h085A), 7, <<<<2, 6>>>>),
     Fixed(20120410, Id(\h0369), 7, <<<<2, 6>>>>), Fixed(20120307, Id(\h0885), 7, <<<<2, 6>>>>),
     Fixed(20111102, Id(\h08AA), 7, <<<<2, 6>>>>), Fixed(20080910, Id(\h0437), 7, <<<<2, 6>>>>),
     Fixed(20050110, Id(\h0190), 7, <<<<2, 6>>>>), Fixed(20041129, Id(\h009F), 7, <<<<2, 6>>>>),
     Fixed(20040906, Id(\h0085), 7, <<<<2, 6>>>>), Fixed(20040726, Id(\h0193), 7, <<<<2, 6>>>>),
     Fixed(0, Id(\h0089), 7, <<<<2, 6>>>>) >>
EncodeAutoSpell == << Fixed(0, Id(\h01CE), 6, <<<<2, 5>>>>) >>
EncodeBattleChat == << Variable(0, Id(\h02DB), 4, <<<<2, 3>>>>) >>
EncodeCaConnectInfoChanged == << Fixed(0, Id(\h0200), 26, <<<<2, 25>>>>) >>
EncodeCaExeHashcheck == << Fixed(0, Id(\h0204), 18, <<<<2, 17>>>>) >>
EncodeCaLogin2 == << Fixed(0, Id(\h01DD), 47, <<<<2, 46>>>>) >>
EncodeCaLogin3 == << Fixed(0, Id(\h01FA), 48, <<<<2, 47>>>>) >>
EncodeCaLogin4 == << Fixed(0, Id(\h027C), 60, <<<<2, 59>>>>) >>
EncodeCaLoginChannel == << Fixed(0, Id(\h02B0), 85, <<<<2, 84>>>>) >>
EncodeCaLoginPcbang == << Fixed(0, Id(\h0277), 84, <<<<2, 83>>>>) >>
EncodeCaReqHash == << Fixed(0, Id(\h01DB), 2, <<>>) >>
EncodeCaSsoLoginReq == << Variable(0, Id(\h0825), 92, <<<<2, 91>>>>) >>
EncodeCancelLockon == << Fixed(0, Id(\h0118), 2, <<>>) >>
EncodeCatchPet == << Fixed(0, Id(\h019F), 6, <<<<2, 5>>>>) >>
EncodeChangeCart == << Fixed(0, Id(\h01AF), 4, <<<<2, 3>>>>) >>
EncodeCharCreate == << Fixed(0, Id(\h0067), 37, <<<<2, 36>>>>) >>
EncodeCharDelete == << Fixed(0, Id(\h0068), 46, <<<<2, 45>>>>) >>
EncodeCharacterMove == << Fixed(0, Id(\h035F), 5, <<<<2, 4>>>>) >>
EncodeCloseStorage == << Fixed(0, Id(\h00F7), 2, <<>>) >>
EncodeCloseVending == << Fixed(0, Id(\h012E), 2, <<>>) >>
EncodeCzAckAnswerMacroDetector == << Fixed(0, Id(\h0A5C), 18, <<<<2, 17>>>>) >>
EncodeCzAdvancedStatusChange == << Fixed(0, Id(\h0B24), 6, <<<<2, 5>>>>) >>
EncodeCzAdventurerAgencyJoinReq == << Fixed(0, Id(\h0AE6), 10, <<<<2, 9>>, <<6, 9>>>>) >>
EncodeCzAdventurerAgencyJoinResult ==
  << Fixed(0, Id(\h0AF8), 11, <<<<2, 10>>, <<6, 10>>, <<10, 10>>>>) >>
EncodeCzApproximateActor == << Fixed(0, Id(\h0BB0), 9, <<<<2, 8>>>>) >>
EncodeCzCheckname1 == << Fixed(0, Id(\h0A13), 26, <<<<2, 25>>>>) >>
EncodeCzCheckname2 == << Fixed(0, Id(\h0B97), 27, <<<<2, 26>>>>) >>
EncodeCzChooseMenuZero == << Fixed(0, Id(\h0BA8), 7, <<<<2, 6>>>>) >>
EncodeCzClientVersion == << Fixed(0, Id(\h044A), 6, <<<<2, 5>>>>) >>
EncodeCzCloseMsgboxExtendBodyitemSize == << Fixed(0, Id(\h0B19), 2, <<>>) >>
EncodeCzCloseRefiningUi == << Fixed(0, Id(\h0AA4), 2, <<>>) >>
EncodeCzCloseReformUi == << Fixed(0, Id(\h0B90), 2, <<>>) >>
EncodeCzCloseUiEnchant == << Fixed(0, Id(\h0BA0), 2, <<>>) >>
EncodeCzCloseUiStylingshop == << Fixed(0, Id(\h0A48), 2, <<>>) >>
EncodeCzCmdResetcooltime == << Fixed(0, Id(\h0A88), 2, <<>>) >>
EncodeCzCompleteApplyMacroDetectorCaptcha == << Fixed(0, Id(\h0A5A), 2, <<>>) >>
EncodeCzDynamicnpcCreateRequest == << Fixed(0, Id(\h0A16), 26, <<<<2, 25>>>>) >>
EncodeCzGetAccountLimtiedSaleList == << Fixed(0, Id(\h0B4C), 2, <<>>) >>
EncodeCzGradeEnchantCloseUi == << Fixed(0, Id(\h0B5C), 2, <<>>) >>
EncodeCzGradeEnchantRequest == << Fixed(0, Id(\h0B5B), 14, <<<<2, 13>>, <<8, 13>>, <<13, 13>>>>) >>
EncodeCzGradeEnchantSelectEquipment == << Fixed(0, Id(\h0B59), 4, <<<<2, 3>>>>) >>
EncodeCzInventoryTab == << Fixed(0, Id(\h0907), 5, <<<<2, 4>>>>) >>
EncodeCzItemReform == << Fixed(0, Id(\h0B91), 8, <<<<2, 7>>>>) >>
EncodeCzJoinGuild == << Fixed(0, Id(\h016B), 10, <<<<2, 9>>>>) >>
EncodeCzMoveItemFromBodyToCart == << Fixed(0, Id(\h0126), 8, <<<<2, 7>>>>) >>
EncodeCzNpcBarterMarketClose == << Fixed(0, Id(\h0B12), 2, <<>>) >>
EncodeCzNpcBarterMarketPurchase == << Variable(0, Id(\h0B0F), 4, <<<<2, 3>>>>) >>
EncodeCzNpcExpandedBarterMarketClose == << Fixed(0, Id(\h0B58), 2, <<>>) >>
EncodeCzNpcExpandedBarterMarketPurchase == << Variable(0, Id(\h0B57), 4, <<<<2, 3>>>>) >>
EncodeCzPartyConfig == << Fixed(0, Id(\h02C8), 3, <<<<2, 2>>>>) >>
EncodeCzPartyJoinReq == << Fixed(0, Id(\h02C4), 26, <<<<2, 25>>>>) >>
EncodeCzPartyJoinReqAck == << Fixed(0, Id(\h02C7), 7, <<<<2, 6>>>>) >>
EncodeCzPcPurchaseItemlistFrommc == << Variable(0, Id(\h0134), 8, <<<<2, 7>>>>) >>
EncodeCzPcPurchaseItemlistFrommc2 == << Variable(0, Id(\h0801), 12, <<<<2, 11>>>>) >>
EncodeCzPingLive == << Fixed(0, Id(\h0B1C), 2, <<>>) >>
EncodeCzRandomCombineItemUiClose == << Fixed(0, Id(\h0A70), 2, <<>>) >>
EncodeCzRandomUpgradeItemUiClose == << Fixed(0, Id(\h0AB5), 2, <<>>) >>
EncodeCzRefiningSelectItem == << Fixed(0, Id(\h0AA1), 4, <<<<2, 3>>>>) >>
EncodeCzReqAgitInvestment == << Fixed(0, Id(\h0B2C), 3, <<<<2, 2>>>>) >>
EncodeCzReqApplyBargainSaleItem == << Fixed(0, Id(\h09AE), 17, <<<<2, 16>>>>) >>
EncodeCzReqApplyMacroDetector == << Fixed(0, Id(\h0A56), 6, <<<<2, 5>>>>) >>
EncodeCzReqBanGuild == << Fixed(0, Id(\h015B), 54, <<<<2, 53>>>>) >>
EncodeCzReqCashBargainSaleItemInfo == << Fixed(0, Id(\h09AC), 10, <<<<2, 9>>>>) >>
EncodeCzReqChangeMemberpos == << Variable(0, Id(\h0155), 4, <<<<2, 3>>>>) >>
EncodeCzReqDisorganizeGuild == << Fixed(0, Id(\h015D), 42, <<<<2, 41>>>>) >>
EncodeCzReqExtendBodyitemSize == << Fixed(0, Id(\h0B16), 2, <<>>) >>
EncodeCzReqGuildEmblemImg1 == << Fixed(0, Id(\h0151), 6, <<<<2, 5>>>>) >>
EncodeCzReqGuildEmblemImg2 == << Fixed(0, Id(\h0B1E), 14, <<<<2, 13>>>>) >>
EncodeCzReqGuildEmblemImg3 == << Fixed(0, Id(\h0B46), 10, <<<<2, 9>>>>) >>
EncodeCzReqItemrepair2 == << Fixed(0, Id(\h0B66), 26, <<<<2, 25>>>>) >>
EncodeCzReqJoinGuild == << Fixed(0, Id(\h0168), 14, <<<<2, 13>>>>) >>
EncodeCzReqJoinGuild2 == << Fixed(0, Id(\h0916), 26, <<<<2, 25>>>>) >>
EncodeCzReqLeaveGuild == << Fixed(0, Id(\h0159), 54, <<<<2, 53>>>>) >>
EncodeCzReqMakingarrow == << Fixed(0, Id(\h01AE), 4, <<<<2, 3>>>>) >>
EncodeCzReqMergeItem == << Variable(0, Id(\h096E), 4, <<<<2, 3>>>>) >>
EncodeCzReqMoveGuildAgit == << Fixed(0, Id(\h0B28), 3, <<<<2, 2>>>>) >>
EncodeCzReqOpenMsgboxExtendBodyitemSize == << Fixed(0, Id(\h0B14), 2, <<>>) >>
EncodeCzReqPlayerAidInRange == << Fixed(0, Id(\h0A6C), 7, <<<<2, 6>>>>) >>
EncodeCzReqPreviewMacroDetector == << Fixed(0, Id(\h0A69), 6, <<<<2, 5>>>>) >>
EncodeCzReqRandomCombineItem == << Variable(0, Id(\h0A4F), 8, <<<<2, 7>>>>) >>
EncodeCzReqRandomUpgradeItem == << Fixed(0, Id(\h0AB6), 8, <<<<2, 7>>>>) >>
EncodeCzReqRefining == << Fixed(0, Id(\h0AA3), 9, <<<<2, 8>>>>) >>
EncodeCzReqRemaintime == << Fixed(0, Id(\h01C0), 2, <<>>) >>
EncodeCzReqRemoveBargainSaleItem == << Fixed(0, Id(\h09B0), 8, <<<<2, 7>>>>) >>
EncodeCzReqSeCashTabCode == << Fixed(0, Id(\h0846), 4, <<<<2, 3>>>>) >>
EncodeCzReqTakeoffEquipAll ==
  << Fixed(20230906, Id(\h0BF5), 6, <<<<2, 5>>>>), Fixed(20210818, Id(\h0BAD), 2, <<>>), Panic(0) >>
EncodeCzReqUploadMacroDetector == << Fixed(0, Id(\h0A52), 20, <<<<2, 19>>>>) >>
EncodeCzRequestPerfectEnchant == << Fixed(0, Id(\h0B9C), 16, <<<<10, 15>>>>) >>
EncodeCzRequestRandomEnchant == << Fixed(0, Id(\h0B9B), 12, <<<<10, 11>>>>) >>
EncodeCzRequestResetEnchant == << Fixed(0, Id(\h0B9E), 12, <<<<10, 11>>>>) >>
EncodeCzRequestUpgradeEnchant == << Fixed(0, Id(\h0B9D), 14, <<<<10, 13>>>>) >>
EncodeCzResetSkill == << Fixed(0, Id(\h0BB1), 3, <<<<2, 2>>>>) >>
EncodeCzRodexReturn == << Fixed(0, Id(\h0B98), 6, <<<<2, 5>>>>) >>
EncodeCzSeCashshopOpen1 == << Fixed(0, Id(\h0844), 2, <<>>) >>
EncodeCzSeCashshopOpen2 == << Fixed(0, Id(\h0B6D), 6, <<<<2, 5>>>>) >>
EncodeCzSePcBuyCashitemList == << Variable(0, Id(\h0848), 10, <<<<2, 9>>>>) >>
EncodeCzShortcutKeyChange1 == << Fixed(0, Id(\h02BA), 11, <<<<2, 10>>>>) >>
EncodeCzShortcutKeyChange2 == << Fixed(0, Id(\h0B21), 13, <<<<2, 12>>>>) >>
EncodeCzShortcutkeybarRotate1 == << Fixed(0, Id(\h0A01), 3, <<<<2, 2>>>>) >>
EncodeCzShortcutkeybarRotate2 == << Fixed(0, Id(\h0B22), 5, <<<<2, 4>>>>) >>
EncodeCzUninstallation == << Fixed(0, Id(\h0B35), 3, <<<<2, 2>>>>) >>
EncodeCzUploadMacroDetectorCaptcha == << Variable(0, Id(\h0A54), 8, <<<<2, 7>>>>) >>
EncodeCzUsePackageitem == << Fixed(0, Id(\h0BAF), 16, <<<<2, 15>>>>) >>
EncodeCzUseSkillEnd == << Fixed(0, Id(\h0B11), 4, <<<<2, 3>>>>) >>
EncodeCzUseSkillStart == << Fixed(0, Id(\h0B10), 10, <<<<2, 9>>>>) >>
EncodeCzViewCamerainfo == << Fixed(0, Id(\h0A77), 15, <<<<2, 14>>, <<7, 14>>, <<11, 14>>>>) >>
EncodeDealAddOther == << Fixed(0, Id(\h00E8), 8, <<<<2, 7>>>>) >>
EncodeDealCancel == << Fixed(0, Id(\h00ED), 2, <<>>) >>
EncodeDealFinalize == << Fixed(0, Id(\h00EB), 2, <<>>) >>
EncodeDealInitiate == << Fixed(0, Id(\h00E4), 6, <<<<2, 5>>>>) >>
EncodeDealReply == << Fixed(0, Id(\h00E6), 3, <<<<2, 2>>>>) >>
EncodeDealTrade == << Fixed(0, Id(\h00EF), 2, <<>>) >>
EncodeDropItem ==
  << Fixed(20130515, Shuffled(\h00A2), 6, <<<<2, 5>>>>),
     Fixed(20130320, Id(\h0438), 6, <<<<2, 5>>>>), Fixed(20120702, Id(\h089E), 6, <<<<2, 5>>>>),
     Fixed(20120418, Id(\h0362), 6, <<<<2, 5>>>>), Fixed(20120307, Id(\h02C4), 6, <<<<2, 5>>>>),
     Fixed(20111005, Id(\h0885), 6, <<<<2, 5>>>>), Fixed(20101124, Id(\h0363), 6, <<<<2, 5>>>>),
     Fixed(0, Id(\h00A2), 6, <<<<2, 5>>>>) >>
EncodeEmote == << Fixed(0, Id(\h00BF), 3, <<<<2, 2>>>>) >>
EncodeEnterWorld == << Fixed(0, Id(\h007D), 2, <<>>) >>
EncodeEquipItem == << Fixed(0, Id(\h00A9), 6, <<<<2, 5>>>>) >>
EncodeFriendsAdd ==
  << Fixed(20130515, Shuffled(\h0202), 26, <<<<2, 25>>>>), Fixed(0, Id(\h0202), 26, <<<<2, 25>>>>) >>
EncodeFriendsRemove == << Fixed(0, Id(\h0203), 10, <<<<2, 9>>>>) >>
EncodeFriendsReply == << Fixed(0, Id(\h0208), 14, <<<<2, 13>>>>) >>
EncodeGameLogin == << Fixed(20030000, Id(\h0065), 17, <<<<2, 16>>>>), Panic(0) >>
EncodeGetItemFromCart == << Fixed(0, Id(\h0127), 8, <<<<2, 7>>>>) >>
EncodeGuildChat == << Variable(0, Id(\h017E), 4, <<<<2, 3>>>>) >>
EncodeHomunculusAttack == << Fixed(0, Id(\h0233), 11, <<<<2, 10>>>>) >>
EncodeHomunculusMenu == << Fixed(0, Id(\h022D), 5, <<<<2, 4>>>>) >>
EncodeIgnoreListReq == << Fixed(0, Id(\h00D3), 2, <<>>) >>
EncodeInsertCard == << Fixed(0, Id(\h017C), 6, <<<<2, 5>>>>) >>
EncodeItemIdentify == << Fixed(0, Id(\h0178), 4, <<<<2, 3>>>>) >>
EncodeItemUse ==
  << Fixed(20080910, Id(\h0439), 8, <<<<2, 7>>>>), Fixed(20030000, Id(\h00A7), 8, <<<<2, 7>>>>),
     Panic(0) >>
EncodeLook ==
  << Fixed(20130515, Shuffled(\h009B), 5, <<<<2, 4>>>>),
     Fixed(20130320, Id(\h0897), 5, <<<<2, 4>>>>), Fixed(20120702, Id(\h0960), 5, <<<<2, 4>>>>),
     Fixed(20120418, Id(\h0202), 5, <<<<2, 4>>>>), Fixed(20120410, Id(\h0871), 5, <<<<2, 4>>>>),
     Fixed(20120307, Id(\h0890), 5, <<<<2, 4>>>>), Fixed(20111005, Id(\h0366), 5, <<<<2, 4>>>>),
     Fixed(20101124, Id(\h0361), 5, <<<<2, 4>>>>), Fixed(0, Id(\h009B), 5, <<<<2, 4>>>>) >>
EncodeMapLogin ==
  << Fixed(20220330, Id(\h0436), 23, <<<<2, 17>>, <<22, 22>>>>),
     Fixed(20211119, Id(\h0436), 19, <<<<2, 18>>>>),
     Fixed(20211103, Id(\h0436), 23, <<<<2, 17>>, <<22, 22>>>>),
     Fixed(0, Id(\h0436), 19, <<<<2, 18>>>>) >>
EncodeMarketPurchase == << Variable(0, Id(\h09D6), 4, <<<<2, 3>>>>) >>
EncodeMasterLogin == << Fixed(0, Id(\h0064), 55, <<<<2, 54>>>>) >>
EncodeMoveFromStorage ==
  << Fixed(20130515, Shuffled(\h00F5), 8, <<<<2, 7>>>>),
     Fixed(20130320, Id(\h0874), 8, <<<<2, 7>>>>), Fixed(20120702, Id(\h0861), 8, <<<<2, 7>>>>),
     Fixed(20120418, Id(\h0364), 8, <<<<2, 7>>>>), Fixed(20120410, Id(\h08A6), 8, <<<<2, 7>>>>),
     Fixed(20120307, Id(\h0963), 8, <<<<2, 7>>>>), Fixed(20111005, Id(\h0897), 8, <<<<2, 7>>>>),
     Fixed(20101124, Id(\h0365), 8, <<<<2, 7>>>>), Fixed(0, Id(\h00F5), 8, <<<<2, 7>>>>) >>
EncodeMoveTo ==
  << Fixed(20130515, Shuffled(\h0085), 5, <<<<2, 4>>>>),
     Fixed(20130320, Id(\h0881), 5, <<<<2, 4>>>>), Fixed(20120702, Id(\h0953), 5, <<<<2, 4>>>>),
     Fixed(20120307, Id(\h0437), 5, <<<<2, 4>>>>), Fixed(20111005, Id(\h0364), 5, <<<<2, 4>>>>),
     Fixed(20101124, Id(\h035F), 5, <<<<2, 4>>>>), Fixed(20041129, Id(\h00A7), 5, <<<<2, 4>>>>),
     Fixed(20040906, Id(\h0089), 5, <<<<2, 4>>>>), Fixed(20040726, Id(\h009B), 5, <<<<2, 4>>>>),
     Fixed(0, Id(\h0085), 5, <<<<2, 4>>>>) >>
EncodeMoveToStorage ==
  << Fixed(20130515, Shuffled(\h00F3), 8, <<<<2, 7>>>>),
     Fixed(20130320, Id(\h08AC), 8, <<<<2, 7>>>>), Fixed(20120702, Id(\h08A0), 8, <<<<2, 7>>>>),
     Fixed(20120418, Id(\h07EC), 8, <<<<2, 7>>>>), Fixed(20120410, Id(\h086C), 8, <<<<2, 7>>>>),
     Fixed(20120307, Id(\h093B), 8, <<<<2, 7>>>>), Fixed(20111005, Id(\h0893), 8, <<<<2, 7>>>>),
     Fixed(20101124, Id(\h0364), 8, <<<<2, 7>>>>), Fixed(0, Id(\h00F3), 8, <<<<2, 7>>>>) >>
EncodeNpcContact == << Fixed(0, Id(\h0090), 7, <<<<2, 6>>>>) >>
EncodeNpcMarketClose == << Fixed(0, Id(\h09D8), 2, <<>>) >>
EncodeNpcMenuResponse == << Fixed(0, Id(\h00B8), 7, <<<<2, 6>>>>) >>
EncodeNpcTalkClose == << Fixed(0, Id(\h0146), 6, <<<<2, 5>>>>) >>
EncodeNpcTalkContinue == << Fixed(0, Id(\h00B9), 6, <<<<2, 5>>>>) >>
EncodeNpcTalkNumber == << Fixed(0, Id(\h0143), 10, <<<<2, 9>>>>) >>
EncodeNpcTalkText == << Variable(0, Id(\h01D5), 8, <<<<2, 7>>>>) >>
EncodeNpcTradeQuit == << Fixed(0, Id(\h09D4), 2, <<>>) >>
EncodePartyChangeOption == << Fixed(0, Id(\h0102), 6, <<<<2, 5>>>>) >>
EncodePartyChat == << Variable(0, Id(\h0108), 4, <<<<2, 3>>>>) >>
EncodePartyCreate == << Fixed(0, Id(\h00F9), 26, <<<<2, 25>>>>) >>
EncodePartyInvite == << Fixed(0, Id(\h00FC), 6, <<<<2, 5>>>>) >>
EncodePartyKick == << Fixed(0, Id(\h0103), 30, <<<<2, 29>>>>) >>
EncodePartyLeave == << Fixed(0, Id(\h0100), 2, <<>>) >>
EncodePetMenu == << Fixed(0, Id(\h01A1), 3, <<<<2, 2>>>>) >>
EncodePickupItem ==
  << Fixed(20130515, Shuffled(\h009F), 6, <<<<2, 5>>>>),
     Fixed(20130320, Id(\h0933), 6, <<<<2, 5>>>>), Fixed(20120702, Id(\h089F), 6, <<<<2, 5>>>>),
     Fixed(20120418, Id(\h07E4), 6, <<<<2, 5>>>>), Fixed(20120410, Id(\h0938), 6, <<<<2, 5>>>>),
     Fixed(20120307, Id(\h0865), 6, <<<<2, 5>>>>), Fixed(20111005, Id(\h0815), 6, <<<<2, 5>>>>),
     Fixed(20101124, Id(\h0362), 6, <<<<2, 5>>>>), Fixed(0, Id(\h009F), 6, <<<<2, 5>>>>) >>
EncodePinCodeResponse == << Fixed(0, Id(\h08B8), 10, <<<<2, 9>>>>) >>
EncodePublicChat ==
  << Variable(20040726, Id(\h00F3), 4, <<<<2, 3>>>>), Variable(0, Id(\h008C), 4, <<<<2, 3>>>>) >>
EncodeQuitGame == << Fixed(0, Id(\h018A), 4, <<<<2, 3>>>>) >>
EncodeRemoveOption == << Fixed(0, Id(\h012A), 2, <<>>) >>
\* The widened packet with the old size.
EncodeRepairItem_Narrow == << Fixed(20191224, Id(\h0B66), 25, <<<<2, 25>>>>), Fixed(0, Id(\h01FD), 15, <<<<2, 14>>>>) >>
EncodeRepairItem ==
  << Fixed(20191224, Id(\h0B66), 26, <<<<2, 25>>>>), Fixed(20181121, Id(\h01FD), 25, <<<<2, 24>>>>),
     Fixed(0, Id(\h01FD), 15, <<<<2, 14>>>>) >>
EncodeRequestBuySellList == << Fixed(0, Id(\h00C5), 7, <<<<2, 6>>>>) >>
EncodeRequestCharacterPage == << Fixed(0, Id(\h09A1), 2, <<>>) >>
EncodeRequestMemo == << Fixed(0, Id(\h011D), 2, <<>>) >>
EncodeRestart == << Fixed(0, Id(\h00B2), 3, <<<<2, 2>>>>) >>
EncodeSelectAccessibleMap == << Fixed(0, Id(\h0841), 4, <<<<2, 3>>>>) >>
EncodeSelectCharacter == << Fixed(0, Id(\h0066), 3, <<<<2, 2>>>>) >>
EncodeSelectEgg == << Fixed(0, Id(\h01A7), 4, <<<<2, 3>>>>) >>
EncodeSendEmotion == << Fixed(0, Id(\h01A9), 6, <<<<2, 5>>>>) >>
EncodeSetWhisperState == << Fixed(0, Id(\h00CF), 27, <<<<2, 26>>>>) >>
EncodeShopBuy == << Variable(0, Id(\h00C8), 4, <<<<2, 3>>>>) >>
EncodeShopSell == << Variable(0, Id(\h00C9), 4, <<<<2, 3>>>>) >>
EncodeSkillUp == << Fixed(0, Id(\h0112), 4, <<<<2, 3>>>>) >>
EncodeSkillUse ==
  << Fixed(20200401, Id(\h0862), 10, <<<<2, 9>>>>), Fixed(20030000, Id(\h0113), 10, <<<<2, 9>>>>),
     Panic(0) >>
EncodeSkillUseLocation ==
  << Fixed(20130515, Shuffled(\h0116), 10, <<<<2, 9>>>>),
     Fixed(20130320, Id(\h0959), 10, <<<<2, 9>>>>), Fixed(20120702, Id(\h0863), 10, <<<<2, 9>>>>),
     Fixed(20120307, Id(\h0438), 10, <<<<2, 9>>>>), Fixed(20111005, Id(\h0369), 10, <<<<2, 9>>>>),
     Fixed(20101124, Id(\h0366), 10, <<<<2, 9>>>>), Fixed(0, Id(\h0116), 10, <<<<2, 9>>>>) >>
EncodeStatusUp == << Fixed(0, Id(\h00BB), 5, <<<<2, 4>>>>) >>
EncodeTimeSyncResponse ==
  << Fixed(20101124, Id(\h0360), 6, <<<<2, 5>>>>), Fixed(20030000, Id(\h007E), 6, <<<<2, 5>>>>),
     Panic(0) >>
EncodeUnequipItem == << Fixed(0, Id(\h00AB), 4, <<<<2, 3>>>>) >>
EncodeUseCard == << Fixed(0, Id(\h017A), 4, <<<<2, 3>>>>) >>
EncodeVendingListReq == << Fixed(0, Id(\h0130), 6, <<<<2, 5>>>>) >>
EncodeWeaponRefine == << Fixed(0, Id(\h0222), 6, <<<<2, 5>>>>) >>
EncodeWhisper == << Variable(0, Id(\h0096), 28, <<<<2, 27>>>>) >>

\* The registrations of init() in register.go: the encoder of each action.
Registered_1 == [
  ActorAction |-> EncodeActorAction, AutoSpell |-> EncodeAutoSpell, BattleChat |-> EncodeBattleChat,
  CaConnectInfoChanged |-> EncodeCaConnectInfoChanged, CaExeHashcheck |-> EncodeCaExeHashcheck,
  CaLogin2 |-> EncodeCaLogin2, CaLogin3 |-> EncodeCaLogin3, CaLogin4 |-> EncodeCaLogin4,
  CaLoginChannel |-> EncodeCaLoginChannel, CaLoginPcbang |-> EncodeCaLoginPcbang,
  CaReqHash |-> EncodeCaReqHash, CaSsoLoginReq |-> EncodeCaSsoLoginReq,
  CancelLockon |-> EncodeCancelLockon, CatchPet |-> EncodeCatchPet ]
Registered_2 == [
  ChangeCart |-> EncodeChangeCart, CharCreate |-> EncodeCharCreate, CharDelete |-> EncodeCharDelete,
  CharacterMove |-> EncodeCharacterMove, CloseStorage |-> EncodeCloseStorage,
  CloseVending |-> EncodeCloseVending, CzAckAnswerMacroDetector |-> EncodeCzAckAnswerMacroDetector,
  CzAdvancedStatusChange |-> EncodeCzAdvancedStatusChange,
  CzAdventurerAgencyJoinReq |-> EncodeCzAdventurerAgencyJoinReq,
  CzAdventurerAgencyJoinResult |-> EncodeCzAdventurerAgencyJoinResult,
  CzApproximateActor |-> EncodeCzApproximateActor, CzCheckname1 |-> EncodeCzCheckname1,
  CzCheckname2 |-> EncodeCzCheckname2, CzChooseMenuZero |-> EncodeCzChooseMenuZero ]
Registered_3 == [
  CzClientVersion |-> EncodeCzClientVersion,
  CzCloseMsgboxExtendBodyitemSize |-> EncodeCzCloseMsgboxExtendBodyitemSize,
  CzCloseRefiningUi |-> EncodeCzCloseRefiningUi, CzCloseReformUi |-> EncodeCzCloseReformUi,
  CzCloseUiEnchant |-> EncodeCzCloseUiEnchant, CzCloseUiStylingshop |-> EncodeCzCloseUiStylingshop,
  CzCmdResetcooltime |-> EncodeCzCmdResetcooltime,
  CzCompleteApplyMacroDetectorCaptcha |-> EncodeCzCompleteApplyMacroDetectorCaptcha,
  CzDynamicnpcCreateRequest |-> EncodeCzDynamicnpcCreateRequest,
  CzGetAccountLimtiedSaleList |-> EncodeCzGetAccountLimtiedSaleList,
  CzGradeEnchantCloseUi |-> EncodeCzGradeEnchantCloseUi,
  CzGradeEnchantRequest |-> EncodeCzGradeEnchantRequest,
  CzGradeEnchantSelectEquipment |-> EncodeCzGradeEnchantSelectEquipment,
  CzInventoryTab |-> EncodeCzInventoryTab ]
Registered_4 == [
  CzItemReform |-> EncodeCzItemReform, CzJoinGuild |-> EncodeCzJoinGuild,
  CzMoveItemFromBodyToCart |-> EncodeCzMoveItemFromBodyToCart,
  CzNpcBarterMarketClose |-> EncodeCzNpcBarterMarketClose,
  CzNpcBarterMarketPurchase |-> EncodeCzNpcBarterMarketPurchase,
  CzNpcExpandedBarterMarketClose |-> EncodeCzNpcExpandedBarterMarketClose,
  CzNpcExpandedBarterMarketPurchase |-> EncodeCzNpcExpandedBarterMarketPurchase,
  CzPartyConfig |-> EncodeCzPartyConfig, CzPartyJoinReq |-> EncodeCzPartyJoinReq,
  CzPartyJoinReqAck |-> EncodeCzPartyJoinReqAck,
  CzPcPurchaseItemlistFrommc |-> EncodeCzPcPurchaseItemlistFrommc,
  CzPcPurchaseItemlistFrommc2 |-> EncodeCzPcPurchaseItemlistFrommc2,
  CzPingLive |-> EncodeCzPingLive, CzRandomCombineItemUiClose |-> EncodeCzRandomCombineItemUiClose ]
Registered_5 == [
  CzRandomUpgradeItemUiClose |-> EncodeCzRandomUpgradeItemUiClose,
  CzRefiningSelectItem |-> EncodeCzRefiningSelectItem,
  CzReqAgitInvestment |-> EncodeCzReqAgitInvestment,
  CzReqApplyBargainSaleItem |-> EncodeCzReqApplyBargainSaleItem,
  CzReqApplyMacroDetector |-> EncodeCzReqApplyMacroDetector, CzReqBanGuild |-> EncodeCzReqBanGuild,
  CzReqCashBargainSaleItemInfo |-> EncodeCzReqCashBargainSaleItemInfo,
  CzReqChangeMemberpos |-> EncodeCzReqChangeMemberpos,
  CzReqDisorganizeGuild |-> EncodeCzReqDisorganizeGuild,
  CzReqExtendBodyitemSize |-> EncodeCzReqExtendBodyitemSize,
  CzReqGuildEmblemImg1 |-> EncodeCzReqGuildEmblemImg1,
  CzReqGuildEmblemImg2 |-> EncodeCzReqGuildEmblemImg2,
  CzReqGuildEmblemImg3 |-> EncodeCzReqGuildEmblemImg3, CzReqItemrepair2 |-> EncodeCzReqItemrepair2 ]
Registered_6 == [
  CzReqJoinGuild |-> EncodeCzReqJoinGuild, CzReqJoinGuild2 |-> EncodeCzReqJoinGuild2,
  CzReqLeaveGuild |-> EncodeCzReqLeaveGuild, CzReqMakingarrow |-> EncodeCzReqMakingarrow,
  CzReqMergeItem |-> EncodeCzReqMergeItem, CzReqMoveGuildAgit |-> EncodeCzReqMoveGuildAgit,
  CzReqOpenMsgboxExtendBodyitemSize |-> EncodeCzReqOpenMsgboxExtendBodyitemSize,
  CzReqPlayerAidInRange |-> EncodeCzReqPlayerAidInRange,
  CzReqPreviewMacroDetector |-> EncodeCzReqPreviewMacroDetector,
  CzReqRandomCombineItem |-> EncodeCzReqRandomCombineItem,
  CzReqRandomUpgradeItem |-> EncodeCzReqRandomUpgradeItem, CzReqRefining |-> EncodeCzReqRefining,
  CzReqRemaintime |-> EncodeCzReqRemaintime,
  CzReqRemoveBargainSaleItem |-> EncodeCzReqRemoveBargainSaleItem ]
Registered_7 == [
  CzReqSeCashTabCode |-> EncodeCzReqSeCashTabCode,
  CzReqTakeoffEquipAll |-> EncodeCzReqTakeoffEquipAll,
  CzReqUploadMacroDetector |-> EncodeCzReqUploadMacroDetector,
  CzRequestPerfectEnchant |-> EncodeCzRequestPerfectEnchant,
  CzRequestRandomEnchant |-> EncodeCzRequestRandomEnchant,
  CzRequestResetEnchant |-> EncodeCzRequestResetEnchant,
  CzRequestUpgradeEnchant |-> EncodeCzRequestUpgradeEnchant, CzResetSkill |-> EncodeCzResetSkill,
  CzRodexReturn |-> EncodeCzRodexReturn, CzSeCashshopOpen1 |-> EncodeCzSeCashshopOpen1,
  CzSeCashshopOpen2 |-> EncodeCzSeCashshopOpen2,
  CzSePcBuyCashitemList |-> EncodeCzSePcBuyCashitemList,
  CzShortcutKeyChange1 |-> EncodeCzShortcutKeyChange1,
  CzShortcutKeyChange2 |-> EncodeCzShortcutKeyChange2 ]
Registered_8 == [
  CzShortcutkeybarRotate1 |-> EncodeCzShortcutkeybarRotate1,
  CzShortcutkeybarRotate2 |-> EncodeCzShortcutkeybarRotate2,
  CzUninstallation |-> EncodeCzUninstallation,
  CzUploadMacroDetectorCaptcha |-> EncodeCzUploadMacroDetectorCaptcha,
  CzUsePackageitem |-> EncodeCzUsePackageitem, CzUseSkillEnd |-> EncodeCzUseSkillEnd,
  CzUseSkillStart |-> EncodeCzUseSkillStart, CzViewCamerainfo |-> EncodeCzViewCamerainfo,
  DealAddOther |-> EncodeDealAddOther, DealCancel |-> EncodeDealCancel,
  DealFinalize |-> EncodeDealFinalize, DealInitiate |-> EncodeDealInitiate,
  DealReply |-> EncodeDealReply, DealTrade |-> EncodeDealTrade ]
Registered_9 == [
  DropItem |-> EncodeDropItem, Emote |-> EncodeEmote, EnterWorld |-> EncodeEnterWorld,
  EquipItem |-> EncodeEquipItem, FriendsAdd |-> EncodeFriendsAdd,
  FriendsRemove |-> EncodeFriendsRemove, FriendsReply |-> EncodeFriendsReply,
  GameLogin |-> EncodeGameLogin, GetItemFromCart |-> EncodeGetItemFromCart,
  GuildChat |-> EncodeGuildChat, HomunculusAttack |-> EncodeHomunculusAttack,
  HomunculusMenu |-> EncodeHomunculusMenu, IgnoreListReq |-> EncodeIgnoreListReq,
  InsertCard |-> EncodeInsertCard ]
Registered_10 == [
  ItemIdentify |-> EncodeItemIdentify, ItemUse |-> EncodeItemUse, Look |-> EncodeLook,
  MapLogin |-> EncodeMapLogin, MarketPurchase |-> EncodeMarketPurchase,
  MasterLogin |-> EncodeMasterLogin, MoveFromStorage |-> EncodeMoveFromStorage,
  MoveTo |-> EncodeMoveTo, MoveToStorage |-> EncodeMoveToStorage, NpcContact |-> EncodeNpcContact,
  NpcMarketClose |-> EncodeNpcMarketClose, NpcMenuResponse |-> EncodeNpcMenuResponse,
  NpcTalkClose |-> EncodeNpcTalkClose, NpcTalkContinue |-> EncodeNpcTalkContinue ]
Registered_11 == [
  NpcTalkNumber |-> EncodeNpcTalkNumber, NpcTalkText |-> EncodeNpcTalkText,
  NpcTradeQuit |-> EncodeNpcTradeQuit, PartyChangeOption |-> EncodePartyChangeOption,
  PartyChat |-> EncodePartyChat, PartyCreate |-> EncodePartyCreate,
  PartyInvite |-> EncodePartyInvite, PartyKick |-> EncodePartyKick, PartyLeave |-> EncodePartyLeave,
  PetMenu |-> EncodePetMenu, PickupItem |-> EncodePickupItem,
  PinCodeResponse |-> EncodePinCodeResponse, PublicChat |-> EncodePublicChat,
  QuitGame |-> EncodeQuitGame ]
Registered_12 == [
  RemoveOption |-> EncodeRemoveOption, RepairItem |-> EncodeRepairItem,
  RequestBuySellList |-> EncodeRequestBuySellList,
  RequestCharacterPage |-> EncodeRequestCharacterPage, RequestMemo |-> EncodeRequestMemo,
  Restart |-> EncodeRestart, SelectAccessibleMap |-> EncodeSelectAccessibleMap,
  SelectCharacter |-> EncodeSelectCharacter, SelectEgg |-> EncodeSelectEgg,
  SendEmotion |-> EncodeSendEmotion, SetWhisperState |-> EncodeSetWhisperState,
  ShopBuy |-> EncodeShopBuy, ShopSell |-> EncodeShopSell, SkillUp |-> EncodeSkillUp ]
Registered_13 == [
  SkillUse |-> EncodeSkillUse, SkillUseLocation |-> EncodeSkillUseLocation,
  StatusUp |-> EncodeStatusUp, TimeSyncResponse |-> EncodeTimeSyncResponse,
  UnequipItem |-> EncodeUnequipItem, UseCard |-> EncodeUseCard,
  VendingListReq |-> EncodeVendingListReq, WeaponRefine |-> EncodeWeaponRefine,
  Whisper |-> EncodeWhisper ]

sendRegistry ==
  Registered_1 @@ Registered_2 @@ Registered_3 @@ Registered_4 @@ Registered_5 @@ Registered_6 @@ Registered_7 @@ Registered_8 @@ Registered_9 @@ Registered_10 @@ Registered_11 @@ Registered_12 @@ Registered_13
==============================================================================
