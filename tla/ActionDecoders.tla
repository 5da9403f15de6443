--------------------------- MODULE ActionDecoders ----------------------------
(*
  The decoders of pkg/decode whose names are those of semantic actions.

  A decoder is the number of bytes of the frame it reads, by packet version:
  << <<from, bytes>>, ... >>, newest first, one rung per arm of its
  `if packetver >= ...` ladder. The fields' names and types are left out; a
  trailing variable part (data[n:]) counts as the n bytes it needs.
*)
EXTENDS Integers

AcAcceptLogin_0x0069 == << <<20170315, 64>>, <<0, 47>> >>
AcAcceptLogin_0x0AC4 == << <<20170315, 64>>, <<0, 47>> >>
AcAckHash_0x01DC == << <<0, 4>> >>
AcRefuseLogin_0x006A == << <<20120000, 26>>, <<0, 23>> >>
AccessibleMaps_0x0840 == << <<0, 4>> >>
AccountId_0x0283 == << <<0, 6>> >>
ActorAction_0x008A == << <<20131223, 34>>, <<20071113, 33>>, <<0, 29>> >>
ActorAction_0x08C8 == << <<20131223, 34>>, <<20071113, 33>>, <<0, 29>> >>
ActorConnected_0x0079 == << <<0, 107>> >>
ActorConnected_0x01D9 == << <<0, 55>> >>
ActorConnected_0x022B == << <<0, 55>> >>
ActorConnected_0x02ED == << <<0, 59>> >>
ActorConnected_0x07F8 == << <<0, 62>> >>
ActorConnected_0x0858 == << <<0, 64>> >>
ActorConnected_0x090F == << <<0, 73>> >>
ActorConnected_0x09DC == << <<0, 101>> >>
ActorConnected_0x09FE == << <<20181121, 107>>, <<0, 103>> >>
ActorDiedOrDisappeared_0x0080 == << <<0, 7>> >>
ActorExists_0x0078 == << <<0, 108>> >>
ActorExists_0x01D8 == << <<0, 56>> >>
ActorExists_0x022A == << <<0, 56>> >>
ActorExists_0x02EE == << <<0, 60>> >>
ActorExists_0x07F9 == << <<0, 63>> >>
ActorExists_0x0857 == << <<0, 65>> >>
ActorExists_0x0915 == << <<0, 74>> >>
ActorExists_0x09DD == << <<0, 102>> >>
ActorExists_0x09FF == << <<20181121, 108>>, <<0, 104>> >>
ActorMoved_0x007B == << <<0, 114>> >>
ActorMoved_0x01DA == << <<0, 64>> >>
ActorMoved_0x022C == << <<20071106, 65>>, <<0, 64>> >>
ActorMoved_0x02EC == << <<0, 67>> >>
ActorMoved_0x07F7 == << <<0, 69>> >>
ActorMoved_0x0856 == << <<0, 71>> >>
ActorMoved_0x0914 == << <<0, 80>> >>
ActorMoved_0x09DB == << <<0, 108>> >>
ActorMoved_0x09FD == << <<20181121, 114>>, <<0, 110>> >>
ActorStatusActive_0x0196 == << <<0, 9>> >>
ActorStatusActive_0x0983 == << <<0, 29>> >>
ActorStatusEffectExtended_0x043F == << <<0, 25>> >>
AddExchangeItem_0x00E9 == << <<0, 19>> >>
AddExchangeItem_0x080F == << <<0, 20>> >>
AddExchangeItem_0x0A09 == << <<0, 45>> >>
AddExchangeItem_0x0A96 == << <<20181121, 61>>, <<20161102, 51>>, <<0, 45>> >>
AddExchangeItem_0x0B42 == << <<0, 62>> >>
AreaSpell_0x011F == << <<20130731, 23>>, <<20121212, 22>>, <<20110718, 19>>, <<0, 16>> >>
AreaSpell_0x08C7 == << <<0, 19>> >>
AreaSpell_0x099F == << <<0, 22>> >>
AreaSpell_0x09CA == << <<0, 23>> >>
AttackFailureForDistance_0x0139 == << <<0, 16>> >>
AttackRange_0x013A == << <<0, 4>> >>
BankingCheck_0x09A6 == << <<0, 12>> >>
BankingDeposit_0x09A8 == << <<0, 16>> >>
BankingOpen_0x09B7 == << <<0, 4>> >>
BankingWithdraw_0x09AA == << <<0, 16>> >>
CastCancelled_0x01B9 == << <<0, 6>> >>
CharCreated_0x006D == << <<0, 0>> >>
CharCreated_0x0B6F == << <<0, 0>> >>
CharacterBlocked_0x020D == << <<0, 4>> >>
CharacterCreationFailed_0x006E == << <<0, 3>> >>
CharacterMoves_0x0087 == << <<0, 12>> >>
CharacterPagesNotify_0x09A0 == << <<0, 6>> >>
CharacterServerRefused_0x006C == << <<0, 3>> >>
CharacterServerRefused_0x02CA == << <<0, 3>> >>
ChatMessage_0x008D == << <<0, 8>> >>
DealFinalize_0x00EC == << <<0, 3>> >>
DealRequest_0x00E7 == << <<0, 9>> >>
DealRequest_0x01F4 == << <<0, 32>> >>
DealRequest_0x01F5 == << <<0, 9>> >>
EntityMove_0x0086 == << <<0, 16>> >>
EntitySpawn_0x007C == << <<20071106, 42>>, <<0, 41>> >>
Exp_0x07F6 == << <<0, 14>> >>
Exp_0x0ACC == << <<0, 18>> >>
GuildChat_0x017F == << <<0, 4>> >>
HomunculusInfo_0x0230 == << <<0, 12>> >>
InventoryItemsEquip_0x00A4 == << <<0, 4>> >>
InventoryItemsEquip_0x0295 == << <<0, 4>> >>
InventoryItemsEquip_0x02D0 == << <<0, 4>> >>
InventoryItemsEquip_0x0992 == << <<0, 4>> >>
InventoryItemsEquip_0x0A0D == << <<0, 4>> >>
InventoryItemsEquip_0x0B0A == << <<0, 5>> >>
InventoryItemsEquip_0x0B39 == << <<0, 5>> >>
InventoryItemsStackable_0x00A3 == << <<0, 4>> >>
InventoryItemsStackable_0x01EE == << <<0, 4>> >>
InventoryItemsStackable_0x02E8 == << <<0, 4>> >>
InventoryItemsStackable_0x0991 == << <<0, 4>> >>
InventoryItemsStackable_0x0B09 == << <<0, 5>> >>
ItemAppeared_0x009E == << <<20130000, 19>>, <<0, 17>> >>
ItemAppeared_0x084B == << <<0, 19>> >>
ItemAppeared_0x0ADD == << <<20181121, 24>>, <<0, 22>> >>
ItemExists_0x009D == << <<20181121, 19>>, <<0, 17>> >>
ItemPickup_0x00A0 == << <<0, 23>> >>
ItemPickup_0x029A == << <<0, 27>> >>
ItemPickup_0x02D4 == << <<0, 29>> >>
ItemPickup_0x0990 == << <<0, 31>> >>
ItemPickup_0x0A0C == << <<0, 56>> >>
ItemPickup_0x0A37 == << <<20181121, 69>>, <<0, 59>> >>
ItemPickup_0x0B41 == << <<0, 70>> >>
LoginError_0x083E == << <<20120000, 26>>, <<0, 23>> >>
MailReceive_0x0274 == << <<0, 8>> >>
MapChanged_0x0091 == << <<0, 22>> >>
MapChanged_0x0092 == << <<0, 28>> >>
MapChanged_0x0AC7 == << <<20170315, 156>>, <<0, 28>> >>
MonsterHpUpdate_0x0977 == << <<0, 14>> >>
NpcStoreInfo_0x00C6 == << <<0, 4>> >>
PetEggList_0x01A6 == << <<0, 4>> >>
PetInfo_0x01A2 == << <<20081126, 37>>, <<0, 35>> >>
PinCodeRequest_0x02AD == << <<0, 8>> >>
PinCodeRequest_0x08B9 == << <<0, 12>> >>
PrivateMessage_0x0097 == << <<0, 32>> >>
PrivateMessage_0x09DE == << <<0, 33>> >>
ReceivedCharactersInfo_0x082D == << <<0, 29>> >>
ReceivedCharactersPage_0x099D == << <<0, 4>> >>
ReceivedCharactersPage_0x0B72 == << <<0, 4>> >>
ReceivedCharacters_0x006B == << <<20100413, 27>>, <<0, 24>> >>
ReceivedMapServerInfo_0x0071 == << <<0, 28>> >>
ReceivedMapServerInfo_0x0AC5 == << <<0, 156>> >>
ScNotifyBan_0x0081 == << <<0, 3>> >>
SelfChat_0x008E == << <<0, 4>> >>
SellResult_0x00CB == << <<0, 3>> >>
SkillAdd_0x0111 == << <<0, 39>> >>
SkillAdd_0x0B31 == << <<0, 39>> >>
SkillCast_0x07FB == << <<0, 25>> >>
SkillCast_0x0B1A == << <<0, 29>> >>
SkillDelete_0x0441 == << <<0, 4>> >>
SkillPostDelay_0x043D == << <<0, 8>> >>
SkillUpdate_0x010E == << <<0, 11>> >>
SkillUseFailed_0x0110 == << <<20181121, 14>>, <<0, 10>> >>
SkillUse_0x0114 == << <<0, 33>> >>
SkillUse_0x01DE == << <<0, 33>> >>
SkillUsedNoDamage_0x011A == << <<20130731, 17>>, <<0, 15>> >>
SkillsList_0x010F == << <<0, 4>> >>
SkillsList_0x0B32 == << <<0, 4>> >>
StatUpdate_0x00B0 == << <<0, 8>> >>
StatUpdate_0x00B1 == << <<0, 8>> >>
StatUpdate_0x00BE == << <<0, 5>> >>
StatUpdate_0x02A2 == << <<0, 8>> >>
Sync_0x007F == << <<0, 6>> >>
TcResult_0x0AE3 == << <<0, 34>> >>
VenderFound_0x0131 == << <<0, 86>> >>
WhisperSent_0x0098 == << <<20131223, 7>>, <<0, 3>> >>
==============================================================================
