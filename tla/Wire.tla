-------------------------------- MODULE Wire --------------------------------
(*
  The wire format of a map session, for every packet version: what the length,
  dispatch, decoder, encoder, shuffle and key tables say about one packet at a
  time (pkg/session/semantic.go, session.go, fsm.go; pkg/decode; pkg/encode).

  The tables are written or generated separately and each has its own version
  conditions; nothing in the code compares them. A session is one packet
  version, and a step is one packet: a frame cut from the stream and decoded, a
  list packet decoded entry by entry, or a request encoded and sent.
*)
EXTENDS ShuffleTable, LengthTable, KeyTable, DecodeTable, EncodeTable, ListDecoders

CONSTANTS
  Packetvers,        \* packet versions a session is created with
  EmbeddedLengths,   \* lengths that frames of variable length say they have
  Bodies             \* sizes in bytes of the bodies of list packets

ASSUME WireAssumption == Packetvers \subseteq Nat /\ Bodies \subseteq Nat

\* feed takes an embedded length below 4 for a fault; it has 16 bits.
ASSUME EmbeddedAssumption == EmbeddedLengths \subseteq 4..65535

VARIABLES
  packetver,    \* the session's packet version
  packet        \* the packet being handled, or Idle

vars == <<packetver, packet>>

Idle == [kind |-> "idle"]

\* The newest rung of a decoder's ladder that applies.
Rung(ladder, pv) == SelectSeq(ladder, LAMBDA r : r[1] <= pv)[1][2]

\* decodeZcGroupList, which reads nothing of a frame shorter than its header.
Guarded == {\h00FB, \h0A44, \h0AE5}

\* The bytes the decoder of an ID reads of a frame.
BytesRead(id, ladder, pv, frameLen) ==
  IF id \in Guarded /\ frameLen < Rung(ladder, pv) THEN 0 ELSE Rung(ladder, pv)

\* The length of a frame: the table's, or for -1 the one that is embedded in the frame.
frameLengths(length) == IF length = -1 THEN EmbeddedLengths ELSE {length}

\* The arm an encoder takes.
Arm(encoder, pv) == SelectSeq(encoder, LAMBDA r : r.from <= pv)[1]

WireID(id, pv) == IF id.shuffled THEN shuffledCtoSID(pv, id.n) ELSE id.n

\* runLoginPhase: the ID of the login server's accept packet, one version too late.
acceptID_Late(pv) == IF pv > 20170315 THEN \h0AC4 ELSE \h0069

\* runLoginPhase: the ID of the login server's accept packet.
acceptID(pv) == IF pv >= 20170315 THEN \h0AC4 ELSE \h0069

\* runLoginPhase: the IDs of its refusal.
refuseIDs == {\h006A, \h083E}

zcAcceptEnterID(pv) ==
  CASE pv >= 20141022 /\ pv < 20160330 -> \h0A18
    [] pv >= 20080102 /\ ~(pv >= 20141022 /\ pv < 20160330) -> \h02EB
    [] OTHER -> \h0073

\* The FSM's own copies of the encoders it needs, which it cannot import from pkg/encode.
fsmEncodeMasterLogin == << Fixed(0, Id(\h0064), 55, <<<<2, 53>>>>) >>
fsmEncodeGameLogin == << Fixed(0, Id(\h0065), 17, <<<<2, 13>>, <<16, 16>>>>) >>
fsmEncodeCharLogin == << Fixed(0, Id(\h0066), 3, <<<<2, 2>>>>) >>
fsmEncodeRequestCharacterPage == << Fixed(0, Id(\h09A1), 2, <<>>) >>
\* The long CZ_ENTER2 also between the two windows of its versions.
fsmEncodeMapLogin_OneWindow ==
  << Fixed(20211103, Id(\h0436), 23, <<<<2, 13>>, <<22, 22>>>>),
     Fixed(0, Id(\h0436), 19, <<<<2, 13>>, <<18, 18>>>>) >>
fsmEncodeMapLogin ==
  << Fixed(20220330, Id(\h0436), 23, <<<<2, 13>>, <<22, 22>>>>),
     Fixed(20211119, Id(\h0436), 19, <<<<2, 13>>, <<18, 18>>>>),
     Fixed(20211103, Id(\h0436), 23, <<<<2, 13>>, <<22, 22>>>>),
     Fixed(0, Id(\h0436), 19, <<<<2, 13>>, <<18, 18>>>>) >>
fsmEncodeMapLoaded == << Fixed(0, Id(\h007D), 2, <<>>) >>
fsmEncodeTimeSyncResponse ==
  << Fixed(20101124, Id(\h0360), 6, <<>>), Fixed(0, Id(\h007E), 6, <<>>) >>

FsmCopies ==
  [MasterLogin |-> fsmEncodeMasterLogin, GameLogin |-> fsmEncodeGameLogin,
   SelectCharacter |-> fsmEncodeCharLogin, MapLogin |-> fsmEncodeMapLogin,
   RequestCharacterPage |-> fsmEncodeRequestCharacterPage,
   EnterWorld |-> fsmEncodeMapLoaded, TimeSyncResponse |-> fsmEncodeTimeSyncResponse]

-----------------------------------------------------------------------------
(* Steps. *)

\* NewMapSession.
Init == packetver \in Packetvers /\ packet = Idle

\* processBuffer cuts a frame of a dispatched ID and the handler that
\* RegisterSemanticHandler installed decodes it. An ID of length 0 is a stream fault.
Receive(action) ==
  /\ packet = Idle
  /\ \E e \in Range(receiveDispatch[action]) :
       LET length == applyMapLengthOverrides(packetver, e[1])
       IN  /\ length # 0
           /\ \E frameLen \in frameLengths(length) :
                packet' = [kind |-> "frame", action |-> action, id |-> e[1],
                           variable |-> length = -1, length |-> frameLen,
                           reads |-> BytesRead(e[1], e[2], packetver, frameLen)]
  /\ UNCHANGED packetver

\* A list packet whose body has the given size is decoded.
ReceiveList(list, body) ==
  /\ packet = Idle
  /\ LET d == CASE list = "equip" -> decodeEquipItems(body, packetver)
                [] list = "normal" -> decodeNormalItems(body, packetver)
                [] list = "character" -> decodeCharacterInfoList(body, packetver)
                [] list = "member" -> decodeZcGroupListRoster(body, packetver)
     IN  packet' = [kind |-> "list", list |-> list, entries |-> d.entries, size |-> d.size,
                    reads |-> d.reads, body |-> d.body, end |-> d.end]
  /\ UNCHANGED packetver

\* Send runs the encoder registered for the action.
Send(action) ==
  /\ packet = Idle
  /\ LET arm == Arm(sendRegistry[action], packetver)
     IN  packet' = [kind |-> "request", action |-> action, id |-> WireID(arm.id, packetver),
                    shuffled |-> arm.id.shuffled, size |-> arm.size,
                    writes |-> arm.writes, keys |-> obfuscationKeysFor(packetver)]
  /\ UNCHANGED packetver

\* The FSM sends its own copy of a request during the handshake.
SendHandshake(action) ==
  /\ packet = Idle
  /\ LET arm == Arm(FsmCopies[action], packetver)
     IN  packet' = [kind |-> "handshake", action |-> action, id |-> WireID(arm.id, packetver),
                    size |-> arm.size, writes |-> arm.writes]
  /\ UNCHANGED packetver

\* The handler returns, the request is written: the session is ready for the next packet.
Done == packet # Idle /\ packet' = Idle /\ UNCHANGED packetver

Next ==
  \/ \E action \in DOMAIN receiveDispatch : Receive(action)
  \/ \E list \in {"equip", "normal", "character", "member"}, body \in Bodies :
       ReceiveList(list, body)
  \/ \E action \in DOMAIN sendRegistry : Send(action)
  \/ \E action \in DOMAIN FsmCopies : SendHandshake(action)
  \/ Done

Spec == Init /\ [][Next]_vars

-----------------------------------------------------------------------------
(* Properties. *)

\* Decoders whose arm for some packet version reads more bytes than the length table gives
\* their frame: rAthena hardcodes those lengths and the table inherits them.
StaleLengths == {
  \h006A, \h0079, \h007B, \h0095, \h009E, \h00AA, \h0106, \h0114, \h0119, \h011A, \h011F,
  \h016C, \h01A2, \h01D8, \h01D9, \h01DA, \h022E, \h0284, \h02B9, \h043F, \h07D9, \h07FD,
  \h083A, \h0845, \h0A38, \h0AB9 }

\* IDs of variable length whose decoder reads more than the four bytes that feed makes sure
\* of, without looking at the length: they rely on the server to send the whole header.
LongHeaders == {
  \h0069, \h006B, \h008D, \h0097, \h00B4, \h00B7, \h0109, \h0133, \h0136, \h0152, \h0162, \h0166,
  \h01C3, \h025A, \h02D7, \h0442, \h07F7, \h07F8, \h07F9, \h0836, \h0856, \h0857, \h0858, \h0859,
  \h08C0, \h08CB, \h0906, \h090F, \h0914, \h0915, \h0997, \h09D7, \h09DA, \h09DB, \h09DC, \h09DD,
  \h09DE, \h09EB, \h09FD, \h09FE, \h09FF, \h0A2D, \h0A3B, \h0A59, \h0A6B, \h0AA2, \h0AC4, \h0ADB,
  \h0B03, \h0B08, \h0B09, \h0B0A, \h0B37, \h0B39, \h0B3D, \h0B40, \h0B5A, \h0B63, \h0B64, \h0B8D }

\* The actions that dispatch each packet ID.
ActionsOf ==
  LET ids(a) == {e[1] : e \in Range(receiveDispatch[a])}
  IN  [id \in UNION {ids(a) : a \in DOMAIN receiveDispatch} |->
         {a \in DOMAIN receiveDispatch : id \in ids(a)}]

\* A frame belongs to one action, whose decoder reads only bytes of the frame. An ID of two
\* actions would go to the one registered last, because RegisterSemanticHandler replaces
\* whatever is there; a decoder that indexes past its frame panics in the handler. A frame
\* of fixed length has the length of the table with the hand-kept overrides, one of variable
\* length whatever it says from four bytes up. The two lists are excepted from the second
\* part: those of fixed length where the table is wrong, and those of variable length that
\* trust what the frame says.
DecoderInFrame ==
  packet.kind = "frame" =>
    /\ ActionsOf[packet.id] = {packet.action}
    /\ packet.id \notin (IF packet.variable THEN LongHeaders ELSE StaleLengths)
         => packet.reads <= packet.length

\* A list decoder stays inside the body of its frame, and its entry decoder inside the
\* entry; the decoders that walk an entry with a cursor consume all of it, so that the size
\* function and the walk agree at every packet version.
EntriesInBounds ==
  packet.kind = "list" =>
    /\ packet.end <= packet.body
    /\ packet.reads <= packet.size
    /\ packet.list # "character" => packet.reads = packet.size

\* The length of ZC_ACCEPT_ENTER in the map table is that of the struct onMapEnter reads.
EnterFramed ==
  LET id == zcAcceptEnterID(packetver)
  IN  applyMapLengthOverrides(packetver, id) =
        (CASE id = \h0073 -> 11 [] id = \h02EB -> 13 [] id = \h0A18 -> 14)

\* Versions at which the map table still gives ZC_ACCEPT_ENTER the ID 0x0A18.
EnterGap == 20160330..20170314

\* The packets that end a phase of the handshake are framed: at every packet version the
\* login server's accept ID that runLoginPhase waits for has a length, one of the refusal
\* IDs has, ZC_ACCEPT_ENTER is framed outside EnterGap, and the character server's
\* HC_NOTIFY_ZONESVR is long enough to read from 20170315 on. A phase whose packet the
\* table does not know ends in a stream fault.
HandshakeFramed ==
  packet = Idle =>
    /\ populateLoginLengths(packetver, acceptID(packetver)) # 0
    /\ \E id \in refuseIDs : populateLoginLengths(packetver, id) >= 3
    /\ packetver \notin EnterGap => EnterFramed
    /\ packetver >= 20170315 => populateCharLengths(packetver, \h0AC5) >= 28

\* Bytes that an encoder leaves zero: the tick of the long CZ_ENTER2, and the 64-bit
\* Enchant_group that the generated encoders of four requests do not write.
LeftZero ==
  [a \in {"MapLogin"} |-> 18..21] @@
  [a \in {"CzRequestPerfectEnchant", "CzRequestRandomEnchant", "CzRequestResetEnchant",
          "CzRequestUpgradeEnchant"} |-> 2..9]

Written(p) == UNION {w[1]..w[2] : w \in Range(p.writes)}

\* A request is whole, whichever arm of the encoder the packet version selects: its writes
\* cover every byte after the packet ID and none beyond the packet, and no write destroys a
\* field written before it; a later one may only cut off the tail of an open-ended copy of
\* the request's slice. Such a copy counts as covering all that is behind it: a field that
\* should follow it and is missing is not noticed.
PacketWhole ==
  packet.kind = "request" =>
    /\ packet.size > 0 =>
         LET zero == IF packet.action \in DOMAIN LeftZero THEN LeftZero[packet.action] ELSE {}
             body == 2..(packet.size - 1)
         IN  Written(packet) \subseteq body /\ body \ Written(packet) \subseteq zero
    /\ \A i, j \in DOMAIN packet.writes :
         i < j /\ packet.writes[j][1] <= packet.writes[i][2]
           => packet.writes[j][1] > packet.writes[i][1]

\* The FSM's copies of the encoders agree with the generated ones: same packet ID, same
\* size, and no byte written that the original does not write, at every packet version.
FsmCopiesAgree ==
  packet.kind = "handshake" =>
    LET arm == Arm(sendRegistry[packet.action], packetver)
    IN  /\ packet.id = WireID(arm.id, packetver)
        /\ packet.size = arm.size
        /\ Written(packet) \subseteq Written(arm)

\* A packet version that renumbers its requests also obfuscates them: the generated key
\* table has keys for every exact version of the shuffle table, so that Send encodes the
\* ID of a shuffled request the way a client of that version does.
ShuffledIsObfuscated ==
  packet.kind = "request" /\ packet.shuffled /\ packetver \in ShuffledVersions
    => packet.keys # <<0, 0, 0>>

\* Requests of the login and character servers, which share no ID space with the map's.
OtherServers ==
  {a \in DOMAIN sendRegistry : a \in {
     "CaConnectInfoChanged", "CaExeHashcheck", "CaLogin2", "CaLogin3", "CaLogin4", "CaLoginChannel",
     "CaLoginPcbang", "CaReqHash", "CaSsoLoginReq", "MasterLogin", "GameLogin", "SelectCharacter",
     "CharCreate", "CharDelete"}}

\* Two names for one server request.
SameRequest == {{"CharacterMove", "MoveTo"}, {"CzReqItemrepair2", "RepairItem"}}

MapRequests == DOMAIN sendRegistry \ OtherServers

\* The requests a map session can encode at its packet version, and their wire IDs.
RequestID ==
  [a \in {b \in MapRequests : Arm(sendRegistry[b], packetver).size > 0} |->
     WireID(Arm(sendRegistry[a], packetver).id, packetver)]

Distinguished(ids) ==
  \A a, b \in DOMAIN ids : a # b /\ ids[a] = ids[b] => {a, b} \in SameRequest

\* The server can tell the client's requests apart by their packet ID: at every packet
\* version no two requests that go through the shuffle are sent under one ID, and once the
\* shuffling has ended, after 20180307, no two requests at all.
RequestsDistinguished ==
  packet = Idle =>
    LET shuffled == {a \in DOMAIN RequestID : Arm(sendRegistry[a], packetver).id.shuffled}
        base(a) == Arm(sendRegistry[a], packetver).id.n
    IN  /\ \A a, b \in shuffled : base(a) # base(b) => RequestID[a] # RequestID[b]
        /\ packetver > 20180307 => Distinguished(RequestID)

-----------------------------------------------------------------------------
(* A statement of the repository that the tables do not meet. *)

\* fsm.go, runMapPhase: ZC_ACCEPT_ENTER is 0x02EB, "13 bytes", at PACKETVER < 20141022 ||
\* PACKETVER >= 20160330. The table a session frames with must then know that length.
EnterAlwaysFramed == packet = Idle => EnterFramed
==============================================================================
