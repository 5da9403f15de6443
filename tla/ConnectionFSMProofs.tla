------------------------ MODULE ConnectionFSMProofs ------------------------
(***************************************************************************)
(* Proofs about ConnectionFSM, for every packet version, every answer of   *)
(* the callbacks and every number of connects, reads and packets in a      *)
(* read, against servers that may send anything (AnyServer).               *)
(***************************************************************************)
EXTENDS AnyServer, SequenceTheorems, TLAPS

\* Control: a phase runs only inside Connect; packets are pending only inside
\* Feed, they are packets of the phase, and only the map phase waits in a handler.
ControlInv ==
    /\ phase = "idle" => step = "dial"
    /\ step \notin {"feed", "delay", "loaded", "tick"} => batch = << >>
    /\ batch \in Seq(PhasePackets)
    /\ step = "echo" => phase = "char"
    /\ step \in {"delay", "loaded", "tick"} => phase = "map"
    /\ handler["SC_NOTIFY_BAN"] = "user" => "SC_NOTIFY_BAN" \in UserActions

\* The phase has a connection of its own: res is not left over from another.
Running == phase # "idle" /\ step # "dial"

\* A refusal leaves an error that only the end of the Connect can clear.
RefusalInv ==
    /\ phase # "idle" /\ refused => step # "dial" /\ res.err
    /\ phase = "idle" /\ outcome = "ready" => ~refused

\* A phase that is past, or done without an error, has issued its tokens.
TokenInv ==
    /\ phase \in {"char", "map"} => auth.login = attempt
    /\ phase = "map" => auth.charID = attempt
    /\ Running /\ phase = "login" /\ res.done /\ ~res.err => auth.login = attempt
    /\ Running /\ phase = "char" /\ res.done /\ ~res.err => auth.charID = attempt

\* Nothing with one of these IDs has been sent.
Unsent(ids) == \A i \in 1..Len(sent) : sent[i].id \notin ids

\* The selection is unsent until the char phase has a list and an answer.
SelectInv ==
    /\ phase = "login" \/ (phase = "char" /\ step = "dial") => answers = {}
    /\ phase = "login" \/ (phase = "char" /\ (step = "dial" \/ ~res.slotSent))
         => Unsent({"CH_SELECT_CHAR"})
    /\ phase = "char" /\ step # "dial" /\ res.gotCharList => res.selectedSlot \in answers

\* How far the conversation of this Connect has come.
Entered == step \notin {"dial", "enter"}
ProgressInv ==
    /\ phase = "login" => Len(sent) >= IF Entered THEN 1 ELSE 0
    /\ phase = "char" => Len(sent) >= IF Entered THEN 2 ELSE 1
    /\ phase = "map" => Len(sent) >= IF Entered THEN 3 ELSE 2
    /\ phase # "idle" /\ Len(sent) > 0 => sent[1].id = "CA_LOGIN"
    /\ phase = "login" /\ ~Entered => sent = << >>
    /\ phase \in {"login", "char"} \/ (phase = "map" /\ (~Entered \/ (~res.done /\ step # "tick")))
         => Unsent({"CZ_NOTIFY_ACTORINIT", "CZ_REQUEST_TIME"})
    /\ step \in {"enter", "delay", "loaded", "tick"} => ~res.done
    /\ phase = "map" /\ Entered /\ ~res.done /\ step # "tick" => sent[Len(sent)].id = "CZ_ENTER"
    /\ step = "tick" =>
         /\ Len(sent) >= 4
         /\ sent[Len(sent) - 1].id = "CZ_ENTER"
         /\ sent[Len(sent)].id = "CZ_NOTIFY_ACTORINIT"
         /\ Unsent({"CZ_REQUEST_TIME"})
    /\ phase = "map" /\ Entered /\ res.done /\ ~res.err =>
         /\ Len(sent) >= 5
         /\ sent[Len(sent) - 2].id = "CZ_ENTER"
         /\ sent[Len(sent) - 1].id = "CZ_NOTIFY_ACTORINIT"
         /\ sent[Len(sent)].id = "CZ_REQUEST_TIME"

-----------------------------------------------------------------------------
(* Packets.                                                                *)

LEMMA EmptyBatch == \A S : << >> \in Seq(S)
BY EmptySeq

\* A packet of the login server.
LEMMA LoginPacket ==
    ASSUME NEW p \in LoginPackets
    PROVE  /\ p.id \in {"AC_ACCEPT_LOGIN", "AC_REFUSE_LOGIN", "SC_NOTIFY_BAN",
                        "Other", "Unknown", "Corrupt"}
           /\ p.val \in {-1, 0, 1, 2}
BY DEF LoginPackets, Noise, Pkt

\* A packet of the char server; only a list notify has a value.
LEMMA CharPacket ==
    ASSUME NEW p \in CharPackets
    PROVE  /\ p.id \in {"HC_REFUSE_ENTER", "SC_NOTIFY_BAN", "HC_NOTIFY_ZONESVR",
                        "HC_ACCEPT_ENTER", "HC_ACK_CHARINFO_PER_PAGE", "HC_CHARLIST_NOTIFY",
                        "Other", "Unknown", "Corrupt"}
           /\ p.val \in 0..2
BY DEF CharPackets, Noise, Pkt

\* A packet of the map server.
LEMMA MapPacket ==
    ASSUME NEW p \in MapPackets
    PROVE  p.id \in FSMActions \cup {"Other", "Unknown", "Corrupt"}
BY DEF MapPackets, Noise, Pkt, FSMActions

\* The packet about to be handled tells the phase, and the rest of the batch
\* is a batch of the phase.
LEMMA NextPacket ==
    ASSUME ControlInv, TypeOK, step = "feed", batch # << >>
    PROVE  LET p == Head(batch)
           IN  /\ Tail(batch) \in Seq(PhasePackets) /\ Tail(batch) \in Seq(Packets)
               /\ phase # "idle"
               /\ p.id = "AC_ACCEPT_LOGIN" => phase = "login" /\ p.val \in {-1, 0, 1, 2}
               /\ p.id = "AC_REFUSE_LOGIN" => phase = "login"
               /\ p.id \in {"HC_NOTIFY_ZONESVR", "HC_ACCEPT_ENTER", "HC_ACK_CHARINFO_PER_PAGE",
                            "HC_CHARLIST_NOTIFY", "HC_REFUSE_ENTER"} => phase = "char"
               /\ p.id = "HC_CHARLIST_NOTIFY" => p.val \in 0..2
               /\ p.id \in {"ZC_ACCEPT_ENTER", "ZC_REFUSE_ENTER"} => phase = "map"
<1>1. batch \in Seq(PhasePackets) /\ batch \in Seq(Packets) /\ phase \in {"login", "char", "map"}
  BY DEF ControlInv, TypeOK, Phases
<1>2. Head(batch) \in PhasePackets
  BY <1>1, HeadTailProperties
<1>3. Tail(batch) \in Seq(PhasePackets) /\ Tail(batch) \in Seq(Packets)
  BY <1>1, HeadTailProperties
<1>4. CASE phase = "login"
  <2>1. Head(batch) \in LoginPackets
    BY <1>2, <1>4 DEF PhasePackets
  <2> QED
    BY <1>1, <1>3, <1>4, <2>1, LoginPacket
<1>5. CASE phase = "char"
  <2>1. Head(batch) \in CharPackets
    BY <1>2, <1>5 DEF PhasePackets
  <2> QED
    BY <1>1, <1>3, <1>5, <2>1, CharPacket
<1>6. CASE phase = "map"
  <2>1. Head(batch) \in MapPackets
    BY <1>2, <1>6 DEF PhasePackets
  <2> QED
    BY <1>1, <1>3, <1>6, <2>1, MapPacket DEF FSMActions
<1> QED
  BY <1>1, <1>4, <1>5, <1>6

\* A batch of the phase is a batch.
LEMMA PhaseBatch == Seq(PhasePackets) \subseteq Seq(Packets)
<1>1. PhasePackets \subseteq Packets
  BY DEF PhasePackets, Packets
<1> QED
  BY <1>1, SeqMonotonic

\* What a server can send in one read is a batch of the phase.
LEMMA BatchType == Batches \subseteq Seq(PhasePackets)
<1>1. ASSUME NEW n \in 0..MaxBatch PROVE [1..n -> PhasePackets] \subseteq Seq(PhasePackets)
  <2>1. n \in Nat
    BY AnyServerBounds
  <2> QED
    BY <2>1, SeqDef
<1> QED
  BY <1>1 DEF Batches

-----------------------------------------------------------------------------
(* The steps.                                                              *)

\* Connect returns an error.
Failed == phase # "idle" /\ Fail /\ UNCHANGED <<res, sent, history>>

\* A server or the client moves Feed on; no handler runs.
Loops ==
    \/ \E b \in Seq(PhasePackets), err \in BOOLEAN : Read(b, err)
    \/ ReadEcho \/ EnterRead \/ FeedEnds \/ HandleUnknown

\* A list arrives, or a notify of one whose first k page requests are written.
Lists(slot) == HandleCharList(slot) \/ HandlePage(slot)
Notified(k) == step = "feed" /\ batch # << >> /\ HandleListNotify(k)

\* Every step of AnyServer is a step of the client or leaves the client alone.
LEMMA AnyNextCases ==
    ASSUME TypeOK, ControlInv, [AnyNext]_allVars
    PROVE  \/ Failed \/ Loops \/ DialOK \/ SendEnter \/ SendSelect
           \/ HandleOther \/ HandleLoginAccept \/ HandleRefuse \/ HandleBan \/ SwallowBan
           \/ HandleZone \/ (\E slot \in Slots : Lists(slot)) \/ (\E k \in 0..2 : Notified(k))
           \/ HandleMapAccept \/ DelayEnds \/ DelayCancelled \/ SendMapLoaded \/ SendTick
           \/ SendInHandlerFails \/ (\E i \in Indices : LoginDone(i)) \/ CharDone \/ MapDone
           \/ Connect \/ Cancel \/ UNCHANGED vars
<1>1. CASE UNCHANGED allVars
  BY <1>1 DEF allVars
<1>2. CASE Finished
  BY <1>2 DEF Finished, allVars
<1>3. CASE CallerSteps
  BY <1>3 DEF CallerSteps
<1>4. CASE ServerAnswers
  <2>1. PICK b \in Batches, err \in BOOLEAN : Read(b, err)
    BY <1>4 DEF ServerAnswers
  <2>2. b \in Seq(PhasePackets)
    BY BatchType
  <2> QED
    BY <2>1, <2>2 DEF Loops
<1>5. CASE ReadFails
  BY <1>5 DEF ReadFails, Failed
<1>6. CASE Faults
  <2>1. CASE DialFails \/ SendEnterFails \/ ReadEchoFails \/ SendSelectFails
    BY <2>1 DEF DialFails, SendEnterFails, ReadEchoFails, SendSelectFails, Failed, ControlInv
  <2>2. CASE SendInHandlerFails
    BY <2>2
  <2>3. ASSUME step = "feed", batch # << >>, NEW k \in 0..(Head(batch).val - 1), HandleListNotify(k)
        PROVE  Notified(k) /\ k \in 0..2
    <3>1. Head(batch).val \in 0..2
      BY <2>3, NextPacket DEF HandleListNotify, Handles
    <3> QED
      BY <2>3, <3>1 DEF Notified
  <2> QED
    BY <1>6, <2>1, <2>2, <2>3 DEF Faults
<1>7. CASE Progress
  <2>1. CASE HandlePacket
    <3>1. CASE HandleCorrupt
      BY <3>1 DEF HandleCorrupt, Handles, Failed, ControlInv
    <3>2. CASE HandleUnknown
      BY <3>2 DEF Loops
    <3> QED
      BY <2>1, <3>1, <3>2 DEF HandlePacket, Lists
  <2>2. CASE step = "feed" /\ batch # << >> /\ HandleListNotify(Head(batch).val)
    <3>1. Head(batch).val \in 0..2
      BY <2>2, NextPacket DEF HandleListNotify, Handles
    <3> QED
      BY <2>2, <3>1 DEF Notified
  <2>3. CASE PhaseFails \/ FeedEndsWithReadError \/ \E i \in Indices : LoginIndexOutOfRange(i)
    BY <2>3 DEF PhaseFails, FeedEndsWithReadError, LoginIndexOutOfRange, Done, Failed, ControlInv
  <2>4. CASE ReadEcho \/ EnterRead \/ FeedEnds
    BY <2>4 DEF Loops
  <2> QED
    BY <1>7, <2>1, <2>2, <2>3, <2>4 DEF Progress
<1> QED
  BY <1>1, <1>2, <1>3, <1>4, <1>5, <1>6, <1>7 DEF AnyNext, ClientSteps

-----------------------------------------------------------------------------
(* Types and control.                                                      *)

LEMMA NoAuthType == noAuth \in AuthType
BY MaxConnectsAssumption DEF noAuth, AuthType

LEMMA NoResType == noRes \in ResType /\ ~noRes.done /\ ~noRes.err /\ ~noRes.gotCharList /\ ~noRes.slotSent
BY DEF noRes, ResType

\* The assignments of the handlers to the results of the phase.
LEMMA ResUpdates ==
    ASSUME NEW r \in ResType
    PROVE  /\ [r EXCEPT !.done = TRUE] \in ResType
           /\ [r EXCEPT !.done = TRUE, !.err = TRUE] \in ResType
           /\ [r EXCEPT !.stuck = TRUE] \in ResType
           /\ [r EXCEPT !.slotSent = TRUE] \in ResType
           /\ [r EXCEPT !.pagesRecv = @ + 1] \in ResType
           /\ \A slot \in Slots : [r EXCEPT !.selectedSlot = slot, !.gotCharList = TRUE] \in ResType
           /\ \A n \in 0..2 : [r EXCEPT !.done = TRUE, !.servers = n] \in ResType
           /\ \A n \in 0..2, w \in BOOLEAN :
                [r EXCEPT !.charsExpected = n, !.got09A0 = TRUE, !.writeErr = w] \in ResType
<1>1. r.pagesRecv + 1 \in Nat
  BY DEF ResType
<1>2. /\ [r EXCEPT !.done = TRUE] \in ResType
      /\ [r EXCEPT !.done = TRUE, !.err = TRUE] \in ResType
      /\ [r EXCEPT !.stuck = TRUE] \in ResType
      /\ [r EXCEPT !.slotSent = TRUE] \in ResType
  BY DEF ResType
<1>3. ASSUME NEW n \in Nat PROVE [r EXCEPT !.pagesRecv = n] \in ResType
  BY DEF ResType
<1>4. ASSUME NEW slot \in Slots
      PROVE  [r EXCEPT !.selectedSlot = slot, !.gotCharList = TRUE] \in ResType
  BY DEF ResType
<1>5. ASSUME NEW n \in 0..2 PROVE [r EXCEPT !.done = TRUE, !.servers = n] \in ResType
  BY DEF ResType
<1>6. ASSUME NEW n \in 0..2, NEW w \in BOOLEAN
      PROVE  [r EXCEPT !.charsExpected = n, !.got09A0 = TRUE, !.writeErr = w] \in ResType
  <2>1. n \in Nat
    OBVIOUS
  <2> QED
    BY <2>1 DEF ResType
<1> QED
  BY <1>1, <1>2, <1>3, <1>4, <1>5, <1>6

LEMMA PlainType ==
    ASSUME NEW id \in {"CA_LOGIN", "CH_ENTER", "CH_SELECT_CHAR", "CH_CHARLIST_REQ", "CZ_ENTER",
                       "CZ_NOTIFY_ACTORINIT", "CZ_REQUEST_TIME"}
    PROVE  Plain(id) \in SentType /\ Plain(id).id = id
BY NoAuthType DEF Plain, SentType

\* What each phase opens the conversation with.
LEMMA EnterPacketFacts ==
    ASSUME TypeOK, phase # "idle"
    PROVE  /\ EnterPacket \in SentType
           /\ phase = "login" => EnterPacket.id = "CA_LOGIN"
           /\ phase = "char" => EnterPacket.id = "CH_ENTER" /\ EnterPacket.auth.login = auth.login
           /\ phase = "map" => EnterPacket.id = "CZ_ENTER" /\ EnterPacket.auth = auth
<1>1. phase \in {"login", "char", "map"} /\ auth \in AuthType
  BY DEF TypeOK, Phases
<1>2. CASE phase = "login"
  <2>1. EnterPacket = [id |-> "CA_LOGIN", auth |-> noAuth, slot |-> 0]
    BY <1>2, Zenon DEF EnterPacket
  <2> QED
    BY <1>2, <2>1, NoAuthType DEF SentType
<1>3. CASE phase = "char"
  <2>1. EnterPacket = [id |-> "CH_ENTER", auth |-> [auth EXCEPT !.charID = 0], slot |-> 0]
    BY <1>3, Zenon DEF EnterPacket
  <2>2. [auth EXCEPT !.charID = 0] \in AuthType /\ [auth EXCEPT !.charID = 0].login = auth.login
    BY <1>1, MaxConnectsAssumption DEF AuthType
  <2> QED
    BY <1>3, <2>1, <2>2 DEF SentType
<1>4. CASE phase = "map"
  <2>1. EnterPacket = [id |-> "CZ_ENTER", auth |-> auth, slot |-> 0]
    BY <1>4, Zenon DEF EnterPacket
  <2> QED
    BY <1>1, <1>4, <2>1 DEF SentType
<1> QED
  BY <1>1, <1>2, <1>3, <1>4

\* k page requests behind what was sent.
LEMMA PageRequests ==
    ASSUME NEW s \in Seq(SentType), NEW k \in 0..2
    PROVE  LET t == s \o [i \in 1..k |-> Plain("CH_CHARLIST_REQ")]
           IN  /\ t \in Seq(SentType)
               /\ Len(t) = Len(s) + k
               /\ \A i \in 1..Len(s) : t[i] = s[i]
               /\ \A i \in (Len(s) + 1)..Len(t) : t[i].id = "CH_CHARLIST_REQ"
<1> DEFINE r == [i \in 1..k |-> Plain("CH_CHARLIST_REQ")]
<1>1. r \in Seq(SentType) /\ Len(r) = k
  <2>1. r \in [1..k -> SentType] /\ k \in Nat
    BY PlainType
  <2> QED
    BY <2>1, SeqDef
<1>2. \A i \in 1..k : r[i].id = "CH_CHARLIST_REQ"
  BY PlainType
<1> HIDE DEF r
<1> QED
  BY <1>1, <1>2, ConcatProperties DEF r

LEMMA ControlInit == AnyInit => TypeOK /\ ControlInv
<1> SUFFICES ASSUME AnyInit PROVE TypeOK /\ ControlInv
  OBVIOUS
<1>1. batch = << >> /\ \A S : << >> \in Seq(S)
  BY EmptyBatch DEF AnyInit, Init
<1>2. TypeOK
  <2>1. batch \in Seq(Packets) /\ sent \in Seq(SentType) /\ notified \in Seq(Phases)
    BY <1>1 DEF AnyInit, Init
  <2>2. res \in ResType /\ auth \in AuthType /\ handler \in [FSMActions -> {"fsm", "user"}]
    BY NoAuthType, NoResType DEF AnyInit, Init, fsmHandlers
  <2>3. conns \in Nat /\ open \subseteq 1..conns /\ handed \subseteq 1..conns /\ bans \in Nat
    BY DEF AnyInit, Init
  <2>4. attempt \in 0..MaxConnects /\ answers \subseteq Slots /\ identity \in Slots \cup {-1, 0}
    BY MaxConnectsAssumption DEF AnyInit, Init
  <2>5. phase = "idle" /\ step = "dial" /\ outcome = "none"
        /\ {readErr, armed, ctxDone, refused} \subseteq BOOLEAN
    BY DEF AnyInit, Init
  <2> QED
    BY <2>1, <2>2, <2>3, <2>4, <2>5 DEF TypeOK
<1>3. handler["SC_NOTIFY_BAN"] = "fsm"
  BY DEF AnyInit, Init, fsmHandlers, FSMActions
<1> QED
  BY <1>1, <1>2, <1>3 DEF AnyInit, Init, ControlInv

LEMMA TypeNext ==
    ASSUME TypeOK, ControlInv, [AnyNext]_allVars PROVE TypeOK'
<1> USE DEF ioVars, connVars, callVars, history
<1>0. /\ \A S : << >> \in Seq(S)
      /\ noRes \in ResType /\ noAuth \in AuthType
      /\ MaxConnects \in Nat /\ Slots \subseteq Nat
  BY EmptyBatch, NoResType, NoAuthType, MaxConnectsAssumption, CallbacksAssumption
<1>1. CASE Failed
  BY <1>0, <1>1 DEF Failed, Fail, TypeOK
<1>2. CASE Loops
  BY <1>0, <1>2, PhaseBatch DEF Loops, Read, ReadEcho, EnterRead, FeedEnds, HandleUnknown, TypeOK
<1>3. CASE DialOK
  <2>1. conns' \in Nat /\ open' \subseteq 1..conns' /\ handed' \subseteq 1..conns'
    BY <1>3 DEF DialOK, TypeOK
  <2>2. res' \in ResType
    BY <1>0, <1>3 DEF DialOK
  <2> QED
    BY <1>3, <2>1, <2>2 DEF DialOK, TypeOK
<1>4. CASE SendEnter
  BY <1>0, <1>4, EnterPacketFacts DEF SendEnter, TypeOK
<1>5. CASE SendSelect
  <2>1. res' \in ResType /\ res.selectedSlot \in Slots \cup {0}
    BY <1>5 DEF SendSelect, TypeOK, ResType
  <2>2. [Plain("CH_SELECT_CHAR") EXCEPT !.slot = res.selectedSlot] \in SentType
    BY <1>0, <2>1 DEF Plain, SentType
  <2>3. sent' \in Seq(SentType)
    BY <1>5, <2>2 DEF SendSelect, TypeOK
  <2> QED
    BY <1>5, <2>1, <2>3 DEF SendSelect, TypeOK
<1>6. CASE HandleOther
  BY <1>0, <1>6, NextPacket DEF HandleOther, Consume, TypeOK
<1>7. CASE HandleLoginAccept
  <2>0. res \in ResType
    BY DEF TypeOK
  <2>1. Tail(batch) \in Seq(Packets) /\ Head(batch).val \in {-1, 0, 1, 2}
    BY <1>7, NextPacket DEF HandleLoginAccept, Handles
  <2>2. res' \in ResType
    <3>1. CASE Head(batch).val = -1
      BY <1>7, <3>1, ResUpdates DEF HandleLoginAccept, TypeOK
    <3>2. CASE Head(batch).val # -1
      <4>1. Head(batch).val \in 0..2
        BY <2>1, <3>2
      <4>2. res' = [res EXCEPT !.done = TRUE, !.servers = Head(batch).val]
        BY <1>7, <3>2 DEF HandleLoginAccept
      <4> QED
        BY <2>0, <4>1, <4>2, ResUpdates
    <3> QED
      BY <3>1, <3>2
  <2>3. auth' \in AuthType
    BY <1>7 DEF HandleLoginAccept, TypeOK, AuthType
  <2> QED
    BY <1>7, <2>1, <2>2, <2>3 DEF HandleLoginAccept, Consume, TypeOK
<1>8. CASE HandleRefuse
  BY <1>0, <1>8, NextPacket DEF HandleRefuse, Handles, Consume, TypeOK, ResType
<1>9. CASE HandleBan
  <2>1. batch' \in Seq(Packets)
    BY <1>9, NextPacket DEF HandleBan, Handles, Consume
  <2>2. res' \in ResType
    BY <1>9, ResUpdates DEF HandleBan, TypeOK
  <2>4. bans' \in Nat
    BY <1>9 DEF HandleBan, TypeOK
  <2>3. notified' \in Seq(Phases)
    <3>1. phase \in Phases
      BY <1>9, NextPacket DEF HandleBan, Handles, TypeOK
    <3> QED
      BY <1>9, <3>1 DEF HandleBan, TypeOK
  <2> QED
    BY <1>9, <2>1, <2>2, <2>3, <2>4 DEF HandleBan, Consume, TypeOK
<1>10. CASE SwallowBan
  <2>1. batch' \in Seq(Packets)
    BY <1>10, NextPacket DEF SwallowBan, Handles, Consume
  <2>2. res' \in ResType
    BY <1>10, ResUpdates DEF SwallowBan, TypeOK
  <2>4. bans' \in Nat
    BY <1>10 DEF SwallowBan, TypeOK
  <2>3. notified' \in Seq(Phases)
    BY <1>10 DEF SwallowBan, TypeOK
  <2> QED
    BY <1>10, <2>1, <2>2, <2>3, <2>4 DEF SwallowBan, Consume, TypeOK
<1>11. CASE HandleZone
  BY <1>0, <1>11, NextPacket DEF HandleZone, Handles, Consume, TypeOK, ResType, AuthType
<1>12. ASSUME NEW slot \in Slots, Lists(slot) PROVE TypeOK'
  <2>1. batch' \in Seq(Packets)
    BY <1>12, NextPacket DEF Lists, HandleCharList, HandlePage, Handles, Consume
  <2>2. [res EXCEPT !.pagesRecv = @ + 1] \in ResType /\ res \in ResType
    BY ResUpdates DEF TypeOK
  <2>3. \A r \in ResType : [r EXCEPT !.selectedSlot = slot, !.gotCharList = TRUE] \in ResType
    BY ResUpdates
  <2>4. res' \in ResType /\ answers' \subseteq Slots
    BY <1>12, <2>2, <2>3 DEF Lists, HandleCharList, HandlePage, PickCharSlot, TypeOK
  <2> QED
    BY <1>12, <2>1, <2>4 DEF Lists, HandleCharList, HandlePage, Consume, TypeOK
<1>13. ASSUME NEW k \in 0..2, Notified(k) PROVE TypeOK'
  <2>1. batch' \in Seq(Packets) /\ Head(batch).val \in 0..2
    BY <1>13, NextPacket DEF Notified, HandleListNotify, Handles, Consume
  <2>2. res' \in ResType
    <3>1. (res.writeErr \/ k < Head(batch).val) \in BOOLEAN
      BY <2>1
    <3> QED
      BY <1>13, <2>1, <3>1, ResUpdates DEF Notified, HandleListNotify, TypeOK
  <2>3. sent' \in Seq(SentType)
    BY <1>13, PageRequests DEF Notified, HandleListNotify, TypeOK
  <2> QED
    BY <1>13, <2>1, <2>2, <2>3 DEF Notified, HandleListNotify, Consume, TypeOK
<1>14. CASE HandleMapAccept
  BY <1>0, <1>14, NextPacket DEF HandleMapAccept, Handles, Consume, TypeOK
<1>15. CASE DelayEnds \/ DelayCancelled \/ SendInHandlerFails
  <2>1. res' \in ResType
    BY <1>15, ResUpdates DEF DelayEnds, DelayCancelled, SendInHandlerFails, TypeOK
  <2> QED
    BY <1>15, <2>1 DEF DelayEnds, DelayCancelled, SendInHandlerFails, TypeOK
<1>16. CASE SendMapLoaded \/ SendTick
  <2>1. sent' \in Seq(SentType)
    <3>1. Plain("CZ_NOTIFY_ACTORINIT") \in SentType /\ Plain("CZ_REQUEST_TIME") \in SentType
      BY PlainType
    <3>2. sent \in Seq(SentType)
      BY DEF TypeOK
    <3> QED
      BY <1>16, <3>1, <3>2, AppendProperties DEF SendMapLoaded, SendTick
  <2>2. res' \in ResType
    BY <1>16 DEF SendMapLoaded, SendTick, TypeOK, ResType
  <2> QED
    BY <1>16, <2>1, <2>2 DEF SendMapLoaded, SendTick, TypeOK
<1>17. ASSUME NEW i \in Indices, LoginDone(i) PROVE TypeOK'
  BY <1>0, <1>17 DEF LoginDone, Done, TypeOK, Phases
<1>18. CASE CharDone
  <2>1. res.selectedSlot \in Slots \cup {0}
    BY DEF TypeOK, ResType
  <2> QED
    BY <1>18, <2>1 DEF CharDone, Done, TypeOK, Phases
<1>19. CASE MapDone
  BY <1>0, <1>19 DEF MapDone, Done, TypeOK
<1>20. CASE Connect
  <2>1. sent' \in Seq(SentType) /\ notified' \in Seq(Phases) /\ auth' \in AuthType
    BY <1>0, <1>20 DEF Connect
  <2>2. attempt' \in 0..MaxConnects
    BY <1>0, <1>20 DEF Connect, TypeOK
  <2> QED
    BY <1>20, <2>1, <2>2 DEF Connect, TypeOK, Phases
<1>21. CASE Cancel
  BY <1>21 DEF Cancel, TypeOK
<1>22. CASE UNCHANGED vars
  BY <1>22 DEF vars, ioVars, connVars, callVars, history, TypeOK
<1> QED
  BY AnyNextCases, <1>1, <1>2, <1>3, <1>4, <1>5, <1>6, <1>7, <1>8, <1>9, <1>10, <1>11, <1>12,
     <1>13, <1>14, <1>15, <1>16, <1>17, <1>18, <1>19, <1>20, <1>21, <1>22

LEMMA SamePackets == ASSUME phase' = phase PROVE PhasePackets' = PhasePackets
BY Zenon DEF PhasePackets

LEMMA ControlNext ==
    ASSUME TypeOK, ControlInv, [AnyNext]_allVars PROVE ControlInv'
<1> USE DEF ioVars, connVars, callVars, history
<1>0. \A S : << >> \in Seq(S)
  BY EmptyBatch
<1>1. CASE Failed
  BY <1>0, <1>1 DEF Failed, Fail, ControlInv
<1>2. CASE Loops
  BY <1>0, <1>2, SamePackets DEF Loops, Read, ReadEcho, EnterRead, FeedEnds, HandleUnknown, ControlInv
<1>3. CASE DialOK \/ SendSelect
  BY <1>3, SamePackets DEF DialOK, SendSelect, ControlInv
<1>4. CASE SendEnter
  BY <1>4, SamePackets DEF SendEnter, ControlInv, FSMActions
<1>5. CASE \/ HandleOther \/ HandleLoginAccept \/ HandleRefuse \/ HandleBan \/ SwallowBan
           \/ HandleZone \/ \E slot \in Slots : Lists(slot)
  <2>1. batch' = Tail(batch) /\ step = "feed" /\ batch # << >>
    BY <1>5 DEF HandleOther, HandleLoginAccept, HandleRefuse, HandleBan, SwallowBan, HandleZone,
                Lists, HandleCharList, HandlePage, Handles, Consume
  <2>2. phase' = phase /\ step' = step /\ handler' = handler
    BY <1>5 DEF HandleOther, HandleLoginAccept, HandleRefuse, HandleBan, SwallowBan, HandleZone,
                Lists, HandleCharList, HandlePage, Consume
  <2> QED
    BY <2>1, <2>2, NextPacket, SamePackets DEF ControlInv
<1>6. ASSUME NEW k \in 0..2, Notified(k) PROVE ControlInv'
  <2>1. /\ batch' = Tail(batch) /\ step = "feed" /\ batch # << >>
        /\ phase' = phase /\ step' = step /\ handler' = handler
    BY <1>6 DEF Notified, HandleListNotify, Consume
  <2> QED
    BY <2>1, NextPacket, SamePackets DEF ControlInv
<1>7. CASE HandleMapAccept
  <2>1. /\ batch' = Tail(batch) /\ step = "feed" /\ batch # << >>
        /\ phase' = phase /\ handler' = handler /\ phase = "map"
        /\ step' \in {"feed", "delay", "loaded"}
    BY <1>7, NextPacket DEF HandleMapAccept, Handles, Consume
  <2> QED
    BY <2>1, NextPacket, SamePackets DEF ControlInv
<1>8. CASE DelayEnds \/ DelayCancelled \/ SendInHandlerFails \/ SendMapLoaded \/ SendTick
  BY <1>8, SamePackets
     DEF DelayEnds, DelayCancelled, SendInHandlerFails, SendMapLoaded, SendTick, ControlInv
<1>9. CASE (\E i \in Indices : LoginDone(i)) \/ CharDone \/ MapDone
  BY <1>0, <1>9 DEF LoginDone, CharDone, MapDone, Done, ControlInv
<1>10. CASE Connect
  BY <1>0, <1>10 DEF Connect, ControlInv
<1>11. CASE Cancel \/ UNCHANGED vars
  BY <1>11, SamePackets DEF Cancel, vars, ControlInv
<1> QED
  BY AnyNextCases, <1>1, <1>2, <1>3, <1>4, <1>5, <1>6, <1>7, <1>8, <1>9, <1>10, <1>11

\* The fields of the FSM and the locals of its phases keep their types, and a
\* packet is only handled in the phase that registered a handler for it.
THEOREM FSMTypeCorrect == AnySpec => [](TypeOK /\ ControlInv)
<1>1. TypeOK /\ ControlInv /\ [AnyNext]_allVars => TypeOK' /\ ControlInv'
  BY TypeNext, ControlNext
<1> QED
  BY <1>1, ControlInit, PTL DEF AnySpec

-----------------------------------------------------------------------------
(* Connections.                                                            *)

LEMMA ConnNext ==
    ASSUME TypeOK, ControlInv, ConnOwnership, [AnyNext]_allVars PROVE ConnOwnership'
<1> USE DEF ioVars, connVars, callVars, history
<1>0. conns \in Nat /\ handed \subseteq 1..conns /\ phase \in {"idle", "login", "char", "map"}
  BY DEF TypeOK, Phases
<1>1. CASE Failed
  BY <1>1 DEF Failed, Fail, ConnOwnership
<1>2. CASE Loops
  BY <1>2 DEF Loops, Read, ReadEcho, EnterRead, FeedEnds, HandleUnknown, ConnOwnership
<1>3. CASE DialOK
  <2>1. conns + 1 \notin handed
    BY <1>0
  <2> QED
    BY <1>3, <2>1 DEF DialOK, ConnOwnership
<1>4. CASE SendEnter \/ SendSelect
  BY <1>4 DEF SendEnter, SendSelect, ConnOwnership
<1>5. CASE \/ HandleOther \/ HandleLoginAccept \/ HandleRefuse \/ HandleBan \/ SwallowBan
           \/ HandleZone \/ (\E slot \in Slots : Lists(slot)) \/ (\E k \in 0..2 : Notified(k))
           \/ HandleMapAccept
  <2>1. /\ step = "feed" /\ phase' = phase /\ step' \in {"feed", "delay", "loaded"}
        /\ conns' = conns /\ open' = open /\ handed' = handed /\ outcome' = outcome
    BY <1>5 DEF HandleOther, HandleLoginAccept, HandleRefuse, HandleBan, SwallowBan, HandleZone,
                Lists, HandleCharList, HandlePage, Notified, HandleListNotify, HandleMapAccept,
                Handles, Consume
  <2> QED
    BY <2>1 DEF ConnOwnership
<1>6. CASE DelayEnds \/ DelayCancelled \/ SendInHandlerFails \/ SendMapLoaded \/ SendTick
  BY <1>6
     DEF DelayEnds, DelayCancelled, SendInHandlerFails, SendMapLoaded, SendTick, ConnOwnership
<1>7. CASE (\E i \in Indices : LoginDone(i)) \/ CharDone
  BY <1>7 DEF LoginDone, CharDone, Done, ConnOwnership
<1>8. CASE MapDone
  <2>1. open = {conns}
    BY <1>8 DEF MapDone, Done, ConnOwnership
  <2> QED
    BY <1>8, <2>1 DEF MapDone, ConnOwnership
<1>9. CASE Connect \/ Cancel \/ UNCHANGED vars
  BY <1>9 DEF Connect, Cancel, vars, ConnOwnership
<1> QED
  BY AnyNextCases, <1>1, <1>2, <1>3, <1>4, <1>5, <1>6, <1>7, <1>8, <1>9

\* Whatever the servers, the network and the caller do, no connection leaks, none
\* is the FSM's and the caller's at once, and none is open when Connect has
\* returned (fsm.go:390, 498, 771-776, 937).
THEOREM ConnectionsOwned == AnySpec => []ConnOwnership
<1>1. AnyInit => ConnOwnership
  BY DEF AnyInit, Init, ConnOwnership
<1>2. TypeOK /\ ControlInv /\ ConnOwnership /\ [AnyNext]_allVars => ConnOwnership'
  BY ConnNext
<1> QED
  BY <1>1, <1>2, FSMTypeCorrect, PTL DEF AnySpec

-----------------------------------------------------------------------------
(* Bans.                                                                   *)

\* Every ban of every server reaches OnServerNotify: from 20170315 on, as long as
\* OnMapSessionCreated leaves the FSM's handler of it alone (fsm.go:286).
THEOREM BansReachTheCaller ==
    ASSUME ~BanIsZoneSized, "SC_NOTIFY_BAN" \notin UserActions
    PROVE  AnySpec => []BanNotified
<1>1. AnyInit => BanNotified
  BY DEF AnyInit, Init, BanNotified
<1>2. TypeOK /\ ControlInv /\ BanNotified /\ [AnyNext]_allVars => BanNotified'
  <2> SUFFICES ASSUME TypeOK, ControlInv, BanNotified, [AnyNext]_allVars PROVE BanNotified'
    OBVIOUS
  <2> USE DEF ioVars, connVars, callVars, history
  <2>1. CASE HandleBan
    BY <2>1 DEF HandleBan, BanNotified, TypeOK
  <2>2. CASE HandleOther
    <3>1. Head(batch).id # "SC_NOTIFY_BAN"
      BY <2>2 DEF HandleOther, ControlInv
    <3>2. bans' = bans /\ notified' = notified
      BY <2>2, <3>1 DEF HandleOther, TypeOK
    <3> QED
      BY <3>2 DEF BanNotified
  <2>3. CASE SwallowBan
    BY <2>3 DEF SwallowBan
  <2>4. CASE Connect
    BY <2>4 DEF Connect, BanNotified
  <2>5. CASE Failed \/ Loops \/ DialOK \/ SendEnter \/ SendSelect
    BY <2>5 DEF Failed, Loops, Read, ReadEcho, EnterRead, FeedEnds, HandleUnknown, DialOK,
                SendEnter, SendSelect, BanNotified
  <2>6. CASE \/ HandleLoginAccept \/ HandleRefuse \/ HandleZone \/ HandleMapAccept
             \/ (\E slot \in Slots : Lists(slot)) \/ \E k \in 0..2 : Notified(k)
    BY <2>6 DEF HandleLoginAccept, HandleRefuse, HandleZone, HandleMapAccept, Lists,
                HandleCharList, HandlePage, Notified, HandleListNotify, BanNotified
  <2>7. CASE DelayEnds \/ DelayCancelled \/ SendInHandlerFails \/ SendMapLoaded \/ SendTick
    BY <2>7
       DEF DelayEnds, DelayCancelled, SendInHandlerFails, SendMapLoaded, SendTick, BanNotified
  <2>8. CASE (\E i \in Indices : LoginDone(i)) \/ CharDone \/ MapDone \/ Cancel \/ UNCHANGED vars
    BY <2>8 DEF LoginDone, CharDone, MapDone, Cancel, vars, BanNotified
  <2> QED
    BY AnyNextCases, <2>1, <2>2, <2>3, <2>4, <2>5, <2>6, <2>7, <2>8
<1> QED
  BY <1>1, <1>2, FSMTypeCorrect, PTL DEF AnySpec

-----------------------------------------------------------------------------
(* Tokens.                                                                 *)

LEMMA TokenNext ==
    ASSUME TypeOK, ControlInv, TokenInv, [AnyNext]_allVars PROVE TokenInv'
<1> USE DEF ioVars, connVars, callVars, history, TokenInv, Running
<1>0. res \in ResType /\ auth \in AuthType
  BY DEF TypeOK
<1>1. CASE Failed
  BY <1>1 DEF Failed, Fail
<1>2. CASE Loops
  BY <1>2 DEF Loops, Read, ReadEcho, EnterRead, FeedEnds, HandleUnknown
<1>3. CASE DialOK
  BY <1>3, NoResType DEF DialOK
<1>4. CASE SendEnter \/ SendSelect
  BY <1>0, <1>4 DEF SendEnter, SendSelect, ResType
<1>5. CASE HandleOther
  BY <1>5 DEF HandleOther, Consume
<1>6. CASE HandleLoginAccept
  <2>1. phase = "login" /\ phase' = phase
    BY <1>6, NextPacket DEF HandleLoginAccept, Handles, Consume
  <2>2. CASE Head(batch).val = -1
    BY <1>0, <1>6, <2>1, <2>2 DEF HandleLoginAccept, Consume, ResType
  <2>3. CASE Head(batch).val # -1
    BY <1>0, <1>6, <2>1, <2>3 DEF HandleLoginAccept, Consume, AuthType
  <2> QED
    BY <2>2, <2>3
<1>7. CASE HandleRefuse
  BY <1>0, <1>7 DEF HandleRefuse, Consume, ResType
<1>8. CASE HandleBan \/ SwallowBan
  BY <1>0, <1>8 DEF HandleBan, SwallowBan, Consume, ResType
<1>9. CASE HandleZone
  <2>1. phase = "char" /\ phase' = phase
    BY <1>9, NextPacket DEF HandleZone, Handles, Consume
  <2> QED
    BY <1>0, <1>9, <2>1 DEF HandleZone, Consume, AuthType
<1>10. ASSUME NEW slot \in Slots, Lists(slot) PROVE TokenInv'
  <2>1. res'.done = res.done /\ res'.err = res.err
    BY <1>0, <1>10 DEF Lists, HandleCharList, HandlePage, PickCharSlot, ResType
  <2> QED
    BY <1>10, <2>1 DEF Lists, HandleCharList, HandlePage, Consume
<1>11. ASSUME NEW k \in 0..2, Notified(k) PROVE TokenInv'
  <2>1. res'.done = res.done /\ res'.err = res.err
    BY <1>0, <1>11 DEF Notified, HandleListNotify, ResType
  <2> QED
    BY <1>11, <2>1 DEF Notified, HandleListNotify, Consume
<1>12. CASE HandleMapAccept \/ DelayEnds \/ SendMapLoaded
  BY <1>12 DEF HandleMapAccept, DelayEnds, SendMapLoaded, Handles, Consume
<1>13. CASE DelayCancelled \/ SendInHandlerFails \/ SendTick
  BY <1>13 DEF DelayCancelled, SendInHandlerFails, SendTick, ControlInv
<1>14. CASE (\E i \in Indices : LoginDone(i)) \/ CharDone \/ MapDone
  BY <1>14 DEF LoginDone, CharDone, MapDone, Done
<1>15. CASE Connect
  BY <1>15 DEF Connect
<1>16. CASE Cancel \/ UNCHANGED vars
  BY <1>16 DEF Cancel, vars
<1> QED
  BY AnyNextCases, <1>1, <1>2, <1>3, <1>4, <1>5, <1>6, <1>7, <1>8, <1>9, <1>10, <1>11, <1>12,
     <1>13, <1>14, <1>15, <1>16

LEMMA EnterSent ==
    ASSUME TypeOK, SendEnter
    PROVE  /\ Len(sent') = Len(sent) + 1
           /\ \A i \in 1..Len(sent) : sent'[i] = sent[i]
           /\ sent'[Len(sent) + 1] = EnterPacket
<1>1. sent \in Seq(SentType) /\ EnterPacket \in SentType /\ sent' = Append(sent, EnterPacket)
  BY EnterPacketFacts DEF SendEnter, TypeOK
<1> QED
  BY <1>1, AppendProperties

LEMMA SelectSent ==
    ASSUME TypeOK, SendSelect
    PROVE  /\ Len(sent') = Len(sent) + 1
           /\ \A i \in 1..Len(sent) : sent'[i] = sent[i]
           /\ sent'[Len(sent) + 1].id = "CH_SELECT_CHAR"
           /\ sent'[Len(sent) + 1].slot = res.selectedSlot
<1> DEFINE e == [Plain("CH_SELECT_CHAR") EXCEPT !.slot = res.selectedSlot]
<1>1. e \in SentType /\ e.id = "CH_SELECT_CHAR" /\ e.slot = res.selectedSlot
  <2>1. res.selectedSlot \in Slots \cup {0}
    BY DEF TypeOK, ResType
  <2> QED
    BY <2>1, NoAuthType DEF Plain, SentType
<1>2. sent \in Seq(SentType) /\ sent' = Append(sent, e)
  BY DEF SendSelect, TypeOK
<1> QED
  BY <1>1, <1>2, AppendProperties

LEMMA PagesSent ==
    ASSUME TypeOK, NEW k \in 0..2, Notified(k)
    PROVE  /\ Len(sent') = Len(sent) + k
           /\ \A i \in 1..Len(sent) : sent'[i] = sent[i]
           /\ \A i \in (Len(sent) + 1)..(Len(sent) + k) : sent'[i].id = "CH_CHARLIST_REQ"
<1>1. sent \in Seq(SentType) /\ sent' = sent \o [i \in 1..k |-> Plain("CH_CHARLIST_REQ")]
  BY DEF Notified, HandleListNotify, TypeOK
<1> QED
  BY <1>1, PageRequests

LEMMA HandlerSent ==
    ASSUME TypeOK, SendMapLoaded \/ SendTick
    PROVE  /\ Len(sent') = Len(sent) + 1
           /\ \A i \in 1..Len(sent) : sent'[i] = sent[i]
           /\ SendMapLoaded => sent'[Len(sent) + 1].id = "CZ_NOTIFY_ACTORINIT"
           /\ SendTick => sent'[Len(sent) + 1].id = "CZ_REQUEST_TIME"
<1>1. /\ Plain("CZ_NOTIFY_ACTORINIT") \in SentType /\ Plain("CZ_REQUEST_TIME") \in SentType
      /\ Plain("CZ_NOTIFY_ACTORINIT").id = "CZ_NOTIFY_ACTORINIT"
      /\ Plain("CZ_REQUEST_TIME").id = "CZ_REQUEST_TIME"
  BY PlainType
<1>2. sent \in Seq(SentType)
  BY DEF TypeOK
<1>3. SendMapLoaded => sent' = Append(sent, Plain("CZ_NOTIFY_ACTORINIT"))
  BY DEF SendMapLoaded
<1>4. SendTick => sent' = Append(sent, Plain("CZ_REQUEST_TIME"))
  BY DEF SendTick
<1> QED
  BY <1>1, <1>2, <1>3, <1>4, AppendProperties

\* The steps that write nothing.
Silent ==
    \/ Failed \/ Loops \/ DialOK \/ HandleOther \/ HandleLoginAccept \/ HandleRefuse \/ HandleBan
    \/ SwallowBan \/ HandleZone \/ (\E slot \in Slots : Lists(slot)) \/ HandleMapAccept
    \/ DelayEnds \/ DelayCancelled \/ SendInHandlerFails \/ (\E i \in Indices : LoginDone(i))
    \/ CharDone \/ MapDone \/ Cancel \/ UNCHANGED vars

LEMMA SilentSent == ASSUME Silent PROVE sent' = sent /\ attempt' = attempt
<1> USE DEF ioVars, connVars, callVars, history
<1>1. CASE Failed \/ Loops \/ DialOK \/ HandleOther \/ HandleLoginAccept \/ HandleRefuse
  BY <1>1 DEF Failed, Fail, Loops, Read, ReadEcho, EnterRead, FeedEnds, HandleUnknown, DialOK,
              HandleOther, HandleLoginAccept, HandleRefuse, Consume
<1>2. CASE \/ HandleBan \/ SwallowBan \/ HandleZone \/ (\E slot \in Slots : Lists(slot))
           \/ HandleMapAccept
  BY <1>2 DEF HandleBan, SwallowBan, HandleZone, Lists, HandleCharList, HandlePage,
              HandleMapAccept, Consume
<1>3. CASE \/ DelayEnds \/ DelayCancelled \/ SendInHandlerFails \/ (\E i \in Indices : LoginDone(i))
           \/ CharDone \/ MapDone \/ Cancel \/ UNCHANGED vars
  BY <1>3 DEF DelayEnds, DelayCancelled, SendInHandlerFails, LoginDone, CharDone, MapDone, Cancel,
              vars
<1> QED
  BY <1>1, <1>2, <1>3 DEF Silent

LEMMA SendingCases ==
    ASSUME TypeOK, ControlInv, [AnyNext]_allVars
    PROVE  \/ Silent \/ SendEnter \/ SendSelect \/ (\E k \in 0..2 : Notified(k))
           \/ SendMapLoaded \/ SendTick \/ Connect
BY AnyNextCases DEF Silent

LEMMA FreshNext ==
    ASSUME TypeOK, ControlInv, TokenInv, TokensFresh, [AnyNext]_allVars PROVE TokensFresh'
<1> USE DEF TokensFresh, SentAt
<1>0. sent \in Seq(SentType) /\ Len(sent) \in Nat
  BY DEF TypeOK
<1>1. CASE Silent
  BY <1>1, SilentSent
<1>2. CASE SendEnter
  <2>1. attempt' = attempt /\ phase \in {"login", "char", "map"}
    BY <1>2 DEF SendEnter, callVars, TypeOK, Phases
  <2>2. /\ EnterPacket.id = "CH_ENTER" => EnterPacket.auth.login = attempt
        /\ EnterPacket.id = "CZ_ENTER" =>
             EnterPacket.auth.login = attempt /\ EnterPacket.auth.charID = attempt
    BY <2>1, EnterPacketFacts DEF TokenInv
  <2> QED
    BY <1>0, <1>2, <2>1, <2>2, EnterSent
<1>3. CASE SendSelect
  <2>1. attempt' = attempt
    BY <1>3 DEF SendSelect, callVars
  <2> QED
    BY <1>0, <1>3, <2>1, SelectSent
<1>4. ASSUME NEW k \in 0..2, Notified(k) PROVE TokensFresh'
  <2>1. attempt' = attempt
    BY <1>4 DEF Notified, HandleListNotify, Consume, callVars
  <2> QED
    BY <1>0, <1>4, <2>1, PagesSent
<1>5. CASE SendMapLoaded \/ SendTick
  <2>1. attempt' = attempt
    BY <1>5 DEF SendMapLoaded, SendTick, callVars
  <2> QED
    BY <1>0, <1>5, <2>1, HandlerSent
<1>6. CASE Connect
  BY <1>6 DEF Connect
<1> QED
  BY SendingCases, <1>1, <1>2, <1>3, <1>4, <1>5, <1>6

\* The tokens shown to the char and map servers are those of this Connect
\* (fsm.go:312-317, 416-419, 501, 558, 788).
THEOREM TokensAreFresh == AnySpec => []TokensFresh
<1>1. AnyInit => TokenInv /\ TokensFresh
  BY DEF AnyInit, Init, TokenInv, Running, TokensFresh, SentAt
<1>2. TypeOK /\ ControlInv /\ TokenInv /\ TokensFresh /\ [AnyNext]_allVars
        => TokenInv' /\ TokensFresh'
  BY TokenNext, FreshNext
<1> QED
  BY <1>1, <1>2, FSMTypeCorrect, PTL DEF AnySpec

-----------------------------------------------------------------------------
(* The selection.                                                          *)

\* Mutations of res that the selection reads.
LEMMA SelectNext ==
    ASSUME TypeOK, ControlInv, SelectInv, SelectAnswersList, [AnyNext]_allVars
    PROVE  SelectInv' /\ SelectAnswersList'
<1> USE DEF ioVars, connVars, callVars, history, SelectInv, SelectAnswersList, Unsent, SentAt
<1>0. /\ sent \in Seq(SentType) /\ Len(sent) \in Nat
      /\ res \in ResType /\ phase \in {"idle", "login", "char", "map"}
  BY DEF TypeOK, Phases
<1>1. CASE Failed
  BY <1>1 DEF Failed, Fail
<1>2. CASE Loops
  BY <1>2 DEF Loops, Read, ReadEcho, EnterRead, FeedEnds, HandleUnknown
<1>3. CASE DialOK
  BY <1>3, NoResType DEF DialOK
<1>4. CASE SendEnter
  <2>1. EnterPacket.id # "CH_SELECT_CHAR"
    BY <1>0, <1>4, EnterPacketFacts DEF SendEnter
  <2> QED
    BY <1>0, <1>4, <2>1, EnterSent DEF SendEnter
<1>5. CASE SendSelect
  <2>1. /\ phase = "char" /\ res.gotCharList /\ ~res.slotSent /\ step = "loop"
        /\ res'.slotSent /\ res'.gotCharList = res.gotCharList /\ res'.selectedSlot = res.selectedSlot
        /\ res'.got09A0 = res.got09A0 /\ res'.pagesRecv = res.pagesRecv
        /\ phase' = phase /\ step' = "read" /\ answers' = answers
    BY <1>0, <1>5 DEF SendSelect, WantsSelect, ResType
  <2> QED
    BY <1>0, <1>5, <2>1, SelectSent
<1>6. CASE \/ HandleOther \/ HandleLoginAccept \/ HandleRefuse \/ HandleBan \/ SwallowBan
           \/ HandleZone \/ HandleMapAccept
           \/ DelayEnds \/ DelayCancelled \/ SendInHandlerFails \/ Cancel \/ UNCHANGED vars
  <2>1. /\ sent' = sent /\ phase' = phase /\ answers' = answers
        /\ step' = "dial" <=> step = "dial"
    BY <1>6 DEF HandleOther, HandleLoginAccept, HandleRefuse, HandleBan, SwallowBan, HandleZone,
                HandleMapAccept, DelayEnds, DelayCancelled, SendInHandlerFails, Cancel, vars,
                Handles, Consume
  <2>2. /\ res'.slotSent = res.slotSent /\ res'.gotCharList = res.gotCharList
        /\ res'.selectedSlot = res.selectedSlot
        /\ res'.got09A0 = res.got09A0 /\ res'.pagesRecv = res.pagesRecv
    BY <1>0, <1>6 DEF HandleOther, HandleLoginAccept, HandleRefuse, HandleBan, SwallowBan,
                HandleZone, HandleMapAccept, DelayEnds, DelayCancelled, SendInHandlerFails, Cancel,
                vars, ResType
  <2> QED
    BY <2>1, <2>2
<1>7. ASSUME NEW slot \in Slots, Lists(slot) PROVE SelectInv' /\ SelectAnswersList'
  <2>1. /\ sent' = sent /\ phase' = phase /\ step' = step /\ phase = "char" /\ step = "feed"
    BY <1>7, NextPacket DEF Lists, HandleCharList, HandlePage, Handles, Consume
  <2>2. res'.slotSent = res.slotSent /\ res'.got09A0 = res.got09A0
    BY <1>0, <1>7 DEF Lists, HandleCharList, HandlePage, PickCharSlot, ResType
  <2>3. \/ ListIsDirect /\ res'.selectedSlot = slot /\ answers' = answers \cup {slot}
        \/ /\ res'.pagesRecv > 0
           /\ \/ res'.got09A0 /\ res'.selectedSlot = slot /\ answers' = answers \cup {slot}
              \/ /\ res'.selectedSlot = res.selectedSlot /\ answers' = answers
                 /\ res'.gotCharList = res.gotCharList
    <3>1. CASE HandleCharList(slot)
      BY <1>0, <3>1 DEF HandleCharList, PickCharSlot, ResType
    <3>2. CASE HandlePage(slot)
      <4> DEFINE r == [res EXCEPT !.pagesRecv = @ + 1]
      <4>1. /\ r \in ResType /\ r.pagesRecv > 0 /\ r.got09A0 = res.got09A0
            /\ r.selectedSlot = res.selectedSlot /\ r.gotCharList = res.gotCharList
        <5>1. r.pagesRecv > 0
          BY <1>0 DEF ResType
        <5>2. r \in ResType
          BY <1>0, ResUpdates
        <5>3. ASSUME NEW n
              PROVE  LET q == [res EXCEPT !.pagesRecv = n]
                     IN  /\ q.got09A0 = res.got09A0 /\ q.selectedSlot = res.selectedSlot
                         /\ q.gotCharList = res.gotCharList
          BY <1>0 DEF ResType
        <5> QED
          BY <1>0, <5>1, <5>2, <5>3
      <4> HIDE DEF r
      <4>2. \/ /\ r.got09A0 /\ answers' = answers \cup {slot}
               /\ res' = [r EXCEPT !.selectedSlot = slot, !.gotCharList = TRUE]
            \/ res' = r /\ answers' = answers
        BY <3>2 DEF HandlePage, PickCharSlot, r
      <4> QED
        BY <4>1, <4>2 DEF ResType
    <3> QED
      BY <1>7, <3>1, <3>2 DEF Lists
  <2> QED
    BY <2>1, <2>2, <2>3
<1>8. ASSUME NEW k \in 0..2, Notified(k) PROVE SelectInv' /\ SelectAnswersList'
  <2>1. phase' = phase /\ step' = step /\ answers' = answers /\ phase = "char" /\ step = "feed"
    BY <1>8, NextPacket DEF Notified, HandleListNotify, Handles, Consume
  <2>2. /\ res'.slotSent = res.slotSent /\ res'.gotCharList = res.gotCharList
        /\ res'.selectedSlot = res.selectedSlot
        /\ res'.got09A0 /\ res'.pagesRecv = res.pagesRecv
    <3>1. PICK n, w : res' = [res EXCEPT !.charsExpected = n, !.got09A0 = TRUE, !.writeErr = w]
      BY <1>8 DEF Notified, HandleListNotify
    <3> QED
      BY <1>0, <3>1 DEF ResType
  <2>3. \A i \in 1..Len(sent') :
          sent'[i].id = "CH_SELECT_CHAR" => i \in 1..Len(sent) /\ sent'[i] = sent[i]
    BY <1>0, <1>8, PagesSent
  <2>4. SelectInv'
    BY <2>1, <2>2, <2>3
  <2>5. SelectAnswersList'
    BY <2>1, <2>2, <2>3
  <2> QED
    BY <2>4, <2>5
<1>9. CASE SendMapLoaded \/ SendTick
  <2>1. phase = "map" /\ phase' = phase /\ answers' = answers
    BY <1>9 DEF SendMapLoaded, SendTick, ControlInv
  <2>2. sent'[Len(sent) + 1].id # "CH_SELECT_CHAR"
    BY <1>9, HandlerSent
  <2> QED
    BY <1>0, <1>9, <2>1, <2>2, HandlerSent
<1>10. CASE (\E i \in Indices : LoginDone(i)) \/ CharDone \/ MapDone
  BY <1>10 DEF LoginDone, CharDone, MapDone, Done
<1>11. CASE Connect
  BY <1>11 DEF Connect
<1> QED
  BY AnyNextCases, <1>1, <1>2, <1>3, <1>4, <1>5, <1>6, <1>7, <1>8, <1>9, <1>10, <1>11

-----------------------------------------------------------------------------
(* The conversation.                                                       *)

LEMMA ProgressNext ==
    ASSUME TypeOK, ControlInv, ProgressInv, [AnyNext]_allVars PROVE ProgressInv'
<1> USE DEF ioVars, connVars, callVars, history, ProgressInv, Unsent, Entered
<1>0. /\ sent \in Seq(SentType) /\ Len(sent) \in Nat
      /\ res \in ResType /\ phase \in {"idle", "login", "char", "map"}
  BY DEF TypeOK, Phases
<1>1. CASE Failed
  BY <1>1 DEF Failed, Fail
<1>2. CASE Loops
  BY <1>2 DEF Loops, Read, ReadEcho, EnterRead, FeedEnds, HandleUnknown, ControlInv
<1>3. CASE DialOK
  BY <1>3, NoResType DEF DialOK
<1>4. CASE SendEnter
  <2>1. CASE phase = "login"
    BY <1>0, <1>4, <2>1, EnterPacketFacts, EnterSent DEF SendEnter
  <2>2. CASE phase = "char"
    BY <1>0, <1>4, <2>2, EnterPacketFacts, EnterSent DEF SendEnter
  <2>3. CASE phase = "map"
    <3>1. /\ phase' = phase /\ step = "enter" /\ step' = "loop" /\ res' = res
          /\ EnterPacket.id = "CZ_ENTER"
      BY <1>4, <2>3, EnterPacketFacts DEF SendEnter
    <3>2. Len(sent') = Len(sent) + 1 /\ sent'[Len(sent')].id = "CZ_ENTER" /\ Len(sent) >= 2
      BY <1>0, <1>4, <2>3, <3>1, EnterSent
    <3>3. \A i \in 1..Len(sent') : sent'[i].id \notin {"CZ_NOTIFY_ACTORINIT", "CZ_REQUEST_TIME"}
      BY <1>0, <1>4, <2>3, <3>1, EnterSent
    <3>4. sent'[1].id = "CA_LOGIN"
      BY <1>0, <1>4, <2>3, <3>2, EnterSent
    <3>5. ~res.done
      BY <1>4, <2>3, <3>1
    <3> QED
      BY <2>3, <3>1, <3>2, <3>3, <3>4, <3>5
  <2> QED
    BY <1>0, <1>4, <2>1, <2>2, <2>3 DEF SendEnter
<1>5. CASE SendSelect
  <2>1. phase = "char" /\ phase' = phase /\ step = "loop" /\ step' = "read"
    BY <1>5 DEF SendSelect, WantsSelect
  <2> QED
    BY <1>0, <1>5, <2>1, SelectSent
<1>6. CASE HandleOther
  BY <1>6 DEF HandleOther, Consume
<1>7. CASE HandleLoginAccept \/ HandleZone \/ \E slot \in Slots : Lists(slot)
  <2>1. /\ phase' = phase /\ phase \in {"login", "char"} /\ step = "feed" /\ step' = step
        /\ sent' = sent
    BY <1>7, NextPacket DEF HandleLoginAccept, HandleZone, Lists, HandleCharList, HandlePage,
                            Handles, Consume
  <2> QED
    BY <2>1
<1>8. CASE HandleRefuse \/ HandleBan
  <2>1. res'.done /\ res'.err
    BY <1>0, <1>8 DEF HandleRefuse, HandleBan, ResType
  <2>2. phase' = phase /\ step' = step /\ step = "feed" /\ sent' = sent
    BY <1>8 DEF HandleRefuse, HandleBan, Handles, Consume
  <2> QED
    BY <2>1, <2>2
<1>9. CASE SwallowBan
  BY <1>9 DEF SwallowBan, Handles, Consume
<1>10. ASSUME NEW k \in 0..2, Notified(k) PROVE ProgressInv'
  <2>1. phase = "char" /\ phase' = phase /\ step = "feed" /\ step' = step
    BY <1>10, NextPacket DEF Notified, HandleListNotify, Handles, Consume
  <2> QED
    BY <1>0, <1>10, <2>1, PagesSent
<1>11. CASE HandleMapAccept
  BY <1>11 DEF HandleMapAccept, Handles, Consume
<1>12. CASE DelayEnds
  BY <1>12 DEF DelayEnds
<1>13. CASE DelayCancelled \/ SendInHandlerFails
  <2>1. res'.done /\ res'.err
    BY <1>0, <1>13 DEF DelayCancelled, SendInHandlerFails, ResType
  <2> QED
    BY <1>13, <2>1 DEF DelayCancelled, SendInHandlerFails, ControlInv
<1>14. CASE SendMapLoaded
  <2>1. phase = "map" /\ phase' = phase /\ step = "loaded" /\ step' = "tick" /\ res' = res
    BY <1>14 DEF SendMapLoaded, ControlInv
  <2> QED
    BY <1>0, <1>14, <2>1, HandlerSent, SMTT(30)
<1>15. CASE SendTick
  <2>1. /\ phase = "map" /\ phase' = phase /\ step = "tick" /\ step' = "feed" /\ res'.done
        /\ res'.err = res.err
    BY <1>0, <1>15 DEF SendTick, ControlInv, ResType
  <2> QED
    BY <1>0, <1>15, <2>1, HandlerSent
<1>16. CASE (\E i \in Indices : LoginDone(i)) \/ CharDone \/ MapDone
  BY <1>16 DEF LoginDone, CharDone, MapDone, Done
<1>17. CASE Connect
  BY <1>17 DEF Connect
<1>18. CASE Cancel \/ UNCHANGED vars
  BY <1>18 DEF Cancel, vars
<1> QED
  BY AnyNextCases, <1>1, <1>2, <1>3, <1>4, <1>5, <1>6, <1>7, <1>8, <1>9, <1>10, <1>11, <1>12,
     <1>13, <1>14, <1>15, <1>16, <1>17, <1>18

LEMMA LoadedNext ==
    ASSUME TypeOK, ControlInv, ProgressInv, LoadedOnce, [AnyNext]_allVars PROVE LoadedOnce'
<1> USE DEF LoadedOnce, SentAt
<1>0. sent \in Seq(SentType) /\ Len(sent) \in Nat /\ phase \in {"idle", "login", "char", "map"}
  BY DEF TypeOK, Phases
<1>1. CASE Silent
  BY <1>1, SilentSent
<1>2. CASE SendEnter
  <2>1. Unsent({"CZ_NOTIFY_ACTORINIT", "CZ_REQUEST_TIME"})
    BY <1>0, <1>2 DEF SendEnter, ProgressInv, Entered
  <2>2. EnterPacket.id \notin {"CZ_NOTIFY_ACTORINIT", "CZ_REQUEST_TIME"}
    BY <1>0, <1>2, EnterPacketFacts DEF SendEnter
  <2> QED
    BY <1>0, <1>2, <2>1, <2>2, EnterSent DEF Unsent
<1>3. CASE SendSelect \/ \E k \in 0..2 : Notified(k)
  <2>1. phase = "char"
    BY <1>3, NextPacket DEF SendSelect, WantsSelect, Notified, HandleListNotify, Handles
  <2>2. Unsent({"CZ_NOTIFY_ACTORINIT", "CZ_REQUEST_TIME"})
    BY <2>1 DEF ProgressInv
  <2>3. \A i \in 1..Len(sent') : sent'[i].id \notin {"CZ_NOTIFY_ACTORINIT", "CZ_REQUEST_TIME"}
    BY <1>0, <1>3, <2>2, SelectSent, PagesSent DEF Unsent
  <2> QED
    BY <2>3
<1>4. CASE SendMapLoaded
  <2>1. /\ Unsent({"CZ_NOTIFY_ACTORINIT", "CZ_REQUEST_TIME"})
        /\ sent[Len(sent)].id = "CZ_ENTER" /\ Len(sent) >= 3
    BY <1>4 DEF SendMapLoaded, ControlInv, ProgressInv, Entered
  <2>2. /\ Len(sent') = Len(sent) + 1 /\ sent'[Len(sent) + 1].id = "CZ_NOTIFY_ACTORINIT"
        /\ \A i \in 1..Len(sent) : sent'[i] = sent[i]
    BY <1>4, HandlerSent
  <2>3. \A i \in 1..Len(sent') :
          /\ sent'[i].id = "CZ_NOTIFY_ACTORINIT" => i = Len(sent) + 1
          /\ sent'[i].id # "CZ_REQUEST_TIME"
    BY <1>0, <2>1, <2>2 DEF Unsent
  <2>4. sent'[(Len(sent) + 1) - 1].id = "CZ_ENTER"
    BY <1>0, <2>1, <2>2
  <2> QED
    BY <2>3, <2>4
<1>5. CASE SendTick
  <2>1. /\ Unsent({"CZ_REQUEST_TIME"}) /\ Len(sent) >= 4
        /\ sent[Len(sent)].id = "CZ_NOTIFY_ACTORINIT"
    BY <1>5 DEF SendTick, ControlInv, ProgressInv, Entered
  <2>2. /\ Len(sent') = Len(sent) + 1 /\ sent'[Len(sent) + 1].id = "CZ_REQUEST_TIME"
        /\ \A i \in 1..Len(sent) : sent'[i] = sent[i]
    BY <1>5, HandlerSent
  <2>3. \A i \in 1..Len(sent') : \/ i \in 1..Len(sent) /\ sent'[i] = sent[i]
                               \/ i = Len(sent) + 1
    BY <1>0, <2>2
  <2>4. \A i \in 1..Len(sent') :
          /\ sent'[i].id = "CZ_REQUEST_TIME" => i = Len(sent) + 1
          /\ sent'[i].id = "CZ_NOTIFY_ACTORINIT" => i = Len(sent)
    BY <1>0, <2>1, <2>2, <2>3 DEF Unsent
  <2>5. /\ sent'[(Len(sent) + 1) - 1].id = "CZ_NOTIFY_ACTORINIT"
        /\ sent'[Len(sent) - 1].id = "CZ_ENTER"
    BY <1>0, <2>1, <2>2
  <2> QED
    BY <2>4, <2>5
<1>6. CASE Connect
  BY <1>6 DEF Connect
<1> QED
  BY SendingCases, <1>1, <1>2, <1>3, <1>4, <1>5, <1>6

\* However the servers repeat, mix up or split their answers, the map-loaded
\* confirmation and the selection of a character are sent once and in their
\* place, for every packet version (fsm.go:690-716, 842-844).
THEOREM RequestsInOrder == AnySpec => []SentInOrder
<1>1. AnyInit => ProgressInv /\ SelectInv /\ LoadedOnce /\ SelectAnswersList
  BY DEF AnyInit, Init, ProgressInv, SelectInv, LoadedOnce, SelectAnswersList, SentAt, Unsent,
         Entered
<1>2. TypeOK /\ ControlInv /\ ProgressInv /\ SelectInv /\ LoadedOnce /\ SelectAnswersList
      /\ [AnyNext]_allVars => ProgressInv' /\ SelectInv' /\ LoadedOnce' /\ SelectAnswersList'
  BY ProgressNext, SelectNext, LoadedNext
<1>3. LoadedOnce /\ SelectAnswersList => SentInOrder
  BY DEF SentInOrder
<1> QED
  BY <1>1, <1>2, <1>3, FSMTypeCorrect, PTL DEF AnySpec

-----------------------------------------------------------------------------
(* Success.                                                                *)

LEMMA RefusalNext ==
    ASSUME TypeOK, ControlInv, RefusalInv, [AnyNext]_allVars PROVE RefusalInv'
<1> USE DEF ioVars, connVars, callVars, history, RefusalInv
<1>0. res \in ResType
  BY DEF TypeOK
<1>1. CASE Failed
  BY <1>1 DEF Failed, Fail
<1>2. CASE Loops
  BY <1>2 DEF Loops, Read, ReadEcho, EnterRead, FeedEnds, HandleUnknown
<1>3. CASE DialOK
  BY <1>3 DEF DialOK
<1>4. CASE SendEnter \/ SendSelect
  BY <1>0, <1>4 DEF SendEnter, SendSelect, ResType
<1>5. CASE HandleOther \/ HandleMapAccept
  BY <1>5 DEF HandleOther, HandleMapAccept, Handles, Consume
<1>6. CASE HandleLoginAccept \/ SwallowBan \/ HandleZone
  <2>1. res.err => res'.err
    BY <1>0, <1>6 DEF HandleLoginAccept, SwallowBan, HandleZone, ResType
  <2> QED
    BY <1>6, <2>1, NextPacket DEF HandleLoginAccept, SwallowBan, HandleZone, Handles, Consume
<1>7. CASE HandleRefuse \/ HandleBan
  <2>1. res'.err
    BY <1>0, <1>7 DEF HandleRefuse, HandleBan, ResType
  <2> QED
    BY <1>7, <2>1, NextPacket DEF HandleRefuse, HandleBan, Handles, Consume
<1>8. ASSUME NEW slot \in Slots, Lists(slot) PROVE RefusalInv'
  <2>1. res.err => res'.err
    BY <1>0, <1>8 DEF Lists, HandleCharList, HandlePage, PickCharSlot, ResType
  <2> QED
    BY <1>8, <2>1 DEF Lists, HandleCharList, HandlePage, Consume
<1>9. ASSUME NEW k \in 0..2, Notified(k) PROVE RefusalInv'
  <2>1. res.err => res'.err
    BY <1>0, <1>9 DEF Notified, HandleListNotify, ResType
  <2> QED
    BY <1>9, <2>1 DEF Notified, HandleListNotify, Consume
<1>10. CASE DelayEnds \/ SendMapLoaded
  BY <1>10 DEF DelayEnds, SendMapLoaded
<1>11. CASE DelayCancelled \/ SendInHandlerFails \/ SendTick
  <2>1. res.err => res'.err
    BY <1>0, <1>11 DEF DelayCancelled, SendInHandlerFails, SendTick, ResType
  <2> QED
    BY <1>11, <2>1 DEF DelayCancelled, SendInHandlerFails, SendTick
<1>12. CASE (\E i \in Indices : LoginDone(i)) \/ CharDone \/ MapDone
  BY <1>12 DEF LoginDone, CharDone, MapDone, Done
<1>13. CASE Connect \/ Cancel \/ UNCHANGED vars
  BY <1>13 DEF Connect, Cancel, vars
<1> QED
  BY AnyNextCases, <1>1, <1>2, <1>3, <1>4, <1>5, <1>6, <1>7, <1>8, <1>9, <1>10, <1>11, <1>12,
     <1>13

LEMMA ReadyNext ==
    ASSUME TypeOK, ControlInv, ProgressInv, RefusalInv, ReadyIsHonest, [AnyNext]_allVars
    PROVE  ReadyIsHonest'
<1> USE DEF ioVars, connVars, callVars, history, ReadyIsHonest
<1>1. CASE Failed
  BY <1>1 DEF Failed, Fail
<1>2. CASE MapDone
  <2>1. phase = "map" /\ step = "loop" /\ res.done /\ ~res.err /\ ~refused
    BY <1>2 DEF MapDone, Done, RefusalInv
  <2>2. /\ Len(sent) >= 5 /\ sent[1].id = "CA_LOGIN"
        /\ sent[Len(sent) - 2].id = "CZ_ENTER"
        /\ sent[Len(sent) - 1].id = "CZ_NOTIFY_ACTORINIT"
        /\ sent[Len(sent)].id = "CZ_REQUEST_TIME"
    BY <2>1 DEF ProgressInv, Entered, TypeOK
  <2>3. sent' = sent /\ refused' = refused
    BY <1>2 DEF MapDone
  <2> QED
    BY <2>1, <2>2, <2>3
<1>3. CASE UNCHANGED vars
  BY <1>3 DEF vars
<1>4. CASE Loops \/ DialOK \/ SendEnter \/ SendSelect \/ Connect \/ Cancel
  <2>1. phase' # "idle"
    BY <1>4 DEF Loops, Read, ReadEcho, EnterRead, FeedEnds, HandleUnknown, DialOK, SendEnter,
                SendSelect, Connect, Cancel, ControlInv
  <2> QED
    BY <2>1
<1>5. CASE \/ HandleOther \/ HandleLoginAccept \/ HandleRefuse \/ HandleBan \/ SwallowBan
           \/ HandleZone \/ (\E slot \in Slots : Lists(slot)) \/ (\E k \in 0..2 : Notified(k))
           \/ HandleMapAccept
  <2>1. phase' # "idle"
    BY <1>5 DEF HandleOther, HandleLoginAccept, HandleRefuse, HandleBan, SwallowBan, HandleZone,
                Lists, HandleCharList, HandlePage, Notified, HandleListNotify, HandleMapAccept,
                Handles, Consume, ControlInv
  <2> QED
    BY <2>1
<1>6. CASE \/ DelayEnds \/ DelayCancelled \/ SendInHandlerFails \/ SendMapLoaded \/ SendTick
           \/ (\E i \in Indices : LoginDone(i)) \/ CharDone
  <2>1. phase' # "idle"
    BY <1>6 DEF DelayEnds, DelayCancelled, SendInHandlerFails, SendMapLoaded, SendTick, LoginDone,
                CharDone, ControlInv
  <2> QED
    BY <2>1
<1> QED
  BY AnyNextCases, <1>1, <1>2, <1>3, <1>4, <1>5, <1>6

\* OnReady is called only when no server refused or banned this Connect and the
\* map was entered and confirmed in order (fsm.go:269-273, 841-903).
THEOREM ReadyOnlyInGame == AnySpec => []ReadyIsHonest
<1>1. AnyInit => ProgressInv /\ RefusalInv /\ ReadyIsHonest
  BY DEF AnyInit, Init, ProgressInv, RefusalInv, ReadyIsHonest, Unsent, Entered
<1>2. TypeOK /\ ControlInv /\ ProgressInv /\ RefusalInv /\ ReadyIsHonest /\ [AnyNext]_allVars
        => ProgressInv' /\ RefusalInv' /\ ReadyIsHonest'
  BY ProgressNext, RefusalNext, ReadyNext
<1> QED
  BY <1>1, <1>2, FSMTypeCorrect, PTL DEF AnySpec
-----------------------------------------------------------------------------
(* The promise to the caller.                                              *)

\* A Connect has a number, and what the char phase would report is an answer of the caller,
\* or nothing.
PromiseInv ==
    /\ phase # "idle" => attempt # 0
    /\ phase = "char" /\ step # "dial" => res.selectedSlot \in answers \cup {0}

LEMMA PromiseNext ==
    ASSUME TypeOK, ControlInv, PromiseInv, [AnyNext]_allVars PROVE PromiseInv'
<1> USE DEF ioVars, connVars, callVars, history, PromiseInv
<1>0. res \in ResType /\ attempt \in Nat
  BY MaxConnectsAssumption DEF TypeOK
<1>1. CASE Failed
  BY <1>1 DEF Failed, Fail
<1>2. CASE Loops
  BY <1>2 DEF Loops, Read, ReadEcho, EnterRead, FeedEnds, HandleUnknown
<1>3. CASE DialOK
  <2>1. res'.selectedSlot = 0
    BY <1>3 DEF DialOK, noRes
  <2> QED
    BY <1>3, <2>1 DEF DialOK
<1>4. CASE SendEnter \/ SendSelect
  <2>1. res'.selectedSlot = res.selectedSlot
    BY <1>0, <1>4 DEF SendEnter, SendSelect, ResType
  <2> QED
    BY <1>4, <2>1 DEF SendEnter, SendSelect
<1>5. CASE HandleOther \/ HandleMapAccept
  BY <1>5 DEF HandleOther, HandleMapAccept, Handles, Consume
<1>6. CASE HandleLoginAccept \/ SwallowBan \/ HandleZone \/ HandleRefuse \/ HandleBan
  <2>1. res'.selectedSlot = res.selectedSlot
    BY <1>0, <1>6 DEF HandleLoginAccept, SwallowBan, HandleZone, HandleRefuse, HandleBan, ResType
  <2> QED
    BY <1>6, <2>1 DEF HandleLoginAccept, SwallowBan, HandleZone, HandleRefuse, HandleBan, Handles,
                      Consume
<1>7. ASSUME NEW slot \in Slots, Lists(slot) PROVE PromiseInv'
  <2>1. \/ res'.selectedSlot = slot /\ answers' = answers \cup {slot}
        \/ res'.selectedSlot = res.selectedSlot /\ answers' = answers
    BY <1>0, <1>7 DEF Lists, HandleCharList, HandlePage, PickCharSlot, ResType
  <2> QED
    BY <1>7, <2>1 DEF Lists, HandleCharList, HandlePage, Handles, Consume
<1>8. ASSUME NEW k \in 0..2, Notified(k) PROVE PromiseInv'
  <2>1. res'.selectedSlot = res.selectedSlot
    BY <1>0, <1>8 DEF Notified, HandleListNotify, ResType
  <2> QED
    BY <1>8, <2>1 DEF Notified, HandleListNotify, Consume
<1>9. CASE DelayEnds \/ SendMapLoaded \/ DelayCancelled \/ SendInHandlerFails \/ SendTick
  <2>1. phase = "map"
    BY <1>9 DEF DelayEnds, SendMapLoaded, DelayCancelled, SendInHandlerFails, SendTick, ControlInv
  <2> QED
    BY <1>9, <2>1 DEF DelayEnds, SendMapLoaded, DelayCancelled, SendInHandlerFails, SendTick
<1>10. CASE (\E i \in Indices : LoginDone(i)) \/ CharDone \/ MapDone
  BY <1>10 DEF LoginDone, CharDone, MapDone, Done
<1>11. CASE Connect
  BY <1>0, <1>11 DEF Connect
<1>12. CASE Cancel \/ UNCHANGED vars
  BY <1>12 DEF Cancel, vars
<1> QED
  BY AnyNextCases, <1>1, <1>2, <1>3, <1>4, <1>5, <1>6, <1>7, <1>8, <1>9, <1>10, <1>11, <1>12

\* Inside a phase the FSM holds the connection it has dialled for it.
LEMMA HeldConnection ==
    ASSUME TypeOK, ConnOwnership, phase # "idle", step # "dial"
    PROVE  open = {conns} /\ conns \in Nat /\ conns # 0
<1>1. open = {conns} /\ open \subseteq 1..conns /\ conns \in Nat
  BY DEF TypeOK, ConnOwnership
<1>2. conns \in 1..conns
  BY <1>1
<1> QED
  BY <1>1, <1>2

\* What is granted depends on the tokens alone.
LEMMA GrantedIs ==
    /\ "login" \in Granted <=> auth.login # 0
    /\ "char" \in Granted <=> auth.charID # 0
    /\ Granted \subseteq {"login", "char"}
BY DEF Granted

LEMMA GrantedNext ==
    /\ "login" \in Granted' <=> auth'.login # 0
    /\ "char" \in Granted' <=> auth'.charID # 0
    /\ Granted' \subseteq {"login", "char"}
    /\ auth' = auth => Granted' = Granted
BY DEF Granted

\* Steps the caller has no part in.
LEMMA PromiseStutters ==
    ASSUME phase' = phase, conns' = conns, open' = open, handed' = handed, auth' = auth,
           refused' = refused, answers' = answers, identity' = identity, outcome' = outcome
    PROVE  UNCHANGED Promise!vars
BY GrantedNext, Zenon DEF Promise!vars

\* Each step of Connect is a step of the promise, or none.
LEMMA PromiseStep ==
    ASSUME TypeOK, ControlInv, ConnOwnership, RefusalInv, TokenInv, PromiseInv,
           [AnyNext]_allVars
    PROVE  [Promise!Next]_(Promise!vars)
<1> USE DEF ioVars, connVars, callVars, history
<1>0. /\ phase \in {"idle", "login", "char", "map"} /\ conns \in Nat
      /\ attempt \in Nat /\ auth \in AuthType /\ res \in ResType
  BY MaxConnectsAssumption DEF TypeOK, Phases
<1>1. CASE Failed
  <2>1. Promise!GiveUp
    BY <1>0, <1>1, GrantedNext DEF Failed, Fail, Promise!GiveUp
  <2> QED
    BY <2>1 DEF Promise!Next
<1>2. CASE \/ Loops \/ SendEnter \/ SendSelect \/ HandleOther \/ SwallowBan \/ HandleMapAccept
           \/ DelayEnds \/ DelayCancelled \/ SendMapLoaded \/ SendTick \/ SendInHandlerFails
           \/ Cancel \/ UNCHANGED vars \/ (\E k \in 0..2 : Notified(k))
  <2>1. /\ phase' = phase /\ conns' = conns /\ open' = open /\ handed' = handed /\ auth' = auth
        /\ refused' = refused /\ answers' = answers /\ identity' = identity /\ outcome' = outcome
    BY <1>2 DEF Loops, Read, ReadEcho, EnterRead, FeedEnds, HandleUnknown, SendEnter, SendSelect,
                HandleOther, SwallowBan, HandleMapAccept, Consume, DelayEnds, DelayCancelled,
                SendMapLoaded, SendTick, SendInHandlerFails, Cancel, vars, Notified,
                HandleListNotify
  <2> QED
    BY <2>1, PromiseStutters
<1>3. CASE DialOK
  <2>1. open = {}
    BY <1>3 DEF DialOK, ConnOwnership
  <2>2. Promise!Dial
    BY <1>0, <1>3, <2>1, GrantedNext DEF DialOK, Promise!Dial
  <2> QED
    BY <2>2 DEF Promise!Next
<1>4. CASE HandleLoginAccept
  <2>1. CASE auth' = auth
    <3>1. /\ phase' = phase /\ conns' = conns /\ open' = open /\ handed' = handed
          /\ refused' = refused /\ answers' = answers /\ identity' = identity
          /\ outcome' = outcome
      BY <1>4 DEF HandleLoginAccept, Consume
    <3> QED
      BY <2>1, <3>1, PromiseStutters
  <2>2. CASE auth' # auth
    <3>1. auth'.login = attempt /\ auth'.charID = auth.charID
      BY <1>0, <1>4, <2>2 DEF HandleLoginAccept, AuthType
    <3>2. phase = "login" /\ step = "feed"
      BY <1>4, NextPacket DEF HandleLoginAccept, Handles
    <3>3. attempt # 0
      BY <3>2 DEF PromiseInv
    <3>4. Granted' = Granted \cup {"login"}
      BY <3>1, <3>3, GrantedIs, GrantedNext
    <3>5. Promise!Grant
      BY <1>4, <3>2, <3>4, HeldConnection DEF HandleLoginAccept, Consume, Promise!Grant
    <3> QED
      BY <3>5 DEF Promise!Next
  <2> QED
    BY <2>1, <2>2
<1>5. CASE HandleZone
  <2>1. auth'.charID = attempt /\ auth'.login = auth.login
    BY <1>0, <1>5 DEF HandleZone, AuthType
  <2>2. phase = "char" /\ step = "feed"
    BY <1>5, NextPacket DEF HandleZone, Handles
  <2>3. attempt # 0
    BY <2>2 DEF PromiseInv
  <2>4. Granted' = Granted \cup {"char"}
    BY <2>1, <2>3, GrantedIs, GrantedNext
  <2>5. Promise!Grant
    BY <1>5, <2>2, <2>4, HeldConnection DEF HandleZone, Consume, Promise!Grant
  <2> QED
    BY <2>5 DEF Promise!Next
<1>6. CASE HandleRefuse \/ HandleBan
  <2>1. phase # "idle" /\ step = "feed"
    BY <1>6, NextPacket DEF HandleRefuse, HandleBan, Handles
  <2>2. Promise!Refuse
    BY <1>6, <2>1, HeldConnection, GrantedNext DEF HandleRefuse, HandleBan, Consume, Promise!Refuse
  <2> QED
    BY <2>2 DEF Promise!Next
<1>7. ASSUME NEW slot \in Slots, Lists(slot) PROVE [Promise!Next]_(Promise!vars)
  <2>1. phase = "char" /\ step = "feed"
    BY <1>7, NextPacket DEF Lists, HandleCharList, HandlePage, Handles
  <2>2. answers' = answers \/ answers' = answers \cup {slot}
    BY <1>7 DEF Lists, HandleCharList, HandlePage, PickCharSlot
  <2>3. /\ phase' = phase /\ conns' = conns /\ open' = open /\ handed' = handed /\ auth' = auth
        /\ refused' = refused /\ identity' = identity /\ outcome' = outcome
    BY <1>7 DEF Lists, HandleCharList, HandlePage, Consume
  <2>4. CASE answers' = answers
    BY <2>3, <2>4, PromiseStutters
  <2>5. CASE answers' = answers \cup {slot}
    <3>1. Promise!Answer
      BY <2>1, <2>3, <2>5, HeldConnection, GrantedNext DEF Promise!Answer
    <3> QED
      BY <3>1 DEF Promise!Next
  <2> QED
    BY <2>2, <2>4, <2>5
<1>8. ASSUME NEW i \in Indices, LoginDone(i) PROVE [Promise!Next]_(Promise!vars)
  <2>1. phase = "login" /\ step = "loop" /\ res.done /\ ~res.err
    BY <1>8 DEF LoginDone, Done
  <2>2. auth.login = attempt /\ attempt # 0 /\ ~refused
    BY <2>1 DEF TokenInv, Running, PromiseInv, RefusalInv
  <2>3. "login" \in Granted
    BY <2>2, GrantedIs
  <2>4. Promise!LoggedIn
    BY <1>8, <2>1, <2>2, <2>3, HeldConnection, GrantedNext DEF LoginDone, Promise!LoggedIn
  <2> QED
    BY <2>4 DEF Promise!Next
<1>9. CASE CharDone
  <2>1. phase = "char" /\ step = "loop" /\ res.done /\ ~res.err
    BY <1>9 DEF CharDone, Done
  <2>2. auth.charID = attempt /\ attempt # 0 /\ ~refused
    BY <2>1 DEF TokenInv, Running, PromiseInv, RefusalInv
  <2>3. "char" \in Granted
    BY <2>2, GrantedIs
  <2>4. identity' \in answers \cup {0}
    BY <1>9, <2>1 DEF CharDone, PromiseInv
  <2>5. Promise!Selected
    BY <1>9, <2>1, <2>2, <2>3, <2>4, HeldConnection, GrantedNext DEF CharDone, Promise!Selected
  <2> QED
    BY <2>5 DEF Promise!Next
<1>10. CASE MapDone
  <2>1. phase = "map" /\ step = "loop" /\ ~refused
    BY <1>10 DEF MapDone, Done, RefusalInv
  <2>2. open = {conns} /\ conns # 0
    BY <2>1, HeldConnection
  <2>3. Promise!Ready
    BY <1>10, <2>1, <2>2, GrantedNext DEF MapDone, Promise!Ready
  <2> QED
    BY <2>3 DEF Promise!Next
<1>11. CASE Connect
  <2>1. Granted' = {}
    BY <1>11, GrantedNext DEF Connect, noAuth
  <2>2. Promise!Begin
    BY <1>11, <2>1 DEF Connect, Promise!Begin
  <2> QED
    BY <2>2 DEF Promise!Next
<1> QED
  BY AnyNextCases, <1>1, <1>2, <1>3, <1>4, <1>5, <1>6, <1>7, <1>8, <1>9, <1>10, <1>11

\* Connect keeps its promise against any servers, for every packet version: one connection at
\* a time, no server left behind without its grant to this call or after a refusal, and in the
\* end the caller has the connection or nobody has (fsm.go:269-303, 341-378).
THEOREM ConnectImplementsLogin == AnySpec => ImplementsLogin
<1>1. AnyInit => Promise!Init
  <2> SUFFICES ASSUME AnyInit PROVE Promise!Init
    OBVIOUS
  <2>1. Granted = {}
    BY GrantedIs DEF AnyInit, Init, noAuth
  <2> QED
    BY <2>1 DEF AnyInit, Init, Promise!Init
<1>2. AnyInit => RefusalInv /\ TokenInv /\ PromiseInv
  BY DEF AnyInit, Init, RefusalInv, TokenInv, PromiseInv, Running
<1>3. TypeOK /\ ControlInv /\ RefusalInv /\ TokenInv /\ PromiseInv /\ [AnyNext]_allVars
        => RefusalInv' /\ TokenInv' /\ PromiseInv'
  BY RefusalNext, TokenNext, PromiseNext
<1>4. TypeOK /\ ControlInv /\ ConnOwnership /\ RefusalInv /\ TokenInv /\ PromiseInv
        /\ [AnyNext]_allVars => [Promise!Next]_(Promise!vars)
  BY PromiseStep, Zenon
<1> QED
  BY <1>1, <1>2, <1>3, <1>4, FSMTypeCorrect, ConnectionsOwned, PTL
  DEF AnySpec, ImplementsLogin, Promise!Spec
=============================================================================
