------------------------ MODULE RathenaServerProofs ------------------------
(***************************************************************************)
(* Proofs about ConnectionFSM against servers that answer as rAthena's do, *)
(* for every packet version, every answer of the callbacks, every way of   *)
(* cutting the answers into reads and any number of faults and Connects.   *)
(***************************************************************************)
EXTENDS RathenaServer, SequenceTheorems, TLAPS

IsSeq(s) == \E S : s \in Seq(S)

LEMMA AppendAny ==
    ASSUME NEW s, IsSeq(s), NEW e
    PROVE  /\ IsSeq(Append(s, e))
           /\ Len(s) \in Nat
           /\ Len(Append(s, e)) = Len(s) + 1
           /\ \A i \in 1..Len(s) : Append(s, e)[i] = s[i]
           /\ Append(s, e)[Len(s) + 1] = e
<1>1. PICK S : s \in Seq(S)
  BY DEF IsSeq
<1> DEFINE T == S \cup {e}
<1>2. s \in Seq(T) /\ e \in T
  BY <1>1, SeqMonotonic
<1> HIDE DEF T
<1>3. /\ Append(s, e) \in Seq(T)
      /\ Len(Append(s, e)) = Len(s) + 1
      /\ \A i \in 1..Len(s) : Append(s, e)[i] = s[i]
      /\ Append(s, e)[Len(s) + 1] = e
  BY <1>2, AppendProperties
<1> QED
  BY <1>2, <1>3 DEF IsSeq

LEMMA ConcatAny ==
    ASSUME NEW S, NEW s \in Seq(S), NEW e, NEW r \in Seq({e})
    PROVE  /\ IsSeq(s \o r)
           /\ Len(s) \in Nat
           /\ Len(s \o r) = Len(s) + Len(r)
           /\ \A i \in 1..Len(s) : (s \o r)[i] = s[i]
           /\ \A i \in (Len(s) + 1)..(Len(s) + Len(r)) : (s \o r)[i] = e
<1> DEFINE T == S \cup {e}
<1>2. s \in Seq(T) /\ r \in Seq(T)
  BY SeqMonotonic
<1> HIDE DEF T
<1>3. Len(s) \in Nat /\ Len(r) \in Nat /\ \A i \in 1..Len(r) : r[i] = e
  OBVIOUS
<1>4. /\ s \o r \in Seq(T) /\ Len(s \o r) = Len(s) + Len(r)
      /\ \A i \in 1..(Len(s) + Len(r)) : (s \o r)[i] = IF i <= Len(s) THEN s[i] ELSE r[i - Len(s)]
  BY <1>2, ConcatProperties
<1>5. \A i \in 1..Len(s) : (s \o r)[i] = s[i]
  BY <1>3, <1>4
<1>6. \A i \in (Len(s) + 1)..(Len(s) + Len(r)) : (s \o r)[i] = e
  <2> TAKE i \in (Len(s) + 1)..(Len(s) + Len(r))
  <2>1. i \in 1..(Len(s) + Len(r)) /\ ~(i <= Len(s)) /\ i - Len(s) \in 1..Len(r)
    BY <1>3
  <2>2. (s \o r)[i] = r[i - Len(s)]
    BY <1>4, <2>1
  <2> QED
    BY <1>3, <2>1, <2>2
<1> QED
  BY <1>3, <1>4, <1>5, <1>6 DEF IsSeq

\* Types, and where Connect can be.
PlaceInv ==
    /\ phase \in Phases \cup {"idle"}
    /\ phase = "idle" => step = "dial"
    /\ step \notin {"feed", "delay", "loaded", "tick"} => batch = << >>
    /\ phase \in {"login", "char"} => step \notin {"delay", "loaded", "tick"}
    /\ batch \in Seq(Packets) /\ inbox \in Seq(Packets)
    /\ IsSeq(sent)
    /\ seen \in 0..Len(sent)
    /\ phase = "char" /\ step # "dial" => res \in ResType

\* The phase has not yet written its first packet.
Entering == step \in {"dial", "enter"}

\* Login: the one request has one answer, and a phase that is done has had it.
LoginInv ==
    phase = "login" =>
      /\ Entering => sent = << >> /\ inbox = << >>
      /\ ~Entering => Len(sent) = 1 /\ sent[1].id = "CA_LOGIN"
      /\ seen = 0 => batch = << >> /\ inbox = << >>
      /\ step = "enter" => ~res.done
      /\ ~Entering /\ res.done => seen = 1
      /\ batch \in Seq({Pkt("AC_ACCEPT_LOGIN", 1)}) /\ inbox \in Seq({Pkt("AC_ACCEPT_LOGIN", 1)})

-----------------------------------------------------------------------------
(* The stages of the conversation with the char server.                    *)

\* The packet that ends the answer to CH_ENTER, and those before it.
LastOfList == IF ListIsDirect THEN Pkt("HC_ACCEPT_ENTER", 0) ELSE Pkt("HC_CHARLIST_NOTIFY", Chars)
ListAnswers == {LastOfList, Pkt("HC_ACCEPT_ENTER", 0), Pkt("Other", 0)}

NotPicked == ~res.gotCharList /\ ~res.slotSent /\ ~res.done

\* CH_ENTER is the last packet sent, and nothing comes after the end of its answer.
Listing ==
    /\ NotPicked /\ ~res.writeErr /\ ~res.got09A0
    /\ Len(sent) > 0 /\ sent[Len(sent)].id = "CH_ENTER"
    /\ seen = Len(sent) - 1 \/ seen = Len(sent)
    /\ seen < Len(sent) => batch = << >> /\ inbox = << >>
    /\ res.pagesRecv = 0
    /\ batch \in Seq(ListAnswers) /\ inbox \in Seq(ListAnswers)
    /\ \A i \in 1..Len(batch) : batch[i] = LastOfList => i = Len(batch) /\ inbox = << >>
    /\ \A i \in 1..Len(inbox) : inbox[i] = LastOfList => i = Len(inbox)

\* The pages handled, read, on their way and asked for: no more than were announced.
Pages == res.pagesRecv + Len(batch) + Len(inbox) + Len(sent) - seen
Paging ==
    /\ NotPicked /\ res.got09A0 /\ ~ListIsDirect
    /\ \A i \in (seen + 1)..Len(sent) : sent[i].id = "CH_CHARLIST_REQ"
    /\ batch \in Seq({Page}) /\ inbox \in Seq({Page})
    /\ res.writeErr => batch = << >> /\ step \in {"feed", "loop"}
    /\ ~res.writeErr =>
         /\ res.charsExpected = Chars
         /\ PageKnown => Pages <= Chars

\* OnCharList has answered, and nothing more is to come until the selection is sent.
Picked ==
    /\ res.gotCharList /\ ~res.slotSent /\ ~res.done /\ ~res.writeErr
    /\ batch = << >> /\ inbox = << >> /\ seen = Len(sent)

\* The slot that OnIdentity will report was sent last.
Selected ==
    /\ res.slotSent /\ ~res.writeErr /\ res.gotCharList
    /\ Len(sent) > 0 /\ sent[Len(sent)].id = "CH_SELECT_CHAR"
    /\ sent[Len(sent)].slot = res.selectedSlot
    /\ seen = Len(sent) - 1 \/ seen = Len(sent)
    /\ batch \in Seq({Pkt("HC_NOTIFY_ZONESVR", 0)}) /\ inbox \in Seq({Pkt("HC_NOTIFY_ZONESVR", 0)})

CharInv ==
    phase = "char" =>
      /\ Entering => inbox = << >> /\ seen = Len(sent)
      /\ step = "enter" => res = noRes
      /\ ~Entering => Listing \/ Paging \/ Picked \/ Selected

RathenaInv == PlaceInv /\ LoginInv /\ CharInv /\ IdentityMatchesSelection

-----------------------------------------------------------------------------
(* The steps.                                                              *)

\* Connect returns an error.
Failed == Fail /\ UNCHANGED <<res, sent, history>>

\* A packet is handled and nothing is sent.
Handling ==
    \/ HandleOther \/ HandleLoginAccept \/ HandleRefuse \/ HandleBan \/ SwallowBan \/ HandleZone
    \/ \E slot \in Slots : HandleCharList(slot) \/ HandlePage(slot)

Notified(k) == step = "feed" /\ batch # << >> /\ HandleListNotify(k)

\* Steps of the handler of ZC_ACCEPT_ENTER.
Accepting ==
    DelayEnds \/ DelayCancelled \/ SendMapLoaded \/ SendTick \/ SendInHandlerFails

LEMMA PacketFacts ==
    ASSUME NEW p \in Packets
    PROVE  p.id = "HC_CHARLIST_NOTIFY" => p.val \in 0..2
BY DEF Packets, LoginPackets, CharPackets, MapPackets, Noise, Pkt

\* The steps of the client other than reads.
Moves ==
    \/ Failed \/ ReadEcho \/ EnterRead \/ FeedEnds \/ HandleUnknown \/ DialOK \/ SendEnter
    \/ SendSelect \/ Handling \/ (\E k \in 0..2 : Notified(k)) \/ HandleMapAccept \/ Accepting
    \/ (\E i \in Indices : LoginDone(i)) \/ CharDone \/ MapDone

LEMMA NextCases ==
    ASSUME PlaceInv, [RathenaNext]_allVars
    PROVE  \/ ServerAnswers \/ ClientReads \/ Reconnects \/ UNCHANGED allVars
           \/ Moves /\ Rest /\ seen' = seen
<1>0. step = "feed" /\ batch # << >> => Head(batch) \in Packets
  BY HeadTailProperties DEF PlaceInv
<1>1. ASSUME ReadFails PROVE Moves
  BY <1>1 DEF ReadFails, Moves, Failed
<1>2. ASSUME Faults PROVE Moves
  <2>1. CASE DialFails \/ SendEnterFails \/ ReadEchoFails \/ SendSelectFails
    BY <2>1 DEF DialFails, SendEnterFails, ReadEchoFails, SendSelectFails, Failed, Moves
  <2>2. CASE SendInHandlerFails
    BY <2>2 DEF Moves, Accepting
  <2>3. ASSUME step = "feed", batch # << >>, NEW k \in 0..(Head(batch).val - 1), HandleListNotify(k)
        PROVE  Moves
    <3>1. Head(batch).val \in 0..2
      BY <1>0, <2>3, PacketFacts DEF HandleListNotify, Handles
    <3>2. k \in 0..2
      BY <3>1
    <3> QED
      BY <2>3, <3>2 DEF Notified, Moves
  <2> QED
    BY <1>2, <2>1, <2>2, <2>3 DEF Faults
<1>3. ASSUME Progress PROVE Moves
  <2>1. CASE HandlePacket
    BY <2>1 DEF HandlePacket, HandleCorrupt, Failed, Handling, Moves
  <2>2. CASE step = "feed" /\ batch # << >> /\ HandleListNotify(Head(batch).val)
    <3>1. Head(batch).val \in 0..2
      BY <1>0, <2>2, PacketFacts DEF HandleListNotify, Handles
    <3> QED
      BY <2>2, <3>1 DEF Notified, Moves
  <2>3. CASE PhaseFails \/ FeedEndsWithReadError \/ \E i \in Indices : LoginIndexOutOfRange(i)
    BY <2>3 DEF PhaseFails, FeedEndsWithReadError, LoginIndexOutOfRange, Failed, Moves
  <2> QED
    BY <1>3, <2>1, <2>2, <2>3 DEF Progress, Moves, Accepting
<1>4. CASE ClientSteps
  BY <1>3, <1>4 DEF ClientSteps
<1>5. CASE ClientTimesOut
  BY <1>1, <1>5 DEF ClientTimesOut
<1>6. CASE NetworkFails
  BY <1>2, <1>6 DEF NetworkFails
<1> QED
  BY <1>4, <1>5, <1>6 DEF RathenaNext, Finished

\* What handling a packet leaves alone.
LEMMA HandlingFacts ==
    ASSUME Handling
    PROVE  /\ step = "feed" /\ batch # << >> /\ batch' = Tail(batch)
           /\ phase' = phase /\ step' = step /\ sent' = sent /\ identity' = identity
BY DEF Handling, HandleOther, HandleLoginAccept, HandleRefuse, HandleBan, SwallowBan, HandleZone,
       HandleCharList, HandlePage, PickCharSlot, Handles, Consume, history

\* The list notify appends requests for pages.
LEMMA PagesAskedFor ==
    ASSUME PlaceInv, NEW k \in 0..2, Notified(k)
    PROVE  /\ IsSeq(sent') /\ Len(sent) \in Nat /\ Len(sent') = Len(sent) + k
           /\ \A i \in 1..Len(sent) : sent'[i] = sent[i]
           /\ \A i \in (Len(sent) + 1)..Len(sent') : sent'[i].id = "CH_CHARLIST_REQ"
<1> DEFINE e == Plain("CH_CHARLIST_REQ")
           r == [i \in 1..k |-> e]
<1>1. sent' = sent \o r
  BY Zenon DEF Notified, HandleListNotify
<1>7. e.id = "CH_CHARLIST_REQ"
  BY DEF Plain
<1> HIDE DEF e
<1>8. r \in Seq({e}) /\ Len(r) = k
  OBVIOUS
<1> HIDE DEF r
<1>2. PICK S : sent \in Seq(S)
  BY DEF IsSeq, PlaceInv
<1>3. IsSeq(sent \o r)
  BY <1>2, <1>8, ConcatAny
<1>4. Len(sent) \in Nat /\ Len(sent \o r) = Len(sent) + Len(r)
  BY <1>2, <1>8, ConcatAny
<1>5. \A i \in 1..Len(sent) : (sent \o r)[i] = sent[i]
  BY <1>2, <1>8, ConcatAny
<1>6. \A i \in (Len(sent) + 1)..(Len(sent) + Len(r)) : (sent \o r)[i] = e
  BY <1>2, <1>8, ConcatAny
<1> QED
  BY <1>1, <1>3, <1>4, <1>5, <1>6, <1>7, <1>8

\* What a Connect has sent stays.
LEMMA SentGrows ==
    ASSUME PlaceInv, [RathenaNext]_allVars, ~Reconnects
    PROVE  /\ IsSeq(sent') /\ Len(sent) \in Nat /\ Len(sent') \in Nat /\ Len(sent') >= Len(sent)
           /\ \A i \in 1..Len(sent) : sent'[i] = sent[i]
<1>0. IsSeq(sent) /\ Len(sent) \in Nat
  <2>1. IsSeq(sent)
    BY DEF PlaceInv
  <2> QED
    BY <2>1, AppendAny
<1>1. CASE sent' = sent
  BY <1>0, <1>1
<1>2. ASSUME NEW e, sent' = Append(sent, e)
      PROVE  /\ IsSeq(sent') /\ Len(sent') = Len(sent) + 1
             /\ \A i \in 1..Len(sent) : sent'[i] = sent[i]
  BY <1>0, <1>2, AppendAny
<1>4. CASE ServerAnswers \/ ClientReads \/ UNCHANGED allVars
  BY <1>1, <1>4 DEF ServerAnswers, ClientReads, Read, allVars, vars
<1>5. CASE Failed \/ ReadEcho \/ EnterRead \/ FeedEnds \/ HandleUnknown \/ DialOK \/ HandleMapAccept
  BY <1>1, <1>5 DEF Failed, ReadEcho, EnterRead, FeedEnds, HandleUnknown, DialOK, HandleMapAccept
<1>6. CASE SendEnter
  BY <1>0, <1>2, <1>6 DEF SendEnter
<1>7. CASE SendSelect
  BY <1>0, <1>2, <1>7 DEF SendSelect
<1>8. CASE Handling
  BY <1>1, <1>8, HandlingFacts
<1>10. CASE SendMapLoaded \/ SendTick
  BY <1>0, <1>2, <1>10 DEF SendMapLoaded, SendTick
<1>11. CASE DelayEnds \/ DelayCancelled \/ SendInHandlerFails
  BY <1>1, <1>11 DEF DelayEnds, DelayCancelled, SendInHandlerFails
<1>12. CASE (\E i \in Indices : LoginDone(i)) \/ CharDone \/ MapDone
  BY <1>1, <1>12 DEF LoginDone, CharDone, MapDone
<1>13. (\E k \in 0..2 : Notified(k)) =>
         /\ Len(sent') \in Nat /\ Len(sent') >= Len(sent) /\ IsSeq(sent')
         /\ \A i \in 1..Len(sent) : sent'[i] = sent[i]
  <2> SUFFICES ASSUME NEW k \in 0..2, Notified(k)
               PROVE  /\ Len(sent') \in Nat /\ Len(sent') >= Len(sent) /\ IsSeq(sent')
                      /\ \A i \in 1..Len(sent) : sent'[i] = sent[i]
    OBVIOUS
  <2>1. Len(sent') = Len(sent) + k /\ IsSeq(sent') /\ \A i \in 1..Len(sent) : sent'[i] = sent[i]
    BY PagesAskedFor
  <2> QED
    BY <1>0, <2>1
<1> QED
  BY <1>0, <1>4, <1>5, <1>6, <1>7, <1>8, <1>10, <1>11, <1>12, <1>13, NextCases DEF Moves, Accepting

\* The answers are packets.
LEMMA AnswerIs ==
    /\ Answer("CA_LOGIN") = <<Pkt("AC_ACCEPT_LOGIN", 1)>>
    /\ ListIsDirect => Answer("CH_ENTER") = <<Pkt("HC_ACCEPT_ENTER", 0)>>
    /\ ~ListIsDirect => Answer("CH_ENTER") =
         <<Pkt("Other", 0), Pkt("HC_ACCEPT_ENTER", 0), Pkt("HC_CHARLIST_NOTIFY", Chars)>>
    /\ Answer("CH_CHARLIST_REQ") = <<Page>>
    /\ Answer("CH_SELECT_CHAR") = <<Pkt("HC_NOTIFY_ZONESVR", 0)>>
BY DEF Answer

LEMMA AnswerType == \A id : Answer(id) \in Seq(Packets)
<1> TAKE id
<1>1. /\ Pkt("Other", 0) \in Packets /\ Pkt("HC_ACCEPT_ENTER", 0) \in Packets
      /\ Pkt("AC_ACCEPT_LOGIN", 1) \in Packets /\ Pkt("HC_NOTIFY_ZONESVR", 0) \in Packets
      /\ Pkt("ZC_AID", 0) \in Packets /\ Pkt("ZC_ACCEPT_ENTER", 0) \in Packets
      /\ Pkt("HC_ACK_CHARINFO_PER_PAGE", 0) \in Packets
  BY DEF Packets, LoginPackets, CharPackets, MapPackets, Noise
<1>2. Pkt("HC_CHARLIST_NOTIFY", Chars) \in Packets /\ Page \in Packets
  BY <1>1, CharsAssumption DEF Packets, CharPackets, Page
<1>3. Answer("CZ_ENTER") = <<Pkt("ZC_AID", 0), Pkt("ZC_ACCEPT_ENTER", 0)>>
  BY DEF Answer
<1>4. CASE id \in {"CA_LOGIN", "CH_ENTER", "CH_CHARLIST_REQ", "CH_SELECT_CHAR", "CZ_ENTER"}
  <2>1. /\ <<Pkt("Other", 0), Pkt("HC_ACCEPT_ENTER", 0), Pkt("HC_CHARLIST_NOTIFY", Chars)>> \in Seq(Packets)
        /\ <<Pkt("HC_ACCEPT_ENTER", 0)>> \in Seq(Packets)
        /\ <<Pkt("AC_ACCEPT_LOGIN", 1)>> \in Seq(Packets) /\ <<Page>> \in Seq(Packets)
        /\ <<Pkt("HC_NOTIFY_ZONESVR", 0)>> \in Seq(Packets)
        /\ <<Pkt("ZC_AID", 0), Pkt("ZC_ACCEPT_ENTER", 0)>> \in Seq(Packets)
    BY <1>1, <1>2
  <2> QED
    BY <1>3, <1>4, <2>1, AnswerIs
<1>5. CASE id \notin {"CA_LOGIN", "CH_ENTER", "CH_CHARLIST_REQ", "CH_SELECT_CHAR", "CZ_ENTER"}
  <2>1. Answer(id) = <<Pkt("Other", 0)>>
    BY <1>5 DEF Answer
  <2> QED
    BY <1>1, <2>1
<1> QED
  BY <1>4, <1>5

-----------------------------------------------------------------------------
(* Reading and handling packets.                                           *)

\* A read takes the first packets on their way.
LEMMA CutFacts ==
    ASSUME NEW S, NEW s \in Seq(S), NEW n \in 1..Len(s)
    PROVE  /\ SubSeq(s, 1, n) \in Seq(S) /\ Len(SubSeq(s, 1, n)) = n
           /\ \A i \in 1..n : SubSeq(s, 1, n)[i] = s[i]
           /\ SubSeq(s, n + 1, Len(s)) \in Seq(S) /\ Len(SubSeq(s, n + 1, Len(s))) = Len(s) - n
           /\ \A i \in 1..(Len(s) - n) : SubSeq(s, n + 1, Len(s))[i] = s[n + i]
<1>1. Len(s) \in Nat /\ n \in Int /\ n >= 1 /\ n <= Len(s) /\ \A i \in 1..Len(s) : s[i] \in S
  BY ElementOfSeq
<1>2. \A i \in 1..n : s[i] \in S
  BY <1>1
<1>3. \A i \in (n + 1)..Len(s) : s[i] \in S
  BY <1>1
<1>4. /\ SubSeq(s, 1, n) \in Seq(S) /\ Len(SubSeq(s, 1, n)) = n
      /\ \A i \in 1..n : SubSeq(s, 1, n)[i] = s[i]
  BY <1>1, <1>2, SubSeqProperties
<1>5. /\ SubSeq(s, n + 1, Len(s)) \in Seq(S) /\ Len(SubSeq(s, n + 1, Len(s))) = Len(s) - n
      /\ \A i \in 1..(Len(s) - n) : SubSeq(s, n + 1, Len(s))[i] = s[n + i]
  BY <1>1, <1>3, SubSeqProperties
<1> QED
  BY <1>4, <1>5

\* The packets the servers answer with in the login and the char phase.
LEMMA HeadIs ==
    ASSUME PlaceInv, LoginInv, CharInv, step = "feed", batch # << >>
    PROVE  /\ phase = "login" => Head(batch) = Pkt("AC_ACCEPT_LOGIN", 1)
           /\ phase = "char" => \/ Listing /\ Head(batch) \in ListAnswers
                                \/ Paging /\ Head(batch) = Page
                                \/ Selected /\ Head(batch) = Pkt("HC_NOTIFY_ZONESVR", 0)
<1>1. CASE phase = "login"
  <2>1. Head(batch) \in {Pkt("AC_ACCEPT_LOGIN", 1)}
    BY <1>1, HeadTailProperties DEF LoginInv
  <2> QED
    BY <1>1, <2>1
<1>2. CASE phase = "char"
  <2>1. Listing \/ Paging \/ Selected
    BY <1>2 DEF CharInv, Entering, Picked
  <2>2. Listing => Head(batch) \in ListAnswers
    BY HeadTailProperties DEF Listing
  <2>3. Paging => Head(batch) \in {Page}
    BY HeadTailProperties DEF Paging
  <2>4. Selected => Head(batch) \in {Pkt("HC_NOTIFY_ZONESVR", 0)}
    BY HeadTailProperties DEF Selected
  <2> QED
    BY <1>2, <2>1, <2>2, <2>3, <2>4
<1> QED
  BY <1>1, <1>2

LEMMA HeadIds ==
    ASSUME PlaceInv, LoginInv, CharInv, step = "feed", batch # << >>
    PROVE  /\ phase = "login" => Head(batch).id = "AC_ACCEPT_LOGIN" /\ Head(batch).val = 1
           /\ phase = "char" =>
                /\ Head(batch).id \in {"HC_CHARLIST_NOTIFY", "HC_ACCEPT_ENTER", "Other",
                                       "HC_ACK_CHARINFO_PER_PAGE", "HC_NOTIFY_ZONESVR"}
                /\ Head(batch).id = "HC_ACK_CHARINFO_PER_PAGE" => PageKnown
           /\ phase \in {"login", "char"} => ~IsClearing(Head(batch))
<1>1. CASE phase = "login"
  BY <1>1, HeadIs DEF Pkt, IsClearing
<1>2. CASE phase = "char"
  <2>1. Head(batch) \in ListAnswers \cup {Page, Pkt("HC_NOTIFY_ZONESVR", 0)}
    BY <1>2, HeadIs
  <2> QED
    BY <1>2, <2>1 DEF ListAnswers, LastOfList, Page, Pkt, IsClearing
<1> QED
  BY <1>1, <1>2

\* What a step does to the packets read.
LEMMA BatchMoves ==
    ASSUME Moves
    PROVE  batch' = batch \/ batch' = << >> \/ (step = "feed" /\ batch # << >> /\ batch' = Tail(batch))
<1>1. CASE Failed \/ ReadEcho \/ EnterRead \/ FeedEnds \/ HandleUnknown \/ DialOK \/ SendEnter
           \/ SendSelect \/ HandleMapAccept \/ Accepting
  BY <1>1 DEF Failed, Fail, ReadEcho, EnterRead, FeedEnds, HandleUnknown, DialOK, SendEnter,
     SendSelect, HandleMapAccept, Handles, Consume, Accepting, DelayEnds, DelayCancelled,
     SendMapLoaded, SendTick, SendInHandlerFails, ioVars
<1>2. CASE Handling
  BY <1>2, HandlingFacts
<1>3. ASSUME NEW k \in 0..2, Notified(k)
      PROVE  step = "feed" /\ batch # << >> /\ batch' = Tail(batch)
  BY <1>3 DEF Notified, HandleListNotify, Consume
<1>4. CASE (\E i \in Indices : LoginDone(i)) \/ CharDone \/ MapDone
  BY <1>4 DEF LoginDone, CharDone, MapDone, ioVars
<1> QED
  BY <1>1, <1>2, <1>3, <1>4 DEF Moves

LEMMA PlacePackets ==
    ASSUME PlaceInv, [RathenaNext]_allVars
    PROVE  batch' \in Seq(Packets) /\ inbox' \in Seq(Packets)
<1>0. batch \in Seq(Packets) /\ inbox \in Seq(Packets) /\ << >> \in Seq(Packets)
  BY EmptySeq DEF PlaceInv
<1>1. CASE ServerAnswers
  <2>1. PICK id : inbox' = inbox \o Answer(id)
    BY <1>1 DEF ServerAnswers
  <2>2. Answer(id) \in Seq(Packets)
    BY AnswerType
  <2>3. inbox \o Answer(id) \in Seq(Packets)
    BY <1>0, <2>2, ConcatProperties
  <2> QED
    BY <1>0, <1>1, <2>1, <2>3 DEF ServerAnswers, vars, ioVars
<1>2. CASE ClientReads
  <2>1. PICK n \in 1..Len(inbox) :
          batch' = SubSeq(inbox, 1, n) /\ inbox' = SubSeq(inbox, n + 1, Len(inbox))
    BY <1>2 DEF ClientReads, Read
  <2> QED
    BY <1>0, <2>1, CutFacts
<1>3. CASE Reconnects
  BY <1>0, <1>3 DEF Reconnects, Connect, ioVars
<1>4. CASE Moves /\ Rest
  <2>1. batch # << >> => Tail(batch) \in Seq(Packets)
    BY <1>0, HeadTailProperties
  <2> QED
    BY <1>0, <1>4, <2>1, BatchMoves DEF Rest
<1>5. CASE UNCHANGED allVars
  BY <1>0, <1>5 DEF allVars, vars, ioVars
<1> QED
  BY <1>1, <1>2, <1>3, <1>4, <1>5, NextCases

\* What the places of a step are.
LEMMA PlaceControl ==
    ASSUME RathenaInv, [RathenaNext]_allVars
    PROVE  /\ phase' \in Phases \cup {"idle"}
           /\ phase' = "idle" => step' = "dial"
           /\ step' \notin {"feed", "delay", "loaded", "tick"} => batch' = << >>
           /\ phase' \in {"login", "char"} => step' \notin {"delay", "loaded", "tick"}
<1> USE DEF RathenaInv, PlaceInv, Phases
<1>1. CASE ServerAnswers \/ UNCHANGED allVars
  BY <1>1 DEF ServerAnswers, allVars, vars, ioVars
<1>2. CASE ClientReads
  BY <1>2 DEF ClientReads, Read
<1>3. CASE Reconnects
  BY <1>3 DEF Reconnects, Connect, ioVars
<1>4. CASE Failed \/ ReadEcho \/ EnterRead \/ FeedEnds \/ HandleUnknown \/ DialOK \/ SendEnter \/ SendSelect
  BY <1>4 DEF Failed, Fail, ReadEcho, EnterRead, FeedEnds, HandleUnknown, DialOK, SendEnter,
     SendSelect, ioVars
<1>5. CASE Handling
  BY <1>5, HandlingFacts
<1>6. ASSUME NEW k \in 0..2, Notified(k)
      PROVE  phase' = phase /\ step = "feed" /\ step' = step
  BY <1>6 DEF Notified, HandleListNotify, Consume
<1>7. CASE HandleMapAccept
  <2>1. phase \notin {"login", "char"}
    BY <1>7, HeadIds DEF HandleMapAccept, Handles
  <2> QED
    BY <1>7, <2>1 DEF HandleMapAccept, Handles, Consume
<1>8. CASE Accepting
  BY <1>8 DEF Accepting, DelayEnds, DelayCancelled, SendMapLoaded, SendTick, SendInHandlerFails, ioVars
<1>9. CASE (\E i \in Indices : LoginDone(i)) \/ CharDone \/ MapDone
  BY <1>9 DEF LoginDone, CharDone, MapDone, Done, ioVars
<1> QED
  BY <1>1, <1>2, <1>3, <1>4, <1>5, <1>6, <1>7, <1>8, <1>9, NextCases DEF Moves

LEMMA ResUpdates ==
    ASSUME NEW r \in ResType
    PROVE  /\ [r EXCEPT !.done = TRUE] \in ResType
           /\ [r EXCEPT !.slotSent = TRUE] \in ResType
           /\ [r EXCEPT !.pagesRecv = @ + 1] \in ResType
           /\ \A slot \in Slots : [r EXCEPT !.selectedSlot = slot, !.gotCharList = TRUE] \in ResType
           /\ \A n \in 0..2, w \in BOOLEAN :
                [r EXCEPT !.charsExpected = n, !.got09A0 = TRUE, !.writeErr = w] \in ResType
<1>1. [r EXCEPT !.done = TRUE] \in ResType /\ [r EXCEPT !.slotSent = TRUE] \in ResType
  BY DEF ResType
<1>2. [r EXCEPT !.pagesRecv = @ + 1] \in ResType
  BY DEF ResType
<1>3. ASSUME NEW slot \in Slots
      PROVE  [r EXCEPT !.selectedSlot = slot, !.gotCharList = TRUE] \in ResType
  BY DEF ResType
<1>4. ASSUME NEW n \in 0..2, NEW w \in BOOLEAN
      PROVE  [r EXCEPT !.charsExpected = n, !.got09A0 = TRUE, !.writeErr = w] \in ResType
  <2>1. n \in Nat
    OBVIOUS
  <2> QED
    BY <2>1 DEF ResType
<1> QED
  BY <1>1, <1>2, <1>3, <1>4

LEMMA PlaceRes ==
    ASSUME RathenaInv, [RathenaNext]_allVars, phase' = "char", step' # "dial"
    PROVE  res' \in ResType
<1>0. PlaceInv /\ (phase = "char" /\ step # "dial" => res \in ResType)
  BY DEF RathenaInv, PlaceInv
<1>1. CASE ServerAnswers \/ ClientReads \/ UNCHANGED allVars
  BY <1>0, <1>1 DEF ServerAnswers, ClientReads, Read, allVars, vars
<1>2. CASE Failed \/ ReadEcho \/ EnterRead \/ FeedEnds \/ HandleUnknown \/ SendEnter
  BY <1>0, <1>2 DEF Failed, Fail, ReadEcho, EnterRead, FeedEnds, HandleUnknown, SendEnter
<1>3. CASE DialOK
  <2>1. res' = noRes
    BY <1>3 DEF DialOK
  <2> QED
    BY <2>1 DEF noRes, ResType
<1>4. CASE SendSelect
  BY <1>0, <1>4, ResUpdates DEF SendSelect
<1>5. CASE Handling
  <2>0. phase = "char" /\ step = "feed" /\ batch # << >> /\ res \in ResType
    BY <1>0, <1>5, HandlingFacts
  <2>1. Head(batch).id \in {"HC_CHARLIST_NOTIFY", "HC_ACCEPT_ENTER", "Other",
                            "HC_ACK_CHARINFO_PER_PAGE", "HC_NOTIFY_ZONESVR"}
    BY <2>0, HeadIds DEF RathenaInv
  <2>2. ~HandleLoginAccept /\ ~HandleRefuse /\ ~HandleBan /\ ~SwallowBan
    BY <2>1 DEF HandleLoginAccept, HandleRefuse, HandleBan, SwallowBan, Handles
  <2>3. CASE HandleOther \/ HandleZone
    BY <2>0, <2>3, ResUpdates DEF HandleOther, HandleZone
  <2>4. ASSUME NEW slot \in Slots, HandleCharList(slot) PROVE res' \in ResType
    BY <2>0, <2>4, ResUpdates DEF HandleCharList, PickCharSlot
  <2>5. ASSUME NEW slot \in Slots, HandlePage(slot) PROVE res' \in ResType
    <3> DEFINE r == [res EXCEPT !.pagesRecv = @ + 1]
    <3>1. r \in ResType
      BY <2>0, ResUpdates
    <3>2. res' = r \/ res' = [r EXCEPT !.selectedSlot = slot, !.gotCharList = TRUE]
      BY <2>5 DEF HandlePage, PickCharSlot
    <3> HIDE DEF r
    <3> QED
      BY <2>5, <3>1, <3>2, ResUpdates
  <2> QED
    BY <1>5, <2>2, <2>3, <2>4, <2>5 DEF Handling
<1>6. ASSUME NEW k \in 0..2, Notified(k) PROVE res' \in ResType
  <2>0. phase = "char" /\ step = "feed" /\ batch # << >> /\ res \in ResType /\ batch \in Seq(Packets)
    BY <1>0, <1>6 DEF Notified, HandleListNotify, Consume, RathenaInv, PlaceInv
  <2>1. Head(batch).val \in 0..2
    <3>1. Head(batch) \in Packets /\ Head(batch).id = "HC_CHARLIST_NOTIFY"
      BY <1>6, <2>0, HeadTailProperties DEF Notified, HandleListNotify, Handles
    <3> QED
      BY <3>1, PacketFacts
  <2>2. PICK w \in BOOLEAN :
          res' = [res EXCEPT !.charsExpected = Head(batch).val, !.got09A0 = TRUE, !.writeErr = w]
    <3>1. (res.writeErr \/ k < Head(batch).val) \in BOOLEAN
      OBVIOUS
    <3> QED
      BY <1>6, <3>1 DEF Notified, HandleListNotify
  <2> QED
    BY <2>0, <2>1, <2>2, ResUpdates
<1>7. CASE HandleMapAccept
  BY <1>0, <1>7 DEF HandleMapAccept, Handles, Consume
<1>8. CASE Reconnects \/ Accepting
  BY <1>8 DEF Reconnects, Connect, Accepting, DelayEnds, DelayCancelled, SendMapLoaded, SendTick,
     SendInHandlerFails, RathenaInv, PlaceInv
<1>9. CASE (\E i \in Indices : LoginDone(i)) \/ CharDone \/ MapDone
  BY <1>9 DEF LoginDone, CharDone, MapDone
<1> QED
  BY <1>0, <1>1, <1>2, <1>3, <1>4, <1>5, <1>6, <1>7, <1>8, <1>9, NextCases DEF Moves

LEMMA PlaceNext == ASSUME RathenaInv, [RathenaNext]_allVars PROVE PlaceInv'
<1>1. IsSeq(sent') /\ seen' \in 0..Len(sent')
  <2>0. PlaceInv /\ seen \in 0..Len(sent)
    BY DEF RathenaInv, PlaceInv
  <2>1. CASE Reconnects
    <3>1. sent' = << >> /\ seen' = 0
      BY <2>1 DEF Reconnects, Connect
    <3> QED
      BY <3>1, EmptySeq DEF IsSeq
  <2>2. CASE ~Reconnects
    <3>1. IsSeq(sent') /\ Len(sent) \in Nat /\ Len(sent') \in Nat /\ Len(sent') >= Len(sent)
      BY <2>0, <2>2, SentGrows
    <3>2. CASE ServerAnswers
      BY <2>0, <3>1, <3>2 DEF ServerAnswers
    <3>3. ServerAnswers \/ seen' = seen
      BY <2>0, <2>2, NextCases DEF ClientReads, allVars
    <3>4. CASE seen' = seen
      BY <2>0, <3>1, <3>4
    <3> QED
      BY <3>1, <3>2, <3>3, <3>4
  <2> QED
    BY <2>1, <2>2
<1>2. batch' \in Seq(Packets) /\ inbox' \in Seq(Packets)
  BY PlacePackets DEF RathenaInv
<1> QED
  BY <1>1, <1>2, PlaceControl, PlaceRes DEF PlaceInv

-----------------------------------------------------------------------------
(* The login phase.                                                        *)

LEMMA OneSeq == \A p : <<p>> \in Seq({p})
OBVIOUS

LEMMA LoginNext == ASSUME RathenaInv, [RathenaNext]_allVars PROVE LoginInv'
<1> DEFINE A == {Pkt("AC_ACCEPT_LOGIN", 1)}
<1> SUFFICES ASSUME phase' = "login" PROVE LoginInv'
  BY DEF LoginInv
<1>0. PlaceInv /\ LoginInv /\ << >> \in Seq(A)
  BY EmptySeq DEF RathenaInv
<1>1. CASE Reconnects
  <2>1. /\ sent' = << >> /\ inbox' = << >> /\ seen' = 0 /\ batch' = << >> /\ step' = "dial"
    BY <1>0, <1>1 DEF Reconnects, Connect, ioVars, PlaceInv
  <2> QED
    BY <1>0, <2>1 DEF LoginInv, Entering
<1>2. CASE ServerAnswers
  <2>1. /\ phase = "login" /\ step' = step /\ sent' = sent /\ res' = res /\ batch' = batch
        /\ seen < Len(sent) /\ seen' = seen + 1 /\ inbox' = inbox \o Answer(sent[seen + 1].id)
    BY <1>2 DEF ServerAnswers, vars, ioVars
  <2>2. ~Entering /\ seen = 0 /\ sent[1].id = "CA_LOGIN" /\ Len(sent) = 1
    BY <1>0, <2>1 DEF PlaceInv, LoginInv, Entering
  <2>3. inbox' = <<Pkt("AC_ACCEPT_LOGIN", 1)>> /\ batch' = << >>
    <3>1. inbox = << >> /\ batch = << >>
      BY <1>0, <2>1, <2>2 DEF LoginInv
    <3>2. inbox' = << >> \o <<Pkt("AC_ACCEPT_LOGIN", 1)>>
      BY <2>1, <2>2, <3>1, AnswerIs
    <3> QED
      BY <2>1, <3>1, <3>2
  <2>4. inbox' \in Seq(A)
    BY <2>3, OneSeq, Zenon
  <2>5. seen' = 1
    BY <2>1, <2>2
  <2> QED
    BY <1>0, <2>1, <2>2, <2>3, <2>4, <2>5 DEF LoginInv, Entering
<1>3. CASE ClientReads
  <2>1. PICK n \in 1..Len(inbox) :
          batch' = SubSeq(inbox, 1, n) /\ inbox' = SubSeq(inbox, n + 1, Len(inbox))
    BY <1>3 DEF ClientReads, Read
  <2>2. /\ phase = "login" /\ step = "read" /\ step' = "feed" /\ sent' = sent /\ res' = res
        /\ seen' = seen
    BY <1>3 DEF ClientReads, Read
  <2>3. inbox \in Seq(A) /\ inbox # << >>
    BY <1>0, <2>1, <2>2 DEF LoginInv
  <2>4. batch' \in Seq(A) /\ inbox' \in Seq(A)
    BY <2>1, <2>3, CutFacts
  <2> QED
    BY <1>0, <2>2, <2>3, <2>4 DEF LoginInv, Entering
<1>4. CASE UNCHANGED allVars
  BY <1>0, <1>4 DEF allVars, vars, ioVars, LoginInv, Entering
<1>5. ASSUME Moves, Rest, seen' = seen PROVE LoginInv'
  <2>1. CASE Failed \/ (\E i \in Indices : LoginDone(i)) \/ CharDone \/ MapDone
    BY <2>1 DEF Failed, Fail, LoginDone, CharDone, MapDone
  <2>2. CASE ReadEcho \/ EnterRead \/ FeedEnds \/ DialOK
    BY <1>0, <1>5, <2>2 DEF ReadEcho, EnterRead, FeedEnds, DialOK, LoginInv, Entering, Rest, ioVars, noRes
  <2>3. CASE SendEnter
    <3>1. phase = "login" /\ step = "enter" /\ step' = "loop" /\ res' = res /\ batch' = batch
      BY <2>3 DEF SendEnter, ioVars
    <3>2. sent = << >> /\ ~res.done /\ inbox' = inbox
      BY <1>0, <1>5, <3>1 DEF LoginInv, Entering, Rest
    <3>3. sent' = <<[id |-> "CA_LOGIN", auth |-> noAuth, slot |-> 0]>>
      BY <2>3, <3>1, <3>2 DEF SendEnter, EnterPacket
    <3>4. Len(sent') = 1 /\ sent'[1].id = "CA_LOGIN"
      BY <3>3
    <3> QED
      BY <1>0, <1>5, <3>1, <3>2, <3>4 DEF LoginInv, Entering
  <2>4. CASE SendSelect
    BY <2>4 DEF SendSelect, WantsSelect
  <2>5. CASE Handling
    <3>1. /\ phase = "login" /\ step = "feed" /\ step' = step /\ sent' = sent /\ batch # << >>
          /\ batch' = Tail(batch) /\ inbox' = inbox
      BY <1>5, <2>5, HandlingFacts DEF Rest
    <3>2. batch \in Seq(A) /\ seen # 0
      BY <1>0, <3>1 DEF LoginInv
    <3>3. Tail(batch) \in Seq(A)
      BY <3>1, <3>2, HeadTailProperties
    <3>4. seen = 1
      <4>1. Len(sent) = 1
        BY <1>0, <3>1 DEF LoginInv, Entering
      <4>2. seen \in 0..Len(sent)
        BY <1>0 DEF PlaceInv
      <4> QED
        BY <3>2, <4>1, <4>2
    <3> QED
      BY <1>0, <1>5, <3>1, <3>3, <3>4 DEF LoginInv, Entering
  <2>6. CASE HandleUnknown \/ (\E k \in 0..2 : Notified(k)) \/ HandleMapAccept
    <3>1. phase = "login" /\ step = "feed" /\ batch # << >>
      BY <2>6 DEF HandleUnknown, Notified, HandleListNotify, HandleMapAccept, Handles, Consume
    <3>2. Head(batch).id = "AC_ACCEPT_LOGIN" /\ ~IsClearing(Head(batch))
      BY <3>1, HeadIds DEF RathenaInv
    <3> QED
      BY <2>6, <3>2 DEF HandleUnknown, Notified, HandleListNotify, HandleMapAccept, Handles
  <2>7. CASE Accepting
    <3>1. phase = "login" /\ step \in {"delay", "loaded", "tick"}
      BY <2>7 DEF Accepting, DelayEnds, DelayCancelled, SendMapLoaded, SendTick, SendInHandlerFails
    <3> QED
      BY <1>0, <3>1 DEF PlaceInv
  <2> QED
    BY <1>5, <2>1, <2>2, <2>3, <2>4, <2>5, <2>6, <2>7 DEF Moves
<1> QED
  BY <1>0, <1>1, <1>2, <1>3, <1>4, <1>5, NextCases

-----------------------------------------------------------------------------
(* The char phase, stage by stage.                                         *)

\* The char loop runs.
InChar == phase = "char" /\ ~Entering

LEMMA AddOne ==
    ASSUME NEW p, NEW s \in Seq({p})
    PROVE  s \o <<p>> \in Seq({p}) /\ Len(s \o <<p>>) = Len(s) + 1
<1>1. <<p>> \in Seq({p}) /\ Len(<<p>>) = 1
  BY OneSeq
<1> QED
  BY <1>1, ConcatProperties

LEMMA ListAnswer ==
    /\ Answer("CH_ENTER") \in Seq(ListAnswers)
    /\ \A i \in 1..Len(Answer("CH_ENTER")) :
         Answer("CH_ENTER")[i] = LastOfList => i = Len(Answer("CH_ENTER"))
<1>1. LastOfList \in ListAnswers /\ Pkt("Other", 0) \in ListAnswers /\ Pkt("HC_ACCEPT_ENTER", 0) \in ListAnswers
  BY DEF ListAnswers
<1>2. CASE ListIsDirect
  <2> DEFINE b == Pkt("HC_ACCEPT_ENTER", 0)
  <2>1. Answer("CH_ENTER") = <<b>> /\ b \in ListAnswers
    BY <1>1, <1>2, AnswerIs
  <2> HIDE DEF b
  <2>2. <<b>> \in Seq(ListAnswers) /\ Len(<<b>>) = 1
    BY <2>1
  <2>3. \A i \in 1..1 : i = 1
    OBVIOUS
  <2> DEFINE a == Answer("CH_ENTER")
  <2>4. a = <<b>>
    BY <2>1
  <2> HIDE DEF a
  <2>5. a \in Seq(ListAnswers) /\ \A i \in 1..Len(a) : a[i] = LastOfList => i = Len(a)
    BY <2>2, <2>3, <2>4
  <2> QED
    BY <2>5 DEF a
<1>3. CASE ~ListIsDirect
  <2> DEFINE a == Pkt("Other", 0)
             b == Pkt("HC_ACCEPT_ENTER", 0)
             c == Pkt("HC_CHARLIST_NOTIFY", Chars)
  <2>1. a # c /\ b # c
    BY DEF Pkt
  <2>2. LastOfList = c /\ Answer("CH_ENTER") = <<a, b, c>>
    BY <1>3, AnswerIs DEF LastOfList
  <2>3. a \in ListAnswers /\ b \in ListAnswers /\ c \in ListAnswers
    BY <1>1, <2>2
  <2> HIDE DEF a, b, c
  <2>4. <<a, b, c>> \in Seq(ListAnswers)
    BY <2>3
  <2>5. \A i \in 1..3 : <<a, b, c>>[i] = c => i = 3
    BY <2>1
  <2> QED
    BY <2>2, <2>4, <2>5
<1> QED
  BY <1>2, <1>3

LEMMA CharServer ==
    ASSUME PlaceInv, CharInv, InChar, ServerAnswers
    PROVE  CharInv'
<1>1. /\ phase' = phase /\ step' = step /\ sent' = sent /\ res' = res /\ batch' = batch
      /\ seen < Len(sent) /\ seen' = seen + 1 /\ inbox' = inbox \o Answer(sent[seen + 1].id)
  BY DEF ServerAnswers, vars, ioVars
<1>2. Len(sent) \in Nat /\ seen \in 0..Len(sent)
  <2>1. IsSeq(sent) /\ seen \in 0..Len(sent)
    BY DEF PlaceInv
  <2> QED
    BY <2>1, AppendAny
<1>3. CASE Listing
  <2>1. seen + 1 = Len(sent) /\ batch = << >> /\ inbox = << >> /\ sent[seen + 1].id = "CH_ENTER"
    BY <1>1, <1>2, <1>3 DEF Listing
  <2>2. inbox' = Answer("CH_ENTER")
    BY <1>1, <2>1, ListAnswer, ConcatEmptySeq
  <2>3. inbox' \in Seq(ListAnswers) /\ \A i \in 1..Len(inbox') : inbox'[i] = LastOfList => i = Len(inbox')
    BY <2>2, ListAnswer
  <2>4. seen' = Len(sent')
    BY <1>1, <2>1
  <2>5. batch' = << >>
    BY <1>1, <2>1
  <2>6. NotPicked' /\ ~res'.writeErr /\ ~res'.got09A0 /\ res'.pagesRecv = 0 /\ Len(sent') > 0 /\ sent'[Len(sent')].id = "CH_ENTER"
    BY <1>1, <1>3 DEF Listing, NotPicked
  <2>7. /\ batch' \in Seq(ListAnswers)
        /\ \A i \in 1..Len(batch') : batch'[i] = LastOfList => i = Len(batch') /\ inbox' = << >>
    BY <2>5
  <2>8. Listing'
    BY <1>2, <1>1, <2>3, <2>4, <2>6, <2>7 DEF Listing, LastOfList, ListAnswers
  <2> QED
    BY <1>1, <2>8 DEF CharInv, InChar, Entering
<1>4. CASE Paging
  <2>1. seen + 1 \in (seen + 1)..Len(sent)
    BY <1>1, <1>2
  <2>2. inbox' = inbox \o <<Page>>
    BY <1>1, <1>4, <2>1, AnswerIs DEF Paging
  <2>3. inbox' \in Seq({Page}) /\ Len(inbox') = Len(inbox) + 1 /\ Len(inbox) \in Nat /\ Len(batch) \in Nat
    BY <1>4, <2>2, AddOne DEF Paging
  <2>4. \A i \in (seen' + 1)..Len(sent') : sent'[i].id = "CH_CHARLIST_REQ"
    BY <1>1, <1>2, <1>4 DEF Paging
  <2>5. res \in ResType
    BY DEF PlaceInv, InChar, Entering
  <2>6. ~res'.writeErr => /\ res'.charsExpected = Chars
                          /\ PageKnown => Pages' <= Chars
    <3>1. res.pagesRecv \in Nat
      BY <2>5 DEF ResType
    <3>2. ~res.writeErr => /\ res.charsExpected = Chars
                           /\ PageKnown => Pages <= Chars
      BY <1>4 DEF Paging
    <3>3. Pages' = Pages
      <4>1. /\ res'.pagesRecv = res.pagesRecv /\ Len(batch') = Len(batch) /\ Len(sent') = Len(sent)
            /\ seen' = seen + 1 /\ Len(inbox') = Len(inbox) + 1
        BY <1>1, <2>3
      <4>2. /\ Len(batch) \in Int /\ Len(inbox) \in Int /\ Len(sent) \in Int /\ seen \in Int
            /\ res.pagesRecv \in Int
        BY <1>2, <2>3, <3>1
      <4>3. res.pagesRecv + Len(batch) + (Len(inbox) + 1) + Len(sent) - (seen + 1) = Pages
        BY <4>2 DEF Pages
      <4>4. Pages' = res.pagesRecv + Len(batch) + (Len(inbox) + 1) + Len(sent) - (seen + 1)
        BY <4>1, Zenon DEF Pages
      <4> QED
        BY <4>3, <4>4
    <3>4. res'.writeErr = res.writeErr /\ res'.charsExpected = res.charsExpected
      BY <1>1
    <3> QED
      BY <3>2, <3>3, <3>4
  <2>7. Paging'
    BY <1>1, <1>4, <2>3, <2>4, <2>6 DEF Paging, Pages, NotPicked, Page, PageKnown, ListIsDirect
  <2> QED
    BY <1>1, <2>7 DEF CharInv, InChar, Entering
<1>5. CASE Picked
  BY <1>1, <1>2, <1>5 DEF Picked
<1>6. CASE Selected
  <2> DEFINE z == Pkt("HC_NOTIFY_ZONESVR", 0)
  <2>1. seen + 1 = Len(sent) /\ sent[seen + 1].id = "CH_SELECT_CHAR"
    BY <1>1, <1>2, <1>6 DEF Selected
  <2>2. inbox' = inbox \o <<z>>
    BY <1>1, <2>1, AnswerIs
  <2>3. inbox' \in Seq({z})
    BY <1>6, <2>2, AddOne DEF Selected
  <2>4. Selected'
    BY <1>1, <1>2, <1>6, <2>1, <2>3 DEF Selected
  <2> QED
    BY <1>1, <2>4 DEF CharInv, InChar, Entering
<1> QED
  BY <1>3, <1>4, <1>5, <1>6 DEF CharInv, InChar

LEMMA CharReads ==
    ASSUME PlaceInv, CharInv, InChar, ClientReads
    PROVE  CharInv'
<1>1. PICK n \in 1..Len(inbox) :
        batch' = SubSeq(inbox, 1, n) /\ inbox' = SubSeq(inbox, n + 1, Len(inbox))
  BY DEF ClientReads, Read
<1>2. /\ phase' = phase /\ step = "read" /\ step' = "feed" /\ sent' = sent /\ res' = res
      /\ seen' = seen
  BY DEF ClientReads, Read
<1>3. Len(sent) \in Nat /\ seen \in 0..Len(sent) /\ Len(inbox) \in Nat /\ inbox # << >>
  <2>1. IsSeq(sent) /\ seen \in 0..Len(sent)
    BY DEF PlaceInv
  <2>2. inbox \in Seq(Packets)
    BY DEF PlaceInv
  <2> QED
    BY <1>1, <2>1, <2>2, AppendAny
<1>4. CASE Listing
  <2>1. seen = Len(sent)
    BY <1>3, <1>4 DEF Listing
  <2>2. inbox \in Seq(ListAnswers)
    BY <1>4 DEF Listing
  <2>3. /\ batch' \in Seq(ListAnswers) /\ inbox' \in Seq(ListAnswers)
        /\ Len(batch') = n /\ Len(inbox') = Len(inbox) - n
        /\ \A i \in 1..n : batch'[i] = inbox[i]
        /\ \A i \in 1..(Len(inbox) - n) : inbox'[i] = inbox[n + i]
    BY <1>1, <2>2, CutFacts
  <2>4. \A i \in 1..Len(inbox) : inbox[i] = LastOfList => i = Len(inbox)
    BY <1>4 DEF Listing
  <2>5. \A i \in 1..Len(inbox') : inbox'[i] = LastOfList => i = Len(inbox')
    <3> SUFFICES ASSUME NEW i \in 1..Len(inbox'), inbox'[i] = LastOfList PROVE i = Len(inbox')
      OBVIOUS
    <3>1. n + i \in 1..Len(inbox) /\ inbox[n + i] = LastOfList
      BY <1>1, <1>3, <2>3
    <3>2. n + i = Len(inbox)
      BY <2>4, <3>1
    <3>3. Len(inbox') = Len(inbox) - n
      BY <2>3
    <3>4. n \in Int /\ i \in Int /\ Len(inbox) \in Int
      BY <1>1, <1>3, <2>3
    <3> QED
      BY <3>2, <3>3, <3>4
  <2>6. \A i \in 1..Len(batch') : batch'[i] = LastOfList => i = Len(batch') /\ inbox' = << >>
    <3> SUFFICES ASSUME NEW i \in 1..Len(batch'), batch'[i] = LastOfList
                 PROVE  i = Len(batch') /\ inbox' = << >>
      OBVIOUS
    <3>1. i \in 1..Len(inbox) /\ inbox[i] = LastOfList
      BY <1>3, <2>3
    <3>2. i = Len(inbox)
      BY <2>4, <3>1
    <3>3. i = n /\ Len(inbox') = 0
      BY <1>1, <1>3, <2>3, <3>2
    <3> QED
      BY <2>3, <3>3
  <2>7. Listing'
    BY <1>2, <1>3, <1>4, <2>1, <2>3, <2>5, <2>6 DEF Listing, NotPicked, LastOfList, ListAnswers, ListIsDirect
  <2> QED
    BY <1>2, <2>7 DEF CharInv, InChar, Entering
<1>5. CASE Paging
  <2>1. inbox \in Seq({Page}) /\ batch = << >> /\ ~res.writeErr
    BY <1>2, <1>5 DEF Paging, PlaceInv
  <2>2. /\ batch' \in Seq({Page}) /\ inbox' \in Seq({Page})
        /\ Len(batch') = n /\ Len(inbox') = Len(inbox) - n
    BY <1>1, <2>1, CutFacts
  <2>3. Len(batch') + Len(inbox') = Len(batch) + Len(inbox)
    BY <1>1, <1>3, <2>1, <2>2
  <2>4. res.pagesRecv \in Nat /\ Len(batch) \in Nat
    BY <2>1 DEF PlaceInv, InChar, Entering, ResType
  <2>5. PageKnown => Pages' <= Chars
    <3>1. PageKnown => Pages <= Chars
      BY <1>5, <2>1 DEF Paging
    <3>2. res'.pagesRecv = res.pagesRecv /\ Len(sent') = Len(sent) /\ seen' = seen
      BY <1>2
    <3>3. /\ Len(batch') \in Int /\ Len(inbox') \in Int /\ Len(sent) \in Int /\ seen \in Int
          /\ Len(batch) \in Int /\ Len(inbox) \in Int /\ res.pagesRecv \in Int
      BY <1>3, <2>2, <2>4
    <3>4. Pages' = Pages
      <4>1. res.pagesRecv + Len(batch') + Len(inbox') + Len(sent) - seen = Pages
        BY <2>3, <3>3, SMTT(30) DEF Pages
      <4>2. Pages' = res.pagesRecv + Len(batch') + Len(inbox') + Len(sent) - seen
        BY <3>2, Zenon DEF Pages
      <4> QED
        BY <4>1, <4>2
    <3> QED
      BY <3>1, <3>4
  <2>6. Paging'
    BY <1>2, <1>5, <2>1, <2>2, <2>5 DEF Paging, Pages, NotPicked, Page, PageKnown, ListIsDirect
  <2> QED
    BY <1>2, <2>6 DEF CharInv, InChar, Entering
<1>6. CASE Picked
  BY <1>3, <1>6 DEF Picked
<1>7. CASE Selected
  <2>1. inbox \in Seq({Pkt("HC_NOTIFY_ZONESVR", 0)})
    BY <1>7 DEF Selected
  <2>2. batch' \in Seq({Pkt("HC_NOTIFY_ZONESVR", 0)}) /\ inbox' \in Seq({Pkt("HC_NOTIFY_ZONESVR", 0)})
    BY <1>1, <2>1, CutFacts
  <2>3. Selected'
    BY <1>2, <1>7, <2>2 DEF Selected
  <2> QED
    BY <1>2, <2>3 DEF CharInv, InChar, Entering
<1> QED
  BY <1>4, <1>5, <1>6, <1>7 DEF CharInv, InChar

LEMMA CharQuiet ==
    ASSUME PlaceInv, CharInv, InChar, Rest, seen' = seen, ReadEcho \/ EnterRead \/ FeedEnds
    PROVE  CharInv'
<1>1. /\ phase' = phase /\ sent' = sent /\ res' = res /\ batch' = batch /\ inbox' = inbox
      /\ step' \in {"loop", "read"}
  BY DEF Rest, ReadEcho, EnterRead, FeedEnds, ioVars
<1>2. step \in {"feed", "loop"} \/ ~res.writeErr => step' \in {"feed", "loop"} \/ ~res.writeErr
  BY DEF ReadEcho, EnterRead, FeedEnds
<1>3. Listing => Listing'
  BY <1>1 DEF Listing, NotPicked, LastOfList, ListAnswers
<1>4. Paging => Paging'
  BY <1>1, <1>2 DEF Paging, Pages, NotPicked, Page, PageKnown, ListIsDirect
<1>5. Picked => Picked'
  BY <1>1 DEF Picked
<1>6. Selected => Selected'
  BY <1>1 DEF Selected
<1> QED
  BY <1>1, <1>3, <1>4, <1>5, <1>6 DEF CharInv, InChar, Entering

LEMMA CharEnters ==
    ASSUME PlaceInv, CharInv, phase = "char", Rest, seen' = seen, DialOK \/ SendEnter
    PROVE  CharInv'
<1>1. CASE DialOK
  BY <1>1 DEF DialOK, Rest, CharInv, Entering
<1>2. CASE SendEnter
  <2> DEFINE e == EnterPacket
  <2>1. /\ phase' = "char" /\ step = "enter" /\ step' = "echo" /\ res' = res /\ batch' = batch
        /\ sent' = Append(sent, e) /\ inbox' = inbox
    BY <1>2 DEF SendEnter, Rest, ioVars
  <2>2. e.id = "CH_ENTER"
    BY DEF EnterPacket
  <2> HIDE DEF e
  <2>3. batch = << >> /\ inbox = << >> /\ seen = Len(sent) /\ res = noRes
    BY <2>1 DEF PlaceInv, CharInv, Entering
  <2>4. Len(sent) \in Nat /\ Len(sent') = Len(sent) + 1 /\ sent'[Len(sent) + 1] = e
    <3>1. IsSeq(sent)
      BY DEF PlaceInv
    <3> QED
      BY <2>1, <3>1, AppendAny
  <2>5. Len(sent') > 0 /\ sent'[Len(sent')].id = "CH_ENTER" /\ seen' = Len(sent') - 1
    BY <2>2, <2>3, <2>4
  <2>6. NotPicked' /\ ~res'.writeErr /\ ~res'.got09A0 /\ res'.pagesRecv = 0
    BY <2>1, <2>3 DEF noRes, NotPicked
  <2>7. batch' = << >> /\ inbox' = << >>
    BY <2>1, <2>3
  <2>8. Listing'
    <3>1. \A S : << >> \in Seq(S)
      BY EmptySeq
    <3>2. Len(<< >>) = 0 /\ 1..0 = {}
      OBVIOUS
    <3> QED
      BY <2>5, <2>6, <2>7, <3>1, <3>2 DEF Listing
  <2> QED
    BY <2>1, <2>8 DEF CharInv, Entering
<1> QED
  BY <1>1, <1>2

LEMMA CharSelects ==
    ASSUME PlaceInv, CharInv, InChar, Rest, seen' = seen, SendSelect
    PROVE  CharInv'
<1>1. Picked
  BY DEF SendSelect, WantsSelect, CharInv, InChar, Listing, Paging, NotPicked, Selected
<1> DEFINE e == [Plain("CH_SELECT_CHAR") EXCEPT !.slot = res.selectedSlot]
<1>2. /\ phase' = "char" /\ step' = "read" /\ res' = [res EXCEPT !.slotSent = TRUE] /\ batch' = batch
      /\ sent' = Append(sent, e) /\ inbox' = inbox
  BY DEF SendSelect, Rest, InChar, ioVars
<1>3. e.id = "CH_SELECT_CHAR" /\ e.slot = res.selectedSlot
  BY DEF Plain
<1> HIDE DEF e
<1>4. Len(sent) \in Nat /\ Len(sent') = Len(sent) + 1 /\ sent'[Len(sent) + 1] = e
  <2>1. IsSeq(sent)
    BY DEF PlaceInv
  <2> QED
    BY <1>2, <2>1, AppendAny
<1>5. res'.slotSent /\ ~res'.writeErr /\ res'.gotCharList /\ res'.selectedSlot = res.selectedSlot
  <2>1. res \in ResType
    BY DEF PlaceInv, InChar, Entering
  <2> QED
    BY <1>1, <1>2, <2>1 DEF Picked, ResType
<1>6. /\ Len(sent') > 0 /\ sent'[Len(sent')].id = "CH_SELECT_CHAR"
      /\ sent'[Len(sent')].slot = res'.selectedSlot /\ seen' = Len(sent') - 1
  BY <1>1, <1>3, <1>4, <1>5 DEF Picked
<1>7. batch' = << >> /\ inbox' = << >>
  BY <1>1, <1>2 DEF Picked
<1>8. Selected'
  BY <1>5, <1>6, <1>7, EmptySeq DEF Selected
<1> QED
  BY <1>2, <1>8 DEF CharInv, Entering

\* The list notify ends the answer to CH_ENTER: a page is asked for each character.
LEMMA CharNotified ==
    ASSUME PlaceInv, LoginInv, CharInv, InChar, Rest, seen' = seen, NEW k \in 0..2, Notified(k)
    PROVE  CharInv'
<1>1. /\ phase' = phase /\ step = "feed" /\ step' = step /\ batch # << >> /\ batch' = Tail(batch)
      /\ inbox' = inbox /\ Head(batch).id = "HC_CHARLIST_NOTIFY" /\ k <= Head(batch).val
      /\ res' = [res EXCEPT !.charsExpected = Head(batch).val, !.got09A0 = TRUE,
                            !.writeErr = res.writeErr \/ k < Head(batch).val]
  BY DEF Notified, HandleListNotify, Handles, Consume, Rest
<1>2. Listing /\ Head(batch) \in ListAnswers
  <2>1. Head(batch) # Page /\ Head(batch) # Pkt("HC_NOTIFY_ZONESVR", 0)
    BY <1>1 DEF Page, Pkt
  <2> QED
    BY <1>1, <2>1, HeadIs DEF InChar
<1>3. ~ListIsDirect /\ Head(batch) = LastOfList /\ Head(batch).val = Chars
  BY <1>1, <1>2 DEF ListAnswers, LastOfList, Pkt
<1>4. Len(batch) = 1 /\ inbox = << >> /\ batch' = << >>
  <2>1. batch \in Seq(ListAnswers) /\ Len(batch) \in Nat /\ Len(batch) > 0 /\ batch[1] = Head(batch)
    BY <1>1, <1>2 DEF Listing
  <2>4. \A i \in 1..Len(batch) : batch[i] = LastOfList => i = Len(batch) /\ inbox = << >>
    BY <1>2 DEF Listing
  <2>2. Len(batch) = 1 /\ inbox = << >>
    <3>1. 1 \in 1..Len(batch) /\ batch[1] = LastOfList
      BY <1>3, <2>1
    <3> QED
      BY <2>4, <3>1
  <2>3. Tail(batch) \in Seq(ListAnswers) /\ Len(Tail(batch)) = 0
    BY <1>1, <2>1, <2>2, HeadTailProperties
  <2> QED
    BY <1>1, <2>2, <2>3
<1>6. /\ IsSeq(sent') /\ Len(sent) \in Nat /\ Len(sent') = Len(sent) + k
      /\ \A i \in (Len(sent) + 1)..Len(sent') : sent'[i].id = "CH_CHARLIST_REQ"
  BY PagesAskedFor
<1>5. seen = Len(sent)
  <2>1. (seen = Len(sent) - 1 \/ seen = Len(sent)) /\ ~(seen < Len(sent))
    BY <1>1, <1>2 DEF Listing
  <2> QED
    BY <1>6, <2>1
<1>7. res \in ResType
  BY DEF PlaceInv, InChar, Entering
<1>8. /\ res'.charsExpected = Chars /\ res'.got09A0 /\ res'.pagesRecv = 0 /\ NotPicked'
      /\ ~res'.writeErr => k = Chars
  <2>1. res.pagesRecv = 0 /\ NotPicked
    BY <1>2 DEF Listing
  <2>2. /\ res'.charsExpected = Chars /\ res'.got09A0 /\ res'.pagesRecv = 0 /\ NotPicked'
    BY <1>1, <1>3, <1>7, <2>1 DEF ResType, NotPicked
  <2>3. k < Chars => res'.writeErr
    BY <1>1, <1>3, <1>7 DEF ResType
  <2>4. k <= Chars
    BY <1>1, <1>3
  <2> QED
    BY <2>2, <2>3, <2>4, CharsAssumption
<1>9. \A i \in (seen' + 1)..Len(sent') : sent'[i].id = "CH_CHARLIST_REQ"
  BY <1>5, <1>6
<1>10. ~res'.writeErr => Pages' <= Chars
  <2>1. Len(batch') = 0 /\ Len(inbox') = 0
    BY <1>1, <1>4
  <2>2. Chars \in Nat
    BY CharsAssumption
  <2> QED
    BY <1>5, <1>6, <1>8, <2>1, <2>2 DEF Pages
<1>11. batch' = << >> /\ inbox' = << >> /\ step' \in {"feed", "loop"}
  BY <1>1, <1>4
<1>12. Paging'
  <2>1. << >> \in Seq({Page})
    BY EmptySeq
  <2> QED
    BY <1>3, <1>8, <1>9, <1>10, <1>11, <2>1 DEF Paging, Page, PageKnown, ListIsDirect
<1> QED
  BY <1>1, <1>12 DEF CharInv, InChar, Entering

\* Handling in the char phase: what is common to the stages.
LEMMA CharHandling ==
    ASSUME PlaceInv, InChar, Handling, Rest
    PROVE  /\ phase' = phase /\ step = "feed" /\ step' = step /\ sent' = sent /\ inbox' = inbox
           /\ batch # << >> /\ batch' = Tail(batch) /\ res \in ResType
BY HandlingFacts DEF Rest, PlaceInv, InChar, Entering

LEMMA ListingHandles ==
    ASSUME PlaceInv, Listing, InChar, Handling, Rest, seen' = seen
    PROVE  Listing' \/ Picked'
<1>1. /\ step = "feed" /\ sent' = sent /\ inbox' = inbox /\ batch # << >> /\ batch' = Tail(batch)
      /\ res \in ResType
  BY CharHandling
<1>2. /\ batch \in Seq(ListAnswers) /\ Len(batch) \in Nat /\ Len(batch) > 0
      /\ batch[1] = Head(batch) /\ Head(batch) \in ListAnswers
  <2>1. batch \in Seq(ListAnswers)
    BY DEF Listing
  <2> QED
    BY <1>1, <2>1, HeadTailProperties
<1>3. /\ Tail(batch) \in Seq(ListAnswers) /\ Len(Tail(batch)) = Len(batch) - 1
      /\ \A i \in 1..Len(Tail(batch)) : Tail(batch)[i] = batch[i + 1]
  BY <1>1, <1>2, HeadTailProperties
<1>4. \A i \in 1..Len(batch) : batch[i] = LastOfList => i = Len(batch) /\ inbox = << >>
  BY DEF Listing
<1>5. CASE HandleOther
  <2>1. res' = res
    BY <1>5 DEF HandleOther
  <2>2. \A i \in 1..Len(batch') : batch'[i] = LastOfList => i = Len(batch') /\ inbox' = << >>
    <3> SUFFICES ASSUME NEW i \in 1..Len(Tail(batch)), Tail(batch)[i] = LastOfList
                 PROVE  i = Len(Tail(batch)) /\ inbox = << >>
      BY <1>1
    <3>1. i + 1 \in 1..Len(batch) /\ batch[i + 1] = LastOfList
      BY <1>2, <1>3
    <3>2. i + 1 = Len(batch) /\ inbox = << >>
      BY <1>4, <3>1
    <3>3. i \in Int /\ Len(Tail(batch)) = Len(batch) - 1 /\ Len(batch) \in Int
      BY <1>2, <1>3
    <3> QED
      BY <3>2, <3>3
  <2>3. ~(seen' < Len(sent'))
    BY <1>1 DEF Listing
  <2>4. batch' \in Seq(ListAnswers)
    BY <1>1, <1>3
  <2>5. Listing'
    BY <1>1, <2>1, <2>2, <2>3, <2>4 DEF Listing, NotPicked, LastOfList, ListAnswers, ListIsDirect
  <2> QED
    BY <2>5
<1>6. ASSUME NEW slot \in Slots, HandleCharList(slot) PROVE Picked'
  <2>1. Head(batch) = LastOfList
    <3>1. ListIsDirect /\ Head(batch).id = "HC_ACCEPT_ENTER"
      BY <1>6 DEF HandleCharList, Handles
    <3> QED
      BY <1>2, <3>1 DEF ListAnswers, LastOfList, Pkt
  <2>2. Len(batch) = 1 /\ inbox = << >>
    <3>1. 1 \in 1..Len(batch) /\ batch[1] = LastOfList
      BY <1>2, <2>1
    <3> QED
      BY <1>4, <3>1
  <2>3. batch' = << >>
    BY <1>1, <1>3, <2>2
  <2>4. res' = [res EXCEPT !.selectedSlot = slot, !.gotCharList = TRUE]
    BY <1>6 DEF HandleCharList, PickCharSlot
  <2>5. res'.gotCharList /\ ~res'.slotSent /\ ~res'.done /\ ~res'.writeErr
    BY <1>1, <2>4 DEF Listing, NotPicked, ResType
  <2>6. seen' = Len(sent')
    <3>1. Len(sent) \in Nat /\ (seen = Len(sent) - 1 \/ seen = Len(sent)) /\ ~(seen < Len(sent))
      <4>1. IsSeq(sent)
        BY DEF PlaceInv
      <4> QED
        BY <1>1, <4>1, AppendAny DEF Listing
    <3> QED
      BY <1>1, <3>1
  <2> QED
    BY <1>1, <2>2, <2>3, <2>5, <2>6 DEF Picked
<1>7. Head(batch).id \in {"HC_CHARLIST_NOTIFY", "HC_ACCEPT_ENTER", "Other"}
  BY <1>2 DEF ListAnswers, LastOfList, Pkt
<1>8. /\ ~HandleLoginAccept /\ ~HandleRefuse /\ ~HandleBan /\ ~SwallowBan /\ ~HandleZone
      /\ \A slot \in Slots : ~HandlePage(slot)
  BY <1>7 DEF HandleLoginAccept, HandleRefuse, HandleBan, SwallowBan, HandleZone, HandlePage, Handles
<1> QED
  BY <1>5, <1>6, <1>8 DEF Handling

LEMMA PagingHandles ==
    ASSUME PlaceInv, Paging, InChar, Handling, Rest, seen' = seen
    PROVE  Paging' \/ Picked'
<1>1. /\ step = "feed" /\ step' = step /\ sent' = sent /\ inbox' = inbox /\ batch # << >>
      /\ batch' = Tail(batch) /\ res \in ResType
  BY CharHandling
<1>2. batch \in Seq({Page}) /\ inbox \in Seq({Page}) /\ ~res.writeErr /\ Len(inbox) \in Nat
  BY <1>1 DEF Paging
<1>3. /\ Head(batch) = Page /\ Tail(batch) \in Seq({Page}) /\ Len(batch) \in Nat /\ Len(batch) >= 1
      /\ Len(Tail(batch)) = Len(batch) - 1
  BY <1>1, <1>2, HeadTailProperties
<1>4. /\ res.charsExpected = Chars /\ res.pagesRecv \in Nat /\ Chars \in Nat
      /\ PageKnown => Pages <= Chars
  BY <1>1, <1>2, CharsAssumption DEF Paging, ResType
<1>5. Len(sent) \in Nat /\ seen \in 0..Len(sent)
  <2>1. IsSeq(sent) /\ seen \in 0..Len(sent)
    BY DEF PlaceInv
  <2> QED
    BY <2>1, AppendAny
<1>6. \A i \in (seen' + 1)..Len(sent') : sent'[i].id = "CH_CHARLIST_REQ"
  BY <1>1 DEF Paging
<1>7. CASE HandleOther
  <2>1. res' = res
    BY <1>7 DEF HandleOther
  <2>2. PageKnown => Pages' <= Chars
    BY <1>1, <1>2, <1>3, <1>4, <1>5, <2>1 DEF Pages
  <2>3. Paging'
    BY <1>1, <1>2, <1>3, <1>4, <1>6, <2>1, <2>2 DEF Paging, Pages, NotPicked, Page, PageKnown, ListIsDirect
  <2> QED
    BY <2>3
<1>8. ASSUME NEW slot \in Slots, HandlePage(slot) PROVE Paging' \/ Picked'
  <2> DEFINE r == [res EXCEPT !.pagesRecv = @ + 1]
  <2>1. /\ r \in ResType /\ r.pagesRecv = res.pagesRecv + 1 /\ r.charsExpected = Chars
        /\ r.got09A0 /\ ~r.gotCharList /\ ~r.slotSent /\ ~r.done /\ ~r.writeErr
    <3>1. r \in ResType
      BY <1>1, ResUpdates
    <3>2. /\ r.pagesRecv = res.pagesRecv + 1 /\ r.charsExpected = res.charsExpected
          /\ r.got09A0 = res.got09A0 /\ r.gotCharList = res.gotCharList /\ r.slotSent = res.slotSent
          /\ r.done = res.done /\ r.writeErr = res.writeErr
      BY <1>1 DEF ResType
    <3> HIDE DEF r
    <3>3. res.got09A0 /\ ~res.gotCharList /\ ~res.slotSent /\ ~res.done
      BY DEF Paging, NotPicked
    <3> QED
      BY <1>2, <1>4, <3>1, <3>2, <3>3
  <2>2. PageKnown
    BY <1>8 DEF HandlePage
  <2>3. r.pagesRecv + Len(Tail(batch)) + Len(inbox) + Len(sent) - seen <= Chars
    BY <1>2, <1>3, <1>4, <1>5, <2>1, <2>2 DEF Pages
  <2>4. \/ r.got09A0 /\ r.pagesRecv >= r.charsExpected /\ PickCharSlot(slot, r)
        \/ res' = r
    BY <1>8 DEF HandlePage
  <2> HIDE DEF r
  <2>5. CASE res' = r
    <3>1. Paging'
      BY <1>1, <1>2, <1>3, <1>6, <2>1, <2>3, <2>5 DEF Paging, Pages, NotPicked, Page, PageKnown, ListIsDirect
    <3> QED
      BY <3>1
  <2>6. CASE r.got09A0 /\ r.pagesRecv >= r.charsExpected /\ PickCharSlot(slot, r)
    <3>1. Len(Tail(batch)) = 0 /\ Len(inbox) = 0 /\ seen = Len(sent)
      <4>1. r.pagesRecv >= Chars
        BY <2>1, <2>6
      <4>2. r.pagesRecv \in Nat /\ Len(Tail(batch)) \in Nat
        BY <1>3, <1>4, <2>1
      <4>3. \A c, p, b, i, l \in Nat : \A s \in 0..l :
              p + b + i + l - s <= c /\ p >= c => b = 0 /\ i = 0 /\ s = l
        OBVIOUS
      <4> QED
        BY <1>2, <1>4, <1>5, <2>3, <4>1, <4>2, <4>3
    <3>2. batch' = << >> /\ inbox' = << >>
      BY <1>1, <1>2, <1>3, <3>1
    <3>3. res' = [r EXCEPT !.selectedSlot = slot, !.gotCharList = TRUE]
      BY <2>6 DEF PickCharSlot
    <3>4. res'.gotCharList /\ ~res'.slotSent /\ ~res'.done /\ ~res'.writeErr
      BY <2>1, <3>3 DEF ResType
    <3>5. Picked'
      BY <1>1, <3>1, <3>2, <3>4 DEF Picked
    <3> QED
      BY <3>5
  <2> QED
    BY <2>4, <2>5, <2>6
<1>9. Head(batch).id \in {"HC_ACK_CHARINFO_PER_PAGE", "Other"}
  BY <1>3 DEF Page, Pkt
<1>10. /\ ~HandleLoginAccept /\ ~HandleRefuse /\ ~HandleBan /\ ~SwallowBan /\ ~HandleZone
       /\ \A slot \in Slots : ~HandleCharList(slot)
  BY <1>9 DEF HandleLoginAccept, HandleRefuse, HandleBan, SwallowBan, HandleZone, HandleCharList, Handles
<1> QED
  BY <1>7, <1>8, <1>10 DEF Handling

LEMMA SelectedHandles ==
    ASSUME PlaceInv, Selected, InChar, Handling, Rest, seen' = seen
    PROVE  Selected'
<1> DEFINE Z == {Pkt("HC_NOTIFY_ZONESVR", 0)}
<1>1. /\ sent' = sent /\ inbox' = inbox /\ batch # << >> /\ batch' = Tail(batch) /\ res \in ResType
  BY CharHandling
<1>2. batch \in Seq(Z) /\ inbox \in Seq(Z)
  BY DEF Selected
<1>3. Head(batch) \in Z /\ Tail(batch) \in Seq(Z)
  BY <1>1, <1>2, HeadTailProperties
<1>4. Head(batch).id = "HC_NOTIFY_ZONESVR"
  BY <1>3 DEF Pkt
<1>5. /\ ~HandleOther /\ ~HandleLoginAccept /\ ~HandleRefuse /\ ~HandleBan /\ ~SwallowBan
      /\ \A slot \in Slots : ~HandleCharList(slot) /\ ~HandlePage(slot)
  BY <1>4 DEF HandleOther, HandleLoginAccept, HandleRefuse, HandleBan, SwallowBan, HandleCharList,
     HandlePage, Handles, FSMActions
<1>6. res' = [res EXCEPT !.done = TRUE]
  BY <1>5 DEF Handling, HandleZone
<1>7. /\ res'.slotSent = res.slotSent /\ res'.writeErr = res.writeErr
      /\ res'.gotCharList = res.gotCharList /\ res'.selectedSlot = res.selectedSlot
  BY <1>1, <1>6 DEF ResType
<1> QED
  BY <1>1, <1>2, <1>3, <1>7 DEF Selected

LEMMA CharNext == ASSUME RathenaInv, [RathenaNext]_allVars PROVE CharInv'
<1> SUFFICES ASSUME phase' = "char" PROVE CharInv'
  BY DEF CharInv
<1>0. PlaceInv /\ LoginInv /\ CharInv
  BY DEF RathenaInv
<1>1. CASE Reconnects
  BY <1>1 DEF Reconnects, Connect
<1>2. CASE ServerAnswers
  <2>1. InChar
    BY <1>0, <1>2 DEF ServerAnswers, InChar, CharInv, vars
  <2> QED
    BY <1>0, <1>2, <2>1, CharServer
<1>3. CASE ClientReads
  <2>1. InChar
    BY <1>3 DEF ClientReads, Read, InChar, Entering
  <2> QED
    BY <1>0, <1>3, <2>1, CharReads
<1>4. CASE UNCHANGED allVars
  <2>1. Listing => Listing'
    BY <1>4 DEF allVars, vars, ioVars, Listing, NotPicked, LastOfList, ListAnswers, ListIsDirect
  <2>2. Paging => Paging'
    BY <1>4 DEF allVars, vars, ioVars, Paging, Pages, NotPicked, Page, PageKnown, ListIsDirect
  <2>3. Picked => Picked'
    BY <1>4 DEF allVars, vars, ioVars, Picked
  <2>4. Selected => Selected'
    BY <1>4 DEF allVars, vars, ioVars, Selected
  <2> QED
    BY <1>0, <1>4, <2>1, <2>2, <2>3, <2>4 DEF allVars, vars, CharInv, Entering
<1>5. ASSUME Moves, Rest, seen' = seen PROVE CharInv'
  <2>1. CASE Failed \/ CharDone \/ MapDone
    BY <2>1 DEF Failed, Fail, CharDone, MapDone
  <2>2. CASE ReadEcho \/ EnterRead \/ FeedEnds
    <3>1. phase = "char"
      BY <2>2 DEF ReadEcho, EnterRead, FeedEnds
    <3>2. InChar
      BY <2>2, <3>1 DEF ReadEcho, EnterRead, FeedEnds, InChar, Entering
    <3> QED
      BY <1>0, <1>5, <2>2, <3>2, CharQuiet
  <2>3. CASE DialOK \/ SendEnter
    <3>1. phase = "char"
      BY <2>3 DEF DialOK, SendEnter
    <3> QED
      BY <1>0, <1>5, <2>3, <3>1, CharEnters
  <2>4. CASE SendSelect
    <3>1. InChar
      BY <2>4 DEF SendSelect, WantsSelect, InChar, Entering
    <3> QED
      BY <1>0, <1>5, <2>4, <3>1, CharSelects
  <2>5. CASE Handling
    <3>1. InChar /\ phase' = phase /\ step' = step /\ batch # << >>
      BY <2>5, HandlingFacts DEF InChar, Entering
    <3>2. ~Picked
      BY <3>1 DEF Picked
    <3>3. Listing' \/ Paging' \/ Picked' \/ Selected'
      BY <1>0, <1>5, <2>5, <3>1, <3>2, ListingHandles, PagingHandles, SelectedHandles DEF CharInv, InChar
    <3> QED
      BY <3>1, <3>3 DEF CharInv, InChar, Entering
  <2>6. ASSUME NEW k \in 0..2, Notified(k) PROVE CharInv'
    <3>1. InChar
      BY <2>6 DEF Notified, HandleListNotify, Consume, InChar, Entering
    <3> QED
      BY <1>0, <1>5, <2>6, <3>1, CharNotified
  <2>7. CASE HandleUnknown \/ HandleMapAccept
    <3>1. phase = "char" /\ step = "feed" /\ batch # << >>
      BY <2>7 DEF HandleUnknown, HandleMapAccept, Handles, Consume
    <3>2. Head(batch).id # "ZC_ACCEPT_ENTER" /\ ~IsClearing(Head(batch))
      BY <1>0, <3>1, HeadIds
    <3> QED
      BY <2>7, <3>2 DEF HandleUnknown, HandleMapAccept, Handles
  <2>8. CASE Accepting
    <3>1. phase = "char" /\ step \in {"delay", "loaded", "tick"}
      BY <2>8 DEF Accepting, DelayEnds, DelayCancelled, SendMapLoaded, SendTick, SendInHandlerFails
    <3> QED
      BY <1>0, <3>1 DEF PlaceInv
  <2>9. ASSUME NEW i \in Indices, LoginDone(i) PROVE CharInv'
    <3>1. /\ phase = "login" /\ step = "loop" /\ res.done /\ sent' = sent /\ step' = "dial"
          /\ inbox' = << >>
      BY <1>5, <2>9 DEF LoginDone, Done, Rest
    <3>2. seen = 1 /\ Len(sent) = 1
      BY <1>0, <3>1 DEF LoginInv, Entering
    <3> QED
      BY <1>5, <3>1, <3>2 DEF CharInv, Entering
  <2> QED
    BY <1>5, <2>1, <2>2, <2>3, <2>4, <2>5, <2>6, <2>7, <2>8, <2>9 DEF Moves
<1> QED
  BY <1>0, <1>1, <1>2, <1>3, <1>4, <1>5, NextCases

-----------------------------------------------------------------------------
(* What OnIdentity is given.                                               *)

LEMMA IdentityNext == ASSUME RathenaInv, [RathenaNext]_allVars PROVE IdentityMatchesSelection'
<1>0. PlaceInv /\ CharInv /\ IdentityMatchesSelection
  BY DEF RathenaInv
<1>1. CASE Reconnects
  BY <1>1 DEF Reconnects, Connect, IdentityMatchesSelection
<1>2. ASSUME ~Reconnects, identity' = identity PROVE IdentityMatchesSelection'
  <2>1. Len(sent) \in Nat /\ Len(sent') \in Nat /\ Len(sent') >= Len(sent) /\ \A i \in 1..Len(sent) : sent'[i] = sent[i]
    BY <1>0, <1>2, SentGrows
  <2>2. \A i \in SentAt("CH_SELECT_CHAR") : i \in SentAt("CH_SELECT_CHAR")' /\ sent'[i] = sent[i]
    BY <2>1 DEF SentAt
  <2> QED
    BY <1>0, <1>2, <2>2 DEF IdentityMatchesSelection
<1>3. CASE CharDone
  <2>1. Selected /\ identity' = res.selectedSlot /\ sent' = sent
    BY <1>0, <1>3 DEF CharDone, Done, CharInv, Entering, Listing, Paging, Picked, NotPicked
  <2>2. Len(sent) \in Nat
    <3>1. IsSeq(sent)
      BY <1>0 DEF PlaceInv
    <3> QED
      BY <3>1, AppendAny
  <2>3. Len(sent) \in SentAt("CH_SELECT_CHAR")' /\ sent'[Len(sent)].slot = identity'
    BY <2>1, <2>2 DEF Selected, SentAt
  <2> QED
    BY <2>3 DEF IdentityMatchesSelection
<1>4. Reconnects \/ CharDone \/ identity' = identity
  <2>1. CASE ServerAnswers \/ ClientReads \/ UNCHANGED allVars
    BY <2>1 DEF ServerAnswers, ClientReads, Read, allVars, vars, history
  <2>2. CASE Failed \/ ReadEcho \/ EnterRead \/ FeedEnds \/ HandleUnknown \/ DialOK \/ SendEnter
             \/ SendSelect
    BY <2>2 DEF Failed, ReadEcho, EnterRead, FeedEnds, HandleUnknown, DialOK, SendEnter, SendSelect,
       history
  <2>3. CASE Handling
    BY <2>3, HandlingFacts
  <2>4. CASE (\E k \in 0..2 : Notified(k)) \/ HandleMapAccept \/ Accepting
    BY <2>4 DEF Notified, HandleListNotify, HandleMapAccept, Accepting, DelayEnds, DelayCancelled,
       SendMapLoaded, SendTick, SendInHandlerFails, history
  <2>5. CASE (\E i \in Indices : LoginDone(i)) \/ MapDone
    BY <2>5 DEF LoginDone, MapDone, history
  <2> QED
    BY <1>0, <2>1, <2>2, <2>3, <2>4, <2>5, NextCases DEF Moves
<1> QED
  BY <1>1, <1>2, <1>3, <1>4

LEMMA RathenaInitInv == RathenaInit => RathenaInv
<1> SUFFICES ASSUME RathenaInit PROVE RathenaInv
  OBVIOUS
<1>1. \A S : << >> \in Seq(S)
  BY EmptySeq
<1>2. Len(<< >>) = 0
  OBVIOUS
<1> QED
  BY <1>1, <1>2 DEF RathenaInit, Init, RathenaInv, PlaceInv, LoginInv, CharInv,
     IdentityMatchesSelection, IsSeq

\* The slot OnIdentity reports is the slot this Connect selected, with servers that
\* answer as rAthena's, at every packet version (fsm.go:105-111, 739).
THEOREM IdentityIsSelection == RathenaSpec => []IdentityMatchesSelection
<1>1. RathenaInv /\ [RathenaNext]_allVars => RathenaInv'
  BY PlaceNext, LoginNext, CharNext, IdentityNext DEF RathenaInv
<1>2. RathenaInv => IdentityMatchesSelection
  BY DEF RathenaInv
<1> QED
  BY RathenaInitInv, <1>1, <1>2, PTL DEF RathenaSpec
=============================================================================
