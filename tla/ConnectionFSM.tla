--------------------------- MODULE ConnectionFSM ---------------------------
(***************************************************************************)
(* ConnectionFSM.Connect (pkg/session/fsm.go): log in at the login server, *)
(* pick a character at the char server, enter the map at the map server,   *)
(* and hand the live connection to the caller.                             *)
(*                                                                         *)
(* Connect is one goroutine; what interleaves with it are the servers, the *)
(* network and the caller's context.  Packets are whole frames here (the   *)
(* framer is SessionCore): a read returns a batch of them, possibly none,  *)
(* and each is handled in a step of its own.  This module is the client    *)
(* only; AnyServer and RathenaServer say what the reads return.            *)
(***************************************************************************)
EXTENDS Integers, Sequences, FiniteSets

CONSTANTS
    Packetver,       \* ServerConfig.Packetver, YYYYMMDD
    MapLoadDelay,    \* is ServerConfig.MapLoadDelay > 0?
    Slots,           \* the slots OnCharList may answer
    Indices,         \* the indices OnCharServerList may answer
    HasOnReady,      \* is OnReady registered?
    UserActions,     \* actions OnMapSessionCreated registers handlers for
    MaxConnects      \* bound: calls of Connect

ASSUME PacketverAssumption == Packetver \in Nat
ASSUME FlagsAssumption == MapLoadDelay \in BOOLEAN /\ HasOnReady \in BOOLEAN
ASSUME CallbacksAssumption == Slots \subseteq Nat /\ Slots # {} /\ Indices \subseteq Int
ASSUME MaxConnectsAssumption == MaxConnects \in Nat

VARIABLES
    phase,      \* "idle" outside Connect, else AuthPhase
    step,       \* where in the phase: "dial", "enter", "echo", "loop", "read", "feed",
                \* and inside the handler of ZC_ACCEPT_ENTER "delay", "loaded", "tick"
    batch,      \* the packets of the current read not handled yet
    readErr,    \* the current read also returned an error
    res,        \* the local results of the phase (done, err, char list)
    auth,       \* accountID, sessionID1, sessionID2, sex as one value; charID
    handler,    \* map session: owner of the handler of each FSM packet ID
    conns,      \* number of connections dialled so far
    open,       \* those the FSM still has to close
    handed,     \* those given away by OnReady
    armed,      \* the current connection has a deadline set
    sent,       \* what this Connect has written, in order
    attempt,    \* number of the current or last Connect call
    outcome,    \* how the last Connect ended
    ctxDone,    \* the caller has cancelled the context
    \* history, read by no action
    refused,    \* this Connect has handled a refusal or a ban
    bans,       \* SC_NOTIFY_BANs the server delivered to this Connect
    notified,   \* OnServerNotify calls of this Connect, by phase
    answers,    \* slots OnCharList answered in this Connect
    identity    \* what OnIdentity was given: the slot, or -1

ioVars == <<batch, readErr>>
connVars == <<conns, open, handed, armed>>
callVars == <<attempt, outcome, ctxDone>>
history == <<refused, bans, notified, answers, identity>>
vars == <<phase, step, ioVars, res, auth, handler, connVars, sent, callVars, history>>

-----------------------------------------------------------------------------
(* Data.                                                                   *)

Pkt(id, val) == [id |-> id, val |-> val]

\* From a server: Other has a length but no handler of the FSM; Unknown has no
\* length; Corrupt has an embedded length below four.
Noise == {Pkt("Other", 0), Pkt("Unknown", 0), Pkt("Corrupt", 0)}

\* Accept carries the number of char servers listed; -1: shorter than its header.
LoginPackets ==
    {Pkt("AC_ACCEPT_LOGIN", n) : n \in {-1, 0, 1, 2}}
      \cup {Pkt("AC_REFUSE_LOGIN", 0), Pkt("SC_NOTIFY_BAN", 0)} \cup Noise

\* The notify carries the announced number of characters, a page its count.
CharPackets ==
    {Pkt("HC_REFUSE_ENTER", 0), Pkt("SC_NOTIFY_BAN", 0), Pkt("HC_NOTIFY_ZONESVR", 0),
     Pkt("HC_ACCEPT_ENTER", 0), Pkt("HC_ACK_CHARINFO_PER_PAGE", 0)}
      \cup {Pkt("HC_CHARLIST_NOTIFY", n) : n \in 0..2} \cup Noise

MapPackets ==
    {Pkt("ZC_AID", 0), Pkt("ZC_REFUSE_ENTER", 0), Pkt("SC_NOTIFY_BAN", 0),
     Pkt("ZC_ACCEPT_ENTER", 0)} \cup Noise

Packets == LoginPackets \cup CharPackets \cup MapPackets

\* The IDs the FSM registers handlers for in the map session.
FSMActions == {"ZC_AID", "ZC_REFUSE_ENTER", "SC_NOTIFY_BAN", "ZC_ACCEPT_ENTER"}

\* 0x099D has length 0 from 20201007 on; its successor 0x0B72 has no handler.
PageKnown == Packetver < 20201007
\* Before 20170315 the char session frames 0x0081 as 28 bytes.
BanIsZoneSized == Packetver < 20170315
\* Before 20130000 the whole char list comes in HC_ACCEPT_ENTER.
ListIsDirect == Packetver < 20130000

noAuth == [login |-> 0, charID |-> 0]

noRes ==
    [done |-> FALSE, err |-> FALSE, servers |-> 0,
     charsExpected |-> 0, pagesRecv |-> 0, got09A0 |-> FALSE,
     gotCharList |-> FALSE, selectedSlot |-> 0, slotSent |-> FALSE,
     writeErr |-> FALSE, stuck |-> FALSE]

fsmHandlers == [a \in FSMActions |-> "fsm"]

-----------------------------------------------------------------------------
Init ==
    /\ phase = "idle"
    /\ step = "dial"
    /\ batch = << >>
    /\ readErr = FALSE
    /\ res = noRes
    /\ auth = noAuth
    /\ handler = fsmHandlers
    /\ conns = 0
    /\ open = {}
    /\ handed = {}
    /\ armed = FALSE
    /\ sent = << >>
    /\ attempt = 0
    /\ outcome = "none"
    /\ ctxDone = FALSE
    /\ refused = FALSE
    /\ bans = 0
    /\ notified = << >>
    /\ answers = {}
    /\ identity = -1

\* The caller calls Connect, again after it has returned.
Connect ==
    /\ phase = "idle"
    /\ attempt < MaxConnects
    /\ attempt' = attempt + 1
    /\ auth' = noAuth
    /\ phase' = "login"
    /\ step' = "dial"
    /\ outcome' = "none"
    /\ ctxDone' = FALSE
    /\ sent' = << >>
    /\ refused' = FALSE
    /\ bans' = 0
    /\ notified' = << >>
    /\ answers' = {}
    /\ identity' = -1
    /\ UNCHANGED <<ioVars, res, handler, connVars>>

Cancel ==
    /\ phase # "idle"
    /\ ~ctxDone
    /\ ctxDone' = TRUE
    /\ UNCHANGED <<phase, step, ioVars, res, auth, handler, connVars, sent, attempt, outcome,
                   history>>

\* Connect returns an error: the deferred Close of the phase, then OnFailed.
Fail ==
    /\ open' = {}
    /\ armed' = FALSE
    /\ phase' = "idle"
    /\ step' = "dial"
    /\ batch' = << >>
    /\ readErr' = FALSE
    /\ outcome' = "failed"
    /\ UNCHANGED <<auth, handler, conns, handed, attempt, ctxDone>>

-----------------------------------------------------------------------------
(* Dialling and entering a server.                                         *)

DialOK ==
    /\ phase # "idle" /\ step = "dial"
    /\ conns' = conns + 1
    /\ open' = open \cup {conns + 1}
    /\ armed' = FALSE
    /\ res' = noRes
    /\ step' = "enter"
    /\ UNCHANGED <<phase, ioVars, auth, handler, handed, sent, callVars, history>>

DialFails ==
    /\ phase # "idle" /\ step = "dial"
    /\ Fail
    /\ UNCHANGED <<res, sent, history>>

\* The first packet of each phase, with the tokens collected so far.
EnterPacket ==
    CASE phase = "login" -> [id |-> "CA_LOGIN", auth |-> noAuth, slot |-> 0]
      [] phase = "char"  -> [id |-> "CH_ENTER", auth |-> [auth EXCEPT !.charID = 0], slot |-> 0]
      [] OTHER           -> [id |-> "CZ_ENTER", auth |-> auth, slot |-> 0]

\* A packet without tokens.
Plain(id) == [id |-> id, auth |-> noAuth, slot |-> 0]

\* Map phase: the FSM's handlers are registered after CZ_ENTER, then
\* OnMapSessionCreated may overwrite some of them.
SendEnter ==
    /\ phase # "idle" /\ step = "enter"
    /\ sent' = Append(sent, EnterPacket)
    /\ armed' = TRUE
    /\ step' = IF phase = "char" THEN "echo" ELSE "loop"
    /\ handler' = IF phase = "map"
                  THEN [a \in FSMActions |-> IF a \in UserActions THEN "user" ELSE "fsm"]
                  ELSE handler
    /\ UNCHANGED <<phase, ioVars, res, auth, conns, open, handed, callVars, history>>

SendEnterFails ==
    /\ phase # "idle" /\ step = "enter"
    /\ Fail
    /\ UNCHANGED <<res, sent, history>>

\* The char server first echoes the account ID, four bytes without a header.
ReadEcho ==
    /\ step = "echo"
    /\ armed' = TRUE
    /\ step' = "loop"
    /\ UNCHANGED <<phase, ioVars, res, auth, handler, conns, open, handed, sent, callVars, history>>

ReadEchoFails ==
    /\ step = "echo"
    /\ Fail
    /\ UNCHANGED <<res, sent, history>>

-----------------------------------------------------------------------------
(* The read loops: feedUntil, and the loop of runCharPhase.                *)

\* Something the char loop does before it reads again.
WantsSelect == phase = "char" /\ res.gotCharList /\ ~res.slotSent

EnterRead ==
    /\ phase # "idle" /\ step = "loop"
    /\ ~res.done
    /\ ~res.writeErr
    /\ ~WantsSelect
    /\ armed' = TRUE
    /\ step' = "read"
    /\ UNCHANGED <<phase, ioVars, res, auth, handler, conns, open, handed, sent, callVars, history>>

\* Mutant of SendSelect: the slot of the credentials is sent.
SendSelect_Default ==
    /\ phase # "idle" /\ step = "loop"
    /\ ~res.done
    /\ ~res.writeErr
    /\ WantsSelect
    /\ sent' = Append(sent, Plain("CH_SELECT_CHAR"))
    /\ res' = [res EXCEPT !.slotSent = TRUE]
    /\ armed' = TRUE
    /\ step' = "read"
    /\ UNCHANGED <<phase, ioVars, auth, handler, conns, open, handed, callVars, history>>

SendSelect ==
    /\ phase # "idle" /\ step = "loop"
    /\ ~res.done
    /\ ~res.writeErr
    /\ WantsSelect
    /\ sent' = Append(sent, [Plain("CH_SELECT_CHAR") EXCEPT !.slot = res.selectedSlot])
    /\ res' = [res EXCEPT !.slotSent = TRUE]
    /\ armed' = TRUE
    /\ step' = "read"
    /\ UNCHANGED <<phase, ioVars, auth, handler, conns, open, handed, callVars, history>>

SendSelectFails ==
    /\ phase # "idle" /\ step = "loop"
    /\ ~res.done
    /\ ~res.writeErr
    /\ WantsSelect
    /\ Fail
    /\ UNCHANGED <<res, sent, history>>

\* The phase ends with an error: a failed page request, or res.err / loginErr.
PhaseFails ==
    /\ phase # "idle" /\ step = "loop"
    /\ res.writeErr \/ (res.done /\ res.err)
    /\ Fail
    /\ UNCHANGED <<res, sent, history>>

\* feedStep: conn.Read returned the packets b, and an error if err.
Read(b, err) ==
    /\ phase # "idle" /\ step = "read"
    /\ batch' = b
    /\ readErr' = err
    /\ step' = "feed"
    /\ UNCHANGED <<phase, res, auth, handler, connVars, sent, callVars, history>>

\* The deadline passed, or the peer closed the connection.
ReadFails ==
    /\ phase # "idle" /\ step = "read"
    /\ Fail
    /\ UNCHANGED <<res, sent, history>>

\* Feed has returned: the error of the read counts even when done is set.
FeedEnds ==
    /\ step = "feed" /\ batch = << >>
    /\ ~readErr
    /\ step' = "loop"
    /\ UNCHANGED <<phase, ioVars, res, auth, handler, connVars, sent, callVars, history>>

FeedEndsWithReadError ==
    /\ step = "feed" /\ batch = << >>
    /\ readErr
    /\ Fail
    /\ UNCHANGED <<res, sent, history>>

-----------------------------------------------------------------------------
(* Handlers: the next packet of the batch has one of the given IDs.        *)

Handles(ids) ==
    /\ step = "feed" /\ batch # << >>
    /\ ~res.stuck
    /\ Head(batch).id \in ids

\* What every handler leaves alone, or does to the batch.
Consume ==
    /\ batch' = Tail(batch)
    /\ UNCHANGED <<phase, readErr, conns, open, handed, callVars>>

\* A page is unknown to the length table of a new version.
IsClearing(p) == p.id = "Unknown" \/ (p.id = "HC_ACK_CHARINFO_PER_PAGE" /\ ~PageKnown)

\* Mutant of HandleUnknown: Feed looks at the same bytes again.
HandleUnknown_Keeps ==
    /\ step = "feed" /\ batch # << >> /\ ~res.stuck
    /\ IsClearing(Head(batch))
    /\ UNCHANGED vars

\* No length for this ID: Feed gives up the rest of the read.
HandleUnknown ==
    /\ step = "feed" /\ batch # << >> /\ ~res.stuck
    /\ IsClearing(Head(batch))
    /\ batch' = << >>
    /\ UNCHANGED <<phase, step, readErr, res, auth, handler, connVars, sent, callVars, history>>

\* Feed returns ErrUnknownPacket.
HandleCorrupt ==
    /\ Handles({"Corrupt"})
    /\ Fail
    /\ UNCHANGED <<res, sent, history>>

\* No handler, the empty one of ZC_AID, HC_ACCEPT_ENTER that only accumulates
\* bytes, or a handler of the caller.
HandleOther ==
    /\ step = "feed" /\ batch # << >> /\ ~res.stuck
    /\ LET id == Head(batch).id
       IN  \/ id \in {"Other", "ZC_AID"}
           \/ id = "HC_ACCEPT_ENTER" /\ ~ListIsDirect
           \/ phase = "map" /\ id \in FSMActions /\ handler[id] = "user"
    /\ bans' = bans + (IF Head(batch).id = "SC_NOTIFY_BAN" THEN 1 ELSE 0)
    /\ Consume
    /\ UNCHANGED <<step, res, auth, handler, armed, sent, refused, notified, answers, identity>>

HandleLoginAccept ==
    /\ Handles({"AC_ACCEPT_LOGIN"})
    /\ LET n == Head(batch).val
       IN  IF n = -1
           THEN /\ res' = [res EXCEPT !.done = TRUE, !.err = TRUE]
                /\ auth' = auth
           ELSE /\ res' = [res EXCEPT !.done = TRUE, !.servers = n]
                /\ auth' = [auth EXCEPT !.login = attempt]
    /\ Consume
    /\ UNCHANGED <<step, handler, armed, sent, history>>

\* Mutant of HandleRefuse: done without an error.
HandleRefuse_NoError ==
    /\ Handles({"AC_REFUSE_LOGIN", "HC_REFUSE_ENTER", "ZC_REFUSE_ENTER"})
    /\ phase = "map" => handler["ZC_REFUSE_ENTER"] = "fsm"
    /\ res' = [res EXCEPT !.done = TRUE]
    /\ refused' = TRUE
    /\ Consume
    /\ UNCHANGED <<step, auth, handler, armed, sent, bans, notified, answers, identity>>

\* Refused by the login, the char or the map server.
HandleRefuse ==
    /\ Handles({"AC_REFUSE_LOGIN", "HC_REFUSE_ENTER", "ZC_REFUSE_ENTER"})
    /\ phase = "map" => handler["ZC_REFUSE_ENTER"] = "fsm"
    /\ res' = [res EXCEPT !.done = TRUE, !.err = TRUE]
    /\ refused' = TRUE
    /\ Consume
    /\ UNCHANGED <<step, auth, handler, armed, sent, bans, notified, answers, identity>>

\* Mutant of HandleBan: the callback is missing in the map phase.
HandleBan_Silent ==
    /\ Handles({"SC_NOTIFY_BAN"})
    /\ ~(phase = "char" /\ BanIsZoneSized)
    /\ phase = "map" => handler["SC_NOTIFY_BAN"] = "fsm"
    /\ notified' = IF phase = "map" THEN notified ELSE Append(notified, phase)
    /\ bans' = bans + 1
    /\ res' = [res EXCEPT !.done = TRUE, !.err = TRUE]
    /\ refused' = TRUE
    /\ Consume
    /\ UNCHANGED <<step, auth, handler, armed, sent, answers, identity>>

\* 0x0081, framed as SC_NOTIFY_BAN.
HandleBan ==
    /\ Handles({"SC_NOTIFY_BAN"})
    /\ ~(phase = "char" /\ BanIsZoneSized)
    /\ phase = "map" => handler["SC_NOTIFY_BAN"] = "fsm"
    /\ notified' = Append(notified, phase)
    /\ bans' = bans + 1
    /\ res' = [res EXCEPT !.done = TRUE, !.err = TRUE]
    /\ refused' = TRUE
    /\ Consume
    /\ UNCHANGED <<step, auth, handler, armed, sent, answers, identity>>

\* Char phase before 20170315: the three bytes of a ban are the start of a
\* 28-byte frame.  The server closes the connection after a ban, so the frame
\* is never completed.
SwallowBan ==
    /\ Handles({"SC_NOTIFY_BAN"})
    /\ phase = "char" /\ BanIsZoneSized
    /\ res' = [res EXCEPT !.stuck = TRUE]
    /\ bans' = bans + 1
    /\ Consume
    /\ UNCHANGED <<step, auth, handler, armed, sent, refused, notified, answers, identity>>

\* Mutant of HandleZone: the character ID is not stored.
HandleZone_NoCharID ==
    /\ Handles({"HC_NOTIFY_ZONESVR"})
    /\ res' = [res EXCEPT !.done = TRUE]
    /\ Consume
    /\ UNCHANGED <<step, auth, handler, armed, sent, history>>

HandleZone ==
    /\ Handles({"HC_NOTIFY_ZONESVR"})
    /\ res' = [res EXCEPT !.done = TRUE]
    /\ auth' = [auth EXCEPT !.charID = attempt]
    /\ Consume
    /\ UNCHANGED <<step, handler, armed, sent, history>>

\* pickCharSlot: OnCharList answers some slot.
PickCharSlot(slot, r) ==
    /\ res' = [r EXCEPT !.selectedSlot = slot, !.gotCharList = TRUE]
    /\ answers' = answers \cup {slot}

HandleCharList(slot) ==
    /\ Handles({"HC_ACCEPT_ENTER"})
    /\ ListIsDirect
    /\ PickCharSlot(slot, res)
    /\ Consume
    /\ UNCHANGED <<step, auth, handler, armed, sent, refused, bans, notified, identity>>

\* Asks for one page per announced character; k requests are written.
HandleListNotify(k) ==
    /\ Handles({"HC_CHARLIST_NOTIFY"})
    /\ k <= Head(batch).val
    /\ res' = [res EXCEPT !.charsExpected = Head(batch).val, !.got09A0 = TRUE,
                          !.writeErr = res.writeErr \/ k < Head(batch).val]
    /\ sent' = sent \o [i \in 1..k |-> Plain("CH_CHARLIST_REQ")]
    /\ Consume
    /\ UNCHANGED <<step, auth, handler, armed, history>>

\* Mutant of HandlePage: waits for one page more than was announced.
HandlePage_OffByOne(slot) ==
    /\ Handles({"HC_ACK_CHARINFO_PER_PAGE"})
    /\ PageKnown
    /\ LET r == [res EXCEPT !.pagesRecv = @ + 1]
       IN  IF r.got09A0 /\ r.pagesRecv > r.charsExpected
           THEN PickCharSlot(slot, r)
           ELSE res' = r /\ answers' = answers
    /\ Consume
    /\ UNCHANGED <<step, auth, handler, armed, sent, refused, bans, notified, identity>>

HandlePage(slot) ==
    /\ Handles({"HC_ACK_CHARINFO_PER_PAGE"})
    /\ PageKnown
    /\ LET r == [res EXCEPT !.pagesRecv = @ + 1]
       IN  IF r.got09A0 /\ r.pagesRecv >= r.charsExpected
           THEN PickCharSlot(slot, r)
           ELSE res' = r /\ answers' = answers
    /\ Consume
    /\ UNCHANGED <<step, auth, handler, armed, sent, refused, bans, notified, identity>>

\* Mutant of HandleMapAccept: not ignored once done.
HandleMapAccept_Again ==
    /\ Handles({"ZC_ACCEPT_ENTER"})
    /\ handler["ZC_ACCEPT_ENTER"] = "fsm"
    /\ step' = IF MapLoadDelay THEN "delay" ELSE "loaded"
    /\ Consume
    /\ UNCHANGED <<res, auth, handler, armed, sent, history>>

\* onMapEnter: ignored once done, else wait, confirm, ask for the time.
HandleMapAccept ==
    /\ Handles({"ZC_ACCEPT_ENTER"})
    /\ handler["ZC_ACCEPT_ENTER"] = "fsm"
    /\ step' = IF res.done THEN "feed" ELSE IF MapLoadDelay THEN "delay" ELSE "loaded"
    /\ Consume
    /\ UNCHANGED <<res, auth, handler, armed, sent, history>>

DelayEnds ==
    /\ step = "delay"
    /\ step' = "loaded"
    /\ UNCHANGED <<phase, ioVars, res, auth, handler, connVars, sent, callVars, history>>

DelayCancelled ==
    /\ step = "delay"
    /\ ctxDone
    /\ res' = [res EXCEPT !.done = TRUE, !.err = TRUE]
    /\ step' = "feed"
    /\ UNCHANGED <<phase, ioVars, auth, handler, connVars, sent, callVars, history>>

SendMapLoaded ==
    /\ step = "loaded"
    /\ sent' = Append(sent, Plain("CZ_NOTIFY_ACTORINIT"))
    /\ armed' = TRUE
    /\ step' = "tick"
    /\ UNCHANGED <<phase, ioVars, res, auth, handler, conns, open, handed, callVars, history>>

SendTick ==
    /\ step = "tick"
    /\ sent' = Append(sent, Plain("CZ_REQUEST_TIME"))
    /\ armed' = TRUE
    /\ res' = [res EXCEPT !.done = TRUE]
    /\ step' = "feed"
    /\ UNCHANGED <<phase, ioVars, auth, handler, conns, open, handed, callVars, history>>

\* Either write fails: the handler returns, Feed goes on with the batch.
SendInHandlerFails ==
    /\ step \in {"loaded", "tick"}
    /\ res' = [res EXCEPT !.done = TRUE, !.err = TRUE]
    /\ step' = "feed"
    /\ UNCHANGED <<phase, ioVars, auth, handler, connVars, sent, callVars, history>>

-----------------------------------------------------------------------------
(* The end of a phase.                                                     *)

Done(p) ==
    /\ phase = p /\ step = "loop"
    /\ res.done /\ ~res.err /\ ~res.writeErr

\* Mutant of LoginDone: the login connection is not closed.
LoginDone_Leaks(i) ==
    /\ Done("login")
    /\ i >= 0 /\ i < res.servers
    /\ phase' = "char"
    /\ step' = "dial"
    /\ UNCHANGED <<ioVars, res, auth, handler, connVars, sent, callVars, history>>

\* OnCharServerList answers i; the login connection is closed on return.
LoginDone(i) ==
    /\ Done("login")
    /\ i >= 0 /\ i < res.servers
    /\ open' = {}
    /\ armed' = FALSE
    /\ phase' = "char"
    /\ step' = "dial"
    /\ UNCHANGED <<ioVars, res, auth, handler, conns, handed, sent, callVars, history>>

LoginIndexOutOfRange(i) ==
    /\ Done("login")
    /\ i < 0 \/ i >= res.servers
    /\ Fail
    /\ UNCHANGED <<res, sent, history>>

\* OnIdentity; the char connection is closed on return.
CharDone ==
    /\ Done("char")
    /\ identity' = res.selectedSlot
    /\ open' = {}
    /\ armed' = FALSE
    /\ phase' = "map"
    /\ step' = "dial"
    /\ UNCHANGED <<ioVars, res, auth, handler, conns, handed, sent, callVars,
                   refused, bans, notified, answers>>

\* OnReady gets the connection as it is; without OnReady it is closed.
MapDone ==
    /\ Done("map")
    /\ IF HasOnReady
       THEN /\ handed' = handed \cup open
            /\ armed' = armed
            /\ outcome' = "ready"
       ELSE /\ handed' = handed
            /\ armed' = FALSE
            /\ outcome' = "nil"
    /\ open' = {}
    /\ phase' = "idle"
    /\ step' = "dial"
    /\ UNCHANGED <<ioVars, res, auth, handler, conns, sent, attempt, ctxDone, history>>

-----------------------------------------------------------------------------
(* Every step of the client except the reads, which the servers supply.    *)

HandlePacket ==
    \/ HandleUnknown \/ HandleCorrupt \/ HandleOther
    \/ HandleLoginAccept \/ HandleRefuse \/ HandleBan \/ SwallowBan \/ HandleZone
    \/ \E slot \in Slots : HandleCharList(slot) \/ HandlePage(slot)
    \/ HandleMapAccept

Progress ==
    \/ DialOK \/ SendEnter \/ ReadEcho
    \/ EnterRead \/ SendSelect \/ PhaseFails \/ FeedEnds \/ FeedEndsWithReadError
    \/ HandlePacket
    \/ step = "feed" /\ batch # << >> /\ HandleListNotify(Head(batch).val)
    \/ DelayEnds \/ DelayCancelled \/ SendMapLoaded \/ SendTick
    \/ \E i \in Indices : LoginDone(i) \/ LoginIndexOutOfRange(i)
    \/ CharDone \/ MapDone

Faults ==
    \/ DialFails \/ SendEnterFails \/ ReadEchoFails \/ SendSelectFails \/ SendInHandlerFails
    \/ step = "feed" /\ batch # << >> /\ \E k \in 0..(Head(batch).val - 1) : HandleListNotify(k)

-----------------------------------------------------------------------------
(* Properties.                                                             *)

Phases == {"login", "char", "map"}
AuthType == [login : 0..MaxConnects, charID : 0..MaxConnects]
SentType == [id : {"CA_LOGIN", "CH_ENTER", "CH_SELECT_CHAR", "CH_CHARLIST_REQ", "CZ_ENTER",
                   "CZ_NOTIFY_ACTORINIT", "CZ_REQUEST_TIME"},
             auth : AuthType, slot : Slots \cup {0}]
ResType == [done : BOOLEAN, err : BOOLEAN, servers : 0..2,
            charsExpected : Nat, pagesRecv : Nat, got09A0 : BOOLEAN,
            gotCharList : BOOLEAN, selectedSlot : Slots \cup {0}, slotSent : BOOLEAN,
            writeErr : BOOLEAN, stuck : BOOLEAN]

\* The fields of the FSM and the locals of its phases keep their types.
TypeOK ==
    /\ phase \in Phases \cup {"idle"}
    /\ step \in {"dial", "enter", "echo", "loop", "read", "feed", "delay", "loaded", "tick"}
    /\ batch \in Seq(Packets)
    /\ readErr \in BOOLEAN
    /\ res \in ResType
    /\ auth \in AuthType
    /\ handler \in [FSMActions -> {"fsm", "user"}]
    /\ conns \in Nat
    /\ open \subseteq 1..conns
    /\ handed \subseteq 1..conns
    /\ armed \in BOOLEAN
    /\ sent \in Seq(SentType)
    /\ attempt \in 0..MaxConnects
    /\ outcome \in {"none", "ready", "nil", "failed"}
    /\ ctxDone \in BOOLEAN
    /\ refused \in BOOLEAN
    /\ bans \in Nat
    /\ notified \in Seq(Phases)
    /\ answers \subseteq Slots
    /\ identity \in Slots \cup {-1, 0}

\* No connection leaks and none is used twice: at most the newest connection is
\* the FSM's to close, it is open exactly while a phase runs on it, nothing is
\* left open when Connect returns, and what OnReady received is not closed
\* (fsm.go:390, 498, 771-776, 937).
ConnOwnership ==
    /\ open \subseteq {conns}
    /\ open \cap handed = {}
    /\ phase = "idle" => open = {}
    /\ phase # "idle" => open = IF step = "dial" THEN {} ELSE {conns}
    /\ phase = "idle" /\ outcome = "ready" => conns \in handed

\* Positions of the packets this Connect sent with the given ID.
SentAt(id) == {i \in 1..Len(sent) : sent[i].id = id}

\* OnReady is called only if no server refused or banned this Connect, and the
\* last packets sent were CZ_ENTER, the map-loaded confirmation and the time
\* request, in this order (fsm.go:269-273, 841-903).
ReadyIsHonest ==
    phase = "idle" /\ outcome = "ready" =>
      LET n == Len(sent)
      IN  /\ ~refused
          /\ n >= 5
          /\ sent[1].id = "CA_LOGIN"
          /\ sent[n - 2].id = "CZ_ENTER"
          /\ sent[n - 1].id = "CZ_NOTIFY_ACTORINIT"
          /\ sent[n].id = "CZ_REQUEST_TIME"

\* However often the map server accepts, LoadEndAck is sent once, right after
\* CZ_ENTER, and the time request never without it (fsm.go:842-844).
LoadedOnce ==
    /\ \A i, j \in SentAt("CZ_NOTIFY_ACTORINIT") : i = j
    /\ \A i \in SentAt("CZ_NOTIFY_ACTORINIT") : sent[i - 1].id = "CZ_ENTER"
    /\ \A i \in SentAt("CZ_REQUEST_TIME") : sent[i - 1].id = "CZ_NOTIFY_ACTORINIT"

\* The tokens presented to the char and map servers are those the login and
\* char servers issued to this Connect, not those of an earlier one or none
\* (fsm.go:312-317, 416-419, 501, 558, 788).
TokensFresh ==
    \A i \in SentAt("CH_ENTER") \cup SentAt("CZ_ENTER") :
      /\ sent[i].auth.login = attempt
      /\ sent[i].id = "CZ_ENTER" => sent[i].auth.charID = attempt

\* CH_SELECT_CHAR is sent at most once, and names a slot OnCharList answered to
\* a list the server had announced or sent in full (fsm.go:690-716).
SelectAnswersList ==
    /\ \A i, j \in SentAt("CH_SELECT_CHAR") : i = j
    /\ \A i \in SentAt("CH_SELECT_CHAR") : sent[i].slot \in answers
    /\ answers # {} /\ phase = "char" /\ step # "dial" =>
         ListIsDirect \/ (res.got09A0 /\ res.pagesRecv > 0)

\* However the servers repeat, mix up or split their answers, the requests that must not be
\* repeated are sent once and in their place.
SentInOrder == LoadedOnce /\ SelectAnswersList

\* Every SC_NOTIFY_BAN a server delivers reaches OnServerNotify (fsm.go:286:
\* "invoked when 0x0081 SC_NOTIFY_BAN is received from any server phase").
BanNotified == bans = Len(notified)

\* The slot OnIdentity reports is the slot that was selected (fsm.go:105-111,
\* 739).
IdentityMatchesSelection ==
    identity # -1 => \E i \in SentAt("CH_SELECT_CHAR") : sent[i].slot = identity

\* fsm.go:43: the deadline is for "each blocking read inside Connect()"; the
\* connection OnReady hands over has none left on it.
DeadlineGone == phase = "idle" /\ outcome = "ready" => ~armed

\* What Connect promises its caller (fsm.go:269-303, 341-378): see Login. A token is granted
\* when it is not the zero that Connect starts with.
Granted == {p \in {"login", "char"} : (IF p = "login" THEN auth.login ELSE auth.charID) # 0}
Promise == INSTANCE Login WITH
    stage <- IF phase = "idle" THEN "out" ELSE phase,
    dialled <- conns,
    mine <- IF open = {} THEN 0 ELSE conns,
    given <- handed,
    granted <- Granted
ImplementsLogin == Promise!Spec

\* Connect always returns.
ConnectReturns == phase # "idle" ~> phase = "idle"
=============================================================================
