--------------------------- MODULE RathenaServer ---------------------------
(***************************************************************************)
(* ConnectionFSM against servers that behave like rAthena's: each packet   *)
(* of the client is answered, in order, by the packets the client's code   *)
(* says the server answers with.  The network may break a dial or a write, *)
(* or delay an answer, a few times; the caller then calls Connect again.   *)
(* Reads cut the answer stream anywhere between packets.                   *)
(***************************************************************************)
EXTENDS ConnectionFSM

CONSTANTS
    Chars,      \* number of characters of the account
    MaxFaults   \* bound: dials and writes that fail, and late answers

ASSUME CharsAssumption == Chars \in 1..2
ASSUME MaxFaultsAssumption == MaxFaults \in Nat /\ MaxConnects > MaxFaults

VARIABLES
    inbox,      \* packets on their way to the client
    seen,       \* how many packets of sent the servers have answered
    faults      \* failures so far

allVars == <<vars, inbox, seen, faults>>

\* A page is 0x099D, from 20201007 on 0x0B72, for which the FSM has no handler.
Page == IF PageKnown THEN Pkt("HC_ACK_CHARINFO_PER_PAGE", 0) ELSE Pkt("Other", 0)

Answer(id) ==
    CASE id = "CA_LOGIN" -> <<Pkt("AC_ACCEPT_LOGIN", 1)>>
      [] id = "CH_ENTER" ->
           IF ListIsDirect THEN <<Pkt("HC_ACCEPT_ENTER", 0)>>
           ELSE <<Pkt("Other", 0), Pkt("HC_ACCEPT_ENTER", 0), Pkt("HC_CHARLIST_NOTIFY", Chars)>>
      [] id = "CH_CHARLIST_REQ" -> <<Page>>
      [] id = "CH_SELECT_CHAR" -> <<Pkt("HC_NOTIFY_ZONESVR", 0)>>
      [] id = "CZ_ENTER" -> <<Pkt("ZC_AID", 0), Pkt("ZC_ACCEPT_ENTER", 0)>>
      [] OTHER -> <<Pkt("Other", 0)>>

ServerAnswers ==
    /\ phase # "idle"
    /\ seen < Len(sent)
    /\ inbox' = inbox \o Answer(sent[seen + 1].id)
    /\ seen' = seen + 1
    /\ UNCHANGED <<vars, faults>>

ClientReads ==
    /\ \E n \in 1..Len(inbox) :
         /\ Read(SubSeq(inbox, 1, n), FALSE)
         /\ inbox' = SubSeq(inbox, n + 1, Len(inbox))
    /\ UNCHANGED <<seen, faults>>

\* A closed connection loses what was on its way.
Rest == inbox' = IF phase' # phase THEN << >> ELSE inbox

ClientSteps ==
    /\ Progress
    /\ step = "echo" => seen = Len(sent)
    /\ Rest
    /\ UNCHANGED <<seen, faults>>

\* The deadline of a read passes: because the servers have nothing left to
\* answer, or because an answer is late, which counts as a fault.
ClientTimesOut ==
    LET starved == seen = Len(sent) /\ inbox = << >>
    IN  /\ starved \/ faults < MaxFaults
        /\ ReadFails
        /\ faults' = IF starved THEN faults ELSE faults + 1
        /\ Rest
        /\ UNCHANGED seen

NetworkFails ==
    /\ faults < MaxFaults
    /\ Faults
    /\ faults' = faults + 1
    /\ Rest
    /\ UNCHANGED seen

Reconnects ==
    /\ outcome # "ready"
    /\ Connect
    /\ inbox' = << >>
    /\ seen' = 0
    /\ UNCHANGED faults

Finished ==
    /\ phase = "idle"
    /\ outcome = "ready" \/ attempt = MaxConnects
    /\ UNCHANGED allVars

RathenaInit == Init /\ inbox = << >> /\ seen = 0 /\ faults = 0

RathenaNext ==
    \/ ServerAnswers \/ ClientReads \/ ClientSteps \/ ClientTimesOut
    \/ NetworkFails \/ Reconnects \/ Finished

\* The goroutine of Connect and the servers keep running, and the caller keeps
\* reconnecting.
RathenaSpec ==
    /\ RathenaInit
    /\ [][RathenaNext]_allVars
    /\ WF_allVars(ServerAnswers)
    /\ WF_allVars(ClientReads \/ ClientSteps \/ ClientTimesOut)
    /\ WF_allVars(Reconnects)

\* With servers that answer and a network that fails at most MaxFaults times,
\* the caller gets OnReady.
EventuallyReady == <>(phase = "idle" /\ outcome = "ready")
=============================================================================
