------------------------------ MODULE MapSend ------------------------------
(***************************************************************************)
(* session.Send on a MapSession (pkg/session/semantic.go, map.go): encode  *)
(* the request, scramble its packet ID with the rolling key, write it,     *)
(* trace it.  The map server unscrambles the IDs with a key of its own     *)
(* that advances with every packet, so both must count the same packets.   *)
(*                                                                         *)
(* Several goroutines send; as USAGE.md asks, the caller serialises the    *)
(* access to the session and the connection (lock).  A scrambled ID is     *)
(* modelled as the pair of the ID and the key: x ^ key ^ key' is x again   *)
(* exactly when the keys are equal.                                        *)
(***************************************************************************)
EXTENDS Integers, Sequences

CONSTANTS
    Goroutines,     \* callers of Send
    Actions,        \* actions with an encoder
    HalfWord,       \* 2^16: half of the 32-bit word the key is kept in
    key0, key1, key2,   \* obfuscationKeysFor(packetver); all 0: not obfuscated
    MaxSends,       \* bound: Send calls
    MaxFailures     \* bound: writes that fail

ASSUME HalfWordAssumption == HalfWord \in Nat \ {0, 1}
ASSUME KeysAssumption == {key0, key1, key2} \subseteq 0..(HalfWord * HalfWord - 1)
ASSUME ActionsAssumption == "torn" \notin Actions     \* the mark of a torn packet
ASSUME SendBounds == MaxSends \in Nat /\ MaxFailures \in Nat

VARIABLES
    pc,         \* of each goroutine: "idle", "encoded" or "written"
    frame,      \* the packet each is sending
    result,     \* what the last Send of each returned
    lock,       \* the goroutines inside Send
    firstSent, rollingKey,  \* obfuscationState
    trace,      \* is the trace hook set?
    wire,       \* what the connection took: packets, or the torn part of one
    serverKey,  \* external: the server's key
    served,     \* external: the actions the server has read
    \* history
    issued,     \* the actions encoded, in order
    traced,     \* what the trace hook was called with
    calls, failures

sessionVars == <<firstSent, rollingKey>>
serverVars == <<serverKey, served>>
vars == <<pc, frame, result, lock, sessionVars, trace, wire, serverVars, issued, traced,
          calls, failures>>

-----------------------------------------------------------------------------
(* The key.                                                                *)

enabled == key0 # 0 \/ key1 # 0 \/ key2 # 0

\* One step of the generator, on a 32-bit word.
Advance(k) == (k * key1 + key2) % (HalfWord * HalfWord)

\* (k >> 16) & 0x7FFF
Mask(k) == (k \div HalfWord) % (HalfWord \div 2)

firstKey == Mask(Advance(key0))

\* The key of the next packet.
packetKey == IF ~enabled THEN 0 ELSE IF ~firstSent THEN firstKey ELSE Mask(rollingKey)

\* Mutant of encodePacketID: the first packet advances the rolling key, too.
encodePacketID_Always ==
    IF enabled
    THEN firstSent' = TRUE /\ rollingKey' = Advance(rollingKey)
    ELSE UNCHANGED sessionVars

\* Only the packets after the first advance the rolling key.
encodePacketID ==
    IF enabled
    THEN /\ firstSent' = TRUE
         /\ rollingKey' = IF firstSent THEN Advance(rollingKey) ELSE rollingKey
    ELSE UNCHANGED sessionVars

Packet(action, key) == [action |-> action, key |-> key]
none == Packet("none", 0)
torn == Packet("torn", 0)

-----------------------------------------------------------------------------
\* The session as runMapPhase has created it, before its first packet.
Init ==
    /\ pc = [g \in Goroutines |-> "idle"]
    /\ frame = [g \in Goroutines |-> none]
    /\ result = [g \in Goroutines |-> "none"]
    /\ lock = {}
    /\ firstSent = FALSE
    /\ rollingKey = IF enabled THEN Advance(Advance(key0)) ELSE 0
    /\ trace = FALSE
    /\ wire = << >>
    /\ serverKey = Advance(key0)
    /\ served = << >>
    /\ issued = << >>
    /\ traced = << >>
    /\ calls = 0
    /\ failures = 0

MayCall(g) == pc[g] = "idle" /\ lock = {} /\ calls < MaxSends

\* No encoder for the action, or a request of the wrong type: nothing is sent.
SendRejected(g) ==
    /\ MayCall(g)
    /\ \E err \in {"unknown action", "ErrWrongSendType"} : result' = [result EXCEPT ![g] = err]
    /\ calls' = calls + 1
    /\ UNCHANGED <<pc, frame, lock, sessionVars, trace, wire, serverVars, issued, traced, failures>>

\* Send up to the Write: the key moves on before anything is written.
Encode(g, action) ==
    /\ MayCall(g)
    /\ lock' = lock \cup {g}
    /\ frame' = [frame EXCEPT ![g] = Packet(action, packetKey)]
    /\ encodePacketID
    /\ issued' = Append(issued, action)
    /\ pc' = [pc EXCEPT ![g] = "encoded"]
    /\ calls' = calls + 1
    /\ UNCHANGED <<result, trace, wire, serverVars, traced, failures>>

Write(g) ==
    /\ pc[g] = "encoded"
    /\ wire' = Append(wire, frame[g])
    /\ pc' = [pc EXCEPT ![g] = "written"]
    /\ UNCHANGED <<frame, result, lock, sessionVars, trace, serverVars, issued, traced, calls, failures>>

\* Mutant of WriteFails: traced although it was not written.
WriteFails_Traced(g) ==
    /\ pc[g] = "encoded"
    /\ failures < MaxFailures
    /\ failures' = failures + 1
    /\ traced' = IF trace
                 THEN traced \o <<[kind |-> "WireOutbound", Frame |-> frame[g]],
                                  [kind |-> "SemanticOut", Frame |-> frame[g]]>>
                 ELSE traced
    /\ result' = [result EXCEPT ![g] = "write error"]
    /\ pc' = [pc EXCEPT ![g] = "idle"]
    /\ lock' = lock \ {g}
    /\ UNCHANGED <<frame, sessionVars, trace, wire, serverVars, issued, calls>>

\* Write returns an error, after none or some of the bytes; Send returns it.
WriteFails(g) ==
    /\ pc[g] = "encoded"
    /\ failures < MaxFailures
    /\ failures' = failures + 1
    /\ \E part \in BOOLEAN : wire' = IF part THEN Append(wire, torn) ELSE wire
    /\ result' = [result EXCEPT ![g] = "write error"]
    /\ pc' = [pc EXCEPT ![g] = "idle"]
    /\ lock' = lock \ {g}
    /\ UNCHANGED <<frame, sessionVars, trace, serverVars, issued, traced, calls>>

\* The two trace events of a packet that was written, with one copy of it.
TraceEvents(g) ==
    <<[kind |-> "WireOutbound", action |-> frame[g].action, Frame |-> frame[g]],
      [kind |-> "SemanticOut", action |-> frame[g].action, Frame |-> frame[g]]>>

SendReturns(g) ==
    /\ pc[g] = "written"
    /\ traced' = IF trace THEN traced \o TraceEvents(g) ELSE traced
    /\ result' = [result EXCEPT ![g] = "nil"]
    /\ pc' = [pc EXCEPT ![g] = "idle"]
    /\ lock' = lock \ {g}
    /\ UNCHANGED <<frame, sessionVars, trace, wire, serverVars, issued, calls, failures>>

SetTraceFunc(set) ==
    /\ lock = {}
    /\ trace # set
    /\ trace' = set
    /\ UNCHANGED <<pc, frame, result, lock, sessionVars, wire, serverVars, issued, traced, calls,
                   failures>>

\* External: the server reads the next packet; after a torn one it has lost
\* the frame boundaries.
ServerReads ==
    /\ Len(served) < Len(wire)
    /\ LET p == wire[Len(served) + 1]
           lost == \E i \in 1..(Len(served) + 1) : wire[i] = torn
           key == IF enabled THEN Mask(serverKey) ELSE 0
       IN  served' = Append(served, IF lost \/ p.key # key THEN "garbled" ELSE p.action)
    /\ serverKey' = Advance(serverKey)
    /\ UNCHANGED <<pc, frame, result, lock, sessionVars, trace, wire, issued, traced, calls, failures>>

Finished == calls = MaxSends /\ lock = {} /\ Len(served) = Len(wire) /\ UNCHANGED vars

Next ==
    \/ \E g \in Goroutines :
         \/ SendRejected(g) \/ \E action \in Actions : Encode(g, action)
         \/ Write(g) \/ WriteFails(g) \/ SendReturns(g)
    \/ \E set \in BOOLEAN : SetTraceFunc(set)
    \/ ServerReads
    \/ Finished

Spec == Init /\ [][Next]_vars

-----------------------------------------------------------------------------
(* Properties.                                                             *)

\* The key state keeps its 32 bits, the calls their place.
TypeOK ==
    /\ pc \in [Goroutines -> {"idle", "encoded", "written"}]
    /\ lock = {g \in Goroutines : pc[g] # "idle"}
    /\ firstSent \in BOOLEAN
    /\ rollingKey \in 0..(HalfWord * HalfWord - 1)
    /\ serverKey \in 0..(HalfWord * HalfWord - 1)
    /\ trace \in BOOLEAN
    /\ Len(served) <= Len(wire)
    /\ calls \in 0..MaxSends
    /\ failures \in 0..MaxFailures

\* As long as no write has failed, the server reads the actions that were sent,
\* in the order in which they were encoded, whichever goroutine sent them and
\* however many calls were rejected in between: the two keys never drift apart
\* (map.go:80-111, semantic.go:128-151).
ServerUnderstands == failures = 0 => served = SubSeq(issued, 1, Len(served))

\* The trace tells of packets on the wire only, in their order and each once,
\* whatever other writes have failed and whenever the hook was set or cleared
\* (session.go:38-39: "emitted by Send() after a successful write").
TraceIsWire ==
    \E at \in [1..(Len(traced) \div 2) -> 1..Len(wire)] :
      /\ \A k \in DOMAIN at :
           /\ wire[at[k]] = traced[2 * k - 1].Frame
           /\ traced[2 * k].Frame = traced[2 * k - 1].Frame
           /\ traced[2 * k - 1].kind = "WireOutbound"
           /\ traced[2 * k].kind = "SemanticOut"
      /\ \A j, k \in DOMAIN at : j < k => at[j] < at[k]
=============================================================================
