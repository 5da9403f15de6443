--------------------------- MODULE MapSendProofs ---------------------------
(***************************************************************************)
(* Theorems about session.Send on a MapSession: for every number of        *)
(* goroutines, actions, calls and failed writes, and for every triple of   *)
(* obfuscation keys.                                                       *)
(***************************************************************************)
EXTENDS MapSend, SequenceTheorems, TLAPS

-----------------------------------------------------------------------------
(* Types, and the mutual exclusion the caller provides.                    *)

\* The actions, and the marks in their place.
Names == Actions \cup {"none", "torn", "garbled"}
Word == 0..(HalfWord * HalfWord - 1)
Frames == [action : Names, key : Nat]
TraceEvent == [kind : {"WireOutbound", "SemanticOut"},
               action : Names, Frame : Frames]

\* What the proofs know of the variables TypeOK leaves out; at most one
\* goroutine is inside Send.
SendInv ==
    /\ TypeOK
    /\ frame \in [Goroutines -> Frames]
    /\ result = [g \in Goroutines |-> result[g]]
    /\ wire \in Seq(Frames)
    /\ served \in Seq(Names)
    /\ issued \in Seq(Actions)
    /\ traced \in Seq(TraceEvent)
    /\ \A g, h \in Goroutines : pc[g] # "idle" /\ pc[h] # "idle" => g = h

\* A word of the generator is a word again, and its mask a number.
LEMMA KeyTypes ==
    /\ key0 \in Word /\ 0 \in Word
    /\ \A k \in Word : Advance(k) \in Word /\ Mask(k) \in Nat
<1> DEFINE W == HalfWord * HalfWord
<1>1. HalfWord \in Nat /\ HalfWord >= 2 /\ W \in Nat /\ W >= 1
  BY HalfWordAssumption
<1>2. key0 \in 0..(W - 1) /\ key1 \in 0..(W - 1) /\ key2 \in 0..(W - 1)
  BY KeysAssumption
<1> HIDE DEF W
<1>3. ASSUME NEW k \in 0..(W - 1) PROVE (k * key1 + key2) % W \in 0..(W - 1)
  <2>1. k * key1 + key2 \in Nat
    BY <1>1, <1>2
  <2> QED
    BY <1>1, <2>1
<1>4. ASSUME NEW k \in 0..(W - 1) PROVE Mask(k) \in Nat
  <2>1. HalfWord \div 2 \in Nat /\ HalfWord \div 2 >= 1
    BY <1>1
  <2>2. k \div HalfWord \in Nat
    BY <1>1
  <2> QED
    BY <2>1, <2>2 DEF Mask
<1>5. 0 \in 0..(W - 1)
  BY <1>1
<1> QED
  BY <1>2, <1>3, <1>4, <1>5 DEF Word, W, Advance

\* The key of the next packet is a number, and the key state stays a word.
LEMMA EncodeTypes ==
    ASSUME firstSent \in BOOLEAN, rollingKey \in Word
    PROVE  /\ packetKey \in Nat
           /\ encodePacketID => firstSent' \in BOOLEAN /\ rollingKey' \in Word
<1>1. packetKey \in Nat
  BY KeyTypes DEF packetKey, firstKey
<1>2. ASSUME encodePacketID PROVE firstSent' \in BOOLEAN /\ rollingKey' \in Word
  BY <1>2, KeyTypes DEF encodePacketID, sessionVars
<1> QED
  BY <1>1, <1>2

LEMMA PacketTypes ==
    /\ none \in Frames /\ torn \in Frames
    /\ \A a \in Actions, k \in Nat : Packet(a, k) \in Frames /\ Packet(a, k) # torn
BY ActionsAssumption DEF none, Names, torn, Packet, Frames

LEMMA SendInit == Init => SendInv
<1> SUFFICES ASSUME Init PROVE SendInv
  OBVIOUS
<1>1. rollingKey \in Word /\ serverKey \in Word
  BY KeyTypes DEF Init
<1>2. lock = {g \in Goroutines : pc[g] # "idle"}
  BY DEF Init
<1>3. TypeOK
  <2>1. Len(served) <= Len(wire) /\ calls \in 0..MaxSends /\ failures \in 0..MaxFailures
    BY SendBounds DEF Init
  <2>2. pc \in [Goroutines -> {"idle", "encoded", "written"}]
    BY DEF Init
  <2>3. firstSent \in BOOLEAN /\ trace \in BOOLEAN
    BY DEF Init
  <2> QED
    BY <1>1, <1>2, <2>1, <2>2, <2>3 DEF TypeOK, Word
<1>4. frame \in [Goroutines -> Frames]
  BY PacketTypes DEF Init
<1> QED
  BY <1>3, <1>4 DEF Init, SendInv

\* A goroutine that enters or leaves Send, or moves on inside it, keeps lock
\* the set of those inside and at most one.
LEMMA Moves ==
    ASSUME SendInv, NEW g \in Goroutines, NEW to \in {"idle", "encoded", "written"},
           pc[g] # "idle" \/ lock = {},
           pc' = [pc EXCEPT ![g] = to],
           lock' = IF to = "idle" THEN lock \ {g} ELSE lock \cup {g}
    PROVE  /\ pc' \in [Goroutines -> {"idle", "encoded", "written"}]
           /\ lock' = {h \in Goroutines : pc'[h] # "idle"}
           /\ \A h \in Goroutines : h # g => pc'[h] = "idle" /\ pc[h] = "idle"
           /\ pc'[g] = to
           /\ \A h, k \in Goroutines : pc'[h] # "idle" /\ pc'[k] # "idle" => h = k
<1>1. pc \in [Goroutines -> {"idle", "encoded", "written"}]
  BY DEF SendInv, TypeOK
<1>2. \A h \in Goroutines : h \in lock <=> pc[h] # "idle"
  BY DEF SendInv, TypeOK
<1>3. lock \subseteq Goroutines
  BY DEF SendInv, TypeOK
<1>4. \A h \in Goroutines : h # g => pc[h] = "idle"
  BY <1>2 DEF SendInv
<1>5. pc' \in [Goroutines -> {"idle", "encoded", "written"}]
  BY <1>1
<1>6. \A h \in Goroutines : pc'[h] = IF h = g THEN to ELSE pc[h]
  BY <1>1
<1>7. \A h : h \in lock' <=> h \in Goroutines /\ pc'[h] # "idle"
  BY <1>2, <1>3, <1>6
<1>8. lock' = {h \in Goroutines : pc'[h] # "idle"}
  BY <1>7
<1> QED
  BY <1>4, <1>5, <1>6, <1>8

\* Every step keeps the types and the mutual exclusion.
LEMMA SendStep == SendInv /\ [Next]_vars => SendInv'
<1> SUFFICES ASSUME SendInv, [Next]_vars PROVE SendInv'
  OBVIOUS
<1> USE SendBounds
<1>t. /\ pc \in [Goroutines -> {"idle", "encoded", "written"}]
      /\ lock = {g \in Goroutines : pc[g] # "idle"}
      /\ firstSent \in BOOLEAN /\ trace \in BOOLEAN
      /\ rollingKey \in Word /\ serverKey \in Word
      /\ Len(served) <= Len(wire)
      /\ calls \in 0..MaxSends /\ failures \in 0..MaxFailures
      /\ frame \in [Goroutines -> Frames]
      /\ result = [g \in Goroutines |-> result[g]]
      /\ wire \in Seq(Frames)
      /\ served \in Seq(Names)
      /\ issued \in Seq(Actions)
      /\ traced \in Seq(TraceEvent)
      /\ \A g, h \in Goroutines : pc[g] # "idle" /\ pc[h] # "idle" => g = h
  BY DEF SendInv, TypeOK, Word
<1>1. ASSUME NEW g \in Goroutines, SendRejected(g) PROVE SendInv'
  <2>1. PICK err : result' = [result EXCEPT ![g] = err]
    BY <1>1 DEF SendRejected
  <2>2. result' = [h \in Goroutines |-> result'[h]]
    BY <1>t, <2>1
  <2>3. calls' \in 0..MaxSends
    <3>1. calls < MaxSends /\ calls' = calls + 1
      BY <1>1 DEF SendRejected, MayCall
    <3> QED
      BY <1>t, <3>1
  <2>4. UNCHANGED <<pc, frame, lock, firstSent, rollingKey, trace, wire, serverKey, served,
                    issued, traced, failures>>
    BY <1>1 DEF SendRejected, sessionVars, serverVars
  <2> QED
    BY <1>t, <2>2, <2>3, <2>4 DEF SendInv, TypeOK, Word
<1>2. ASSUME NEW g \in Goroutines, NEW action \in Actions, Encode(g, action) PROVE SendInv'
  <2>1. /\ pc' \in [Goroutines -> {"idle", "encoded", "written"}]
        /\ lock' = {h \in Goroutines : pc'[h] # "idle"}
        /\ \A h, k \in Goroutines : pc'[h] # "idle" /\ pc'[k] # "idle" => h = k
    <3>1. pc' = [pc EXCEPT ![g] = "encoded"] /\ lock' = lock \cup {g} /\ lock = {}
      BY <1>2 DEF Encode, MayCall
    <3> QED
      BY <3>1, Moves
  <2>2. packetKey \in Nat /\ firstSent' \in BOOLEAN /\ rollingKey' \in Word
    BY <1>2, <1>t, EncodeTypes DEF Encode
  <2>3. frame' \in [Goroutines -> Frames]
    BY <1>2, <1>t, <2>2, PacketTypes DEF Encode
  <2>4. issued' \in Seq(Actions)
    BY <1>2, <1>t, AppendProperties DEF Encode
  <2>5. calls' \in 0..MaxSends
    BY <1>2, <1>t DEF Encode, MayCall
  <2>6. UNCHANGED <<result, trace, wire, serverKey, served, traced, failures>>
    BY <1>2 DEF Encode, serverVars
  <2> QED
    BY <1>t, <2>1, <2>2, <2>3, <2>4, <2>5, <2>6 DEF SendInv, TypeOK, Word
<1>3. ASSUME NEW g \in Goroutines, Write(g) PROVE SendInv'
  <2>1. /\ pc' \in [Goroutines -> {"idle", "encoded", "written"}]
        /\ lock' = {h \in Goroutines : pc'[h] # "idle"}
        /\ \A h, k \in Goroutines : pc'[h] # "idle" /\ pc'[k] # "idle" => h = k
    <3>1. pc' = [pc EXCEPT ![g] = "written"] /\ lock' = lock /\ pc[g] = "encoded"
      BY <1>3 DEF Write
    <3>2. lock' = lock \cup {g}
      BY <1>t, <3>1
    <3> QED
      BY <3>1, <3>2, Moves
  <2>2. wire' \in Seq(Frames) /\ Len(wire') = Len(wire) + 1
    BY <1>3, <1>t, AppendProperties DEF Write
  <2>3. Len(served) <= Len(wire')
    BY <1>t, <2>2
  <2>4. UNCHANGED <<frame, result, firstSent, rollingKey, trace, serverKey, served, issued,
                    traced, calls, failures>>
    BY <1>3 DEF Write, sessionVars, serverVars
  <2> QED
    BY <1>t, <2>1, <2>2, <2>3, <2>4 DEF SendInv, TypeOK, Word
<1>4. ASSUME NEW g \in Goroutines, WriteFails(g) PROVE SendInv'
  <2>1. /\ pc' \in [Goroutines -> {"idle", "encoded", "written"}]
        /\ lock' = {h \in Goroutines : pc'[h] # "idle"}
        /\ \A h, k \in Goroutines : pc'[h] # "idle" /\ pc'[k] # "idle" => h = k
    <3>1. pc' = [pc EXCEPT ![g] = "idle"] /\ lock' = lock \ {g} /\ pc[g] # "idle"
      BY <1>4 DEF WriteFails
    <3> QED
      BY <3>1, Moves
  <2>2. wire' \in Seq(Frames) /\ Len(wire') >= Len(wire)
    <3>1. wire' = Append(wire, torn) \/ wire' = wire
      BY <1>4 DEF WriteFails
    <3>2. Append(wire, torn) \in Seq(Frames) /\ Len(Append(wire, torn)) = Len(wire) + 1
      BY <1>t, PacketTypes, AppendProperties
    <3>3. Len(wire) \in Nat
      BY <1>t
    <3>4. CASE wire' = wire
      BY <1>t, <3>3, <3>4
    <3>5. CASE wire' = Append(wire, torn)
      <4>1. Len(wire') = Len(wire) + 1 /\ wire' \in Seq(Frames)
        BY <3>2, <3>5
      <4> QED
        BY <3>3, <4>1
    <3> QED
      BY <3>1, <3>4, <3>5
  <2>3. Len(served) <= Len(wire')
    BY <1>t, <2>2
  <2>4. failures' \in 0..MaxFailures
    <3>1. failures < MaxFailures /\ failures' = failures + 1
      BY <1>4 DEF WriteFails
    <3> QED
      BY <1>t, <3>1
  <2>5. result' = [h \in Goroutines |-> result'[h]]
    BY <1>4, <1>t DEF WriteFails
  <2>6. UNCHANGED <<frame, firstSent, rollingKey, trace, serverKey, served, issued, traced,
                    calls>>
    BY <1>4 DEF WriteFails, sessionVars, serverVars
  <2> QED
    BY <1>t, <2>1, <2>2, <2>3, <2>4, <2>5, <2>6 DEF SendInv, TypeOK, Word
<1>5. ASSUME NEW g \in Goroutines, SendReturns(g) PROVE SendInv'
  <2>1. /\ pc' \in [Goroutines -> {"idle", "encoded", "written"}]
        /\ lock' = {h \in Goroutines : pc'[h] # "idle"}
        /\ \A h, k \in Goroutines : pc'[h] # "idle" /\ pc'[k] # "idle" => h = k
    <3>1. pc' = [pc EXCEPT ![g] = "idle"] /\ lock' = lock \ {g} /\ pc[g] # "idle"
      BY <1>5 DEF SendReturns
    <3> QED
      BY <3>1, Moves
  <2>2. TraceEvents(g) \in Seq(TraceEvent)
    BY <1>t DEF TraceEvents, TraceEvent, Frames
  <2>3. traced' \in Seq(TraceEvent)
    BY <1>5, <1>t, <2>2, ConcatProperties DEF SendReturns
  <2>4. result' = [h \in Goroutines |-> result'[h]]
    BY <1>5, <1>t DEF SendReturns
  <2>5. UNCHANGED <<frame, firstSent, rollingKey, trace, wire, serverKey, served, issued,
                    calls, failures>>
    BY <1>5 DEF SendReturns, sessionVars, serverVars
  <2> QED
    BY <1>t, <2>1, <2>3, <2>4, <2>5 DEF SendInv, TypeOK, Word
<1>6. ASSUME NEW set \in BOOLEAN, SetTraceFunc(set) PROVE SendInv'
  <2>1. trace' \in BOOLEAN
    BY <1>6 DEF SetTraceFunc
  <2>2. UNCHANGED <<pc, frame, result, lock, firstSent, rollingKey, wire, serverKey, served,
                    issued, traced, calls, failures>>
    BY <1>6 DEF SetTraceFunc, sessionVars, serverVars
  <2> QED
    BY <1>t, <2>1, <2>2 DEF SendInv, TypeOK, Word
<1>7. ASSUME ServerReads PROVE SendInv'
  <2>1. PICK a \in {"garbled", wire[Len(served) + 1].action} : served' = Append(served, a)
    <3>1. \/ served' = Append(served, "garbled")
          \/ served' = Append(served, wire[Len(served) + 1].action)
      BY <1>7, Zenon DEF ServerReads
    <3> QED
      BY <3>1
  <2>2. Len(served) + 1 \in 1..Len(wire)
    <3>1. Len(served) < Len(wire)
      BY <1>7 DEF ServerReads
    <3>2. Len(served) \in Nat /\ Len(wire) \in Nat
      BY <1>t
    <3> QED
      BY <3>1, <3>2
  <2>3. wire[Len(served) + 1].action \in Names
    <3>1. wire \in Seq(Frames)
      BY <1>t
    <3>2. wire[Len(served) + 1] \in Frames
      BY <2>2, <3>1, ElementOfSeq
    <3> QED
      BY <3>2 DEF Frames
  <2>4. served' \in Seq(Names) /\ Len(served') = Len(served) + 1
    <3>1. a \in Names
      BY <2>3 DEF Names
    <3> QED
      BY <1>t, <2>1, <3>1, AppendProperties
  <2>5. Len(served') <= Len(wire)
    BY <1>t, <2>2, <2>4
  <2>6. serverKey' \in Word
    BY <1>7, <1>t, KeyTypes DEF ServerReads
  <2>7. UNCHANGED <<pc, frame, result, lock, firstSent, rollingKey, trace, wire, issued, traced,
                    calls, failures>>
    BY <1>7 DEF ServerReads, sessionVars
  <2> QED
    BY <1>t, <2>4, <2>5, <2>6, <2>7 DEF SendInv, TypeOK, Word
<1>8. CASE UNCHANGED vars
  BY <1>8, <1>t DEF vars, sessionVars, serverVars, SendInv, TypeOK, Word
<1> QED
  BY <1>1, <1>2, <1>3, <1>4, <1>5, <1>6, <1>7, <1>8 DEF Next, Finished

\* The types hold throughout, and at most one goroutine is inside Send.
THEOREM SendTypeCorrect == Spec => []SendInv
BY SendInit, SendStep, PTL DEF Spec

-----------------------------------------------------------------------------
(* The two keys.                                                           *)

\* The words of the generator, from the server's first one on: word n is the
\* key of packet n.
IsKeyStream(ks, n) ==
    /\ ks \in [1..n -> Word]
    /\ ks[1] = Advance(key0)
    /\ \A i \in 1..n : i + 1 \in 1..n => ks[i + 1] = Advance(ks[i])

PacketOf(action, word) == Packet(action, IF enabled THEN Mask(word) ELSE 0)

\* Packets encoded, written, in flight and read all agree with one stream of
\* words: packet i has word i, the session goes on with the word after the
\* packets it has encoded, the server with the one after those it has read.
InStep(ks) ==
    /\ IsKeyStream(ks, Len(issued) + 1)
    /\ Len(wire) <= Len(issued)
    /\ \A i \in 1..Len(wire) : wire[i] = PacketOf(issued[i], ks[i])
    /\ \A i \in 1..Len(served) : served[i] = issued[i]
    /\ serverKey = ks[Len(served) + 1]
    /\ enabled => /\ firstSent <=> issued # << >>
                  /\ ~firstSent => rollingKey = Advance(ks[1])
                  /\ firstSent => rollingKey = ks[Len(issued) + 1]
    /\ \A g \in Goroutines : pc[g] = "encoded" =>
         /\ Len(issued) = Len(wire) + 1
         /\ frame[g] = PacketOf(issued[Len(issued)], ks[Len(issued)])
    /\ (\A g \in Goroutines : pc[g] # "encoded") => Len(wire) = Len(issued)

KeysInv == failures = 0 => \E ks : InStep(ks)

\* The stream can be extended by a word.
LEMMA NextWord ==
    ASSUME NEW n \in Nat \ {0}, NEW ks, IsKeyStream(ks, n)
    PROVE  LET ls == [i \in 1..(n + 1) |-> IF i \in 1..n THEN ks[i] ELSE Advance(ks[n])]
           IN  /\ IsKeyStream(ls, n + 1)
               /\ \A i \in 1..n : ls[i] = ks[i]
               /\ ls[n + 1] = Advance(ks[n])
<1> DEFINE ls == [i \in 1..(n + 1) |-> IF i \in 1..n THEN ks[i] ELSE Advance(ks[n])]
<1>1. ks \in [1..n -> Word] /\ ks[1] = Advance(key0) /\ n \in 1..n /\ 1 \in 1..n
  BY DEF IsKeyStream
<1>2. Advance(ks[n]) \in Word
  BY <1>1, KeyTypes
<1>3. ls \in [1..(n + 1) -> Word]
  BY <1>1, <1>2
<1>4. \A i \in 1..n : ls[i] = ks[i]
  OBVIOUS
<1>5. ls[n + 1] = Advance(ks[n])
  OBVIOUS
<1>6. ASSUME NEW i \in 1..(n + 1), i + 1 \in 1..(n + 1) PROVE ls[i + 1] = Advance(ls[i])
  <2>1. CASE i = n
    BY <1>1, <1>4, <1>5, <2>1
  <2>2. CASE i # n
    <3>1. i \in 1..n /\ i + 1 \in 1..n
      BY <1>6, <2>2
    <3>2. ks[i + 1] = Advance(ks[i])
      BY <3>1 DEF IsKeyStream
    <3> QED
      BY <1>4, <3>1, <3>2
  <2> QED
    BY <2>1, <2>2
<1>7. ls[1] = Advance(key0)
  BY <1>1, <1>4
<1> HIDE DEF ls
<1>8. IsKeyStream(ls, n + 1)
  BY <1>3, <1>6, <1>7 DEF IsKeyStream
<1> QED
  BY <1>4, <1>5, <1>8 DEF ls

\* The key Encode uses is the one of the next word.
LEMMA PacketKeyIsNext ==
    ASSUME SendInv, NEW ks, InStep(ks)
    PROVE  packetKey = IF enabled THEN Mask(ks[Len(issued) + 1]) ELSE 0
<1>1. CASE ~enabled
  BY <1>1 DEF packetKey
<1>2. CASE enabled /\ ~firstSent
  <2>1. issued = << >> /\ ks[1] = Advance(key0)
    BY <1>2 DEF InStep, IsKeyStream
  <2>2. Len(issued) + 1 = 1
    BY <2>1
  <2> QED
    BY <1>2, <2>1, <2>2 DEF packetKey, firstKey
<1>3. CASE enabled /\ firstSent
  BY <1>3 DEF packetKey, InStep
<1> QED
  BY <1>1, <1>2, <1>3

LEMMA KeysInit == Init => KeysInv
<1> SUFFICES ASSUME Init PROVE \E ks : InStep(ks)
  BY DEF KeysInv
<1> DEFINE ks == [i \in 1..1 |-> Advance(key0)]
<1>1. Len(issued) = 0 /\ Len(wire) = 0 /\ Len(served) = 0 /\ issued = << >>
  BY DEF Init
<1>2. ks \in [1..1 -> Word] /\ ks[1] = Advance(key0)
  BY KeyTypes
<1>3. IsKeyStream(ks, 1)
  BY <1>2 DEF IsKeyStream
<1> HIDE DEF ks
<1>4. serverKey = ks[Len(served) + 1]
  BY <1>1, <1>2 DEF Init
<1>5. ~firstSent /\ (enabled => rollingKey = Advance(ks[1]))
  BY <1>2 DEF Init
<1>6. \A g \in Goroutines : pc[g] # "encoded"
  BY DEF Init
<1>7. InStep(ks)
  BY <1>1, <1>3, <1>4, <1>5, <1>6 DEF InStep
<1> QED
  BY <1>7

\* InStep is about these variables only.
LEMMA KeysFrame ==
    ASSUME KeysInv, failures' = failures,
           UNCHANGED <<issued, wire, served, serverKey, firstSent, rollingKey, frame>>,
           \A g \in Goroutines : pc'[g] = "encoded" <=> pc[g] = "encoded"
    PROVE  KeysInv'
<1> SUFFICES ASSUME failures = 0 PROVE \E ks : InStep(ks)'
  BY DEF KeysInv
<1>1. PICK ks : InStep(ks)
  BY DEF KeysInv
<1>2. IsKeyStream(ks, Len(issued) + 1)'
  BY <1>1 DEF InStep, IsKeyStream
<1>3. InStep(ks)'
  BY <1>1, <1>2 DEF InStep
<1> QED
  BY <1>3

\* Encode extends the stream by a word and moves the session on to it.
LEMMA EncodeKeys ==
    ASSUME SendInv, KeysInv, NEW g \in Goroutines, NEW action \in Actions, Encode(g, action)
    PROVE  KeysInv'
<1>1. failures' = failures /\ UNCHANGED <<wire, served, serverKey>>
  BY DEF Encode, serverVars
<1> SUFFICES ASSUME failures = 0 PROVE \E ks : InStep(ks)'
  BY <1>1 DEF KeysInv
<1>2. PICK ks : InStep(ks)
  BY DEF KeysInv
<1> DEFINE n == Len(issued) + 1
<1>3. /\ issued \in Seq(Actions) /\ Len(issued) \in Nat
      /\ issued' \in Seq(Actions)
      /\ Len(issued') = n
      /\ \A i \in 1..Len(issued) : issued'[i] = issued[i]
      /\ issued'[n] = action
      /\ issued' # << >>
  <2>1. issued \in Seq(Actions) /\ issued' = Append(issued, action)
    BY DEF SendInv, Encode
  <2>2. /\ issued' \in Seq(Actions)
        /\ Len(issued') = Len(issued) + 1
        /\ \A i \in 1..Len(issued) : issued'[i] = issued[i]
        /\ issued'[Len(issued) + 1] = action
    BY <2>1, AppendProperties
  <2> QED
    BY <2>1, <2>2
<1>4. n \in Nat \ {0} /\ IsKeyStream(ks, n)
  BY <1>2, <1>3 DEF InStep
<1>5. PICK ls : /\ IsKeyStream(ls, n + 1)
                /\ \A i \in 1..n : ls[i] = ks[i]
                /\ ls[n + 1] = Advance(ks[n])
  BY <1>4, NextWord
<1>k. packetKey = IF enabled THEN Mask(ks[n]) ELSE 0
  BY <1>2, PacketKeyIsNext
<1>6. IsKeyStream(ls, Len(issued) + 1)'
  <2>1. IsKeyStream(ls, Len(issued') + 1)
    BY <1>3, <1>5
  <2> QED
    BY <2>1 DEF IsKeyStream
<1>7. lock = {} /\ pc' = [pc EXCEPT ![g] = "encoded"] /\ pc[g] = "idle"
  BY DEF Encode, MayCall
<1>8. \A h \in Goroutines : pc[h] # "encoded"
  BY <1>7 DEF SendInv, TypeOK
<1>9. Len(wire) = Len(issued)
  BY <1>2, <1>8 DEF InStep
<1>10. pc'[g] = "encoded" /\ \A h \in Goroutines : pc'[h] = "encoded" => h = g
  BY <1>7, <1>8 DEF SendInv, TypeOK
<1>11. Len(wire') <= Len(issued') /\ Len(issued') = Len(wire') + 1
  BY <1>1, <1>3, <1>9
<1>12. \A i \in 1..Len(wire') : wire'[i] = PacketOf(issued'[i], ls[i])
  <2>1. \A i \in 1..Len(wire) : i \in 1..Len(issued) /\ i \in 1..n
    BY <1>3, <1>9
  <2>2. \A i \in 1..Len(wire) : wire[i] = PacketOf(issued[i], ks[i])
    BY <1>2 DEF InStep
  <2> QED
    BY <1>1, <1>3, <1>5, <2>1, <2>2
<1>13. \A i \in 1..Len(served') : served'[i] = issued'[i]
  <2>1. \A i \in 1..Len(served) : i \in 1..Len(issued)
    BY <1>3, <1>9 DEF SendInv, TypeOK
  <2>2. \A i \in 1..Len(served) : served[i] = issued[i]
    BY <1>2 DEF InStep
  <2> QED
    BY <1>1, <1>3, <2>1, <2>2
<1>14. serverKey' = ls[Len(served') + 1]
  <2>1. Len(served) + 1 \in 1..n
    BY <1>3, <1>9 DEF SendInv, TypeOK
  <2>2. serverKey = ks[Len(served) + 1]
    BY <1>2 DEF InStep
  <2> QED
    BY <1>1, <1>5, <2>1, <2>2
<1>15. ASSUME enabled PROVE firstSent' /\ rollingKey' = ls[Len(issued') + 1]
  <2>1. firstSent' /\ rollingKey' = IF firstSent THEN Advance(rollingKey) ELSE rollingKey
    BY <1>15 DEF Encode, encodePacketID
  <2>2. CASE firstSent
    <3>1. rollingKey = ks[n]
      BY <1>2, <1>15, <2>2 DEF InStep
    <3> QED
      BY <1>3, <1>5, <2>1, <2>2, <3>1
  <2>3. CASE ~firstSent
    <3>1. rollingKey = Advance(ks[1]) /\ n = 1
      BY <1>2, <1>15, <2>3 DEF InStep
    <3> QED
      BY <1>3, <1>5, <2>1, <2>3, <3>1
  <2> QED
    BY <2>2, <2>3
<1>16. frame'[g] = PacketOf(issued'[Len(issued')], ls[Len(issued')])
  <2>1. frame'[g] = Packet(action, packetKey)
    BY DEF Encode, SendInv
  <2>2. issued'[Len(issued')] = action /\ ls[Len(issued')] = ks[n]
    BY <1>3, <1>4, <1>5
  <2> QED
    BY <1>k, <2>1, <2>2 DEF PacketOf
<1>17. InStep(ls)'
  BY <1>3, <1>6, <1>10, <1>11, <1>12, <1>13, <1>14, <1>15, <1>16 DEF InStep
<1> QED
  BY <1>17

\* A write puts the packet in flight in its place on the wire.
LEMMA WriteKeys ==
    ASSUME SendInv, KeysInv, NEW g \in Goroutines, Write(g)
    PROVE  KeysInv'
<1>1. failures' = failures /\ UNCHANGED <<issued, served, serverKey, firstSent, rollingKey, frame>>
  BY DEF Write, sessionVars, serverVars
<1> SUFFICES ASSUME failures = 0 PROVE \E ks : InStep(ks)'
  BY <1>1 DEF KeysInv
<1>2. PICK ks : InStep(ks)
  BY DEF KeysInv
<1>3. pc[g] = "encoded" /\ pc' = [pc EXCEPT ![g] = "written"]
  BY DEF Write
<1>4. /\ Len(issued) = Len(wire) + 1 /\ Len(wire) \in Nat
      /\ frame[g] = PacketOf(issued[Len(issued)], ks[Len(issued)])
  BY <1>2, <1>3 DEF InStep, SendInv
<1>5. /\ Len(wire') = Len(issued)
      /\ \A i \in 1..Len(wire) : wire'[i] = wire[i]
      /\ wire'[Len(issued)] = frame[g]
  <2>1. wire \in Seq(Frames) /\ frame[g] \in Frames /\ wire' = Append(wire, frame[g])
    BY DEF SendInv, Write
  <2> QED
    BY <1>4, <2>1, AppendProperties
<1>6. \A i \in 1..Len(wire') : wire'[i] = PacketOf(issued[i], ks[i])
  <2>1. \A i \in 1..Len(wire) : wire[i] = PacketOf(issued[i], ks[i])
    BY <1>2 DEF InStep
  <2>2. \A i \in 1..Len(wire') : i \in 1..Len(wire) \/ i = Len(issued)
    BY <1>4, <1>5
  <2> QED
    BY <1>4, <1>5, <2>1, <2>2
<1>7. \A h \in Goroutines : pc'[h] # "encoded"
  BY <1>3 DEF SendInv, TypeOK
<1>8. IsKeyStream(ks, Len(issued) + 1)'
  BY <1>1, <1>2 DEF InStep, IsKeyStream
<1>9. Len(wire') <= Len(issued) /\ Len(wire') = Len(issued)
  BY <1>4, <1>5
<1>10. InStep(ks)'
  BY <1>1, <1>2, <1>6, <1>7, <1>8, <1>9 DEF InStep
<1> QED
  BY <1>10

\* The server decodes the next packet with the word it was encoded with.
LEMMA ServerKeys ==
    ASSUME SendInv, KeysInv, ServerReads
    PROVE  KeysInv'
<1>1. /\ failures' = failures
      /\ UNCHANGED <<issued, wire, firstSent, rollingKey, frame, pc>>
      /\ serverKey' = Advance(serverKey)
  BY DEF ServerReads, sessionVars
<1> SUFFICES ASSUME failures = 0 PROVE \E ks : InStep(ks)'
  BY <1>1 DEF KeysInv
<1>2. PICK ks : InStep(ks)
  BY DEF KeysInv
<1> DEFINE m == Len(served) + 1
<1>3. /\ Len(served) \in Nat /\ Len(wire) \in Nat /\ Len(issued) \in Nat
      /\ m \in 1..Len(wire) /\ Len(wire) <= Len(issued)
  BY <1>2 DEF ServerReads, SendInv, InStep
<1>4. \A i \in 1..Len(wire) : wire[i] = PacketOf(issued[i], ks[i]) /\ wire[i] # torn
  <2>1. ASSUME NEW i \in 1..Len(wire) PROVE PacketOf(issued[i], ks[i]) # torn
    <3>1. i \in 1..Len(issued) /\ i \in 1..(Len(issued) + 1)
      BY <1>3
    <3>2. issued[i] \in Actions
      BY <3>1, ElementOfSeq DEF SendInv
    <3>3. ks[i] \in Word
      BY <1>2, <3>1 DEF InStep, IsKeyStream
    <3>4. (IF enabled THEN Mask(ks[i]) ELSE 0) \in Nat
      BY <3>3, KeyTypes
    <3> QED
      BY <3>2, <3>4, PacketTypes DEF PacketOf
  <2> QED
    BY <1>2, <2>1 DEF InStep
<1>5. wire[m].action = issued[m] /\ wire[m].key = IF enabled THEN Mask(serverKey) ELSE 0
  <2>1. serverKey = ks[m]
    BY <1>2 DEF InStep
  <2>2. wire[m] = PacketOf(issued[m], serverKey)
    BY <1>3, <1>4, <2>1
  <2> QED
    BY <2>2 DEF PacketOf, Packet
<1>6. served' = Append(served, issued[m])
  <2>1. \A i \in 1..(Len(served) + 1) : wire[i] # torn
    BY <1>3, <1>4
  <2> QED
    BY <1>5, <2>1, Zenon DEF ServerReads
<1>7. /\ Len(served') = m
      /\ \A i \in 1..Len(served) : served'[i] = served[i]
      /\ served'[m] = issued[m]
  <2>1. issued[m] \in Actions
    BY <1>3, ElementOfSeq DEF SendInv
  <2>2. issued[m] \in Names /\ served \in Seq(Names)
    BY <2>1 DEF Names, SendInv
  <2> QED
    BY <1>6, <2>2, AppendProperties
<1>8. \A i \in 1..Len(served') : served'[i] = issued[i]
  <2>1. \A i \in 1..Len(served) : served[i] = issued[i]
    BY <1>2 DEF InStep
  <2>2. \A i \in 1..Len(served') : i \in 1..Len(served) \/ i = m
    BY <1>3, <1>7
  <2> QED
    BY <1>7, <2>1, <2>2
<1>9. serverKey' = ks[Len(served') + 1]
  <2>1. m \in 1..(Len(issued) + 1) /\ m + 1 \in 1..(Len(issued) + 1)
    BY <1>3
  <2>2. ks[m + 1] = Advance(ks[m])
    BY <1>2, <2>1 DEF InStep, IsKeyStream
  <2> QED
    BY <1>1, <1>2, <1>7, <2>2 DEF InStep
<1>10. IsKeyStream(ks, Len(issued) + 1)'
  BY <1>1, <1>2 DEF InStep, IsKeyStream
<1>11. InStep(ks)'
  BY <1>1, <1>2, <1>8, <1>9, <1>10 DEF InStep
<1> QED
  BY <1>11

\* Every step keeps the keys in step; after a failed write nothing is claimed.
LEMMA KeysStep == SendInv /\ KeysInv /\ [Next]_vars => KeysInv'
<1> SUFFICES ASSUME SendInv, KeysInv, [Next]_vars PROVE KeysInv'
  OBVIOUS
<1>p. pc \in [Goroutines -> {"idle", "encoded", "written"}]
  BY DEF SendInv, TypeOK
<1>1. ASSUME NEW g \in Goroutines, SendRejected(g) PROVE KeysInv'
  BY <1>1, KeysFrame DEF SendRejected, sessionVars, serverVars
<1>2. ASSUME NEW g \in Goroutines, NEW action \in Actions, Encode(g, action) PROVE KeysInv'
  BY <1>2, EncodeKeys
<1>3. ASSUME NEW g \in Goroutines, Write(g) PROVE KeysInv'
  BY <1>3, WriteKeys
<1>4. ASSUME NEW g \in Goroutines, WriteFails(g) PROVE KeysInv'
  <2>1. failures' = failures + 1 /\ failures \in Nat
    <3>1. failures' = failures + 1
      BY <1>4 DEF WriteFails
    <3>2. failures \in 0..MaxFailures
      BY DEF SendInv, TypeOK
    <3> QED
      BY <3>1, <3>2, SendBounds
  <2>2. failures' # 0
    BY <2>1
  <2> QED
    BY <2>2 DEF KeysInv
<1>5. ASSUME NEW g \in Goroutines, SendReturns(g) PROVE KeysInv'
  <2>1. \A h \in Goroutines : pc'[h] = "encoded" <=> pc[h] = "encoded"
    BY <1>5, <1>p DEF SendReturns
  <2> QED
    BY <1>5, <2>1, KeysFrame DEF SendReturns, sessionVars, serverVars
<1>6. ASSUME NEW set \in BOOLEAN, SetTraceFunc(set) PROVE KeysInv'
  BY <1>6, KeysFrame DEF SetTraceFunc, sessionVars, serverVars
<1>7. ASSUME ServerReads PROVE KeysInv'
  BY <1>7, ServerKeys
<1>8. CASE UNCHANGED vars
  BY <1>8, KeysFrame DEF vars, sessionVars, serverVars
<1> QED
  BY <1>1, <1>2, <1>3, <1>4, <1>5, <1>6, <1>7, <1>8 DEF Next, Finished

\* As long as no write has failed, the server reads what was sent, in its
\* order: the session's key and the server's never drift apart, whichever
\* goroutine sends and however many calls are rejected in between.
THEOREM KeysStayInStep == Spec => []ServerUnderstands
<1>1. SendInv /\ KeysInv => ServerUnderstands
  <2> SUFFICES ASSUME SendInv, KeysInv, failures = 0
               PROVE  served = SubSeq(issued, 1, Len(served))
    BY DEF ServerUnderstands
  <2>1. PICK ks : InStep(ks)
    BY DEF KeysInv
  <2>2. /\ served \in Seq(Names) /\ issued \in Seq(Names)
        /\ Len(served) \in Nat /\ Len(issued) \in Nat /\ Len(served) <= Len(issued)
    <3>1. issued \in Seq(Actions) /\ Actions \subseteq Names
      BY DEF SendInv, Names
    <3>2. issued \in Seq(Names)
      BY <3>1, SeqMonotonic
    <3> QED
      BY <2>1, <3>2 DEF SendInv, TypeOK, InStep
  <2>3. \A i \in 1..Len(served) : issued[i] \in Names
    BY <2>2, ElementOfSeq
  <2>4. /\ SubSeq(issued, 1, Len(served)) \in Seq(Names)
        /\ Len(SubSeq(issued, 1, Len(served))) = Len(served)
        /\ \A i \in 1..Len(served) : SubSeq(issued, 1, Len(served))[i] = issued[i]
    BY <2>2, <2>3, SubSeqProperties
  <2>5. \A i \in 1..Len(served) : served[i] = issued[i]
    BY <2>1 DEF InStep
  <2> QED
    BY <2>2, <2>4, <2>5, SeqEqual
<1>2. Spec => [](SendInv /\ KeysInv)
  BY SendInit, SendStep, KeysInit, KeysStep, PTL DEF Spec
<1> QED
  BY <1>1, <1>2, PTL

-----------------------------------------------------------------------------
(* The trace.                                                              *)

\* The pair of trace events k is about the packet wire[at[k]].
Pair(at, k) ==
    /\ wire[at[k]] = traced[2 * k - 1].Frame
    /\ traced[2 * k].Frame = traced[2 * k - 1].Frame
    /\ traced[2 * k - 1].kind = "WireOutbound"
    /\ traced[2 * k].kind = "SemanticOut"

\* The n pairs of events so far are about n packets, in the wire's order, and
\* the packet of a Send that has not yet traced it is the wire's last and comes
\* after all of them.
Places(at, n) ==
    /\ Len(traced) = 2 * n
    /\ at \in [1..n -> 1..Len(wire)]
    /\ \A k \in 1..n : Pair(at, k)
    /\ \A j, k \in 1..n : j < k => at[j] < at[k]
    /\ \A g \in Goroutines : pc[g] = "written" =>
         /\ wire # << >>
         /\ wire[Len(wire)] = frame[g]
         /\ \A k \in 1..n : at[k] < Len(wire)

TraceInv == \E n \in Nat : \E at : Places(at, n)

LEMMA TraceInit == Init => TraceInv
<1> SUFFICES ASSUME Init PROVE TraceInv
  OBVIOUS
<1> DEFINE at == [k \in 1..0 |-> 1]
<1>1. Len(traced) = 2 * 0 /\ at \in [1..0 -> 1..Len(wire)]
  BY DEF Init
<1>2. \A g \in Goroutines : pc[g] # "written"
  BY DEF Init
<1>3. Places(at, 0)
  BY <1>1, <1>2 DEF Places
<1> QED
  BY <1>3 DEF TraceInv

\* The wire only grows, and keeps what it holds.
LEMMA TraceGrows ==
    ASSUME SendInv, TraceInv, traced' = traced,
           wire' \in Seq(Frames), Len(wire) <= Len(wire'),
           \A i \in 1..Len(wire) : wire'[i] = wire[i],
           \A g \in Goroutines : pc'[g] = "written" =>
             /\ wire' # << >>
             /\ wire'[Len(wire')] = frame'[g]
             /\ \/ Len(wire) < Len(wire')
                \/ pc[g] = "written"
    PROVE  TraceInv'
<1>n. PICK n \in Nat : \E at : Places(at, n)
  BY DEF TraceInv
<1>1. PICK at : Places(at, n)
  BY <1>n
<1>2. Len(wire) \in Nat /\ Len(wire') \in Nat
  BY DEF SendInv
<1>3. at \in [1..n -> 1..Len(wire)]
  BY <1>1 DEF Places
<1>4. \A k \in 1..n : at[k] \in 1..Len(wire)
  BY <1>3
<1>5. at \in [1..n -> 1..Len(wire')]
  <2>1. 1..Len(wire) \subseteq 1..Len(wire')
    BY <1>2
  <2> QED
    BY <1>3, <2>1
<1>6. \A k \in 1..n : Pair(at, k)'
  BY <1>1, <1>4 DEF Places, Pair
<1>7. ASSUME NEW g \in Goroutines, pc'[g] = "written", NEW k \in 1..n
      PROVE  at[k] < Len(wire')
  <2>1. CASE Len(wire) < Len(wire')
    BY <1>2, <1>4, <2>1
  <2>2. CASE pc[g] = "written"
    <3>1. at[k] < Len(wire)
      BY <1>1, <2>2 DEF Places
    <3> QED
      BY <1>2, <1>4, <3>1
  <2> QED
    BY <1>7, <2>1, <2>2
<1>8. Places(at, n)'
  BY <1>1, <1>5, <1>6, <1>7 DEF Places
<1> QED
  BY <1>8 DEF TraceInv

\* SendReturns traces the last packet of the wire, or nothing.
LEMMA ReturnTraces ==
    ASSUME SendInv, TraceInv, NEW g \in Goroutines, SendReturns(g), trace
    PROVE  TraceInv'
<1>n. PICK n \in Nat : \E at : Places(at, n)
  BY DEF TraceInv
<1>1. PICK at : Places(at, n)
  BY <1>n
<1>2. /\ pc[g] = "written" /\ pc' = [pc EXCEPT ![g] = "idle"]
      /\ traced' = traced \o TraceEvents(g)
      /\ wire' = wire /\ frame' = frame
  BY DEF SendReturns
<1>3. /\ wire # << >> /\ wire[Len(wire)] = frame[g]
      /\ \A k \in 1..n : at[k] < Len(wire)
  BY <1>1, <1>2 DEF Places
<1>4. Len(wire) \in Nat /\ Len(wire) \in 1..Len(wire)
  BY <1>3 DEF SendInv
<1>5. /\ at \in [1..n -> 1..Len(wire)]
      /\ \A j, k \in 1..n : j < k => at[j] < at[k]
      /\ \A k \in 1..n : Pair(at, k)
      /\ Len(traced) = 2 * n
  BY <1>1 DEF Places
<1>6. PICK bt : /\ bt \in [1..(n + 1) -> 1..Len(wire)]
                /\ \A k \in 1..n : bt[k] = at[k]
                /\ bt[n + 1] = Len(wire)
  <2> DEFINE bt == [k \in 1..(n + 1) |-> IF k \in 1..n THEN at[k] ELSE Len(wire)]
  <2>1. bt \in [1..(n + 1) -> 1..Len(wire)]
    BY <1>4, <1>5
  <2>2. \A k \in 1..n : bt[k] = at[k]
    OBVIOUS
  <2>3. bt[n + 1] = Len(wire)
    OBVIOUS
  <2> QED
    BY <2>1, <2>2, <2>3
<1>7. /\ Len(traced') = 2 * (n + 1)
      /\ \A i \in 1..(2 * n) : traced'[i] = traced[i]
      /\ traced'[2 * n + 1] = TraceEvents(g)[1]
      /\ traced'[2 * n + 2] = TraceEvents(g)[2]
  <2>1. traced \in Seq(TraceEvent)
    BY DEF SendInv
  <2>2. TraceEvents(g) \in Seq(TraceEvent) /\ Len(TraceEvents(g)) = 2
    <3>1. frame[g] \in Frames
      BY DEF SendInv
    <3> QED
      BY <3>1 DEF TraceEvents, TraceEvent, Frames
  <2> HIDE DEF TraceEvents
  <2>3. /\ Len(traced') = 2 * n + 2
        /\ \A i \in 1..(2 * n + 2) : traced'[i] = IF i <= 2 * n THEN traced[i]
                                                  ELSE TraceEvents(g)[i - 2 * n]
    <3>1. /\ Len(traced \o TraceEvents(g)) = Len(traced) + Len(TraceEvents(g))
          /\ \A i \in 1..(Len(traced) + Len(TraceEvents(g))) :
               (traced \o TraceEvents(g))[i] = IF i <= Len(traced) THEN traced[i]
                                               ELSE TraceEvents(g)[i - Len(traced)]
      BY <2>1, <2>2, ConcatProperties
    <3> QED
      BY <1>2, <1>5, <2>2, <3>1
  <2> QED
    BY <2>3
<1>8. \A k \in 1..(n + 1) : Pair(bt, k)'
  <2>1. ASSUME NEW k \in 1..n PROVE Pair(bt, k)'
    <3>1. 2 * k \in 1..(2 * n) /\ 2 * k - 1 \in 1..(2 * n)
      OBVIOUS
    <3> QED
      BY <1>2, <1>5, <1>6, <1>7, <3>1 DEF Pair
  <2>2. Pair(bt, n + 1)'
    <3>1. 2 * (n + 1) - 1 = 2 * n + 1 /\ 2 * (n + 1) = 2 * n + 2
      OBVIOUS
    <3>2. /\ TraceEvents(g)[1].Frame = frame[g] /\ TraceEvents(g)[2].Frame = frame[g]
          /\ TraceEvents(g)[1].kind = "WireOutbound" /\ TraceEvents(g)[2].kind = "SemanticOut"
      BY DEF TraceEvents
    <3> QED
      BY <1>2, <1>3, <1>6, <1>7, <3>1, <3>2 DEF Pair
  <2> QED
    BY <2>1, <2>2
<1>9. \A j, k \in 1..(n + 1) : j < k => bt[j] < bt[k]
  <2>1. ASSUME NEW j \in 1..(n + 1), NEW k \in 1..(n + 1), j < k PROVE bt[j] < bt[k]
    <3>1. j \in 1..n
      BY <2>1
    <3>2. CASE k = n + 1
      BY <1>3, <1>6, <3>1, <3>2
    <3>3. CASE k \in 1..n
      BY <1>5, <1>6, <2>1, <3>1, <3>3
    <3> QED
      BY <3>2, <3>3
  <2> QED
    BY <2>1
<1>10. \A h \in Goroutines : pc'[h] # "written"
  BY <1>2 DEF SendInv, TypeOK
<1>11. Places(bt, n + 1)'
  BY <1>2, <1>6, <1>7, <1>8, <1>9, <1>10 DEF Places
<1> QED
  BY <1>11 DEF TraceInv

LEMMA TraceStep == SendInv /\ TraceInv /\ [Next]_vars => TraceInv'
<1> SUFFICES ASSUME SendInv, TraceInv, [Next]_vars PROVE TraceInv'
  OBVIOUS
<1>p. /\ pc \in [Goroutines -> {"idle", "encoded", "written"}]
      /\ wire \in Seq(Frames) /\ Len(wire) \in Nat /\ Len(wire) <= Len(wire)
      /\ frame \in [Goroutines -> Frames]
  BY DEF SendInv, TypeOK
<1>w. \A g \in Goroutines : pc[g] = "written" => wire # << >> /\ wire[Len(wire)] = frame[g]
  BY DEF TraceInv, Places
<1>1. ASSUME UNCHANGED <<pc, frame, wire, traced>> PROVE TraceInv'
  BY <1>1, <1>p, <1>w, TraceGrows
<1>2. ASSUME NEW g \in Goroutines, NEW action \in Actions, Encode(g, action) PROVE TraceInv'
  <2>1. /\ pc' = [pc EXCEPT ![g] = "encoded"] /\ lock = {}
        /\ UNCHANGED <<wire, traced>>
    BY <1>2 DEF Encode, MayCall
  <2>2. \A h \in Goroutines : pc[h] = "idle"
    BY <2>1 DEF SendInv, TypeOK
  <2>3. \A h \in Goroutines : pc'[h] # "written"
    BY <1>p, <2>1, <2>2
  <2> QED
    BY <1>p, <2>1, <2>3, TraceGrows
<1>3. ASSUME NEW g \in Goroutines, Write(g) PROVE TraceInv'
  <2>1. /\ pc[g] = "encoded" /\ pc' = [pc EXCEPT ![g] = "written"]
        /\ wire' = Append(wire, frame[g])
        /\ UNCHANGED <<frame, traced>>
    BY <1>3 DEF Write
  <2>2. /\ wire' \in Seq(Frames) /\ Len(wire') = Len(wire) + 1
        /\ \A i \in 1..Len(wire) : wire'[i] = wire[i]
        /\ wire'[Len(wire) + 1] = frame[g]
    BY <1>p, <2>1, AppendProperties
  <2>3. Len(wire) < Len(wire') /\ Len(wire) <= Len(wire') /\ wire' # << >>
    BY <1>p, <2>2
  <2>4. \A h \in Goroutines : pc'[h] = "written" => h = g
    <3>1. \A h \in Goroutines : h # g => pc'[h] = pc[h] /\ pc[h] = "idle"
      BY <1>p, <2>1 DEF SendInv
    <3> QED
      BY <3>1
  <2> QED
    BY <2>1, <2>2, <2>3, <2>4, TraceGrows
<1>4. ASSUME NEW g \in Goroutines, WriteFails(g) PROVE TraceInv'
  <2>1. /\ pc[g] = "encoded" /\ pc' = [pc EXCEPT ![g] = "idle"]
        /\ wire' = Append(wire, torn) \/ wire' = wire
        /\ UNCHANGED <<frame, traced>>
    BY <1>4 DEF WriteFails
  <2>2. \A h \in Goroutines : pc'[h] # "written"
    BY <1>p, <2>1 DEF SendInv
  <2>3. /\ wire' \in Seq(Frames) /\ Len(wire) <= Len(wire')
        /\ \A i \in 1..Len(wire) : wire'[i] = wire[i]
    <3>1. CASE wire' = wire
      BY <1>p, <3>1
    <3>2. CASE wire' = Append(wire, torn)
      <4>1. /\ wire' \in Seq(Frames) /\ Len(wire') = Len(wire) + 1
            /\ \A i \in 1..Len(wire) : wire'[i] = wire[i]
        BY <1>p, <3>2, PacketTypes, AppendProperties
      <4> QED
        BY <1>p, <4>1
    <3> QED
      BY <2>1, <3>1, <3>2
  <2> QED
    BY <2>1, <2>2, <2>3, TraceGrows
<1>5. ASSUME NEW g \in Goroutines, SendReturns(g) PROVE TraceInv'
  <2>1. CASE trace
    BY <1>5, <2>1, ReturnTraces
  <2>2. CASE ~trace
    <3>1. /\ pc[g] = "written" /\ pc' = [pc EXCEPT ![g] = "idle"]
          /\ UNCHANGED <<frame, wire, traced>>
      BY <1>5, <2>2 DEF SendReturns
    <3>2. \A h \in Goroutines : pc'[h] # "written"
      BY <1>p, <3>1 DEF SendInv
    <3> QED
      BY <1>p, <3>1, <3>2, TraceGrows
  <2> QED
    BY <2>1, <2>2
<1>6. ASSUME NEW g \in Goroutines, SendRejected(g) PROVE TraceInv'
  BY <1>1, <1>6 DEF SendRejected
<1>7. ASSUME NEW set \in BOOLEAN, SetTraceFunc(set) PROVE TraceInv'
  BY <1>1, <1>7 DEF SetTraceFunc
<1>8. ASSUME ServerReads PROVE TraceInv'
  BY <1>1, <1>8 DEF ServerReads
<1>9. CASE UNCHANGED vars
  BY <1>1, <1>9 DEF vars
<1> QED
  BY <1>2, <1>3, <1>4, <1>5, <1>6, <1>7, <1>8, <1>9 DEF Next, Finished

\* The trace tells of packets on the wire only, in their order and each once,
\* whatever other writes have failed.
THEOREM TraceStaysWire == Spec => []TraceIsWire
<1>1. TraceInv => TraceIsWire
  <2> SUFFICES ASSUME TraceInv PROVE TraceIsWire
    OBVIOUS
  <2>n. PICK n \in Nat : \E at : Places(at, n)
    BY DEF TraceInv
  <2>1. PICK at : Places(at, n)
    BY <2>n
  <2>2. Len(traced) \div 2 = n
    <3>1. Len(traced) = 2 * n
      BY <2>1 DEF Places
    <3>2. (2 * n) \div 2 = n
      OBVIOUS
    <3> QED
      BY <3>1, <3>2
  <2>3. /\ at \in [1..n -> 1..Len(wire)]
        /\ \A k \in 1..n : Pair(at, k)
        /\ \A j, k \in 1..n : j < k => at[j] < at[k]
    BY <2>1 DEF Places
  <2>4. DOMAIN at = 1..n
    BY <2>3
  <2> QED
    BY <2>2, <2>3, <2>4 DEF TraceIsWire, Pair
<1>2. Spec => [](SendInv /\ TraceInv)
  BY SendInit, SendStep, TraceInit, TraceStep, PTL DEF Spec
<1> QED
  BY <1>1, <1>2, PTL
=============================================================================
