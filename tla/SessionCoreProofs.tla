------------------------- MODULE SessionCoreProofs -------------------------
(***************************************************************************)
(* Theorems about the framing engine, for every length table, every set of *)
(* streams and every way of cutting them into reads.                       *)
(***************************************************************************)
EXTENDS SessionCore, SequenceTheorems, FiniteSetTheorems, WellFoundedInduction, TLAPS

-----------------------------------------------------------------------------
(* Facts about headers.                                                    *)

\* All the proofs need to know of the radix.
LEMMA RadixFact == Radix \in Nat /\ Radix >= 4 /\ MaxFrame \in Nat /\ MaxFrame >= 4
BY DEF Radix, MaxFrame

\* A little-endian pair of bytes is a 16-bit number.
LEMMA LE16Type ==
    ASSUME NEW b \in Seq(Byte), NEW i \in Nat \ {0}, i + 1 <= Len(b)
    PROVE  LE16(b, i) \in 0..MaxFrame
<1>1. i \in 1..Len(b) /\ i + 1 \in 1..Len(b)
  OBVIOUS
<1>2. b[i] \in Byte /\ b[i + 1] \in Byte
  BY <1>1, ElementOfSeq
<1>3. ASSUME NEW x \in 0..(Radix - 1), NEW y \in 0..(Radix - 1)
      PROVE  x + Radix * y \in 0..(Radix * Radix - 1)
  BY RadixFact
<1> QED
  BY <1>2, <1>3 DEF LE16, Byte, MaxFrame

\* The length a readable header gives is at least a packet ID and at most
\* MaxFrame.
LEMMA FrameLenType ==
    ASSUME NEW b \in Seq(Byte), IsSized(b)
    PROVE  FrameLen(b) \in 2..MaxFrame
<1>1. Len(b) \in Nat /\ Len(b) >= 2
  BY DEF IsSized, HasID
<1>2. CASE IsVariable(b)
  <2>1. ~(Len(b) < 4)
    BY <1>2 DEF IsSized, LengthPending
  <2>2. Len(b) >= 4
    BY <1>1, <2>1
  <2>3. ~(LE16(b, 3) < 4)
    BY <1>2, <2>2 DEF IsSized, IsCorrupt
  <2>4. LE16(b, 3) \in 0..MaxFrame
    BY <1>1, <2>2, LE16Type
  <2> QED
    BY <1>2, <2>3, <2>4, RadixFact DEF FrameLen
<1>3. CASE ~IsVariable(b)
  <2>1. PacketID(b) \in DOMAIN lengths /\ lengths[PacketID(b)] # -1
    BY <1>3 DEF IsSized, IsVariable, IsUnknown
  <2>2. lengths[PacketID(b)] \in 2..MaxFrame
    BY <2>1, LengthsAssumption
  <2> QED
    BY <1>3, <2>2 DEF FrameLen
<1> QED
  BY <1>2, <1>3

\* A complete frame is a non-empty prefix of the buffer; cutting it off loses
\* nothing.
LEMMA CutFrame ==
    ASSUME NEW b \in Seq(Byte), IsComplete(b)
    PROVE  /\ SubSeq(b, 1, FrameLen(b)) \in Seq(Byte)
           /\ Len(SubSeq(b, 1, FrameLen(b))) = FrameLen(b)
           /\ FrameLen(b) \in 2..Len(b)
           /\ From(b, FrameLen(b) + 1) \in Seq(Byte)
           /\ Len(From(b, FrameLen(b) + 1)) = Len(b) - FrameLen(b)
           /\ SubSeq(b, 1, FrameLen(b)) \o From(b, FrameLen(b) + 1) = b
<1> DEFINE n == FrameLen(b)
<1>1. n \in 2..MaxFrame /\ n <= Len(b) /\ Len(b) \in Nat
  BY FrameLenType DEF IsComplete
<1>2. \A i \in 1..Len(b) : b[i] \in Byte
  BY ElementOfSeq
<1> HIDE DEF n
<1>3. n \in 2..Len(b)
  BY <1>1, RadixFact
<1>4. SubSeq(b, 1, n) \in Seq(Byte) /\ Len(SubSeq(b, 1, n)) = n
  <2>1. \A i \in 1..n : b[i] \in Byte
    BY <1>2, <1>3
  <2> QED
    BY <1>3, <2>1, SubSeqProperties
<1>5. SubSeq(b, n + 1, Len(b)) \in Seq(Byte) /\ Len(SubSeq(b, n + 1, Len(b))) = Len(b) - n
  <2>1. \A i \in (n + 1)..Len(b) : b[i] \in Byte
    BY <1>2, <1>3
  <2>2. /\ SubSeq(b, n + 1, Len(b)) \in Seq(Byte)
        /\ Len(SubSeq(b, n + 1, Len(b))) = IF n + 1 <= Len(b) THEN Len(b) - (n + 1) + 1 ELSE 0
    BY <1>1, <1>3, <2>1, SubSeqProperties
  <2> QED
    BY <1>1, <1>3, <2>2
<1>6. SubSeq(b, 1, n) \o SubSeq(b, n + 1, Len(b)) = SubSeq(b, 1, Len(b))
  <2>1. 1 \in 1..(Len(b) + 1) /\ n \in (1 - 1)..Len(b) /\ Len(b) \in n..Len(b)
    BY <1>1, <1>3
  <2> QED
    BY <2>1, ConcatAdjacentSubSeq
<1>7. SubSeq(b, 1, Len(b)) = b
  BY SubSeqFull
<1> QED
  BY <1>3, <1>4, <1>5, <1>6, <1>7 DEF n, From

\* The next bytes of the stream are a sequence of bytes.
LEMMA ChunkType ==
    ASSUME TypeOK, NEW n \in 0..(Len(stream) - fed)
    PROVE  Chunk(n) \in Seq(Byte) /\ fed + n \in 0..Len(stream)
<1>1. stream \in Seq(Byte) /\ Len(stream) \in Nat /\ fed \in 0..Len(stream)
  BY StreamsAssumption DEF TypeOK
<1>2. \A i \in (fed + 1)..(fed + n) : stream[i] \in Byte
  BY <1>1, ElementOfSeq
<1> QED
  BY <1>1, <1>2, SubSeqProperties DEF Chunk

\* A ring slot holds a prefix of the frame.
LEMMA SlotIsSlot ==
    ASSUME NEW f \in Seq(Byte), Len(f) >= 2
    PROVE  Slot(f) \in SlotType
<1> DEFINE k == IF Len(f) < recentMaxFrameBytes THEN Len(f) ELSE recentMaxFrameBytes
<1>1. k \in 0..Len(f) /\ Len(f) \in Nat
  BY MaxFrameBytesAssumption
<1>2. \A i \in 1..k : f[i] \in Byte
  BY <1>1, ElementOfSeq
<1>3. SubSeq(f, 1, k) \in Seq(Byte)
  BY <1>1, <1>2, SubSeqProperties
<1>4. PacketID(f) \in Nat
  BY <1>1, LE16Type, RadixFact DEF PacketID
<1> QED
  BY <1>1, <1>3, <1>4 DEF Slot, SlotType, Frame

-----------------------------------------------------------------------------
(* Type correctness.                                                       *)

\* push keeps the ring a ring.
LEMMA PushType ==
    ASSUME NEW r \in [slots : [0..2 -> SlotType], head : 0..2, count : 0..3],
           NEW f \in Seq(Byte), Len(f) >= 2
    PROVE  push(r, f) \in [slots : [0..2 -> SlotType], head : 0..2, count : 0..3]
<1>1. Slot(f) \in SlotType
  BY SlotIsSlot
<1>2. [r.slots EXCEPT ![r.head] = Slot(f)] \in [0..2 -> SlotType]
  BY <1>1
<1>3. (r.head + 1) % 3 \in 0..2
  OBVIOUS
<1>4. (IF r.count < 3 THEN r.count + 1 ELSE r.count) \in 0..3
  OBVIOUS
<1> QED
  BY <1>2, <1>3, <1>4 DEF push, recentPacketDepth

\* The session's variables keep their types (sessionCore, session.go:210-222).
THEOREM TypeCorrect == Spec => []TypeOK
<1>1. Init => TypeOK
  <2> SUFFICES ASSUME Init PROVE TypeOK
    OBVIOUS
  <2>1. emptySlot \in SlotType
    BY EmptySeq DEF emptySlot, SlotType, Frame
  <2>2. emptyRing \in [slots : [0..2 -> SlotType], head : 0..2, count : 0..3]
    BY <2>1 DEF emptyRing, recentPacketDepth
  <2>3. Len(stream) \in Nat
    BY StreamsAssumption DEF Init
  <2>4. fed \in 0..Len(stream) /\ accepted \in 0..fed
    BY <2>3 DEF Init
  <2>5. panics \in 0..MaxPanics /\ configs \in 0..MaxConfigs
    BY BoundsAssumption DEF Init
  <2>6. recvBuf \in Seq(Byte) /\ consumed \in Seq(Byte)
        /\ dispatched \in Seq(Frame) /\ calls \in Seq(Frame)
    BY EmptySeq DEF Init
  <2> QED
    BY <2>2, <2>4, <2>5, <2>6 DEF Init, TypeOK
<1>2. TypeOK /\ [Next]_vars => TypeOK'
  <2> SUFFICES ASSUME TypeOK, [Next]_vars PROVE TypeOK'
    OBVIOUS
  <2>1. ASSUME NEW n \in 0..(Len(stream) - fed), Feed(n) PROVE TypeOK'
    <3>1. Chunk(n) \in Seq(Byte) /\ fed + n \in 0..Len(stream)
      BY ChunkType
    <3>2. recvBuf' \in Seq(Byte)
      BY <2>1, <3>1, ConcatProperties DEF Feed, TypeOK
    <3>3. accepted' \in 0..fed'
      BY <2>1, <3>1 DEF Feed, TypeOK
    <3> QED
      BY <2>1, <3>1, <3>2, <3>3 DEF Feed, TypeOK, configVars
  <2>2. ASSUME NEW n \in 0..(Len(stream) - fed), FeedFaulted(n) PROVE TypeOK'
    <3>1. fed + n \in 0..Len(stream)
      BY ChunkType
    <3>2. accepted' \in 0..fed'
      BY <2>2, <3>1 DEF FeedFaulted, TypeOK, history
    <3> QED
      BY <2>2, <3>1, <3>2 DEF FeedFaulted, TypeOK, configVars, history
  <2>3. CASE Incomplete
    BY <2>3 DEF Incomplete, TypeOK, configVars, history
  <2>4. CASE CorruptLength
    BY <2>4 DEF CorruptLength, TypeOK, configVars, history
  <2>5. CASE UnknownPacket
    <3>1. consumed' \in Seq(Byte)
      BY <2>5, ConcatProperties DEF UnknownPacket, TypeOK
    <3>2. recvBuf' \in Seq(Byte)
      BY <2>5, EmptySeq DEF UnknownPacket
    <3> QED
      BY <2>5, <3>1, <3>2 DEF UnknownPacket, TypeOK, configVars
  <2>6. CASE Dispatch
    <3> DEFINE f == SubSeq(recvBuf, 1, FrameLen(recvBuf))
    <3>1. recvBuf \in Seq(Byte) /\ IsComplete(recvBuf)
      BY <2>6 DEF Dispatch, TypeOK
    <3>2. f \in Seq(Byte) /\ Len(f) >= 2 /\ recvBuf' \in Seq(Byte)
      BY <2>6, <3>1, CutFrame DEF Dispatch
    <3>3. recent' = push(recent, f) /\ dispatched' = Append(dispatched, f)
          /\ consumed' = consumed \o f /\ calls' \in {calls, Append(calls, f)}
          /\ unhandledPackets' \in {unhandledPackets, unhandledPackets + 1}
      BY <2>6 DEF Dispatch, TypeOK
    <3> HIDE DEF f
    <3>4. recent' \in [slots : [0..2 -> SlotType], head : 0..2, count : 0..3]
      BY <3>2, <3>3, PushType DEF TypeOK
    <3>5. consumed' \in Seq(Byte)
      BY <3>2, <3>3, ConcatProperties DEF TypeOK
    <3>6. dispatched' \in Seq(Frame) /\ calls' \in Seq(Frame)
      <4>1. f \in Frame /\ dispatched \in Seq(Frame) /\ calls \in Seq(Frame)
        BY <3>2 DEF TypeOK, Frame
      <4>2. Append(dispatched, f) \in Seq(Frame) /\ Append(calls, f) \in Seq(Frame)
        BY <4>1, AppendProperties
      <4> QED
        BY <3>3, <4>1, <4>2
    <3>7. unhandledPackets' \in Nat
      BY <3>3 DEF TypeOK
    <3> QED
      BY <2>6, <3>2, <3>4, <3>5, <3>6, <3>7 DEF Dispatch, TypeOK, configVars
  <2>7. CASE HandlerPanic
    <3>1. recvBuf \in Seq(Byte) /\ IsComplete(recvBuf)
      BY <2>7 DEF HandlerPanic, TypeOK
    <3>2. SubSeq(recvBuf, 1, FrameLen(recvBuf)) \in Frame
      BY <3>1, CutFrame DEF Frame
    <3>3. calls' \in Seq(Frame)
      BY <2>7, <3>2, AppendProperties DEF HandlerPanic, TypeOK
    <3>4. panics' \in 0..MaxPanics
      BY <2>7, BoundsAssumption DEF HandlerPanic, TypeOK
    <3> QED
      BY <2>7, <3>3, <3>4 DEF HandlerPanic, TypeOK, configVars
  <2>8. CASE CopyToFront
    <3> DEFINE k == IF Len(recvBuf) < BufLen THEN Len(recvBuf) ELSE BufLen
    <3>1. k \in 0..Len(recvBuf) /\ recvBuf \in Seq(Byte)
      BY BufLenAssumption DEF TypeOK
    <3>2. \A i \in 1..k : recvBuf[i] \in Byte
      BY <3>1, ElementOfSeq
    <3>3. recvBuf' \in Seq(Byte)
      BY <2>8, <3>1, <3>2, SubSeqProperties DEF CopyToFront
    <3> QED
      BY <2>8, <3>3 DEF CopyToFront, TypeOK, configVars, history
  <2>9. ASSUME NEW id \in DOMAIN lengths, RegisterHandler(id) PROVE TypeOK'
    BY <2>9, BoundsAssumption DEF RegisterHandler, TypeOK, feedVars, history
  <2>10. ASSUME NEW set \in BOOLEAN, SetUnknownPacketHandler(set) PROVE TypeOK'
    BY <2>10, BoundsAssumption DEF SetUnknownPacketHandler, TypeOK, feedVars, history
  <2>11. ASSUME NEW set \in BOOLEAN, SetTraceFunc(set) PROVE TypeOK'
    BY <2>11, BoundsAssumption DEF SetTraceFunc, TypeOK, feedVars, history
  <2>12. CASE UNCHANGED vars
    BY <2>12 DEF TypeOK, vars, feedVars, configVars, history
  <2> QED
    BY <2>1, <2>2, <2>3, <2>4, <2>5, <2>6, <2>7, <2>8, <2>9, <2>10, <2>11, <2>12 DEF Next, Loop
<1> QED
  BY <1>1, <1>2, PTL DEF Spec

-----------------------------------------------------------------------------
(* Conservation of bytes.                                                  *)

\* What conservation rests on: until a fault every byte the caller passed was
\* appended, and what is left when the loop ends is less than a frame.
ConservedInv ==
    /\ BytesConserved
    /\ ~faulted => accepted = fed
    /\ pc = "done" => Len(recvBuf) < MaxFrame

\* The loop only leaves a buffer that is shorter than the longest frame.
LEMMA IncompleteIsShort ==
    ASSUME TypeOK, Incomplete
    PROVE  Len(recvBuf) < MaxFrame
<1>1. recvBuf \in Seq(Byte) /\ Len(recvBuf) \in Nat
  BY DEF TypeOK
<1>2. CASE ~HasID(recvBuf)
  BY <1>1, <1>2, RadixFact DEF HasID
<1>3. CASE LengthPending(recvBuf)
  BY <1>1, <1>3, RadixFact DEF LengthPending
<1>4. CASE IsSized(recvBuf) /\ Len(recvBuf) < FrameLen(recvBuf)
  <2>1. FrameLen(recvBuf) \in 2..MaxFrame
    BY <1>1, <1>4, FrameLenType
  <2> QED
    BY <1>1, <1>4, <2>1, RadixFact
<1> QED
  BY <1>2, <1>3, <1>4 DEF Incomplete

\* Every step keeps ConservedInv if c.buf can hold any incomplete frame.
LEMMA ConservedStep ==
    ASSUME BufLen >= MaxFrame, TypeOK, TypeOK', ConservedInv, [Next]_vars
    PROVE  ConservedInv'
<1>0. /\ stream \in Seq(Byte) /\ recvBuf \in Seq(Byte) /\ consumed \in Seq(Byte)
      /\ Len(recvBuf) \in Nat /\ Len(stream) \in Nat /\ accepted \in Nat
      /\ stream' = stream
  <2>1. stream' = stream
    BY DEF Next, Loop, Feed, FeedFaulted, Incomplete, CorruptLength, UnknownPacket, Dispatch,
           HandlerPanic, CopyToFront, RegisterHandler, SetUnknownPacketHandler,
           SetTraceFunc, vars
  <2>2. stream \in Seq(Byte)
    BY StreamsAssumption DEF TypeOK
  <2>3. recvBuf \in Seq(Byte) /\ consumed \in Seq(Byte) /\ Len(recvBuf) \in Nat
    BY DEF TypeOK
  <2>4. Len(stream) \in Nat
    BY <2>2
  <2>5. accepted \in Nat
    BY <2>4 DEF TypeOK
  <2> QED
    BY <2>1, <2>2, <2>3, <2>4, <2>5
<1>1. ASSUME NEW n \in 0..(Len(stream) - fed), Feed(n) PROVE ConservedInv'
  <2>1. Chunk(n) \in Seq(Byte) /\ fed + n \in 0..Len(stream)
    BY ChunkType
  <2>2. accepted = fed /\ accepted' = fed + n /\ fed' = fed + n /\ pc' = "loop"
        /\ consumed' = consumed /\ recvBuf' = recvBuf \o Chunk(n)
    BY <1>1 DEF Feed, ConservedInv, BytesConserved
  <2>3. consumed \o (recvBuf \o Chunk(n)) = (consumed \o recvBuf) \o Chunk(n)
    BY <1>0, <2>1, ConcatAssociative, SMTT(30)
  <2>4. SubSeq(stream, 1, fed) \o SubSeq(stream, fed + 1, fed + n) = SubSeq(stream, 1, fed + n)
    <3>1. fed \in 0..Len(stream)
      BY DEF TypeOK
    <3>2. 1 \in 1..(Len(stream) + 1) /\ fed \in (1 - 1)..Len(stream) /\ fed + n \in fed..Len(stream)
      BY <1>0, <2>1, <3>1
    <3> QED
      BY <1>0, <3>2, ConcatAdjacentSubSeq
  <2> QED
    BY <1>0, <2>2, <2>3, <2>4 DEF Chunk, ConservedInv, BytesConserved
<1>2. ASSUME NEW n \in 0..(Len(stream) - fed), FeedFaulted(n) PROVE ConservedInv'
  BY <1>0, <1>2 DEF FeedFaulted, history, ConservedInv, BytesConserved
<1>3. CASE Incomplete
  <2>1. Len(recvBuf) < MaxFrame
    BY <1>3, IncompleteIsShort
  <2> QED
    BY <1>0, <1>3, <2>1 DEF Incomplete, history, ConservedInv, BytesConserved
<1>4. CASE CorruptLength
  BY <1>0, <1>4 DEF CorruptLength, history, ConservedInv, BytesConserved
<1>5. CASE UnknownPacket
  <2>1. consumed \o recvBuf \in Seq(Byte)
    BY <1>0, ConcatProperties
  <2>3. (consumed \o recvBuf) \o << >> = consumed \o recvBuf
    BY <2>1, ConcatEmptySeq
  <2>2. Len(recvBuf') < MaxFrame
    BY <1>5, EmptySeq, RadixFact DEF UnknownPacket
  <2> QED
    BY <1>0, <1>5, <2>2, <2>3 DEF UnknownPacket, ConservedInv, BytesConserved
<1>6. CASE Dispatch
  <2> DEFINE f == SubSeq(recvBuf, 1, FrameLen(recvBuf))
             r == From(recvBuf, FrameLen(recvBuf) + 1)
  <2>1. f \in Seq(Byte) /\ r \in Seq(Byte) /\ f \o r = recvBuf
    BY <1>0, <1>6, CutFrame DEF Dispatch
  <2>2. consumed' = consumed \o f /\ recvBuf' = r /\ accepted' = accepted
        /\ pc' = "loop" /\ fed' = fed /\ faulted' = faulted
    BY <1>6 DEF Dispatch
  <2> HIDE DEF f, r
  <2>3. (consumed \o f) \o r = consumed \o (f \o r)
    <3>1. f \in Seq(Byte) /\ r \in Seq(Byte) /\ consumed \in Seq(Byte)
      BY <1>0, <2>1
    <3> QED
      BY <3>1, ConcatAssociative
  <2> QED
    BY <1>0, <2>1, <2>2, <2>3 DEF ConservedInv, BytesConserved
<1>7. CASE HandlerPanic
  BY <1>0, <1>7 DEF HandlerPanic, ConservedInv, BytesConserved
<1>8. CASE CopyToFront
  <2>1. Len(recvBuf) < BufLen
    BY <1>0, <1>8, RadixFact, BufLenAssumption DEF CopyToFront, ConservedInv, BytesConserved
  <2>2. recvBuf' = recvBuf
    BY <1>0, <1>8, <2>1, SubSeqFull DEF CopyToFront
  <2> QED
    BY <1>0, <1>8, <2>2 DEF CopyToFront, history, ConservedInv, BytesConserved
<1>9. ASSUME NEW id \in DOMAIN lengths, RegisterHandler(id) PROVE ConservedInv'
  BY <1>0, <1>9 DEF RegisterHandler, feedVars, history, ConservedInv, BytesConserved
<1>10. ASSUME NEW set \in BOOLEAN, SetUnknownPacketHandler(set) PROVE ConservedInv'
  BY <1>0, <1>10 DEF SetUnknownPacketHandler, feedVars, history, ConservedInv, BytesConserved
<1>11. ASSUME NEW set \in BOOLEAN, SetTraceFunc(set) PROVE ConservedInv'
  BY <1>0, <1>11 DEF SetTraceFunc, feedVars, history, ConservedInv, BytesConserved
<1>12. CASE UNCHANGED vars
  BY <1>12 DEF vars, feedVars, configVars, history, ConservedInv, BytesConserved
<1> QED
  BY <1>1, <1>2, <1>3, <1>4, <1>5, <1>6, <1>7, <1>8, <1>9, <1>10, <1>11, <1>12 DEF Next, Loop

\* It holds from the start, and so always.
LEMMA ConservedAlways ==
    ASSUME BufLen >= MaxFrame
    PROVE  Spec => []ConservedInv
<1>1. Init => ConservedInv
  <2> SUFFICES ASSUME Init PROVE ConservedInv
    OBVIOUS
  <2>1. << >> \o << >> = << >>
    BY EmptySeq, ConcatEmptySeq
  <2>2. SubSeq(stream, 1, 0) = << >>
    BY SubSeqEmpty
  <2> QED
    BY <2>1, <2>2 DEF Init, ConservedInv, BytesConserved
<1>2. TypeOK /\ TypeOK' /\ ConservedInv /\ [Next]_vars => ConservedInv'
  BY ConservedStep
<1> QED
  BY <1>1, <1>2, TypeCorrect, PTL DEF Spec

\* A session whose buffer can hold any incomplete frame (MapSession: 65536
\* bytes) never loses, repeats or reorders a byte it was fed.
THEOREM Conservation ==
    ASSUME BufLen >= MaxFrame
    PROVE  Spec => []BytesConserved
<1>1. ConservedInv => BytesConserved
  BY DEF ConservedInv
<1> QED
  BY <1>1, ConservedAlways, PTL

-----------------------------------------------------------------------------
(* The ring of recent packets, and the accounting of handler calls.        *)

\* The i-th newest packet is i slots behind head.
RingInv ==
    /\ recent.count = IF Len(dispatched) < 3 THEN Len(dispatched) ELSE 3
    /\ \A i \in 1..recent.count :
         recent.slots[(recent.head - i + 3) % 3] = Slot(dispatched[Len(dispatched) + 1 - i])

\* Reading the slots from (head - count) on is reading them oldest first.
LEMMA RingOldestFirst ==
    ASSUME TypeOK, RingInv
    PROVE  RecentIsHistory
<1> DEFINE n == Len(dispatched)
           c == recent.count
           start == (recent.head - c + 3) % 3
<1>1. n \in Nat /\ c \in 0..3 /\ recent.head \in 0..2 /\ c = (IF n < 3 THEN n ELSE 3)
  <2>1. dispatched \in Seq(Frame) /\ c \in 0..3 /\ recent.head \in 0..2
    BY DEF TypeOK
  <2>2. c = (IF n < 3 THEN n ELSE 3)
    BY DEF RingInv
  <2> QED
    BY <2>1, <2>2
<1>2. ASSUME NEW i \in 1..c
      PROVE  recent.slots[(start + i - 1) % 3] = Slot(dispatched[n - c + i])
  <2>1. c + 1 - i \in 1..c
    BY <1>1
  <2>2. recent.slots[(recent.head - (c + 1 - i) + 3) % 3] = Slot(dispatched[n + 1 - (c + 1 - i)])
    BY <2>1 DEF RingInv
  <2>3. n + 1 - (c + 1 - i) = n - c + i
    BY <1>1
  <2>4. (recent.head - (c + 1 - i) + 3) % 3 = (start + i - 1) % 3
    BY <1>1, SMTT(30)
  <2> QED
    BY <2>2, <2>3, <2>4
<1>3. snapshot(recent) = [i \in 1..c |-> recent.slots[(start + i - 1) % 3]]
  BY DEF snapshot, recentPacketDepth
<1>4. LastPackets(n) = [i \in 1..c |-> Slot(dispatched[n - c + i])]
  BY <1>1 DEF LastPackets, recentPacketDepth
<1> HIDE DEF n, c, start
<1>5. [i \in 1..c |-> recent.slots[(start + i - 1) % 3]] = [i \in 1..c |-> Slot(dispatched[n - c + i])]
  BY <1>2
<1> QED
  BY <1>3, <1>4, <1>5 DEF RecentIsHistory, n

\* push moves every packet one place back and forgets the fourth newest.
LEMMA RingPush ==
    ASSUME TypeOK, RingInv, Dispatch
    PROVE  RingInv'
<1> DEFINE f == SubSeq(recvBuf, 1, FrameLen(recvBuf))
           n == Len(dispatched)
<1>1. /\ recent' = push(recent, f)
      /\ dispatched' = Append(dispatched, f)
  BY DEF Dispatch
<1>2. f \in Frame
  BY CutFrame DEF Dispatch, TypeOK, Frame
<1> HIDE DEF f
<1>3. /\ n \in Nat /\ Len(dispatched') = n + 1
      /\ dispatched'[n + 1] = f
      /\ \A j \in 1..n : dispatched'[j] = dispatched[j]
  BY <1>1, <1>2, AppendProperties DEF TypeOK
<1>4. /\ recent.head \in 0..2 /\ recent.count \in 0..3
      /\ recent.slots \in [0..2 -> SlotType]
      /\ recent.count = IF n < 3 THEN n ELSE 3
  BY DEF TypeOK, RingInv
<1>5. /\ recent'.slots = [recent.slots EXCEPT ![recent.head] = Slot(f)]
      /\ recent'.head = (recent.head + 1) % 3
      /\ recent'.count = IF recent.count < 3 THEN recent.count + 1 ELSE recent.count
  BY <1>1 DEF push, recentPacketDepth
<1>6. recent'.count = IF n + 1 < 3 THEN n + 1 ELSE 3
  BY <1>3, <1>4, <1>5
<1>7. ASSUME NEW i \in 1..recent'.count
      PROVE  recent'.slots[(recent'.head - i + 3) % 3] = Slot(dispatched'[n + 1 + 1 - i])
  <2>1. CASE i = 1
    <3>1. (recent'.head - i + 3) % 3 = recent.head
      BY <1>4, <1>5, <2>1
    <3>2. n + 1 + 1 - i = n + 1
      BY <1>3, <2>1
    <3> QED
      BY <1>3, <1>4, <1>5, <3>1, <3>2
  <2>2. CASE i # 1
    <3>1. i - 1 \in 1..recent.count /\ i - 1 \in 1..2 /\ i - 1 <= n
      BY <1>3, <1>4, <1>6, <2>2
    <3>2. /\ (recent'.head - i + 3) % 3 = (recent.head - (i - 1) + 3) % 3
          /\ (recent.head - (i - 1) + 3) % 3 # recent.head
          /\ (recent.head - (i - 1) + 3) % 3 \in 0..2
      BY <1>4, <1>5, <3>1
    <3>3. recent.slots[(recent.head - (i - 1) + 3) % 3] = Slot(dispatched[n + 1 - (i - 1)])
      BY <3>1 DEF RingInv
    <3>4. n + 1 + 1 - i = n + 1 - (i - 1) /\ n + 1 - (i - 1) \in 1..n
      BY <1>3, <3>1
    <3> QED
      BY <1>3, <1>4, <1>5, <3>2, <3>3, <3>4
  <2> QED
    BY <2>1, <2>2
<1> QED
  BY <1>3, <1>6, <1>7 DEF RingInv

\* Only Dispatch touches the ring and the dispatch history.
LEMMA RingUntouched ==
    ASSUME [Next]_vars, ~Dispatch
    PROVE  recent' = recent /\ dispatched' = dispatched
BY DEF Next, Loop, Feed, FeedFaulted, Incomplete, CorruptLength, UnknownPacket, HandlerPanic,
       CopyToFront, RegisterHandler, SetUnknownPacketHandler,
           SetTraceFunc, vars, feedVars, configVars, history

\* The snapshot an UnknownPacketEvent carries is the end of the dispatch
\* history, oldest first, however often the ring has wrapped around.
THEOREM RingHoldsHistory == Spec => []RecentIsHistory
<1>1. Init => RingInv
  <2> SUFFICES ASSUME Init PROVE RingInv
    OBVIOUS
  <2>1. recent.count = 0 /\ Len(dispatched) = 0
    BY EmptySeq DEF Init, emptyRing
  <2> QED
    BY <2>1 DEF RingInv
<1>2. TypeOK /\ RingInv /\ [Next]_vars => RingInv'
  <2> SUFFICES ASSUME TypeOK, RingInv, [Next]_vars PROVE RingInv'
    OBVIOUS
  <2>1. CASE Dispatch
    BY <2>1, RingPush
  <2>2. CASE ~Dispatch
    <3>1. recent' = recent /\ dispatched' = dispatched
      BY <2>2, RingUntouched
    <3> QED
      BY <3>1 DEF RingInv
  <2> QED
    BY <2>1, <2>2
<1>3. TypeOK /\ RingInv => RecentIsHistory
  BY RingOldestFirst
<1> QED
  BY <1>1, <1>2, <1>3, TypeCorrect, PTL DEF Spec

\* Every dispatched frame reached its handler or the unhandled counter exactly
\* once; the only extra calls are those that panicked.
THEOREM CallsAreAccounted == Spec => []CallsAccounted
<1>1. Init => CallsAccounted
  BY EmptySeq DEF Init, CallsAccounted
<1>2. TypeOK /\ CallsAccounted /\ [Next]_vars => CallsAccounted'
  <2> SUFFICES ASSUME TypeOK, CallsAccounted, [Next]_vars PROVE CallsAccounted'
    OBVIOUS
  <2>0. /\ Len(calls) \in Nat /\ Len(dispatched) \in Nat
        /\ unhandledPackets \in Nat /\ panics \in Nat
    BY DEF TypeOK
  <2>1. CASE Dispatch
    <3> DEFINE f == SubSeq(recvBuf, 1, FrameLen(recvBuf))
    <3>1. f \in Frame /\ calls \in Seq(Frame) /\ dispatched \in Seq(Frame)
      BY <2>1, CutFrame DEF Dispatch, TypeOK, Frame
    <3>2. /\ dispatched' = Append(dispatched, f) /\ panics' = panics
          /\ \/ calls' = Append(calls, f) /\ unhandledPackets' = unhandledPackets
             \/ calls' = calls /\ unhandledPackets' = unhandledPackets + 1
      <4>1. /\ dispatched' = Append(dispatched, f) /\ panics' = panics
            /\ calls' = IF PacketID(recvBuf) \in handlers THEN Append(calls, f) ELSE calls
            /\ unhandledPackets' =
                 unhandledPackets + (IF PacketID(recvBuf) \in handlers THEN 0 ELSE 1)
        BY <2>1 DEF Dispatch
      <4> HIDE DEF f
      <4> QED
        BY <2>0, <4>1
    <3> HIDE DEF f
    <3>3. Len(Append(calls, f)) = Len(calls) + 1 /\ Len(Append(dispatched, f)) = Len(dispatched) + 1
      BY <3>1, AppendProperties
    <3> QED
      BY <2>0, <3>2, <3>3 DEF CallsAccounted
  <2>2. CASE HandlerPanic
    <3> DEFINE f == SubSeq(recvBuf, 1, FrameLen(recvBuf))
    <3>1. f \in Frame /\ calls \in Seq(Frame)
      BY <2>2, CutFrame DEF HandlerPanic, TypeOK, Frame
    <3>2. /\ calls' = Append(calls, f) /\ panics' = panics + 1
          /\ dispatched' = dispatched /\ unhandledPackets' = unhandledPackets
      BY <2>2 DEF HandlerPanic
    <3> HIDE DEF f
    <3>3. Len(Append(calls, f)) = Len(calls) + 1
      BY <3>1, AppendProperties
    <3> QED
      BY <2>0, <3>2, <3>3 DEF CallsAccounted
  <2>3. CASE ~Dispatch /\ ~HandlerPanic
    <3>1. UNCHANGED <<calls, dispatched, unhandledPackets, panics>>
      BY <2>3 DEF Next, Loop, Feed, FeedFaulted, Incomplete, CorruptLength, UnknownPacket,
                  CopyToFront, RegisterHandler, SetUnknownPacketHandler,
           SetTraceFunc, vars, feedVars,
                  configVars, history
    <3> QED
      BY <3>1 DEF CallsAccounted
  <2> QED
    BY <2>1, <2>2, <2>3
<1> QED
  BY <1>1, <1>2, TypeCorrect, PTL DEF Spec

-----------------------------------------------------------------------------
(* A fault is final.                                                       *)

\* A corrupt length leaves Feed in the same step, so a faulted session is
\* never inside the loop.
FaultInv == faulted => pc = "idle"

LEMMA FaultStep == FaultInv /\ [Next]_vars => FaultInv'
<1> SUFFICES ASSUME FaultInv, [Next]_vars PROVE FaultInv'
  OBVIOUS
<1>1. CASE CorruptLength
  BY <1>1 DEF CorruptLength, FaultInv
<1>2. CASE ~CorruptLength
  BY <1>2 DEF FaultInv, Next, Loop, Feed, FeedFaulted, Incomplete, UnknownPacket, Dispatch,
              HandlerPanic, CopyToFront, RegisterHandler, SetUnknownPacketHandler, SetTraceFunc,
              vars, feedVars
<1> QED
  BY <1>1, <1>2

\* After a corrupt length the session never changes again: no byte is taken, no
\* frame delivered, no hook called, and ErrUnknownPacket is not returned twice.
THEOREM FaultStaysFinal == Spec => FaultIsFinal
<1> DEFINE Frozen == /\ faulted'
                     /\ result' \in {result, "nil"}
                     /\ UNCHANGED <<recvBuf, recent, unhandledPackets, accepted, consumed,
                                    dispatched, calls, events, traced>>
<1>1. Init => FaultInv
  BY DEF Init, FaultInv
<1>2. ASSUME FaultInv, [Next]_vars, faulted PROVE Frozen
  <2>1. pc = "idle"
    BY <1>2 DEF FaultInv
  <2> QED
    BY <1>2, <2>1 DEF Next, Loop, Feed, FeedFaulted, Incomplete, CorruptLength, UnknownPacket,
              Dispatch, HandlerPanic, CopyToFront, RegisterHandler, SetUnknownPacketHandler,
              SetTraceFunc, vars, feedVars, history
<1>3. FaultInv /\ [Next]_vars => [faulted => Frozen]_vars
  BY <1>2
<1> QED
  BY <1>1, <1>3, FaultStep, PTL DEF Spec, FaultIsFinal

-----------------------------------------------------------------------------
(* The buffer is a part of the stream.                                     *)

\* The session's part of the stream that has arrived, and all that is to come.
Arrived == SubSeq(stream, Len(consumed) + 1, accepted)
Ahead == From(stream, Len(consumed) + 1)

\* c begins with b.
StartsWith(b, c) == Len(b) <= Len(c) /\ \A i \in 1..Len(b) : b[i] = c[i]

\* A header that can be read is read the same when more bytes have arrived.
LEMMA MoreBytes ==
    ASSUME NEW b \in Seq(Byte), NEW c \in Seq(Byte), StartsWith(b, c)
    PROVE  /\ IsUnknown(b) => IsUnknown(c)
           /\ IsCorrupt(b) => IsCorrupt(c)
           /\ IsComplete(b) => IsComplete(c) /\ FrameLen(c) = FrameLen(b)
<1>1. Len(b) \in Nat /\ Len(c) \in Nat /\ Len(b) <= Len(c)
  BY DEF StartsWith
<1>2. ASSUME HasID(b) PROVE HasID(c) /\ PacketID(c) = PacketID(b)
  BY <1>1, <1>2 DEF HasID, PacketID, LE16, StartsWith
<1>3. ASSUME Len(b) >= 4 PROVE Len(c) >= 4 /\ LE16(c, 3) = LE16(b, 3)
  BY <1>1, <1>3 DEF LE16, StartsWith
<1>4. IsUnknown(b) => IsUnknown(c)
  BY <1>2 DEF IsUnknown
<1>5. IsVariable(b) => IsVariable(c)
  BY <1>2 DEF IsVariable, IsUnknown
<1>6. IsCorrupt(b) => IsCorrupt(c)
  BY <1>3, <1>5 DEF IsCorrupt
<1>7. ASSUME IsComplete(b) PROVE IsComplete(c) /\ FrameLen(c) = FrameLen(b)
  <2>1. HasID(b) /\ ~IsUnknown(b) /\ FrameLen(b) \in 2..MaxFrame /\ Len(b) >= FrameLen(b)
    BY <1>7, FrameLenType DEF IsComplete, IsSized
  <2>2. HasID(c) /\ PacketID(c) = PacketID(b) /\ ~IsUnknown(c) /\ (IsVariable(c) <=> IsVariable(b))
    BY <1>2, <2>1 DEF IsUnknown, IsVariable
  <2>3. CASE IsVariable(b)
    <3>1. Len(b) >= 4 /\ ~(LE16(b, 3) < 4)
      <4>1. ~(Len(b) < 4)
        BY <1>7, <2>3 DEF IsComplete, IsSized, LengthPending
      <4>2. Len(b) >= 4
        BY <1>1, <4>1
      <4> QED
        BY <1>7, <2>3, <4>2 DEF IsComplete, IsSized, IsCorrupt
    <3>2. Len(c) >= 4 /\ LE16(c, 3) = LE16(b, 3)
      BY <1>3, <3>1
    <3>3. FrameLen(c) = FrameLen(b)
      BY <2>2, <2>3, <3>2 DEF FrameLen
    <3>4. ~(Len(c) < 4)
      BY <1>1, <3>2
    <3>5. IsSized(c)
      BY <2>2, <3>1, <3>2, <3>4 DEF IsSized, LengthPending, IsCorrupt
    <3>6. Len(c) >= FrameLen(c)
      BY <1>1, <2>1, <3>3
    <3> QED
      BY <3>3, <3>5, <3>6 DEF IsComplete
  <2>4. CASE ~IsVariable(b)
    <3>1. FrameLen(c) = FrameLen(b)
      BY <2>2, <2>4 DEF FrameLen
    <3>2. IsSized(c)
      BY <2>2, <2>4 DEF IsSized, LengthPending, IsCorrupt
    <3>3. Len(c) >= FrameLen(c)
      BY <1>1, <2>1, <3>1
    <3> QED
      BY <3>1, <3>2, <3>3 DEF IsComplete
  <2> QED
    BY <2>3, <2>4
<1> QED
  BY <1>4, <1>6, <1>7

\* As long as no byte is lost, recvBuf is the stream from the end of what was
\* consumed to the end of what was accepted.
LEMMA BufferLocated ==
    ASSUME TypeOK, BytesConserved
    PROVE  /\ recvBuf = Arrived
           /\ accepted = Len(consumed) + Len(recvBuf)
           /\ accepted <= Len(stream)
           /\ Ahead \in Seq(Byte)
           /\ Len(Ahead) = Len(stream) - Len(consumed)
           /\ \A i \in 1..Len(Ahead) : Ahead[i] = stream[Len(consumed) + i]
           /\ StartsWith(recvBuf, Ahead)
<1> DEFINE m == Len(consumed)
           n == Len(recvBuf)
           L == Len(stream)
<1>1. /\ stream \in Seq(Byte) /\ consumed \in Seq(Byte) /\ recvBuf \in Seq(Byte)
      /\ fed \in 0..Len(stream) /\ accepted \in 0..fed
  BY StreamsAssumption DEF TypeOK
<1>2. m \in Nat /\ n \in Nat /\ L \in Nat /\ accepted \in 0..L
  BY <1>1
<1>3. \A i \in 1..L : stream[i] \in Byte
  BY <1>1, ElementOfSeq
<1>4. /\ Len(SubSeq(stream, 1, accepted)) = accepted
      /\ \A i \in 1..accepted : SubSeq(stream, 1, accepted)[i] = stream[i]
  <2>1. \A i \in 1..accepted : stream[i] \in Byte
    BY <1>2, <1>3
  <2>2. /\ Len(SubSeq(stream, 1, accepted)) = IF 1 <= accepted THEN accepted - 1 + 1 ELSE 0
        /\ \A i \in 1..(accepted - 1 + 1) : SubSeq(stream, 1, accepted)[i] = stream[1 + i - 1]
    BY <1>1, <1>2, <2>1, SubSeqProperties
  <2> QED
    BY <1>2, <2>2
<1>5. /\ Len(consumed \o recvBuf) = m + n
      /\ \A i \in 1..(m + n) : (consumed \o recvBuf)[i] = IF i <= m THEN consumed[i] ELSE recvBuf[i - m]
  BY <1>1, ConcatProperties
<1>6. accepted = m + n
  BY <1>4, <1>5 DEF BytesConserved
<1>7. \A i \in 1..n : recvBuf[i] = stream[m + i]
  <2>1. ASSUME NEW i \in 1..n PROVE recvBuf[i] = stream[m + i]
    <3>1. m + i \in 1..(m + n) /\ ~(m + i <= m) /\ m + i - m = i
      BY <1>2
    <3>2. (consumed \o recvBuf)[m + i] = recvBuf[i]
      BY <1>5, <3>1
    <3>3. SubSeq(stream, 1, accepted)[m + i] = stream[m + i]
      BY <1>4, <1>6, <3>1
    <3> QED
      BY <3>2, <3>3 DEF BytesConserved
  <2> QED
    BY <2>1
<1>8. /\ Arrived \in Seq(Byte) /\ Len(Arrived) = n
      /\ \A i \in 1..n : Arrived[i] = stream[m + i]
  <2>1. \A i \in (m + 1)..accepted : stream[i] \in Byte
    BY <1>2, <1>3
  <2>2. /\ Arrived \in Seq(Byte)
        /\ Len(Arrived) = IF m + 1 <= accepted THEN accepted - (m + 1) + 1 ELSE 0
        /\ \A i \in 1..(accepted - (m + 1) + 1) : Arrived[i] = stream[(m + 1) + i - 1]
    BY <1>1, <1>2, <2>1, SubSeqProperties DEF Arrived
  <2>3. accepted - (m + 1) + 1 = n /\ \A i \in 1..n : (m + 1) + i - 1 = m + i
    BY <1>2, <1>6
  <2> QED
    BY <1>2, <1>6, <2>2, <2>3
<1>9. recvBuf = Arrived
  BY <1>1, <1>7, <1>8, SeqEqual
<1>10. /\ Ahead \in Seq(Byte) /\ Len(Ahead) = L - m
       /\ \A i \in 1..(L - m) : Ahead[i] = stream[m + i]
  <2>1. \A i \in (m + 1)..L : stream[i] \in Byte
    BY <1>2, <1>3
  <2>2. /\ Ahead \in Seq(Byte)
        /\ Len(Ahead) = IF m + 1 <= L THEN L - (m + 1) + 1 ELSE 0
        /\ \A i \in 1..(L - (m + 1) + 1) : Ahead[i] = stream[(m + 1) + i - 1]
    BY <1>1, <1>2, <2>1, SubSeqProperties DEF Ahead, From
  <2>3. L - (m + 1) + 1 = L - m /\ \A i \in 1..(L - m) : (m + 1) + i - 1 = m + i
    BY <1>2
  <2>4. Len(Ahead) = L - m
    BY <1>2, <1>6, <2>2
  <2> QED
    BY <2>2, <2>3, <2>4
<1>11. StartsWith(recvBuf, Ahead)
  BY <1>2, <1>6, <1>7, <1>10 DEF StartsWith
<1> QED
  BY <1>2, <1>6, <1>9, <1>10, <1>11

-----------------------------------------------------------------------------
(* The framing engine implements FrameStream.                              *)

\* FrameStream reads headers as the session does.
LEMMA SameHeaders ==
    ASSUME NEW b
    PROVE  /\ Delivery!IsUnknown(b) <=> IsUnknown(b)
           /\ Delivery!IsCorrupt(b) <=> IsCorrupt(b)
           /\ Delivery!IsComplete(b) <=> IsComplete(b)
           /\ Delivery!FrameLen(b) = FrameLen(b)
<1>1. \A i : Delivery!LE16(b, i) = LE16(b, i)
  BY Zenon DEF Delivery!LE16, LE16, Delivery!Radix, Radix
<1>2. Delivery!PacketID(b) = PacketID(b) /\ (Delivery!HasID(b) <=> HasID(b))
  BY <1>1, Zenon DEF Delivery!PacketID, PacketID, Delivery!HasID, HasID
<1>3. Delivery!IsUnknown(b) <=> IsUnknown(b)
  BY <1>2, Zenon DEF Delivery!IsUnknown, IsUnknown
<1>4. Delivery!IsVariable(b) <=> IsVariable(b)
  BY <1>2, <1>3, Zenon DEF Delivery!IsVariable, IsVariable
<1>5. Delivery!IsCorrupt(b) <=> IsCorrupt(b)
  BY <1>1, <1>4, Zenon DEF Delivery!IsCorrupt, IsCorrupt
<1>6. Delivery!LengthPending(b) <=> LengthPending(b)
  BY <1>4, Zenon DEF Delivery!LengthPending, LengthPending
<1>7. Delivery!FrameLen(b) = FrameLen(b)
  BY <1>1, <1>2, <1>4, Zenon DEF Delivery!FrameLen, FrameLen
<1>8. Delivery!IsSized(b) <=> IsSized(b)
  BY <1>2, <1>3, <1>5, <1>6, Zenon DEF Delivery!IsSized, IsSized
<1>9. Delivery!IsComplete(b) <=> IsComplete(b)
  BY <1>7, <1>8, Zenon DEF Delivery!IsComplete, IsComplete
<1> QED
  BY <1>3, <1>5, <1>7, <1>9

\* What FrameStream has still to deliver is what is ahead of the session.
LEMMA SameRest == Delivery!Rest = Ahead
BY DEF Delivery!Rest, Ahead, Delivery!From, From

\* A whole frame at the front of the buffer is the next frame of the stream.
LEMMA NextFrame ==
    ASSUME TypeOK, BytesConserved, IsComplete(recvBuf)
    PROVE  /\ IsComplete(Ahead)
           /\ FrameLen(Ahead) = FrameLen(recvBuf)
           /\ SubSeq(Ahead, 1, FrameLen(Ahead)) = SubSeq(recvBuf, 1, FrameLen(recvBuf))
<1> DEFINE n == FrameLen(recvBuf)
<1>1. recvBuf \in Seq(Byte)
  BY DEF TypeOK
<1>2. Ahead \in Seq(Byte) /\ StartsWith(recvBuf, Ahead)
  BY BufferLocated
<1>3. IsComplete(Ahead) /\ FrameLen(Ahead) = n
  BY <1>1, <1>2, MoreBytes
<1>4. n \in 2..MaxFrame /\ n <= Len(recvBuf) /\ Len(recvBuf) \in Nat
  BY <1>1, FrameLenType DEF IsComplete
<1> HIDE DEF n
<1>5. \A i \in 1..n : recvBuf[i] \in Byte /\ Ahead[i] = recvBuf[i]
  <2>1. \A i \in 1..n : i \in 1..Len(recvBuf)
    BY <1>4, RadixFact
  <2> QED
    BY <1>1, <1>2, <2>1, ElementOfSeq DEF StartsWith
<1>6. /\ SubSeq(recvBuf, 1, n) \in Seq(Byte) /\ SubSeq(Ahead, 1, n) \in Seq(Byte)
      /\ Len(SubSeq(recvBuf, 1, n)) = n /\ Len(SubSeq(Ahead, 1, n)) = n
      /\ \A i \in 1..n : SubSeq(recvBuf, 1, n)[i] = recvBuf[i] /\ SubSeq(Ahead, 1, n)[i] = Ahead[i]
  <2>1. n \in Int /\ 1 <= n /\ n - 1 + 1 = n /\ \A i \in 1..n : 1 + i - 1 = i
    BY <1>4, RadixFact
  <2>2. \A i \in 1..n : Ahead[i] \in Byte
    BY <1>5
  <2>3. /\ SubSeq(recvBuf, 1, n) \in Seq(Byte)
        /\ Len(SubSeq(recvBuf, 1, n)) = IF 1 <= n THEN n - 1 + 1 ELSE 0
        /\ \A i \in 1..(n - 1 + 1) : SubSeq(recvBuf, 1, n)[i] = recvBuf[1 + i - 1]
    BY <1>5, <2>1, SubSeqProperties
  <2>4. /\ SubSeq(Ahead, 1, n) \in Seq(Byte)
        /\ Len(SubSeq(Ahead, 1, n)) = IF 1 <= n THEN n - 1 + 1 ELSE 0
        /\ \A i \in 1..(n - 1 + 1) : SubSeq(Ahead, 1, n)[i] = Ahead[1 + i - 1]
    BY <2>1, <2>2, SubSeqProperties
  <2> QED
    BY <2>1, <2>3, <2>4
<1>7. SubSeq(Ahead, 1, n) = SubSeq(recvBuf, 1, n)
  BY <1>5, <1>6, SeqEqual
<1> QED
  BY <1>3, <1>7 DEF n

\* Every step of the session is a step of FrameStream, or leaves it alone.
LEMMA DeliveryStep ==
    ASSUME TypeOK, BytesConserved, FaultInv, [Next]_vars
    PROVE  [Delivery!Next]_(Delivery!vars)
<1>1. CASE Dispatch
  <2> DEFINE f == SubSeq(recvBuf, 1, FrameLen(recvBuf))
  <2>1. /\ IsComplete(recvBuf) /\ pc = "loop"
        /\ dispatched' = Append(dispatched, f) /\ consumed' = consumed \o f
        /\ UNCHANGED <<stream, faulted>>
    BY <1>1 DEF Dispatch
  <2>2. IsComplete(Ahead) /\ FrameLen(Ahead) = FrameLen(recvBuf)
        /\ SubSeq(Ahead, 1, FrameLen(Ahead)) = f
    BY <2>1, NextFrame
  <2>3. Len(consumed') = Len(consumed) + FrameLen(recvBuf)
    <3>1. f \in Seq(Byte) /\ Len(f) = FrameLen(recvBuf) /\ consumed \in Seq(Byte)
      BY <2>1, CutFrame DEF TypeOK
    <3> QED
      BY <2>1, <3>1, ConcatProperties
  <2>4. ~faulted
    BY <2>1 DEF FaultInv
  <2>5. Delivery!Deliver
    BY <2>1, <2>2, <2>3, <2>4, SameHeaders, SameRest DEF Delivery!Deliver
  <2> QED
    BY <2>5 DEF Delivery!Next
<1>2. CASE UnknownPacket
  <2>1. /\ IsUnknown(recvBuf) /\ pc = "loop"
        /\ consumed' = consumed \o recvBuf
        /\ UNCHANGED <<stream, faulted, dispatched>>
    BY <1>2 DEF UnknownPacket
  <2>2. recvBuf \in Seq(Byte) /\ Ahead \in Seq(Byte) /\ StartsWith(recvBuf, Ahead)
    BY BufferLocated DEF TypeOK
  <2>3. IsUnknown(Ahead)
    BY <2>1, <2>2, MoreBytes
  <2>4. Len(recvBuf) \in 2..Len(Ahead)
    BY <2>1, <2>2 DEF IsUnknown, HasID, StartsWith
  <2>5. Len(consumed') = Len(consumed) + Len(recvBuf)
    BY <2>1, <2>2, ConcatProperties DEF TypeOK
  <2>6. ~faulted
    BY <2>1 DEF FaultInv
  <2>7. Delivery!GiveUp
    BY <2>1, <2>3, <2>4, <2>5, <2>6, SameHeaders, SameRest DEF Delivery!GiveUp
  <2> QED
    BY <2>7 DEF Delivery!Next
<1>3. CASE CorruptLength
  <2>1. /\ IsCorrupt(recvBuf) /\ pc = "loop" /\ faulted' = TRUE
        /\ UNCHANGED <<stream, consumed, dispatched>>
    BY <1>3 DEF CorruptLength, history
  <2>2. recvBuf \in Seq(Byte) /\ Ahead \in Seq(Byte) /\ StartsWith(recvBuf, Ahead)
    BY BufferLocated DEF TypeOK
  <2>3. IsCorrupt(Ahead)
    BY <2>1, <2>2, MoreBytes
  <2>4. ~faulted
    BY <2>1 DEF FaultInv
  <2>5. Delivery!Corrupt
    BY <2>1, <2>3, <2>4, SameHeaders, SameRest DEF Delivery!Corrupt
  <2> QED
    BY <2>5 DEF Delivery!Next
<1>4. CASE ~Dispatch /\ ~UnknownPacket /\ ~CorruptLength
  <2>1. UNCHANGED <<stream, consumed, dispatched, faulted>>
    BY <1>4 DEF Next, Loop, Feed, FeedFaulted, Incomplete, HandlerPanic, CopyToFront,
                RegisterHandler, SetUnknownPacketHandler, SetTraceFunc, vars, feedVars, history
  <2> QED
    BY <2>1 DEF Delivery!vars
<1> QED
  BY <1>1, <1>2, <1>3, <1>4

\* A session whose buffer can hold any incomplete frame implements FrameStream:
\* however the reads are cut, whatever handlers are registered or panic, the
\* stream is delivered in order, frame by frame, and bytes are given up only at
\* an unknown ID.
THEOREM FeedImplementsFrameStream ==
    ASSUME BufLen >= MaxFrame
    PROVE  Spec => ImplementsFrameStream
<1>1. Init => Delivery!Init
  BY EmptySeq DEF Init, Delivery!Init
<1>2. Init => FaultInv
  BY DEF Init, FaultInv
<1>3. TypeOK /\ BytesConserved /\ FaultInv /\ [Next]_vars => [Delivery!Next]_(Delivery!vars)
  BY DeliveryStep
<1>4. Spec => []BytesConserved
  BY Conservation
<1> QED
  BY <1>1, <1>2, <1>3, <1>4, FaultStep, TypeCorrect, PTL
     DEF Spec, ImplementsFrameStream, Delivery!Spec

-----------------------------------------------------------------------------
(* The events and the trace.                                               *)

\* A sequence of anything.
IsSeq(s) == \E S : s \in Seq(S)

LEMMA AppendAny ==
    ASSUME NEW s, IsSeq(s), NEW e
    PROVE  /\ IsSeq(Append(s, e))
           /\ Len(s) \in Nat
           /\ Len(Append(s, e)) = Len(s) + 1
           /\ \A i \in 1..Len(s) : Append(s, e)[i] = s[i]
           /\ Append(s, e)[Len(s) + 1] = e
<1>1. PICK S : s \in Seq(S)
  BY DEF IsSeq
<1> DEFINE T == S \cup {e}
<1>2. s \in Seq(T) /\ e \in T
  BY <1>1, SeqMonotonic
<1> HIDE DEF T
<1>3. /\ Append(s, e) \in Seq(T)
      /\ Len(Append(s, e)) = Len(s) + 1
      /\ \A i \in 1..Len(s) : Append(s, e)[i] = s[i]
      /\ Append(s, e)[Len(s) + 1] = e
  BY <1>2, AppendProperties
<1> QED
  BY <1>2, <1>3 DEF IsSeq

\* What EventsFaithful says of one event.
Faithful(e) ==
    /\ IsUnknown(e.RawBuffer)
    /\ e.ID = PacketID(e.RawBuffer)
    /\ e.RawBuffer = SubSeq(stream, e.at + 1, e.upto)
    /\ e.RecentPackets = LastPackets(e.after)

EventsInv ==
    /\ IsSeq(events)
    /\ \A i \in 1..Len(events) : Faithful(events[i]) /\ events[i].after \in 0..Len(dispatched)

\* The packets before the (n+1)-st do not change when more are dispatched.
LEMMA HistoryStays ==
    ASSUME TypeOK, NEW f \in Frame, dispatched' = Append(dispatched, f),
           NEW n \in 0..Len(dispatched)
    PROVE  LastPackets(n)' = LastPackets(n) /\ n \in 0..Len(dispatched')
<1> DEFINE k == IF n < 3 THEN n ELSE 3
<1>1. /\ dispatched \in Seq(Frame) /\ Len(dispatched) \in Nat
      /\ Len(dispatched') = Len(dispatched) + 1
      /\ \A j \in 1..Len(dispatched) : dispatched'[j] = dispatched[j]
  BY AppendProperties DEF TypeOK
<1>2. \A i \in 1..k : n - k + i \in 1..Len(dispatched)
  BY <1>1
<1>3. n \in 0..Len(dispatched')
  BY <1>1
<1>4. /\ LastPackets(n) = [i \in 1..k |-> Slot(dispatched[n - k + i])]
      /\ LastPackets(n)' = [i \in 1..k |-> Slot(dispatched'[n - k + i])]
  BY DEF LastPackets, recentPacketDepth, Slot, PacketID, LE16
<1> HIDE DEF k
<1>5. \A i \in 1..k : Slot(dispatched'[n - k + i]) = Slot(dispatched[n - k + i])
  BY <1>1, <1>2
<1>6. [i \in 1..k |-> Slot(dispatched'[n - k + i])] = [i \in 1..k |-> Slot(dispatched[n - k + i])]
  BY <1>5
<1> QED
  BY <1>3, <1>4, <1>6

LEMMA EventsStep ==
    ASSUME TypeOK, BytesConserved, RecentIsHistory, EventsInv, [Next]_vars
    PROVE  EventsInv'
<1>0. stream' = stream
  BY DEF Next, Loop, Feed, FeedFaulted, Incomplete, CorruptLength, UnknownPacket, Dispatch,
         HandlerPanic, CopyToFront, RegisterHandler, SetUnknownPacketHandler, SetTraceFunc, vars
<1>1. CASE UnknownPacket
  <2>1. /\ IsUnknown(recvBuf) /\ dispatched' = dispatched
        /\ events' = Append(events, UnknownPacketEvent) \/ events' = events
    BY <1>1 DEF UnknownPacket
  <2>2. Len(dispatched) \in 0..Len(dispatched)
    BY DEF TypeOK
  <2> DEFINE e == UnknownPacketEvent
  <2>3. Faithful(e) /\ e.after \in 0..Len(dispatched)
    <3>1. /\ e.RawBuffer = recvBuf /\ e.ID = PacketID(recvBuf) /\ e.at = Len(consumed)
          /\ e.upto = accepted /\ e.after = Len(dispatched) /\ e.RecentPackets = snapshot(recent)
      BY DEF UnknownPacketEvent
    <3>2. recvBuf = SubSeq(stream, Len(consumed) + 1, accepted)
      BY BufferLocated DEF Arrived
    <3>3. snapshot(recent) = LastPackets(Len(dispatched))
      BY DEF RecentIsHistory
    <3> HIDE DEF e
    <3> QED
      BY <2>1, <2>2, <3>1, <3>2, <3>3 DEF Faithful
  <2>4. \A x : Faithful(x)' <=> Faithful(x)
    BY <1>0, <2>1 DEF Faithful, LastPackets, IsUnknown, HasID, PacketID, LE16, Slot
  <2>5. CASE events' = events
    BY <2>1, <2>4, <2>5 DEF EventsInv, IsSeq
  <2>6. CASE events' = Append(events, e)
    <3> HIDE DEF e
    <3>1. /\ IsSeq(events') /\ Len(events) \in Nat /\ Len(events') = Len(events) + 1
          /\ \A i \in 1..Len(events) : events'[i] = events[i]
          /\ events'[Len(events) + 1] = e
      BY <2>6, AppendAny DEF EventsInv
    <3>2. \A i \in 1..Len(events') : i \in 1..Len(events) \/ i = Len(events) + 1
      BY <3>1
    <3>3. \A i \in 1..Len(events') : Faithful(events'[i]) /\ events'[i].after \in 0..Len(dispatched)
      BY <2>3, <3>1, <3>2 DEF EventsInv
    <3>4. IsSeq(events)'
      BY <3>1 DEF IsSeq
    <3>5. \A i \in 1..Len(events') : Faithful(events[i])'
      BY <1>0, <2>1, <3>3, SMTT(60) DEF Faithful, LastPackets, IsUnknown, HasID, PacketID, LE16, Slot
    <3> QED
      BY <2>1, <3>3, <3>4, <3>5 DEF EventsInv
  <2> QED
    BY <2>1, <2>5, <2>6
<1>2. CASE Dispatch
  <2>1. events' = events /\ dispatched' = Append(dispatched, SubSeq(recvBuf, 1, FrameLen(recvBuf)))
    BY <1>2 DEF Dispatch
  <2>2. SubSeq(recvBuf, 1, FrameLen(recvBuf)) \in Frame
    BY <1>2, CutFrame DEF Dispatch, TypeOK, Frame
  <2>3. ASSUME NEW i \in 1..Len(events)
        PROVE  Faithful(events[i])' /\ (events[i].after \in 0..Len(dispatched))'
    <3>1. Faithful(events[i]) /\ events[i].after \in 0..Len(dispatched)
      BY DEF EventsInv
    <3>2. PICK n : n = events[i].after
      OBVIOUS
    <3>3. LastPackets(n)' = LastPackets(n) /\ n \in 0..Len(dispatched')
      BY <2>1, <2>2, <3>1, <3>2, HistoryStays
    <3>4. LastPackets(events[i].after)' = LastPackets(n)'
      BY <2>1, <3>2 DEF LastPackets, Slot, PacketID, LE16
    <3> QED
      BY <1>0, <2>1, <3>1, <3>2, <3>3, <3>4 DEF Faithful, IsUnknown, HasID, PacketID, LE16
  <2> QED
    BY <2>1, <2>3 DEF EventsInv, IsSeq
<1>3. CASE ~UnknownPacket /\ ~Dispatch
  <2>1. UNCHANGED <<events, dispatched>>
    BY <1>3 DEF Next, Loop, Feed, FeedFaulted, Incomplete, CorruptLength, HandlerPanic,
                CopyToFront, RegisterHandler, SetUnknownPacketHandler, SetTraceFunc, vars,
                history
  <2>2. \A i \in 1..Len(events) : Faithful(events[i])' <=> Faithful(events[i])
    BY <1>0, <2>1 DEF Faithful, LastPackets, IsUnknown, HasID, PacketID, LE16, Slot
  <2>3. IsSeq(events)' <=> IsSeq(events)
    BY <2>1 DEF IsSeq
  <2> QED
    BY <2>1, <2>2, <2>3 DEF EventsInv
<1> QED
  BY <1>1, <1>2, <1>3

\* An UnknownPacketEvent the callback has kept still tells the truth later, also
\* after the session has gone on, the ring has wrapped and the buffer been reused.
THEOREM EventsStayFaithful ==
    ASSUME BufLen >= MaxFrame
    PROVE  Spec => []EventsFaithful
<1>1. Init => EventsInv
  <2> SUFFICES ASSUME Init PROVE EventsInv
    OBVIOUS
  <2>1. IsSeq(events) /\ Len(events) = 0
    BY EmptySeq DEF Init, IsSeq
  <2> QED
    BY <2>1 DEF EventsInv
<1>2. TypeOK /\ BytesConserved /\ RecentIsHistory /\ EventsInv /\ [Next]_vars => EventsInv'
  BY EventsStep
<1>3. EventsInv => EventsFaithful
  BY DEF EventsInv, EventsFaithful, Faithful
<1>4. Spec => []BytesConserved
  BY Conservation
<1> QED
  BY <1>1, <1>2, <1>3, <1>4, RingHoldsHistory, TypeCorrect, PTL DEF Spec

\* What TraceInOrder says of one trace event.
Bytes(e) == IF "Frame" \in DOMAIN e THEN e.Frame ELSE e.RawBuffer
InPlace(e) ==
    /\ Bytes(e) = SubSeq(stream, e.at + 1, e.at + Len(Bytes(e)))
    /\ e.ID = PacketID(Bytes(e))

\* The places traced so far.
TracedPlaces == {traced[i].at : i \in 1..Len(traced)}

\* A place is traced again only after a panic there: while the session is still
\* at a place it has traced, one panic has not been used up.
Surplus == IF Len(consumed) \in TracedPlaces THEN 1 ELSE 0

TraceInv ==
    /\ IsSeq(traced)
    /\ \A i \in 1..Len(traced) : InPlace(traced[i]) /\ traced[i].at \in 0..Len(consumed)
    /\ \A i, j \in 1..Len(traced) : i < j => traced[i].at <= traced[j].at
    /\ IsFiniteSet(TracedPlaces)
    /\ Cardinality(TracedPlaces) + panics >= Len(traced) + Surplus

\* What the hook is given is the stream at the place where the session is.
LEMMA FrameInPlace ==
    ASSUME TypeOK, BytesConserved, IsComplete(recvBuf)
    PROVE  InPlace(WireInbound) /\ WireInbound.at = Len(consumed)
<1> DEFINE n == FrameLen(recvBuf)
           m == Len(consumed)
           f == SubSeq(recvBuf, 1, n)
<1>1. /\ Bytes(WireInbound) = f /\ WireInbound.at = m /\ WireInbound.ID = PacketID(recvBuf)
  BY DEF WireInbound, Bytes
<1>2. recvBuf \in Seq(Byte) /\ m \in Nat
  BY DEF TypeOK
<1>3. n \in 2..Len(recvBuf) /\ f \in Seq(Byte) /\ Len(f) = n
  BY <1>2, CutFrame
<1>4. n \in Int /\ Len(recvBuf) \in Nat /\ \A i \in 1..n : i \in 1..Len(recvBuf)
  BY <1>2, <1>3
<1>5. \A i \in 1..n : f[i] = recvBuf[i]
  <2>1. \A i \in 1..n : recvBuf[i] \in Byte
    BY <1>2, <1>4, ElementOfSeq
  <2>2. \A i \in 1..(n - 1 + 1) : f[i] = recvBuf[1 + i - 1]
    BY <1>4, <2>1, SubSeqProperties
  <2> QED
    BY <1>4, <2>2
<1>6. /\ accepted = m + Len(recvBuf) /\ accepted <= Len(stream)
      /\ recvBuf = SubSeq(stream, m + 1, accepted)
  BY BufferLocated DEF Arrived
<1>7. stream \in Seq(Byte) /\ Len(stream) \in Nat
  BY StreamsAssumption DEF TypeOK
<1>8. \A i \in 1..Len(recvBuf) : recvBuf[i] = stream[m + i] /\ stream[m + i] \in Byte
  <2>1. \A i \in (m + 1)..accepted : stream[i] \in Byte
    <3>1. \A i \in (m + 1)..accepted : i \in 1..Len(stream)
      BY <1>2, <1>4, <1>6, <1>7
    <3> QED
      BY <1>7, <3>1, ElementOfSeq
  <2>2. accepted \in Int /\ m + 1 \in Int
    BY <1>2, <1>4, <1>6
  <2>3. \A i \in 1..(accepted - (m + 1) + 1) : recvBuf[i] = stream[(m + 1) + i - 1]
    BY <1>6, <2>1, <2>2, SubSeqProperties
  <2>4. /\ accepted - (m + 1) + 1 = Len(recvBuf)
        /\ \A i \in 1..Len(recvBuf) : (m + 1) + i - 1 = m + i /\ m + i \in (m + 1)..accepted
    BY <1>2, <1>4, <1>6
  <2> QED
    BY <2>1, <2>3, <2>4
<1> HIDE DEF n, m, f
<1>9. /\ SubSeq(stream, m + 1, m + n) \in Seq(Byte) /\ Len(SubSeq(stream, m + 1, m + n)) = n
      /\ \A i \in 1..n : SubSeq(stream, m + 1, m + n)[i] = stream[m + i]
  <2>1. \A i \in (m + 1)..(m + n) : stream[i] \in Byte
    <3>1. \A i \in (m + 1)..(m + n) : i - m \in 1..Len(recvBuf) /\ m + (i - m) = i
      BY <1>2, <1>3, <1>4
    <3> QED
      BY <1>8, <3>1
  <2> DEFINE lo == m + 1
             hi == m + n
  <2>2. /\ lo \in Int /\ hi \in Int /\ lo <= hi /\ hi - lo + 1 = n
        /\ \A i \in 1..n : lo + i - 1 = m + i
    BY <1>2, <1>3, <1>4
  <2>3. \A i \in lo..hi : stream[i] \in Byte
    BY <2>1
  <2> HIDE DEF lo, hi
  <2>4. /\ SubSeq(stream, lo, hi) \in Seq(Byte)
        /\ Len(SubSeq(stream, lo, hi)) = IF lo <= hi THEN hi - lo + 1 ELSE 0
        /\ \A i \in 1..(hi - lo + 1) : SubSeq(stream, lo, hi)[i] = stream[lo + i - 1]
    BY <2>2, <2>3, SubSeqProperties
  <2>5. /\ SubSeq(stream, lo, hi) \in Seq(Byte) /\ Len(SubSeq(stream, lo, hi)) = n
        /\ \A i \in 1..n : SubSeq(stream, lo, hi)[i] = stream[m + i]
    BY <2>2, <2>4
  <2> QED
    BY <2>5 DEF lo, hi
<1>10. f = SubSeq(stream, m + 1, m + n)
  BY <1>3, <1>4, <1>5, <1>8, <1>9, SeqEqual
<1>11. PacketID(f) = PacketID(recvBuf)
  <2>1. 1 \in 1..n /\ 1 + 1 \in 1..n
    BY <1>3, <1>4
  <2> QED
    BY <1>5, <2>1 DEF PacketID, LE16
<1> QED
  BY <1>1, <1>3, <1>10, <1>11 DEF InPlace, m

LEMMA EventInPlace ==
    ASSUME TypeOK, BytesConserved
    PROVE  InPlace(UnknownPacketEvent) /\ UnknownPacketEvent.at = Len(consumed)
<1>1. /\ Bytes(UnknownPacketEvent) = recvBuf /\ UnknownPacketEvent.at = Len(consumed)
      /\ UnknownPacketEvent.ID = PacketID(recvBuf)
  BY DEF UnknownPacketEvent, Bytes
<1> QED
  BY <1>1, BufferLocated DEF InPlace, Arrived

\* One more trace event, at the place where the session is.
LEMMA TraceMore ==
    ASSUME TypeOK, TraceInv, NEW e, traced' = Append(traced, e), InPlace(e),
           e.at = Len(consumed), stream' = stream,
           consumed' \in Seq(Byte), Len(consumed') >= Len(consumed), panics' \in Nat,
           \/ Len(consumed') > Len(consumed) /\ panics' = panics
           \/ panics' = panics + 1
    PROVE  TraceInv'
<1> DEFINE k == Len(traced)
           m == Len(consumed)
<1>1. /\ IsSeq(traced') /\ k \in Nat /\ Len(traced') = k + 1
      /\ \A i \in 1..k : traced'[i] = traced[i]
      /\ traced'[k + 1] = e
  BY AppendAny DEF TraceInv
<1>2. m \in Nat /\ Len(consumed') \in Nat /\ panics \in Nat
  BY DEF TypeOK
<1>3. \A i \in 1..Len(traced') : i \in 1..k \/ i = k + 1
  BY <1>1
<1>4. \A i \in 1..k : InPlace(traced[i]) /\ traced[i].at \in 0..m
  BY DEF TraceInv
<1>5. \A i \in 1..Len(traced') : InPlace(traced'[i]) /\ traced'[i].at \in 0..m
  BY <1>1, <1>2, <1>3, <1>4
<1>6. \A i \in 1..Len(traced') : traced'[i].at \in 0..Len(consumed')
  BY <1>2, <1>5
<1>7. \A i \in 1..Len(traced') : InPlace(traced[i])'
  BY <1>5 DEF InPlace, Bytes, PacketID, LE16
<1>8. ASSUME NEW i \in 1..Len(traced'), NEW j \in 1..Len(traced'), i < j
      PROVE  traced'[i].at <= traced'[j].at
  <2>1. i \in 1..k
    BY <1>1, <1>8
  <2>2. CASE j = k + 1
    BY <1>1, <1>2, <1>4, <2>1, <2>2
  <2>3. CASE j \in 1..k
    BY <1>1, <1>8, <2>1, <2>3 DEF TraceInv
  <2> QED
    BY <1>3, <2>2, <2>3
<1>9. TracedPlaces' = TracedPlaces \cup {m}
  <2>1. \A x : x \in TracedPlaces <=> \E i \in 1..k : x = traced[i].at
    BY DEF TracedPlaces
  <2>2. \A x : x \in TracedPlaces' <=> \E i \in 1..Len(traced') : x = traced'[i].at
    BY DEF TracedPlaces
  <2>3. 1..k \subseteq 1..Len(traced') /\ k + 1 \in 1..Len(traced')
    BY <1>1
  <2>4. ASSUME NEW x PROVE x \in TracedPlaces' <=> x \in TracedPlaces \cup {m}
    BY <1>1, <1>3, <2>1, <2>2, <2>3
  <2> QED
    BY <2>4
<1>10. IsFiniteSet(TracedPlaces)
  BY DEF TraceInv
<1>11. /\ IsFiniteSet(TracedPlaces \cup {m})
       /\ Cardinality(TracedPlaces) \in Nat
       /\ Cardinality(TracedPlaces \cup {m}) =
            IF m \in TracedPlaces THEN Cardinality(TracedPlaces) ELSE Cardinality(TracedPlaces) + 1
  BY <1>10, FS_AddElement, FS_CardinalityType
<1>12. Cardinality(TracedPlaces)' + panics' >= Len(traced') + Surplus'
  <2>1. Cardinality(TracedPlaces) + panics >= k + (IF m \in TracedPlaces THEN 1 ELSE 0)
    BY DEF TraceInv, Surplus
  <2>2. Cardinality(TracedPlaces') = Cardinality(TracedPlaces \cup {m})
    BY <1>9
  <2>3. Surplus' \in {0, 1}
    BY DEF Surplus
  <2>4. CASE panics' = panics + 1
    BY <1>1, <1>2, <1>11, <2>1, <2>2, <2>3, <2>4
  <2>5. CASE Len(consumed') > m /\ panics' = panics
    <3>1. Len(consumed') \notin TracedPlaces'
      <4>1. \A x \in TracedPlaces' : x \in 0..m
        BY <1>5 DEF TracedPlaces
      <4> QED
        BY <1>2, <2>5, <4>1
    <3>2. Surplus' = 0
      BY <3>1 DEF Surplus
    <3> QED
      BY <1>1, <1>2, <1>11, <2>1, <2>2, <2>5, <3>2
  <2> QED
    BY <2>4, <2>5
<1> HIDE DEF k, m
<1>13. IsSeq(traced)'
  BY <1>1 DEF IsSeq
<1> QED
  BY <1>6, <1>7, <1>8, <1>9, <1>11, <1>12, <1>13 DEF TraceInv

\* No trace event: the session may have moved on.
LEMMA TraceSame ==
    ASSUME TypeOK, TraceInv, traced' = traced, stream' = stream,
           consumed' \in Seq(Byte), Len(consumed') >= Len(consumed),
           panics' \in Nat, panics' >= panics
    PROVE  TraceInv'
<1>1. Len(consumed) \in Nat /\ Len(consumed') \in Nat /\ panics \in Nat
  BY DEF TypeOK
<1>2. \A i \in 1..Len(traced) : traced[i].at \in 0..Len(consumed)
  BY DEF TraceInv
<1>3. \A i \in 1..Len(traced) : traced[i].at \in 0..Len(consumed')
  BY <1>1, <1>2
<1>4. TracedPlaces' = TracedPlaces
  BY DEF TracedPlaces
<1>5. Surplus' \in {0, 1} /\ (Surplus' = 1 => Surplus = 1) /\ Surplus \in {0, 1}
  <2>1. \A x \in TracedPlaces : x \in 0..Len(consumed)
    BY <1>2 DEF TracedPlaces
  <2>2. Len(consumed') \in TracedPlaces => Len(consumed') = Len(consumed)
    BY <1>1, <2>1
  <2> QED
    BY <1>4, <2>2 DEF Surplus
<1>6. Cardinality(TracedPlaces) + panics' >= Len(traced) + Surplus'
  <2>1. Cardinality(TracedPlaces) + panics >= Len(traced) + Surplus
    BY DEF TraceInv
  <2>2. Cardinality(TracedPlaces) \in Nat /\ Len(traced) \in Nat
    BY FS_CardinalityType, AppendAny DEF TraceInv
  <2> QED
    BY <1>1, <1>5, <2>1, <2>2
<1>7. \A i \in 1..Len(traced) : InPlace(traced[i])'
  BY DEF TraceInv, InPlace, Bytes, PacketID, LE16
<1>8. IsSeq(traced)'
  BY DEF TraceInv, IsSeq
<1> QED
  BY <1>3, <1>4, <1>6, <1>7, <1>8 DEF TraceInv

LEMMA TraceStep ==
    ASSUME TypeOK, TypeOK', BytesConserved, TraceInv, [Next]_vars
    PROVE  TraceInv'
<1>0. /\ consumed \in Seq(Byte) /\ consumed' \in Seq(Byte) /\ recvBuf \in Seq(Byte)
      /\ panics \in Nat /\ panics' \in Nat
      /\ Len(consumed) \in Nat /\ Len(recvBuf) \in Nat
  <2>1. panics \in 0..MaxPanics /\ panics' \in 0..MaxPanics
    BY DEF TypeOK
  <2>2. consumed \in Seq(Byte) /\ consumed' \in Seq(Byte) /\ recvBuf \in Seq(Byte)
    BY DEF TypeOK
  <2> QED
    BY <2>1, <2>2, BoundsAssumption
<1>1. stream' = stream
  BY DEF Next, Loop, Feed, FeedFaulted, Incomplete, CorruptLength, UnknownPacket, Dispatch,
         HandlerPanic, CopyToFront, RegisterHandler, SetUnknownPacketHandler, SetTraceFunc, vars
<1>2. CASE Dispatch
  <2> DEFINE f == SubSeq(recvBuf, 1, FrameLen(recvBuf))
  <2>1. /\ IsComplete(recvBuf) /\ consumed' = consumed \o f /\ panics' = panics
        /\ traced' = Append(traced, WireInbound) \/ traced' = traced
    BY <1>2 DEF Dispatch
  <2>2. f \in Seq(Byte) /\ Len(f) \in Nat /\ Len(f) >= 2
    BY <1>0, <2>1, CutFrame
  <2> HIDE DEF f
  <2>3. Len(consumed') = Len(consumed) + Len(f)
    BY <1>0, <2>1, <2>2, ConcatProperties
  <2>4. Len(consumed') > Len(consumed) /\ Len(consumed') >= Len(consumed) /\ panics' >= panics
    BY <1>0, <2>1, <2>2, <2>3
  <2>5. InPlace(WireInbound) /\ WireInbound.at = Len(consumed)
    BY <2>1, FrameInPlace
  <2> QED
    BY <1>0, <1>1, <2>1, <2>4, <2>5, TraceMore, TraceSame
<1>3. CASE UnknownPacket
  <2>1. /\ IsUnknown(recvBuf) /\ consumed' = consumed \o recvBuf /\ panics' = panics
        /\ traced' = Append(traced, UnknownPacketEvent) \/ traced' = traced
    BY <1>3 DEF UnknownPacket
  <2>2. Len(consumed') = Len(consumed) + Len(recvBuf) /\ Len(recvBuf) >= 2
    BY <1>0, <2>1, ConcatProperties DEF IsUnknown, HasID
  <2>3. Len(consumed') > Len(consumed) /\ Len(consumed') >= Len(consumed) /\ panics' >= panics
    BY <1>0, <2>1, <2>2
  <2>4. InPlace(UnknownPacketEvent) /\ UnknownPacketEvent.at = Len(consumed)
    BY EventInPlace
  <2> QED
    BY <1>0, <1>1, <2>1, <2>3, <2>4, TraceMore, TraceSame
<1>4. CASE HandlerPanic
  <2>1. /\ IsComplete(recvBuf) /\ consumed' = consumed /\ panics' = panics + 1
        /\ traced' = Append(traced, WireInbound) \/ traced' = traced
    BY <1>4 DEF HandlerPanic
  <2>2. Len(consumed') >= Len(consumed) /\ panics' >= panics
    BY <1>0, <2>1
  <2>3. InPlace(WireInbound) /\ WireInbound.at = Len(consumed)
    BY <2>1, FrameInPlace
  <2> QED
    BY <1>0, <1>1, <2>1, <2>2, <2>3, TraceMore, TraceSame
<1>5. CASE ~Dispatch /\ ~UnknownPacket /\ ~HandlerPanic
  <2>1. UNCHANGED <<traced, consumed, panics>>
    BY <1>5 DEF Next, Loop, Feed, FeedFaulted, Incomplete, CorruptLength, CopyToFront,
                RegisterHandler, SetUnknownPacketHandler, SetTraceFunc, vars, history
  <2>2. Len(consumed') >= Len(consumed) /\ panics' >= panics
    BY <1>0, <2>1
  <2> QED
    BY <1>0, <1>1, <2>1, <2>2, TraceSame
<1> QED
  BY <1>2, <1>3, <1>4, <1>5

\* The trace hook sees the stream in order, every frame at its place, and no
\* place twice but after a handler that panicked there.
THEOREM TraceStaysInOrder ==
    ASSUME BufLen >= MaxFrame
    PROVE  Spec => []TraceInOrder
<1>1. Init => TraceInv
  <2> SUFFICES ASSUME Init PROVE TraceInv
    OBVIOUS
  <2>1. IsSeq(traced) /\ Len(traced) = 0 /\ Len(consumed) = 0 /\ panics = 0
    BY EmptySeq DEF Init, IsSeq
  <2>2. TracedPlaces = {}
    BY <2>1 DEF TracedPlaces
  <2>3. IsFiniteSet(TracedPlaces) /\ Cardinality(TracedPlaces) = 0 /\ Surplus = 0
    BY <2>2, FS_EmptySet DEF Surplus
  <2> QED
    BY <2>1, <2>3 DEF TraceInv
<1>2. TypeOK /\ TypeOK' /\ BytesConserved /\ TraceInv /\ [Next]_vars => TraceInv'
  BY TraceStep
<1>3. TypeOK /\ TraceInv => TraceInOrder
  <2> SUFFICES ASSUME TypeOK, TraceInv PROVE TraceInOrder
    OBVIOUS
  <2>1. Cardinality(TracedPlaces) + panics >= Len(traced)
    <3>1. /\ Cardinality(TracedPlaces) + panics >= Len(traced) + Surplus
          /\ IsFiniteSet(TracedPlaces) /\ IsSeq(traced)
      BY DEF TraceInv
    <3>2. Surplus \in {0, 1}
      BY DEF Surplus
    <3>3. Cardinality(TracedPlaces) \in Nat /\ Len(traced) \in Nat /\ panics \in Nat
      BY <3>1, FS_CardinalityType, AppendAny DEF TypeOK
    <3> QED
      BY <3>1, <3>2, <3>3
  <2>2. \A i \in 1..Len(traced) : InPlace(traced[i])
    BY DEF TraceInv
  <2>3. \A i, j \in 1..Len(traced) : i < j => traced[i].at <= traced[j].at
    BY DEF TraceInv
  <2> QED
    BY <2>1, <2>2, <2>3, Zenon DEF TraceInOrder, InPlace, Bytes, TracedPlaces
<1>4. Spec => []BytesConserved
  BY Conservation
<1> QED
  BY <1>1, <1>2, <1>3, <1>4, TypeCorrect, PTL DEF Spec

-----------------------------------------------------------------------------
(* The reference, and why the cuts of the reads do not show.               *)

\* A non-empty set of naturals has a least member: what stands here for
\* induction.
LEMMA LeastNatural ==
    ASSUME NEW S \in SUBSET Nat, S # {} PROVE \E i \in S : \A j \in S : i <= j
<1> DEFINE R == OpToRel(<, Nat)
<1>1. PICK i \in S : \A j \in S : <<j, i>> \notin R
  BY NatLessThanWellFounded, WFMin
<1>2. R = {ss \in Nat \X Nat : ss[1] < ss[2]}
  BY DEF OpToRel
<1> HIDE DEF R
<1>3. \A j \in S : i <= j
  <2> TAKE j \in S
  <2>1. i \in Nat /\ j \in Nat
    OBVIOUS
  <2>2. ~(j < i)
    BY <1>1, <1>2, <2>1
  <2> QED
    BY <2>1, <2>2
<1> QED
  BY <1>3

\* The function that cuts one piece after another, as RefFrames defines it: from
\* a place where a whole frame stands it leaves the piece and jumps to the right.
Cutting(cut, lo, m, whole, jump, piece) ==
    cut = [i \in lo..m |-> IF i \in whole THEN <<piece[i]>> \o cut[jump[i]] ELSE << >>]

\* Known from a place on, it is known one place earlier.
LEMMA CuttingExtends ==
    ASSUME NEW m \in Nat, NEW lo \in 1..m, NEW whole, NEW jump, NEW piece,
           \A i \in whole : jump[i] \in (i + 1)..m,
           NEW cut, Cutting(cut, lo + 1, m, whole, jump, piece)
    PROVE  \E h : Cutting(h, lo, m, whole, jump, piece)
<1> DEFINE F(g) == [i \in lo..m |-> IF i \in whole THEN <<piece[i]>> \o g[jump[i]] ELSE << >>]
           h == F(cut)
<1>1. \A i \in (lo + 1)..m : cut[i] = h[i]
  <2>1. cut = [i \in (lo + 1)..m |-> IF i \in whole THEN <<piece[i]>> \o cut[jump[i]] ELSE << >>]
    BY DEF Cutting
  <2> DEFINE c == [i \in (lo + 1)..m |-> IF i \in whole THEN <<piece[i]>> \o cut[jump[i]] ELSE << >>]
  <2>2. \A i \in (lo + 1)..m : c[i] = h[i]
    OBVIOUS
  <2> HIDE DEF c, h
  <2>3. cut = c
    BY <2>1 DEF c
  <2> QED
    BY <2>2, <2>3
<1>2. \A i \in lo..m : i \in whole => cut[jump[i]] = h[jump[i]]
  <2> HIDE DEF h
  <2> QED
    BY <1>1
<1>3. F(h) = h
  <2> DEFINE k == h
  <2>1. \A i \in lo..m : i \in whole => cut[jump[i]] = k[jump[i]]
    BY <1>2
  <2> HIDE DEF k
  <2>2. F(k) = F(cut)
    BY <2>1
  <2> QED
    BY <2>2 DEF k
<1> QED
  BY <1>3, Zenon DEF Cutting

\* There is such a function: otherwise take the nearest place to the end from
\* which there is none.
LEMMA CuttingExists ==
    ASSUME NEW m \in Nat \ {0}, NEW whole, NEW jump, NEW piece,
           \A i \in whole : jump[i] \in (i + 1)..m, m \notin whole
    PROVE  \E cut : Cutting(cut, 1, m, whole, jump, piece)
<1> DEFINE Bad == {d \in Nat : d < m /\ ~\E cut : Cutting(cut, m - d, m, whole, jump, piece)}
<1>1. CASE Bad = {}
  <2>1. m - 1 \in Nat /\ m - 1 < m /\ m - (m - 1) = 1
    OBVIOUS
  <2> QED
    BY <1>1, <2>1
<1>2. CASE Bad # {}
  <2>1. PICK d \in Bad : \A e \in Bad : d <= e
    BY <1>2, LeastNatural
  <2>2. d \in Nat /\ d < m /\ ~\E cut : Cutting(cut, m - d, m, whole, jump, piece)
    BY <2>1
  <2>3. CASE d = 0
    <3> DEFINE cut == [i \in m..m |-> << >>]
    <3>1. \A i \in m..m : i \notin whole
      OBVIOUS
    <3>2. cut = [i \in m..m |-> IF i \in whole THEN <<piece[i]>> \o cut[jump[i]] ELSE << >>]
      BY <3>1
    <3>3. Cutting(cut, m - d, m, whole, jump, piece)
      BY <2>3, <3>2 DEF Cutting
    <3> QED
      BY <2>2, <3>3
  <2>4. CASE d # 0
    <3>1. d - 1 \in Nat /\ d - 1 < m /\ d - 1 \notin Bad /\ m - (d - 1) = (m - d) + 1 /\ m - d \in 1..m
      BY <2>1, <2>2, <2>4
    <3>2. PICK cut : Cutting(cut, (m - d) + 1, m, whole, jump, piece)
      BY <3>1
    <3> QED
      BY <2>2, <3>1, <3>2, CuttingExtends
  <2> QED
    BY <2>3, <2>4
<1> QED
  BY <1>1, <1>2

\* So the recursive function of RefFrames satisfies its equation.
LEMMA RefFramesCut ==
    ASSUME NEW s \in Seq(Byte)
    PROVE  \E cut :
             /\ RefFrames(s) = cut[1]
             /\ \A i \in 1..(Len(s) + 1) :
                  cut[i] = IF IsComplete(From(s, i))
                           THEN <<SubSeq(From(s, i), 1, FrameLen(From(s, i)))>>
                                  \o cut[i + FrameLen(From(s, i))]
                           ELSE << >>
<1> DEFINE m == Len(s) + 1
           E(cut) == cut = [i \in 1..(Len(s) + 1) |->
                              IF IsComplete(From(s, i))
                              THEN <<SubSeq(From(s, i), 1, FrameLen(From(s, i)))>>
                                     \o cut[i + FrameLen(From(s, i))]
                              ELSE << >>]
<1>1. RefFrames(s) = (CHOOSE cut : E(cut))[1]
  BY DEF RefFrames
<1> DEFINE whole == {i \in 1..(Len(s) + 1) : IsComplete(From(s, i))}
           jump == [i \in whole |-> i + FrameLen(From(s, i))]
           piece == [i \in whole |-> SubSeq(From(s, i), 1, FrameLen(From(s, i)))]
<1>2. Len(s) \in Nat /\ m \in Nat \ {0}
  OBVIOUS
<1>3. \A i \in whole : jump[i] \in (i + 1)..m /\ i # m
  <2> TAKE i \in whole
  <2>1. i \in 1..m /\ IsComplete(From(s, i)) /\ From(s, i) \in Seq(Byte) /\ Len(From(s, i)) = m - i
    BY <1>2, SubSeqProperties DEF From
  <2>2. FrameLen(From(s, i)) \in 2..(m - i)
    BY <2>1, CutFrame
  <2> QED
    BY <1>2, <2>1, <2>2
<1>4. PICK c : Cutting(c, 1, m, whole, jump, piece)
  <2>1. m \notin whole /\ \A i \in whole : jump[i] \in (i + 1)..m
    BY <1>3
  <2> HIDE DEF whole, jump, piece, m
  <2> QED
    BY <1>2, <2>1, CuttingExists
<1>5. E(c)
  <2>1. c = [i \in 1..m |-> IF i \in whole THEN <<piece[i]>> \o c[jump[i]] ELSE << >>]
    BY <1>4 DEF Cutting
  <2>2. \A i \in 1..m : (IF i \in whole THEN <<piece[i]>> \o c[jump[i]] ELSE << >>) =
                          IF IsComplete(From(s, i))
                          THEN <<SubSeq(From(s, i), 1, FrameLen(From(s, i)))>>
                                 \o c[i + FrameLen(From(s, i))]
                          ELSE << >>
    OBVIOUS
  <2> QED
    BY <2>1, <2>2, Zenon
<1>6. PICK d : d = (CHOOSE cut : E(cut)) /\ E(d)
  <2> HIDE DEF E
  <2> QED
    BY <1>5, Zenon
<1>7. \A i \in 1..(Len(s) + 1) :
         d[i] = IF IsComplete(From(s, i))
                THEN <<SubSeq(From(s, i), 1, FrameLen(From(s, i)))>>
                       \o d[i + FrameLen(From(s, i))]
                ELSE << >>
  <2> DEFINE g == [i \in 1..(Len(s) + 1) |->
                              IF IsComplete(From(s, i))
                              THEN <<SubSeq(From(s, i), 1, FrameLen(From(s, i)))>>
                                     \o d[i + FrameLen(From(s, i))]
                              ELSE << >>]
  <2>1. d = g
    BY <1>6
  <2>2. \A i \in 1..(Len(s) + 1) :
         g[i] = IF IsComplete(From(s, i))
                THEN <<SubSeq(From(s, i), 1, FrameLen(From(s, i)))>>
                       \o d[i + FrameLen(From(s, i))]
                ELSE << >>
    OBVIOUS
  <2> HIDE DEF g
  <2> QED
    BY <2>1, <2>2
<1>8. RefFrames(s) = d[1]
  BY <1>1, <1>6
<1> QED
  BY <1>7, <1>8

\* cut[i] is what the reference cuts from the i-th byte of s on.
CutOf(cut, s) ==
    \A i \in 1..(Len(s) + 1) :
      cut[i] = IF IsComplete(From(s, i))
               THEN <<SubSeq(From(s, i), 1, FrameLen(From(s, i)))>>
                      \o cut[i + FrameLen(From(s, i))]
               ELSE << >>

\* The first a bytes of s.
LEMMA FirstBytes ==
    ASSUME NEW s \in Seq(Byte), NEW a \in 0..Len(s)
    PROVE  /\ SubSeq(s, 1, a) \in Seq(Byte) /\ Len(SubSeq(s, 1, a)) = a
           /\ \A i \in 1..a : SubSeq(s, 1, a)[i] = s[i]
<1>1. Len(s) \in Nat /\ a \in Nat /\ \A i \in 1..a : i \in 1..Len(s)
  OBVIOUS
<1>2. \A i \in 1..a : s[i] \in Byte
  BY <1>1, ElementOfSeq
<1>3. /\ SubSeq(s, 1, a) \in Seq(Byte)
      /\ Len(SubSeq(s, 1, a)) = IF 1 <= a THEN a - 1 + 1 ELSE 0
      /\ \A i \in 1..(a - 1 + 1) : SubSeq(s, 1, a)[i] = s[1 + i - 1]
  BY <1>1, <1>2, SubSeqProperties
<1> QED
  BY <1>1, <1>3

\* The bytes of s from its i-th on.
LEMMA RestBytes ==
    ASSUME NEW s \in Seq(Byte), NEW i \in 1..(Len(s) + 1)
    PROVE  /\ From(s, i) \in Seq(Byte) /\ Len(From(s, i)) = Len(s) + 1 - i
           /\ \A j \in 1..(Len(s) + 1 - i) : From(s, i)[j] = s[i + j - 1]
<1>1. Len(s) \in Nat /\ i \in Int /\ 1 <= i /\ i <= Len(s) + 1
  OBVIOUS
<1>2. \A j \in i..Len(s) : s[j] \in Byte
  <2>1. \A j \in i..Len(s) : j \in 1..Len(s)
    BY <1>1
  <2> QED
    BY <2>1, ElementOfSeq
<1>3. /\ SubSeq(s, i, Len(s)) \in Seq(Byte)
      /\ Len(SubSeq(s, i, Len(s))) = IF i <= Len(s) THEN Len(s) - i + 1 ELSE 0
      /\ \A j \in 1..(Len(s) - i + 1) : SubSeq(s, i, Len(s))[j] = s[i + j - 1]
  BY <1>1, <1>2, SubSeqProperties
<1>4. Len(s) - i + 1 = Len(s) + 1 - i /\ (i <= Len(s) \/ Len(s) + 1 - i = 0)
  BY <1>1
<1> QED
  BY <1>1, <1>3, <1>4 DEF From

\* Where a frame found at place i of s ends.
LEMMA PlaceAfter ==
    ASSUME NEW s \in Seq(Byte), NEW i \in 1..(Len(s) + 1), IsComplete(From(s, i))
    PROVE  /\ From(s, i) \in Seq(Byte) /\ Len(From(s, i)) = Len(s) + 1 - i
           /\ FrameLen(From(s, i)) \in Nat
           /\ i + FrameLen(From(s, i)) \in (i + 1)..(Len(s) + 1)
           /\ SubSeq(From(s, i), 1, FrameLen(From(s, i))) \in Frame
<1>1. From(s, i) \in Seq(Byte) /\ Len(From(s, i)) = Len(s) + 1 - i /\ Len(s) \in Nat
  BY RestBytes, LenProperties
<1>2. /\ FrameLen(From(s, i)) \in 2..(Len(s) + 1 - i)
      /\ SubSeq(From(s, i), 1, FrameLen(From(s, i))) \in Seq(Byte)
  BY <1>1, CutFrame
<1> QED
  BY <1>1, <1>2 DEF Frame

\* What it cuts are frames.
LEMMA CutIsFrames ==
    ASSUME NEW s \in Seq(Byte), NEW cut, CutOf(cut, s)
    PROVE  \A i \in 1..(Len(s) + 1) : cut[i] \in Seq(Frame)
<1> DEFINE m == Len(s) + 1
           Bad == {d \in Nat : d < m /\ cut[m - d] \notin Seq(Frame)}
<1>1. Len(s) \in Nat /\ m \in Nat
  OBVIOUS
<1>2. ASSUME Bad # {} PROVE FALSE
  <2>1. PICK d \in Bad : \A e \in Bad : d <= e
    BY <1>2, LeastNatural
  <2> DEFINE i == m - d
             n == FrameLen(From(s, i))
  <2>2. d \in Nat /\ d < m /\ i \in 1..m /\ cut[i] \notin Seq(Frame)
    BY <1>1, <2>1
  <2>3. CASE IsComplete(From(s, i))
    <3>1. /\ n \in Nat /\ i + n \in (i + 1)..m
          /\ SubSeq(From(s, i), 1, n) \in Frame
      BY <2>2, <2>3, PlaceAfter
    <3>2. d - n \in Nat /\ d - n < d /\ i + n = m - (d - n)
      BY <1>1, <2>2, <3>1
    <3>3. cut[i + n] \in Seq(Frame)
      BY <2>1, <2>2, <3>2
    <3>4. cut[i] = <<SubSeq(From(s, i), 1, n)>> \o cut[i + n]
      BY <2>2, <2>3 DEF CutOf
    <3> QED
      BY <2>2, <3>1, <3>3, <3>4, ConcatProperties
  <2>4. CASE ~IsComplete(From(s, i))
    <3>1. cut[i] = << >>
      BY <2>2, <2>4 DEF CutOf
    <3> QED
      BY <2>2, <3>1, EmptySeq
  <2> QED
    BY <2>3, <2>4
<1>3. ASSUME NEW i \in 1..m PROVE cut[i] \in Seq(Frame)
  <2>1. m - i \in Nat /\ m - i < m /\ m - (m - i) = i
    BY <1>1
  <2>2. m - i \notin Bad
    BY <1>2
  <2> QED
    BY <2>1, <2>2
<1> QED
  BY <1>3

\* The frames of ds stand one after the other at the places at of s.
ChainIn(at, ds, s) ==
    /\ at \in [1..(Len(ds) + 1) -> 1..(Len(s) + 1)]
    /\ at[1] = 1
    /\ \A n \in 1..Len(ds) :
         LET rest == From(s, at[n])
         IN  /\ IsComplete(rest)
             /\ at[n + 1] = at[n] + FrameLen(rest)
             /\ ds[n] = SubSeq(rest, 1, FrameLen(rest))

\* Concatenating frame sequences is associative.
LEMMA FramesAssociative ==
    ASSUME NEW a \in Seq(Frame), NEW b \in Seq(Frame), NEW c \in Seq(Frame)
    PROVE  (a \o b) \o c = a \o (b \o c)
BY ConcatAssociative

\* Such frames are what the reference cuts first.
LEMMA ChainIsCut ==
    ASSUME NEW s \in Seq(Byte), NEW cut, CutOf(cut, s), NEW ds \in Seq(Frame),
           NEW at, ChainIn(at, ds, s)
    PROVE  cut[1] = ds \o cut[at[Len(ds) + 1]]
<1> DEFINE N == Len(ds)
           rest == cut[at[N + 1]]
           Bad == {d \in Nat : d <= N /\ cut[at[N + 1 - d]] # SubSeq(ds, N + 1 - d, N) \o rest}
<1>1. /\ N \in Nat /\ Len(s) \in Nat /\ N + 1 \in 1..(N + 1) /\ at[1] = 1
      /\ \A n \in 1..(N + 1) : at[n] \in 1..(Len(s) + 1)
  <2>1. N \in Nat /\ Len(s) \in Nat
    BY LenProperties
  <2>2. at \in [1..(N + 1) -> 1..(Len(s) + 1)] /\ at[1] = 1
    BY DEF ChainIn
  <2> HIDE DEF N
  <2> QED
    BY <2>1, <2>2
<1>2. \A n \in 1..N : LET p == From(s, at[n])
                     IN  /\ IsComplete(p)
                         /\ at[n + 1] = at[n] + FrameLen(p)
                         /\ ds[n] = SubSeq(p, 1, FrameLen(p))
  BY DEF ChainIn
<1>3. rest \in Seq(Frame)
  BY <1>1, CutIsFrames
<1>4. \A n \in 1..N : ds[n] \in Frame /\ SubSeq(ds, n, N) = <<ds[n]>> \o SubSeq(ds, n + 1, N)
  <2> TAKE n \in 1..N
  <2>1. n \in 1..Len(ds) /\ N \in n..Len(ds)
    BY <1>1
  <2> QED
    BY <2>1, ElementOfSeq, SubSeqRecursiveFirst
<1>5. SubSeq(ds, 1, N) = ds
  BY SubSeqFull
<1> HIDE DEF N, rest
<1>6. \A n \in 1..(N + 1) : SubSeq(ds, n, N) \in Seq(Frame)
  <2> TAKE n \in 1..(N + 1)
  <2>1. n \in Int /\ N \in Int /\ \A i \in n..N : i \in 1..N
    BY <1>1
  <2>2. \A i \in n..N : ds[i] \in Frame
    BY <1>4, <2>1
  <2> QED
    BY <2>1, <2>2, SubSeqProperties
<1>7. ASSUME Bad # {} PROVE FALSE
  <2>1. PICK d \in Bad : \A e \in Bad : d <= e
    BY <1>7, LeastNatural
  <2> DEFINE n == N + 1 - d
  <2>2. d \in Nat /\ d <= N /\ n \in 1..(N + 1) /\ cut[at[n]] # SubSeq(ds, n, N) \o rest
    BY <1>1, <2>1
  <2>3. CASE d = 0
    <3>1. n = N + 1 /\ n \in Int /\ N \in Int /\ N < n
      BY <1>1, <2>3
    <3> HIDE DEF n
    <3>2. SubSeq(ds, n, N) = << >>
      BY <3>1, SubSeqEmpty
    <3>3. SubSeq(ds, n, N) \o rest = rest
      BY <1>3, <3>2, ConcatEmptySeq
    <3> QED
      BY <2>2, <3>1, <3>3 DEF rest, N
  <2>4. CASE d # 0
    <3>1. d - 1 \in Nat /\ d - 1 <= N /\ N + 1 - (d - 1) = n + 1 /\ n \in 1..N
      BY <1>1, <2>2, <2>4
    <3>2. ~(d <= d - 1)
      BY <2>2
    <3> HIDE DEF n
    <3>3. cut[at[n + 1]] = SubSeq(ds, n + 1, N) \o rest
      BY <2>1, <3>1, <3>2
    <3>4. cut[at[n]] = <<ds[n]>> \o cut[at[n + 1]]
      <4>1. at[n] \in 1..(Len(s) + 1)
        BY <1>1, <2>2
      <4> DEFINE p == From(s, at[n])
      <4>2. IsComplete(p) /\ at[n + 1] = at[n] + FrameLen(p) /\ ds[n] = SubSeq(p, 1, FrameLen(p))
        BY <1>2, <3>1
      <4>3. cut[at[n]] = <<SubSeq(p, 1, FrameLen(p))>> \o cut[at[n] + FrameLen(p)]
        BY <4>1, <4>2 DEF CutOf
      <4> QED
        BY <4>2, <4>3
    <3>5. ds[n] \in Frame /\ <<ds[n]>> \in Seq(Frame) /\ SubSeq(ds, n + 1, N) \in Seq(Frame)
      <4>1. n + 1 \in 1..(N + 1)
        BY <1>1, <3>1
      <4>2. ds[n] \in Frame
        BY <1>4, <3>1
      <4>3. <<ds[n]>> \in Seq(Frame)
        BY <4>2
      <4>4. SubSeq(ds, n + 1, N) \in Seq(Frame)
        BY <1>6, <4>1
      <4> QED
        BY <4>2, <4>3, <4>4
    <3>6. <<ds[n]>> \o (SubSeq(ds, n + 1, N) \o rest) = SubSeq(ds, n, N) \o rest
      <4>1. SubSeq(ds, n, N) = <<ds[n]>> \o SubSeq(ds, n + 1, N)
        BY <1>4, <3>1
      <4>2. (<<ds[n]>> \o SubSeq(ds, n + 1, N)) \o rest = <<ds[n]>> \o (SubSeq(ds, n + 1, N) \o rest)
        BY <1>3, <3>5, FramesAssociative, Zenon
      <4> QED
        BY <4>1, <4>2, Zenon
    <3> QED
      BY <2>2, <3>3, <3>4, <3>6
  <2> QED
    BY <2>3, <2>4
<1>8. cut[at[1]] = SubSeq(ds, 1, N) \o rest
  <2>1. N \in Nat /\ N <= N /\ N + 1 - N = 1
    BY <1>1
  <2>2. N \notin Bad
    BY <1>7
  <2> QED
    BY <2>1, <2>2
<1> QED
  BY <1>1, <1>5, <1>8 DEF rest, N

\* More bytes leave the frames where they stand.
LEMMA ChainStays ==
    ASSUME NEW s \in Seq(Byte), NEW t \in Seq(Byte), StartsWith(s, t), NEW ds, Len(ds) \in Nat,
           NEW at, ChainIn(at, ds, s)
    PROVE  ChainIn(at, ds, t)
<1>1. Len(s) \in Nat /\ Len(t) \in Nat /\ Len(s) <= Len(t)
  BY DEF StartsWith
<1>2. at \in [1..(Len(ds) + 1) -> 1..(Len(t) + 1)] /\ at[1] = 1
  BY <1>1 DEF ChainIn
<1>3. ASSUME NEW n \in 1..Len(ds)
      PROVE  LET rest == From(t, at[n])
             IN  /\ IsComplete(rest)
                 /\ at[n + 1] = at[n] + FrameLen(rest)
                 /\ ds[n] = SubSeq(rest, 1, FrameLen(rest))
  <2> DEFINE i == at[n]
             b == From(s, i)
             c == From(t, i)
             k == FrameLen(b)
  <2>1. n \in 1..(Len(ds) + 1) /\ i \in 1..(Len(s) + 1) /\ i \in 1..(Len(t) + 1)
    BY <1>1 DEF ChainIn
  <2>2. IsComplete(b) /\ at[n + 1] = i + k /\ ds[n] = SubSeq(b, 1, k)
    BY DEF ChainIn
  <2>3. /\ b \in Seq(Byte) /\ Len(b) = Len(s) + 1 - i /\ c \in Seq(Byte) /\ Len(c) = Len(t) + 1 - i
        /\ \A j \in 1..(Len(s) + 1 - i) : b[j] = s[i + j - 1]
        /\ \A j \in 1..(Len(t) + 1 - i) : c[j] = t[i + j - 1]
    BY <2>1, RestBytes
  <2>4. StartsWith(b, c)
    <3> HIDE DEF i, b, c
    <3>1. i \in Int /\ 1 <= i /\ i <= Len(s) + 1
      BY <1>1, <2>1
    <3>2. Len(b) \in Nat /\ Len(c) \in Nat /\ Len(b) <= Len(c)
      BY <1>1, <2>3, <3>1
    <3>3. \A j \in 1..Len(b) : i + j - 1 \in 1..Len(s) /\ j \in 1..(Len(s) + 1 - i)
                              /\ j \in 1..(Len(t) + 1 - i)
      BY <1>1, <2>3, <3>1
    <3>4. \A j \in 1..Len(s) : s[j] = t[j]
      BY DEF StartsWith
    <3>5. \A j \in 1..Len(b) : b[j] = c[j]
      BY <2>3, <3>4, <3>3
    <3> QED
      BY <3>5, <3>2 DEF StartsWith
  <2>5. IsComplete(c) /\ FrameLen(c) = k
    BY <2>2, <2>3, <2>4, MoreBytes
  <2>6. k \in 2..Len(b)
    BY <2>2, <2>3, CutFrame
  <2>7. SubSeq(b, 1, k) = SubSeq(c, 1, k)
    <3> HIDE DEF b, c, k, i
    <3>1. \A j \in 1..k : j \in 1..Len(b) /\ j \in 1..Len(c)
      BY <1>1, <2>3, <2>4, <2>6 DEF StartsWith
    <3>2. \A j \in 1..k : b[j] \in Byte /\ c[j] \in Byte /\ b[j] = c[j]
      BY <2>3, <2>4, <3>1, ElementOfSeq DEF StartsWith
    <3>3. k \in Int /\ 1 <= k /\ k - 1 + 1 = k /\ \A j \in 1..k : 1 + j - 1 = j
      BY <2>3, <2>6
    <3>4. /\ SubSeq(b, 1, k) \in Seq(Byte)
          /\ Len(SubSeq(b, 1, k)) = k
          /\ \A j \in 1..k : SubSeq(b, 1, k)[j] = b[j]
      BY <3>2, <3>3, SubSeqProperties
    <3>5. /\ SubSeq(c, 1, k) \in Seq(Byte)
          /\ Len(SubSeq(c, 1, k)) = k
          /\ \A j \in 1..k : SubSeq(c, 1, k)[j] = c[j]
      BY <3>2, <3>3, SubSeqProperties
    <3> QED
      BY <3>2, <3>4, <3>5, SeqEqual
  <2> QED
    BY <2>2, <2>5, <2>7
<1> QED
  BY <1>2, <1>3 DEF ChainIn

\* Appending a frame.
LEMMA OneMoreFrame ==
    ASSUME NEW ds \in Seq(Frame), NEW f \in Frame
    PROVE  /\ Len(ds) \in Nat /\ Len(Append(ds, f)) = Len(ds) + 1
           /\ Append(ds, f)[Len(ds) + 1] = f
           /\ \A n \in 1..Len(ds) : Append(ds, f)[n] = ds[n]
BY AppendProperties, LenProperties

\* f is the frame at place i of s.
FrameAt(s, i, f) ==
    LET rest == From(s, i) IN IsComplete(rest) /\ f = SubSeq(rest, 1, FrameLen(rest))

\* One more frame, found where the last one ends.
LEMMA ChainGrows ==
    ASSUME NEW s \in Seq(Byte), NEW ds \in Seq(Frame), NEW at, ChainIn(at, ds, s),
           NEW f \in Frame, FrameAt(s, at[Len(ds) + 1], f)
    PROVE  \E h : /\ ChainIn(h, Append(ds, f), s)
                  /\ h[Len(Append(ds, f)) + 1]
                       = at[Len(ds) + 1] + FrameLen(From(s, at[Len(ds) + 1]))
<1> DEFINE N == Len(ds)
           es == Append(ds, f)
           place == at[Len(ds) + 1]
           rest == From(s, place)
<1>0. IsComplete(rest) /\ f = SubSeq(rest, 1, FrameLen(rest))
  BY DEF FrameAt
<1>1. /\ N \in Nat /\ Len(es) = N + 1 /\ es[N + 1] = f
      /\ \A n \in 1..N : es[n] = ds[n]
  BY OneMoreFrame, Zenon
<1> DEFINE next == place + FrameLen(rest)
           h == [n \in 1..(N + 2) |-> IF n = N + 2 THEN next ELSE at[n]]
<1>2. at \in [1..(N + 1) -> 1..(Len(s) + 1)] /\ at[1] = 1
  BY DEF ChainIn
<1>3. \A n \in 1..N : LET p == From(s, at[n])
                      IN  /\ IsComplete(p)
                          /\ at[n + 1] = at[n] + FrameLen(p)
                          /\ ds[n] = SubSeq(p, 1, FrameLen(p))
  BY DEF ChainIn
<1> HIDE DEF N, es, place
<1>4. place \in 1..(Len(s) + 1)
  BY <1>1, <1>2 DEF N, place
<1>5. next \in 1..(Len(s) + 1)
  BY <1>0, <1>4, PlaceAfter
<1> HIDE DEF next, rest
<1>6. h \in [1..(N + 2) -> 1..(Len(s) + 1)] /\ h[1] = 1 /\ h[N + 2] = next
      /\ \A n \in 1..(N + 1) : h[n] = at[n]
  BY <1>1, <1>2, <1>5
<1> HIDE DEF h
<1>7. ASSUME NEW n \in 1..(N + 1)
      PROVE  LET p == From(s, h[n])
             IN  /\ IsComplete(p)
                 /\ h[n + 1] = h[n] + FrameLen(p)
                 /\ es[n] = SubSeq(p, 1, FrameLen(p))
  <2>1. CASE n = N + 1
    <3>1. h[n] = place /\ h[n + 1] = next /\ es[n] = f
      BY <1>1, <1>6, <2>1 DEF N, place
    <3> QED
      BY <1>0, <3>1 DEF next, rest
  <2>2. CASE n # N + 1
    <3>1. n \in 1..N /\ h[n] = at[n] /\ h[n + 1] = at[n + 1] /\ es[n] = ds[n]
      BY <1>1, <1>6, <2>2
    <3> QED
      BY <1>3, <3>1
  <2> QED
    BY <2>1, <2>2
<1>8. ChainIn(h, es, s)
  <2>1. Len(es) + 1 = N + 2
    BY <1>1
  <2> QED
    BY <1>1, <1>6, <1>7, <2>1 DEF ChainIn
<1>9. h[Len(es) + 1] = next
  BY <1>1, <1>6
<1> QED
  BY <1>8, <1>9 DEF es, next, rest, place

\* The bytes the session has been given.
Received == SubSeq(stream, 1, accepted)

\* They are what was consumed, then the buffer.
LEMMA ReceivedEnds ==
    ASSUME TypeOK, BytesConserved
    PROVE  /\ Received \in Seq(Byte) /\ Len(Received) = accepted
           /\ accepted = Len(consumed) + Len(recvBuf)
           /\ \A i \in 1..accepted : Received[i] = stream[i]
           /\ From(Received, Len(consumed) + 1) = recvBuf
<1>1. /\ stream \in Seq(Byte) /\ consumed \in Seq(Byte) /\ recvBuf \in Seq(Byte)
      /\ Len(stream) \in Nat /\ accepted \in 0..Len(stream)
  <2>1. stream \in Seq(Byte) /\ fed \in 0..Len(stream) /\ accepted \in 0..fed
    BY StreamsAssumption DEF TypeOK
  <2> QED
    BY <2>1 DEF TypeOK
<1>2. \A i \in 1..accepted : stream[i] \in Byte
  <2>1. \A i \in 1..accepted : i \in 1..Len(stream)
    BY <1>1
  <2> QED
    BY <1>1, <2>1, ElementOfSeq
<1>3. /\ Received \in Seq(Byte) /\ Len(Received) = accepted
      /\ \A i \in 1..accepted : Received[i] = stream[i]
  BY <1>1, FirstBytes DEF Received
<1>4. accepted = Len(consumed) + Len(recvBuf) /\ accepted <= Len(stream) /\ recvBuf = Arrived
  BY BufferLocated
<1> DEFINE m == Len(consumed) + 1
           n == Len(recvBuf)
<1>5. m \in Int /\ m >= 1 /\ n \in Nat /\ accepted \in Int /\ accepted - m + 1 = n
  BY <1>1, <1>4
<1>6. \A i \in m..accepted : Received[i] \in Byte /\ stream[i] \in Byte /\ Received[i] = stream[i]
  BY <1>2, <1>3, <1>5
<1> HIDE DEF m, n
<1>7. /\ SubSeq(stream, m, accepted) \in Seq(Byte)
      /\ Len(SubSeq(stream, m, accepted)) = IF m <= accepted THEN accepted - m + 1 ELSE 0
      /\ \A i \in 1..(accepted - m + 1) : SubSeq(stream, m, accepted)[i] = stream[m + i - 1]
  BY <1>5, <1>6, SubSeqProperties
<1>8. /\ SubSeq(Received, m, accepted) \in Seq(Byte)
      /\ Len(SubSeq(Received, m, accepted)) = IF m <= accepted THEN accepted - m + 1 ELSE 0
      /\ \A i \in 1..(accepted - m + 1) : SubSeq(Received, m, accepted)[i] = Received[m + i - 1]
  BY <1>5, <1>6, SubSeqProperties
<1>9. SubSeq(Received, m, accepted) = SubSeq(stream, m, accepted)
  <2>1. \A i \in 1..(accepted - m + 1) : m + i - 1 \in m..accepted
    BY <1>5
  <2>2. (IF m <= accepted THEN accepted - m + 1 ELSE 0) = accepted - m + 1
    BY <1>5
  <2> QED
    BY <1>6, <1>7, <1>8, <2>1, <2>2, SeqEqual
<1>10. From(Received, m) = recvBuf
  BY <1>3, <1>4, <1>9 DEF From, Arrived, m
<1> QED
  BY <1>3, <1>4, <1>10 DEF m

\* Feed has looked at all it holds: it has left the loop and taken no new bytes.
LookedAt == pc = "done" \/ faulted \/ (pc = "idle" /\ result = "nil")

\* Until an unknown ID is met, the frames dispatched stand one after the other in
\* what was received and end where the buffer begins; when Feed has looked at
\* all it holds, there is no whole frame at the front of the buffer.
ChunkInv ==
    /\ unknowns = 0 =>
         \E at : ChainIn(at, dispatched, Received) /\ at[Len(dispatched) + 1] = Len(consumed) + 1
    /\ LookedAt => ~IsComplete(recvBuf)

\* The bytes received grow at their end.
LEMMA ReceivedGrows ==
    ASSUME TypeOK, TypeOK', stream' = stream, accepted' >= accepted
    PROVE  StartsWith(Received, Received') /\ Received \in Seq(Byte) /\ Received' \in Seq(Byte)
<1>1. /\ stream \in Seq(Byte) /\ accepted \in 0..Len(stream) /\ accepted' \in 0..Len(stream)
      /\ Len(stream) \in Nat
  <2>1. stream \in Seq(Byte)
    BY StreamsAssumption DEF TypeOK
  <2>2. Len(stream) \in Nat
    BY <2>1, LenProperties
  <2>3. fed \in 0..Len(stream) /\ accepted \in 0..fed
    BY DEF TypeOK
  <2>4. fed' \in 0..Len(stream) /\ accepted' \in 0..fed'
    BY DEF TypeOK
  <2> QED
    BY <2>1, <2>2, <2>3, <2>4
<1> DEFINE s == SubSeq(stream, 1, accepted)
           t == SubSeq(stream, 1, accepted')
<1>2. /\ s \in Seq(Byte) /\ Len(s) = accepted
      /\ \A i \in 1..accepted : s[i] = stream[i]
  BY <1>1, FirstBytes
<1>3. /\ t \in Seq(Byte) /\ Len(t) = accepted'
      /\ \A i \in 1..accepted' : t[i] = stream[i]
  BY <1>1, FirstBytes
<1>4. Received = s /\ Received' = t
  BY DEF Received
<1> HIDE DEF s, t
<1>5. StartsWith(s, t)
  <2>1. accepted \in Nat /\ accepted' \in Nat /\ \A i \in 1..accepted : i \in 1..accepted'
    BY <1>1
  <2> QED
    BY <1>2, <1>3, <2>1 DEF StartsWith
<1> QED
  BY <1>2, <1>3, <1>4, <1>5

\* Every step keeps ChunkInv.
LEMMA ChunkStep ==
    ASSUME BufLen >= MaxFrame, TypeOK, TypeOK', ConservedInv, FaultInv, ChunkInv, [Next]_vars
    PROVE  ChunkInv'
<1>0. BytesConserved /\ recvBuf \in Seq(Byte) /\ consumed \in Seq(Byte) /\ dispatched \in Seq(Frame)
  BY DEF ConservedInv, TypeOK
<1>1. stream' = stream /\ accepted' >= accepted
  <2>1. /\ stream' = stream
        /\ accepted' = accepted \/ \E n \in 0..(Len(stream) - fed) : accepted' = accepted + n
    BY DEF Next, Loop, Feed, FeedFaulted, Incomplete, CorruptLength, UnknownPacket, Dispatch,
           HandlerPanic, CopyToFront, RegisterHandler, SetUnknownPacketHandler,
           SetTraceFunc, vars, history
  <2>2. accepted \in Nat
    BY <1>0, ReceivedEnds
  <2> QED
    BY <2>1, <2>2
<1>2. StartsWith(Received, Received') /\ Received \in Seq(Byte) /\ Received' \in Seq(Byte)
  BY <1>1, ReceivedGrows
<1>3. CASE Dispatch
  <2> DEFINE f == SubSeq(recvBuf, 1, FrameLen(recvBuf))
  <2>1. /\ IsComplete(recvBuf) /\ pc = "loop" /\ ~faulted
        /\ dispatched' = Append(dispatched, f) /\ consumed' = consumed \o f
        /\ UNCHANGED <<accepted, unknowns, pc, faulted>>
    BY <1>3 DEF Dispatch, FaultInv
  <2>2. f \in Frame /\ Len(f) = FrameLen(recvBuf)
    BY <1>0, <2>1, CutFrame DEF Frame
  <2>3. Received' = Received
    BY <1>1, <2>1 DEF Received
  <2>4. From(Received, Len(consumed) + 1) = recvBuf
    BY <1>0, ReceivedEnds
  <2>5. Len(consumed') + 1 = Len(consumed) + 1 + FrameLen(recvBuf)
    BY <1>0, <2>1, <2>2, ConcatProperties DEF Frame
  <2>6. ASSUME unknowns = 0
        PROVE  \E at : /\ ChainIn(at, dispatched', Received)
                       /\ at[Len(dispatched') + 1] = Len(consumed') + 1
    <3>1. PICK at : ChainIn(at, dispatched, Received) /\ at[Len(dispatched) + 1] = Len(consumed) + 1
      BY <2>6 DEF ChunkInv
    <3>2. \E h : /\ ChainIn(h, Append(dispatched, f), Received)
                 /\ h[Len(Append(dispatched, f)) + 1] = Len(consumed) + 1 + FrameLen(recvBuf)
      <4>1. FrameAt(Received, at[Len(dispatched) + 1], f)
        BY <2>1, <2>4, <3>1 DEF FrameAt
      <4> HIDE DEF f
      <4>2. \E h : /\ ChainIn(h, Append(dispatched, f), Received)
                   /\ h[Len(Append(dispatched, f)) + 1]
                        = at[Len(dispatched) + 1] + FrameLen(From(Received, at[Len(dispatched) + 1]))
        BY <1>0, <1>2, <2>2, <3>1, <4>1, ChainGrows, Zenon
      <4> QED
        BY <2>4, <3>1, <4>2, Zenon
    <3> QED
      BY <2>1, <2>5, <3>2
  <2> HIDE DEF f
  <2> QED
    BY <2>1, <2>3, <2>6 DEF ChunkInv, LookedAt
<1>4. CASE UnknownPacket
  <2>1. unknowns' = unknowns + 1 /\ recvBuf' = << >>
    BY <1>4 DEF UnknownPacket
  <2>2. unknowns' # 0
    BY <2>1 DEF TypeOK
  <2>3. ~IsComplete(recvBuf')
    BY <2>1, EmptySeq DEF IsComplete, IsSized, HasID
  <2> QED
    BY <2>2, <2>3 DEF ChunkInv
<1>5. CASE ~Dispatch /\ ~UnknownPacket
  <2>1. UNCHANGED <<dispatched, consumed, unknowns>>
    BY <1>5 DEF Next, Loop, Feed, FeedFaulted, Incomplete, CorruptLength, HandlerPanic,
                CopyToFront, RegisterHandler, SetUnknownPacketHandler, SetTraceFunc, vars, history
  <2>2. ASSUME unknowns = 0
        PROVE  \E at : /\ ChainIn(at, dispatched, Received')
                       /\ at[Len(dispatched) + 1] = Len(consumed) + 1
    <3>1. PICK at : ChainIn(at, dispatched, Received) /\ at[Len(dispatched) + 1] = Len(consumed) + 1
      BY <2>2 DEF ChunkInv
    <3>2. Len(dispatched) \in Nat
      BY <1>0, LenProperties
    <3>3. ChainIn(at, dispatched, Received')
      BY <1>2, <3>1, <3>2, ChainStays
    <3> QED
      BY <3>1, <3>3
  <2>3. ASSUME LookedAt' PROVE ~IsComplete(recvBuf')
    <3>1. CASE Incomplete \/ CorruptLength
      <4>1. recvBuf' = recvBuf
        BY <3>1 DEF Incomplete, CorruptLength
      <4>2. ~IsComplete(recvBuf)
        <5>1. Len(recvBuf) \in Nat
          BY <1>0, LenProperties
        <5>2. IsSized(recvBuf) => FrameLen(recvBuf) \in Nat
          BY <1>0, FrameLenType, RadixFact
        <5> QED
          BY <3>1, <5>1, <5>2 DEF Incomplete, CorruptLength, IsComplete, IsSized
      <4> QED
        BY <4>1, <4>2
    <3>2. CASE CopyToFront
      <4>1. Len(recvBuf) < BufLen /\ pc = "done"
        BY <1>0, <3>2, RadixFact, BufLenAssumption DEF CopyToFront, ConservedInv
      <4>2. recvBuf' = recvBuf
        BY <1>0, <3>2, <4>1, SubSeqFull DEF CopyToFront
      <4> QED
        BY <4>1, <4>2 DEF ChunkInv, LookedAt
    <3>3. CASE HandlerPanic \/ \E n \in 0..(Len(stream) - fed) : Feed(n)
      BY <2>3, <3>3 DEF HandlerPanic, Feed, LookedAt, FaultInv
    <3>4. CASE ~Incomplete /\ ~CorruptLength /\ ~CopyToFront /\ ~HandlerPanic
               /\ ~\E n \in 0..(Len(stream) - fed) : Feed(n)
      <4>1. recvBuf' = recvBuf /\ (LookedAt' => LookedAt)
        BY <1>5, <3>4 DEF Next, Loop, FeedFaulted, RegisterHandler, SetUnknownPacketHandler,
                          SetTraceFunc, vars, feedVars, LookedAt
      <4> QED
        BY <2>3, <4>1 DEF ChunkInv
    <3> QED
      BY <3>1, <3>2, <3>3, <3>4
  <2> QED
    BY <2>1, <2>2, <2>3 DEF ChunkInv
<1> QED
  BY <1>3, <1>4, <1>5

\* ChunkInv is what ChunkingInvisible says.
LEMMA ChunkInvShows ==
    ASSUME TypeOK, BytesConserved, ChunkInv
    PROVE  ChunkingInvisible
<1> SUFFICES ASSUME unknowns = 0
             PROVE  LET whole == RefFrames(Received)
                    IN  /\ Len(dispatched) <= Len(whole)
                        /\ dispatched = SubSeq(whole, 1, Len(dispatched))
                        /\ pc = "idle" /\ result = "nil" => dispatched = whole
  BY DEF ChunkingInvisible, Received
<1>1. PICK at : ChainIn(at, dispatched, Received) /\ at[Len(dispatched) + 1] = Len(consumed) + 1
  BY DEF ChunkInv
<1>2. /\ Received \in Seq(Byte) /\ dispatched \in Seq(Frame)
      /\ Len(Received) = Len(consumed) + Len(recvBuf)
      /\ From(Received, Len(consumed) + 1) = recvBuf
      /\ Len(consumed) \in Nat /\ Len(recvBuf) \in Nat /\ Len(dispatched) \in Nat
  <2>1. Len(consumed) \in Nat /\ Len(recvBuf) \in Nat /\ Len(dispatched) \in Nat
    BY LenProperties DEF TypeOK
  <2> QED
    BY <2>1, ReceivedEnds DEF TypeOK
<1>3. PICK cut : RefFrames(Received) = cut[1] /\ CutOf(cut, Received)
  <2>1. \E cut : RefFrames(Received) = cut[1] /\ CutOf(cut, Received)
    BY <1>2, RefFramesCut, Zenon DEF CutOf
  <2> QED
    BY <2>1
<1> DEFINE rest == cut[Len(consumed) + 1]
           whole == RefFrames(Received)
<1>4. whole = dispatched \o rest
  <2>1. cut[1] = dispatched \o cut[at[Len(dispatched) + 1]]
    BY <1>1, <1>2, <1>3, ChainIsCut
  <2> QED
    BY <1>1, <1>3, <2>1
<1>5. Len(consumed) + 1 \in 1..(Len(Received) + 1)
  BY <1>2
<1>6. rest \in Seq(Frame)
  BY <1>2, <1>3, <1>5, CutIsFrames
<1>7. ~IsComplete(recvBuf) => rest = << >>
  BY <1>2, <1>3, <1>5 DEF CutOf
<1> HIDE DEF rest, whole
<1>8. /\ Len(whole) = Len(dispatched) + Len(rest) /\ Len(rest) \in Nat
      /\ whole \in Seq(Frame)
      /\ \A i \in 1..Len(dispatched) : whole[i] = dispatched[i]
  <2>1. /\ Len(dispatched \o rest) = Len(dispatched) + Len(rest) /\ Len(rest) \in Nat
        /\ dispatched \o rest \in Seq(Frame)
    BY <1>2, <1>6, ConcatProperties, LenProperties
  <2>2. \A i \in 1..Len(dispatched) : (dispatched \o rest)[i] = dispatched[i]
    <3>1. \A i \in 1..Len(dispatched) : i \in 1..(Len(dispatched) + Len(rest)) /\ i <= Len(dispatched)
      BY <1>2, <2>1
    <3> QED
      BY <1>2, <1>6, <3>1, ConcatProperties
  <2> QED
    BY <1>4, <2>1, <2>2
<1>9. dispatched = SubSeq(whole, 1, Len(dispatched))
  <2> DEFINE n == Len(dispatched)
  <2>1. n \in Nat /\ n <= Len(whole) /\ \A i \in 1..n : i \in 1..Len(whole)
    BY <1>2, <1>8
  <2>2. \A i \in 1..n : whole[i] \in Frame
    BY <1>8, <2>1, ElementOfSeq
  <2> HIDE DEF n
  <2>3. /\ SubSeq(whole, 1, n) \in Seq(Frame)
        /\ Len(SubSeq(whole, 1, n)) = IF 1 <= n THEN n - 1 + 1 ELSE 0
        /\ \A i \in 1..(n - 1 + 1) : SubSeq(whole, 1, n)[i] = whole[1 + i - 1]
    BY <2>1, <2>2, SubSeqProperties
  <2>4. Len(SubSeq(whole, 1, n)) = n /\ \A i \in 1..n : SubSeq(whole, 1, n)[i] = whole[i]
    BY <2>1, <2>3
  <2> QED
    BY <1>2, <1>8, <2>3, <2>4, SeqEqual DEF n
<1>10. pc = "idle" /\ result = "nil" => dispatched = whole
  <2>1. pc = "idle" /\ result = "nil" => rest = << >>
    BY <1>7 DEF ChunkInv, LookedAt
  <2>2. dispatched \o << >> = dispatched
    BY <1>2, ConcatEmptySeq
  <2> QED
    BY <1>4, <2>1, <2>2
<1> QED
  BY <1>2, <1>8, <1>9, <1>10 DEF whole

\* However the caller cuts the reads, and whatever handlers do, the frames
\* dispatched are the first frames of the stream; when Feed returns nil they are
\* all the frames that have arrived (session.go:246-317).
THEOREM CutsAreInvisible ==
    ASSUME BufLen >= MaxFrame
    PROVE  Spec => []ChunkingInvisible
<1>1. Init => ChunkInv
  <2> SUFFICES ASSUME Init PROVE ChunkInv
    OBVIOUS
  <2>1. Received = << >> /\ dispatched = << >> /\ consumed = << >> /\ recvBuf = << >>
    BY SubSeqEmpty DEF Init, Received
  <2>2. Len(<< >>) = 0 /\ ~IsComplete(<< >>)
    BY EmptySeq DEF IsComplete, IsSized, HasID
  <2> DEFINE at == [n \in 1..1 |-> 1]
  <2>3. ChainIn(at, dispatched, Received) /\ at[Len(dispatched) + 1] = Len(consumed) + 1
    BY <2>1, <2>2 DEF ChainIn
  <2> QED
    BY <2>1, <2>2, <2>3 DEF ChunkInv
<1>2. Init => FaultInv
  BY DEF Init, FaultInv
<1>3. TypeOK /\ TypeOK' /\ ConservedInv /\ FaultInv /\ ChunkInv /\ [Next]_vars => ChunkInv'
  BY ChunkStep
<1>4. TypeOK /\ ConservedInv /\ ChunkInv => ChunkingInvisible
  BY ChunkInvShows DEF ConservedInv
<1>5. Spec => []ConservedInv
  BY ConservedAlways
<1> QED
  BY <1>1, <1>2, <1>3, <1>4, <1>5, FaultStep, TypeCorrect, PTL DEF Spec
=============================================================================
