---------------------------- MODULE SessionCore ----------------------------
(***************************************************************************)
(* The framing engine shared by LoginSession, CharSession and MapSession   *)
(* (pkg/session/session.go).  The caller hands Feed the bytes of one TCP   *)
(* read after another, cut anywhere; Feed cuts them into frames, calls the *)
(* handler of each, and keeps what is left for the next call.              *)
(*                                                                         *)
(* One Feed call is several steps: Feed appends the chunk, each round of   *)
(* its loop is one step, CopyToFront ends it.  A handler runs inside       *)
(* Dispatch; what it does to the session (registering handlers) is an      *)
(* interleaved step.  A handler may panic (RegisterSemanticHandler does on *)
(* purpose); the caller may recover and go on feeding.                     *)
(***************************************************************************)
EXTENDS Framing, FiniteSets

CONSTANTS
    Streams,              \* the byte streams a server may send
    BufLen,               \* len(c.buf): 65536 for map, 4096 for login and char
    recentMaxFrameBytes,  \* bytes of a frame a ring slot can hold
    MaxPanics,            \* bound: handler panics in one behaviour
    MaxConfigs            \* bound: registration calls in one behaviour

ASSUME StreamsAssumption == Streams \subseteq Seq(Byte)
ASSUME BufLenAssumption == BufLen \in Nat
ASSUME MaxFrameBytesAssumption == recentMaxFrameBytes \in Nat
ASSUME BoundsAssumption == MaxPanics \in Nat /\ MaxConfigs \in Nat

VARIABLES
    stream,           \* what the server sends (fixed)
    fed,              \* how many of its bytes the caller has passed to Feed
    pc,               \* "idle": outside Feed; "loop", "done": inside it
    result,           \* how the last Feed call ended
    recvBuf,          \* bytes not consumed yet
    recent,           \* ring of the last dispatched packets
    faulted,
    handlers,         \* the packet IDs that have a handler
    onUnknownPacket,  \* is the unknown-packet callback set?
    trace,            \* is the trace hook set?
    unhandledPackets,
    \* history, read by no action
    accepted,         \* how many bytes Feed has appended to recvBuf
    consumed,         \* the bytes taken off recvBuf by the loop, in order
    dispatched,       \* the frames the loop has advanced over
    calls,            \* the frames handlers were called with
    events,           \* the UnknownPacketEvents given to the callback
    traced,           \* what the trace hook was called with
    unknowns,         \* how often an unknown ID cleared the buffer
    panics, configs

feedVars == <<pc, result, recvBuf, recent, faulted, unhandledPackets>>
configVars == <<handlers, onUnknownPacket, trace, configs>>
history == <<accepted, consumed, dispatched, calls, events, traced, unknowns, panics>>
vars == <<stream, fed, feedVars, configVars, history>>

-----------------------------------------------------------------------------
(* The recent-packet ring.                                                 *)

recentPacketDepth == 3

\* A slot keeps at most recentMaxFrameBytes of the frame, and its true length.
Slot(frame) ==
    [id    |-> PacketID(frame),
     frame |-> SubSeq(frame, 1, IF Len(frame) < recentMaxFrameBytes
                                THEN Len(frame) ELSE recentMaxFrameBytes),
     total |-> Len(frame)]

emptySlot == [id |-> 0, frame |-> << >>, total |-> 0]

emptyRing ==
    [slots |-> [i \in 0..(recentPacketDepth - 1) |-> emptySlot],
     head  |-> 0,
     count |-> 0]

\* Mutant of push: the head is not wrapped around.
push_NoWrap(r, frame) ==
    [slots |-> [r.slots EXCEPT ![r.head] = Slot(frame)],
     head  |-> r.head + 1,
     count |-> IF r.count < recentPacketDepth THEN r.count + 1 ELSE r.count]

push(r, frame) ==
    [slots |-> [r.slots EXCEPT ![r.head] = Slot(frame)],
     head  |-> (r.head + 1) % recentPacketDepth,
     count |-> IF r.count < recentPacketDepth THEN r.count + 1 ELSE r.count]

\* Mutant of snapshot: starts at the head also while the ring is filling.
snapshot_FromHead(r) ==
    [i \in 1..r.count |-> r.slots[(r.head + i - 1) % recentPacketDepth]]

\* Oldest first.
snapshot(r) ==
    LET start == (r.head - r.count + recentPacketDepth) % recentPacketDepth
    IN  [i \in 1..r.count |-> r.slots[(start + i - 1) % recentPacketDepth]]

-----------------------------------------------------------------------------
Init ==
    /\ stream \in Streams
    /\ fed = 0
    /\ pc = "idle"
    /\ result = "none"
    /\ recvBuf = << >>
    /\ recent = emptyRing
    /\ faulted = FALSE
    /\ handlers = {}
    /\ onUnknownPacket = FALSE
    /\ trace = FALSE
    /\ unhandledPackets = 0
    /\ accepted = 0
    /\ consumed = << >>
    /\ dispatched = << >>
    /\ calls = << >>
    /\ events = << >>
    /\ traced = << >>
    /\ unknowns = 0
    /\ panics = 0
    /\ configs = 0

\* The next n bytes the server sends.
Chunk(n) == SubSeq(stream, fed + 1, fed + n)

\* Mutant of Feed: a faulted session goes on.
Feed_Faulted(n) ==
    /\ pc = "idle"
    /\ recvBuf' = recvBuf \o Chunk(n)
    /\ fed' = fed + n
    /\ accepted' = accepted + n
    /\ pc' = "loop"
    /\ UNCHANGED <<stream, result, recent, faulted, unhandledPackets, configVars,
                   consumed, dispatched, calls, events, traced, unknowns, panics>>

\* feed, entry: append the data.
Feed(n) ==
    /\ pc = "idle"
    /\ ~faulted
    /\ recvBuf' = recvBuf \o Chunk(n)
    /\ fed' = fed + n
    /\ accepted' = accepted + n
    /\ pc' = "loop"
    /\ UNCHANGED <<stream, result, recent, faulted, unhandledPackets, configVars,
                   consumed, dispatched, calls, events, traced, unknowns, panics>>

\* feed, entry: a faulted session drops the data and returns nil.
FeedFaulted(n) ==
    /\ pc = "idle"
    /\ faulted
    /\ fed' = fed + n
    /\ result' = "nil"
    /\ UNCHANGED <<stream, pc, recvBuf, recent, faulted, unhandledPackets,
                   configVars, history>>

\* Mutant of Incomplete: the loop waits for more bytes instead of leaving.
Incomplete_Waits ==
    /\ pc = "loop"
    /\ \/ ~HasID(recvBuf)
       \/ LengthPending(recvBuf)
       \/ IsSized(recvBuf) /\ Len(recvBuf) < FrameLen(recvBuf)
    /\ UNCHANGED vars

\* No packet ID, no length field or no whole frame yet: leave the loop.
Incomplete ==
    /\ pc = "loop"
    /\ \/ ~HasID(recvBuf)
       \/ LengthPending(recvBuf)
       \/ IsSized(recvBuf) /\ Len(recvBuf) < FrameLen(recvBuf)
    /\ pc' = "done"
    /\ UNCHANGED <<stream, fed, result, recvBuf, recent, faulted, unhandledPackets,
                   configVars, history>>

\* Mutant of CorruptLength: treated like an unknown packet.
CorruptLength_Clears ==
    /\ pc = "loop"
    /\ IsCorrupt(recvBuf)
    /\ consumed' = consumed \o recvBuf
    /\ recvBuf' = << >>
    /\ pc' = "done"
    /\ UNCHANGED <<stream, fed, result, recent, faulted, unhandledPackets, configVars,
                   accepted, dispatched, calls, events, traced, unknowns, panics>>

\* Embedded length below 4: fault the session, return ErrUnknownPacket at once.
CorruptLength ==
    /\ pc = "loop"
    /\ IsCorrupt(recvBuf)
    /\ faulted' = TRUE
    /\ result' = "ErrUnknownPacket"
    /\ pc' = "idle"
    /\ UNCHANGED <<stream, fed, recvBuf, recent, unhandledPackets, configVars, history>>

\* Mutant of UnknownPacketEvent: the buffer is copied after it was cleared.
UnknownPacketEvent_Cleared ==
    [ID            |-> PacketID(recvBuf),
     RecentPackets |-> snapshot(recent),
     RawBuffer     |-> << >>,
     at            |-> Len(consumed),
     upto          |-> accepted,
     after         |-> Len(dispatched)]

\* The event of an unknown packet ID, and its place in the history.
UnknownPacketEvent ==
    [ID            |-> PacketID(recvBuf),
     RecentPackets |-> snapshot(recent),
     RawBuffer     |-> recvBuf,
     at            |-> Len(consumed),
     upto          |-> accepted,
     after         |-> Len(dispatched)]

\* What the trace hook sees of a frame before its handler does.
WireInbound ==
    [ID    |-> PacketID(recvBuf),
     Frame |-> SubSeq(recvBuf, 1, FrameLen(recvBuf)),
     at    |-> Len(consumed)]

\* Mutant of UnknownPacket: the buffer is kept.
UnknownPacket_KeepsBuffer ==
    /\ pc = "loop"
    /\ IsUnknown(recvBuf)
    /\ traced' = IF trace THEN Append(traced, UnknownPacketEvent) ELSE traced
    /\ pc' = "done"
    /\ UNCHANGED <<stream, fed, result, recvBuf, recent, faulted, unhandledPackets, configVars,
                   accepted, consumed, dispatched, calls, events, unknowns, panics>>

\* ID not in the length table: report it, give up the whole buffer.
UnknownPacket ==
    /\ pc = "loop"
    /\ IsUnknown(recvBuf)
    /\ events' = IF onUnknownPacket THEN Append(events, UnknownPacketEvent) ELSE events
    /\ traced' = IF trace THEN Append(traced, UnknownPacketEvent) ELSE traced
    /\ unknowns' = unknowns + 1
    /\ consumed' = consumed \o recvBuf
    /\ recvBuf' = << >>
    /\ pc' = "done"
    /\ UNCHANGED <<stream, fed, result, recent, faulted, unhandledPackets, configVars,
                   accepted, dispatched, calls, panics>>

\* Mutants of Dispatch: one byte too many is dropped; every frame is counted as
\* unhandled.
Dispatch_Overruns ==
    /\ pc = "loop"
    /\ IsComplete(recvBuf)
    /\ consumed' = consumed \o SubSeq(recvBuf, 1, FrameLen(recvBuf))
    /\ recvBuf' = From(recvBuf, FrameLen(recvBuf) + 2)
    /\ UNCHANGED <<stream, fed, pc, result, recent, faulted, unhandledPackets, configVars,
                   accepted, dispatched, calls, events, traced, unknowns, panics>>

Dispatch_CountsAll ==
    /\ pc = "loop"
    /\ IsComplete(recvBuf)
    /\ LET frame == SubSeq(recvBuf, 1, FrameLen(recvBuf))
       IN  /\ calls' = IF PacketID(recvBuf) \in handlers THEN Append(calls, frame) ELSE calls
           /\ unhandledPackets' = unhandledPackets + 1
           /\ dispatched' = Append(dispatched, frame)
           /\ consumed' = consumed \o frame
    /\ recvBuf' = From(recvBuf, FrameLen(recvBuf) + 1)
    /\ UNCHANGED <<stream, fed, pc, result, recent, faulted, configVars, accepted,
                   events, traced, unknowns, panics>>

\* A whole frame: trace it, call its handler or count it, remember it, advance.
Dispatch ==
    /\ pc = "loop"
    /\ IsComplete(recvBuf)
    /\ traced' = IF trace THEN Append(traced, WireInbound) ELSE traced
    /\ LET frame == SubSeq(recvBuf, 1, FrameLen(recvBuf))
           handled == PacketID(recvBuf) \in handlers
       IN  /\ calls' = IF handled THEN Append(calls, frame) ELSE calls
           /\ unhandledPackets' = unhandledPackets + (IF handled THEN 0 ELSE 1)
           /\ recent' = push(recent, frame)
           /\ dispatched' = Append(dispatched, frame)
           /\ consumed' = consumed \o frame
    /\ recvBuf' = From(recvBuf, FrameLen(recvBuf) + 1)
    /\ UNCHANGED <<stream, fed, pc, result, faulted, configVars, accepted,
                   events, unknowns, panics>>

\* The handler panics: Feed is left before the frame is remembered or consumed.
HandlerPanic ==
    /\ pc = "loop"
    /\ IsComplete(recvBuf)
    /\ PacketID(recvBuf) \in handlers
    /\ panics < MaxPanics
    /\ traced' = IF trace THEN Append(traced, WireInbound) ELSE traced
    /\ calls' = Append(calls, SubSeq(recvBuf, 1, FrameLen(recvBuf)))
    /\ panics' = panics + 1
    /\ result' = "panic"
    /\ pc' = "idle"
    /\ UNCHANGED <<stream, fed, recvBuf, recent, faulted, unhandledPackets, configVars,
                   accepted, consumed, dispatched, events, unknowns>>

\* Mutant of CopyToFront: an incomplete frame is dropped.
CopyToFront_Drops ==
    /\ pc = "done"
    /\ recvBuf' = << >>
    /\ result' = "nil"
    /\ pc' = "idle"
    /\ UNCHANGED <<stream, fed, recent, faulted, unhandledPackets, configVars, history>>

\* done: what is left moves to the front of c.buf, as far as it fits there.
CopyToFront ==
    /\ pc = "done"
    /\ recvBuf' = SubSeq(recvBuf, 1, IF Len(recvBuf) < BufLen THEN Len(recvBuf) ELSE BufLen)
    /\ result' = "nil"
    /\ pc' = "idle"
    /\ UNCHANGED <<stream, fed, recent, faulted, unhandledPackets, configVars, history>>

\* Registration is allowed outside Feed and from inside a handler.
RegisterHandler(id) ==
    /\ pc \in {"idle", "loop"}
    /\ configs < MaxConfigs
    /\ handlers' = handlers \cup {id}
    /\ configs' = configs + 1
    /\ UNCHANGED <<stream, fed, feedVars, onUnknownPacket, trace, history>>

SetUnknownPacketHandler(set) ==
    /\ pc \in {"idle", "loop"}
    /\ configs < MaxConfigs
    /\ onUnknownPacket' = set
    /\ configs' = configs + 1
    /\ UNCHANGED <<stream, fed, feedVars, handlers, trace, history>>

SetTraceFunc(set) ==
    /\ pc \in {"idle", "loop"}
    /\ configs < MaxConfigs
    /\ trace' = set
    /\ configs' = configs + 1
    /\ UNCHANGED <<stream, fed, feedVars, handlers, onUnknownPacket, history>>

Loop == Incomplete \/ CorruptLength \/ UnknownPacket \/ Dispatch \/ HandlerPanic

Next ==
    \/ \E n \in 0..(Len(stream) - fed) : Feed(n) \/ FeedFaulted(n)
    \/ Loop
    \/ CopyToFront
    \/ \E id \in DOMAIN lengths : RegisterHandler(id)
    \/ \E set \in BOOLEAN : SetUnknownPacketHandler(set) \/ SetTraceFunc(set)

Spec == Init /\ [][Next]_vars

\* Feed is a synchronous call: once entered, its loop runs on its own.
FairSpec == Spec /\ WF_vars(Loop \/ CopyToFront)

-----------------------------------------------------------------------------
(* Properties.                                                             *)

Frame == Seq(Byte)
SlotType == [id : Nat, frame : Frame, total : Nat]

\* Every variable of the session stays in the range the Go type gives it.
TypeOK ==
    /\ stream \in Streams
    /\ fed \in 0..Len(stream)
    /\ pc \in {"idle", "loop", "done"}
    /\ result \in {"none", "nil", "ErrUnknownPacket", "panic"}
    /\ recvBuf \in Seq(Byte)
    /\ recent \in [slots : [0..2 -> SlotType], head : 0..2, count : 0..3]
    /\ faulted \in BOOLEAN
    /\ handlers \subseteq DOMAIN lengths
    /\ onUnknownPacket \in BOOLEAN
    /\ trace \in BOOLEAN
    /\ unhandledPackets \in Nat
    /\ accepted \in 0..fed
    /\ consumed \in Seq(Byte)
    /\ dispatched \in Seq(Frame)
    /\ calls \in Seq(Frame)
    /\ unknowns \in Nat
    /\ panics \in 0..MaxPanics
    /\ configs \in 0..MaxConfigs

\* No byte is lost, duplicated or reordered inside the session: what the loop
\* has taken off the buffer followed by what is still in it is what the caller
\* passed in, however the reads were cut (session.go:246-317).
BytesConserved == consumed \o recvBuf = SubSeq(stream, 1, accepted)

\* How the reads were cut does not show: as long as no unknown ID has made the
\* session give up bytes, the frames dispatched are the first frames of the
\* stream, and all that have arrived once Feed has returned nil (USAGE.md: "Feed
\* may be called with any chunk size").
ChunkingInvisible ==
    unknowns = 0 =>
      LET whole == RefFrames(SubSeq(stream, 1, accepted))
      IN  /\ Len(dispatched) <= Len(whole)
          /\ dispatched = SubSeq(whole, 1, Len(dispatched))
          /\ pc = "idle" /\ result = "nil" => dispatched = whole

\* The same promise with unknown IDs and corruption included: every step of
\* the session is a step of FrameStream, or none.
Delivery == INSTANCE FrameStream
              WITH pos <- Len(consumed), delivered <- dispatched, corrupt <- faulted
ImplementsFrameStream == Delivery!Spec

\* The packets dispatched before the (n+1)-st, at most three, oldest first.
LastPackets(n) ==
    LET k == IF n < recentPacketDepth THEN n ELSE recentPacketDepth
    IN  [i \in 1..k |-> Slot(dispatched[n - k + i])]

\* The ring read oldest first is the end of the dispatch history, also after
\* it has wrapped around (session.go:179-208).
RecentIsHistory == snapshot(recent) = LastPackets(Len(dispatched))

\* An UnknownPacketEvent still tells the truth when it is read later: its ID
\* is not in the table, RawBuffer is the stream from that ID to the end of what
\* had been received, RecentPackets what was dispatched just before
\* (session.go:104-123).
EventsFaithful ==
    \A i \in 1..Len(events) :
      LET e == events[i]
      IN  /\ IsUnknown(e.RawBuffer)
          /\ e.ID = PacketID(e.RawBuffer)
          /\ e.RawBuffer = SubSeq(stream, e.at + 1, e.upto)
          /\ e.RecentPackets = LastPackets(e.after)

\* The trace hook sees the stream in order: each frame it is given is the
\* stream at the place where the session is, and no place is reported twice
\* unless the handler panicked there (session.go:292-301).
TraceInOrder ==
    /\ \A i \in 1..Len(traced) :
         LET e == traced[i]
             b == IF "Frame" \in DOMAIN e THEN e.Frame ELSE e.RawBuffer
         IN  /\ b = SubSeq(stream, e.at + 1, e.at + Len(b))
             /\ e.ID = PacketID(b)
    /\ \A i, j \in 1..Len(traced) : i < j => traced[i].at <= traced[j].at
    /\ Cardinality({traced[i].at : i \in 1..Len(traced)}) + panics >= Len(traced)

\* Every dispatched frame was given to a handler or counted as unhandled, once;
\* only a handler that panicked is called again (session.go:303-311).
CallsAccounted == Len(calls) + unhandledPackets = Len(dispatched) + panics

\* ErrUnknownPacket is returned once; after it Feed returns nil, and nothing in
\* the session changes any more (session.go:143-144).
FaultIsFinal ==
    [][faulted => /\ faulted'
                  /\ result' \in {result, "nil"}
                  /\ UNCHANGED <<recvBuf, recent, unhandledPackets, accepted, consumed,
                                 dispatched, calls, events, traced>>]_vars

\* Every Feed call returns: each round of the loop leaves it or shortens the
\* buffer by at least a header.
FeedReturns == pc # "idle" ~> pc = "idle"
=============================================================================
