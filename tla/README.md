# rathena-client: specifications

A verification development of the client library for rAthena servers
(`src/pkg`), of the tool that edits its packet mappings (`src/cmd/semantics-tool`,
`src/internal/semanticsdb`) and of the generator that writes most of it
(`src/internal/codegen`). The modules are written from the source; `PROJECT.json`
names, for every definition, the lines it stands for.

## 1. The system

| Component | State | Operations | What is hard |
|---|---|---|---|
| Framing engine (`session.go`, shared by `LoginSession`, `CharSession`, `MapSession`) | receive buffer, length table, handlers, ring of three recent packets, fault flag, callbacks | `Feed`, `registerHandler`, `SetUnknownPacketHandler`, `SetTraceFunc` | frames cut over reads; unknown IDs and corrupt lengths in mid-stream; a fixed buffer; a ring that wraps; handlers that panic or register handlers |
| Connection FSM (`fsm.go`, `fsm_parse.go`) | tokens of the login, locals of three phases, one connection at a time | `Connect`, callbacks `OnCharServerList`, `OnCharList`, `OnIdentity`, `OnMapSessionCreated`, `OnReady`, `OnServerNotify`, `OnFailed` | answers in any order and several in one read; read errors with data; dials and writes that fail; cancellation during a delay; reconnecting; who closes the connection; versions of the protocol |
| Sending (`semantic.go`, `map.go`, `obfuscation.go`) | rolling key, trace hook | `Send`, `enableObfuscation`, `encodePacketID` | a key that both sides advance per packet; failing writes; several callers |
| Packed positions (`packing.go`) | none | encode and decode of 3 and 6 bytes | bit fields across byte borders, values beyond their bits |
| Semantic handlers (`semantic.go`, `receive_dispatch.go`, `actions.go`) | handlers of the session | `RegisterSemanticHandler`, `Send` | several packet IDs for an action, silent overwriting, type mismatch |
| Length, key and shuffle tables (`lengths_*.go`, `obfuscation_keys.go`, `encode/shuffle_map.go`) | none (mostly generated) | look-up by packet version | tables made apart, each with its own version boundaries |
| Decoders and encoders (`pkg/decode`, `pkg/encode`, `encode/register.go`) | none | field copies at version-dependent offsets | reading past a frame, leaving bytes unwritten, list entries whose size and walk disagree |
| Semantics database and tool (`internal/semanticsdb`, `cmd/semantics-tool`) | `mappings.yaml`, a copy of it per call | load, seven mutations, validate, save; MCP server and command line | several processes, a save that fails or dies half way, names and IDs with several spellings |
| Code generator, length tables (`internal/codegen/main.go`, `preprocess/differ.go`, `gen/lengths.go`) | breakpoint lists | diff, join, merge, deduplicate | ranges that touch, sources that overrule or only fill, Go's random map order |
| Code generator, a run (`internal/codegen/main.go`, `gen/register.go`) | the generated directories | clean, write, register | order of the steps, runs that fail or die, hand-written files in the same directories |

How they interact: the FSM creates a session per phase, registers raw handlers on
it and feeds it what it reads; handlers run inside `Feed` and set the locals that
end the phase's loop. `OnReady` gives the map session and the connection to the
caller, who goes on with `Feed` and `Send`. The library starts no goroutine; what
interleaves are the servers, the network, the caller's context and callbacks.
`mappings.yaml`, edited with the semantics tool, and rAthena's headers are the input
of the generator, whose output is the tables, decoders and encoders that the sessions
look up by packet version.

## 2. Modules

| Module | Models | Extends / uses |
|---|---|---|
| `Framing` | how `feed` reads a header; reference cutting `RefFrames` | |
| `FrameStream` | abstract: what the framer promises, without buffer and chunks | `Framing` |
| `SessionCore` | `sessionCore` in detail; properties | `Framing`, instance of `FrameStream` |
| `MCSessionCore` | byte streams for TLC | `SessionCore` |
| `SessionCoreProofs` | theorems | `SessionCore` |
| `Login` | abstract: what `Connect` promises its caller, without reads, packets and deadlines | |
| `ConnectionFSM` | the client side of `Connect`; properties | instance of `Login` |
| `AnyServer` | servers and network without any assumption | `ConnectionFSM` |
| `RathenaServer` | servers that answer as rAthena's do | `ConnectionFSM` |
| `ConnectionFSMProofs`, `RathenaServerProofs` | theorems | `AnyServer`, `RathenaServer` |
| `MapSend` | `Send`, the rolling key, the server's key; properties | |
| `MapSendProofs` | theorems | `MapSend` |
| `Packing` | the position formats | |
| `ShuffleTable`, `MapLengths` and `LengthTable`, `KeyTable`, `ActionDecoders`, `ZcDecodersAtoN`, `ZcDecodersOtoZ` and `DecodeTable`, `EncodeTable` | the generated tables as functions of the packet version: wire IDs, lengths, keys, how far each decoder reads, what each encoder writes | |
| `ListDecoders` | the hand-written decoders of list packets | |
| `Wire` | one packet of a map session against all the tables; properties | all the tables above |
| `WireProofs` | theorems about list decoders and positions | `Wire`, `Packing` |
| `MCWire` | the packet versions worth looking at | `Wire` |
| `SemanticDoc` | `mappings.yaml` as a document, its mutations and `Validate` | |
| `AtomicDB` | abstract: a call is one step | `SemanticDoc` |
| `SemanticsDB` | the processes that load, change and save; properties | `SemanticDoc`, instance of `AtomicDB` |
| `MCSemanticsDB` | documents and calls for TLC | `SemanticsDB` |
| `SemanticsDBProofs` | theorems | `SemanticsDB` |
| `Breakpoints` | the generator's pure algorithms on one column of a length table | |
| `GenLengths`, `MCGenLengths` | `genLengths`, source by source; properties | `Breakpoints` |
| `GenLengthsProofs` | theorems | `GenLengths` |
| `CodegenRun`, `MCCodegenRun` | a run of the generator on a tree of files; properties | |
| `CodegenRunProofs` | theorems | `CodegenRun` |

### SessionCore

A `Feed` call is several steps. `Feed` appends the chunk (`FeedFaulted` drops it);
each round of the loop is one of `Incomplete`, `CorruptLength`, `UnknownPacket`,
`Dispatch`, `HandlerPanic`; `CopyToFront` is the code after the label `done`.
`recvBuf`, `recent`, `faulted`, `handlers`, `onUnknownPacket`, `trace` and
`unhandledPackets` are the fields of the struct. `consumed`, `dispatched`, `calls`,
`events`, `traced` record what happened and are read by no action. Bytes are real
bytes: IDs and lengths are read from them as the code reads them. A registration
may happen between Feed calls and inside a handler, that is between two rounds.
The callbacks for unknown packets and for tracing are assumed not to panic.
Time stamps and the packet version in events are left out.

### ConnectionFSM

`phase` and `step` are the place in `Connect`. A read returns a batch of whole
packets; each is handled in its own step, the waiting and the two writes inside
the handler of ZC_ACCEPT_ENTER are steps of their own. `res` holds the locals of
the phase, `auth` the tokens, abstracted to the number of the Connect that obtained
them. `Fail` is every error return: the deferred `Close`, then `OnFailed`. What a
user interface shows (names, codes, addresses, slot information) is left out. The
version-dependent control is kept: `ListIsDirect`, `BanIsZoneSized`, `PageKnown`.
An unknown packet gives up the rest of the read (`HandleUnknown`); that the next
read could then start inside a frame is covered by `SessionCore`, not here.

`Login` is `Connect` as its caller sees it. A server is talked to (`stage`) on one
connection (`mine`); it may grant its tokens, refuse, or let the caller choose a
character; it is left behind only with its grant and without a refusal; `Ready` gives
the connection away, `GiveUp` closes it. `Promise` maps the FSM to it: `mine` is the open
connection, a token is granted when it is not the zero that `Connect` starts with.

### MapSend

A scrambled ID is the pair of ID and key, because `x ^ k ^ k'` is `x` exactly if
`k = k'`. The generator is computed as in the code, on a word of `HalfWord^2`
values (2^32 in the code; the run uses 2^8, TLC's integers are too small for
2^32). The caller's lock is the serialisation USAGE.md asks for.

### Wire and its tables

The table modules hold every entry of the tables and nothing else: a decoder is
the ladder of its versions with the number of bytes each arm reads, an encoder the list
of its arms with packet ID, size and the byte ranges it writes in order, a length table
a function of version and ID, a permutation a function of IDs. Values of fields are left
out. `Wire` takes one packet at a time: `Receive` (framed by the length table and handed
to the decoder of its action), `ReceiveList`, `Send` and `SendHandshake` (the FSM's own
copies of encoders). Its properties compare tables that are written or generated apart.
A frame of variable length has any of `EmbeddedLengths`: `feed` takes what the frame says
from four bytes up, and only the group lists look at it before they read (`Guarded`).
Three lists except what the code does not do: `StaleLengths`, IDs whose hardcoded length is
shorter than what the decoder reads at some version (26, see below); `LongHeaders`, IDs of
variable length whose decoder reads a longer header than the four bytes that are sure to be
there (60); and `LeftZero`, bytes that an encoder leaves zero. An encoder's copy of an
open-ended slice counts as covering everything behind it, so that `PacketWhole` does not
see a field that should follow one and is missing.

### SemanticDoc and SemanticsDB

The document is the sequence of entries of `mappings.yaml` with key, inner name, metadata
and implementations; a packet ID is its digits and the form they were typed in, so that
`normPacketID` has something to do. Each mutation returns the new document or an error,
with the checks in the code's order. Nothing in `Load` refuses a file that repeats a key:
look-ups see the last entry of it (`Indexed`), removing and renaming the first. A process is in one call at a time: `Load`,
`Dispatch`, then `SaveTo` step by step (create, write, close, rename), each of which may
fail; `Kill` may come between any two. `serial` is the callers' discipline, chosen once.

### Breakpoints and GenLengths

A column is the length of one packet ID over the versions. Deduplication keeps an entry if
it is the first or differs from the entry before it, which is what the loop of
`deduplicateLengthBreakpoints` does with the last length it kept. `GenLengths` runs the four
sources in the code's order (clif_packetdb.hpp, packets.hpp as a fill, the join pass as
a fill, the enums as an overriding merge), then the deduplication. The join pass takes
its mappings in any order, as Go's maps do; its two loops, over the mappings and over the
ranges of each, are recursive functions, so that they can be proved about. An input of the
join (`IsInput`) is a window and a finite history of a struct. The windows of one packet ID
do not overlap (`JoinInputsAssumption`), which is what `Validate` asks of `mappings.yaml`:
where two overlap with different lengths, the map order does show. `JoinInWindow` speaks of
one mapping: with two, the ranges of the first can reset what the second has set (section 3).

### CodegenRun

A file is absent, hand-written, of an earlier run, of this run, or cut short, with or
without its header, and it parses or it does not; `Generated` looks at the header as the
code does. The steps of `run()` clean and write in order, and a step may fail before it, in
its cleaning, in a write, or in the shuffle check.

Four failures do not end the run: a file that cannot be read is left by the cleaning, is
overwritten by `writeFile` whether it has a header or not, and is passed over by the
registration; and a text that gofmt rejects is written as it is. `Unreadable` and
`Misformatted` are the paths at which this may happen, any set of them in the proofs; the
ghost `unread` keeps the files that the run at hand took for something else.

## 3. Runs

| Run | Shows | Bounds |
|---|---|---|
| `framing` | conservation of bytes, independence of the cuts, accounting of calls also after a panic, trace order, ring and event contents, finality of a fault, refinement of `FrameStream`, every `Feed` returns | all streams of up to 3 pieces (fixed, variable, unknown, corrupt, cut-off frame), all cuts, and streams of 4 frames with an unknown ID or a corrupt length at the end, so that the ring of 3 wraps; 1 panic, 1 registration |
| `any_server` | refinement of `Login` (ownership of connections, grants, refusals), honesty of `OnReady`, order and number of what is sent, fresh tokens, notification of bans | 2 Connects, 3 reads per phase, 2 packets per read, read errors, failing dials and writes, cancellation: repeated and contradictory answers, in one read or two |
| `connect_returns` | `Connect` returns | old version, 2 reads per phase |
| `rathena_paged` | with conforming servers the caller gets ready, and the reported slot is the selected one | 2 characters, 2 faults (a failed dial or write, a late answer), 3 Connects, all cuts of the answers |
| `rathena_new_pages` | **violation**: 0x0B72 is not handled | |
| `stale_deadline` | **violation**: the connection handed over still has a deadline | |
| `map_send` | the keys stay aligned until a write fails; the trace is what was written | 2 goroutines, 4 calls, 1 failing write |
| `wire` | decoders stay in their frames, list walks agree with their sizes, handshake packets are framed, requests are whole and can be told apart, shuffled versions have keys, the FSM's copies agree | every packet version at which any table or condition changes, and the one after each exact version: between two of them nothing changes, so that this is every version from 20040101. Frames of variable length of 4 and 5 bytes, of one byte less than a group list's header, of just that, and of the most 16 bits say. List bodies of no, part of one, one and several entries |
| `enter_gap` | **violation**: ZC_ACCEPT_ENTER is not framed from 20160330 to 20170314 | one version of the gap |
| `semantics_db` | the file is always whole, answers are honest, look-ups unambiguous, `Validate` exact, and serial callers see atomic calls | 2 processes, 3 calls out of 20 that take every mutation through success and each error, 1 kill, every failing step: a third call meets what two overlapping ones left |
| `length_tables` | headers are reproduced, a fill never overrides, the join stays in its window and does not depend on map order, deduplication is invisible | headers sampled at every subset of 4 versions, with a fixed, a variable or no length at each; mappings with each kind of window, or two that meet: a length may appear, change, go and come back |
| `codegen_run` | a successful run leaves a fresh and consistent tree, hand-written files stay; what could not be read and what gofmt rejected are the exceptions | 2 runs, the first of which may end anywhere: what a broken run leaves, a whole one repairs. Reading may fail at a hand-written file, at a file the run writes and at two it leaves behind; gofmt may reject an encoder and a file of `pkg/session`; a hand-written encoder may not parse |

The violations are listed under `findings` in `PROJECT.json` with the sentence they
contradict. Every property of a passing run has a mutant: the operators
`<Definition>_<Change>` beside the definitions are plausible mistakes, and each makes
TLC refute the property it is listed for.

Fairness. `FairSpec` (framer): `Feed` is a synchronous call, so its loop goes on.
`AnyFairSpec`: `Connect` is one goroutine that is runnable or blocked in a call its
deadline ends; a phase sees at most `MaxReads` successful reads, since a server that
keeps sending keeps every deadline fresh (listed as a hazard). `RathenaSpec`: in
addition the servers answer, and the caller reconnects after a failure. The other
specifications have no fairness and only safety properties.

### Disagreements that are not runs

Most can be seen with one change to a configuration or a property.

- `docs/USAGE.md:244` allows any chunk size. `BytesConserved` and
  `ChunkingInvisible` fail with `BufLen = 3` in `MCSessionCore.cfg`, which stands to the
  frames there as the 4096 bytes of the login and char sessions (`login.go:5`, `char.go:4`) stand to a frame of 65535.
- `fsm.go:286-288`: `OnServerNotify` is invoked for a ban in any phase. `BanNotified`
  fails with `Packetver = 20120410` in `MCAnyServer.cfg`: the char session frames 0x0081
  as 28 bytes and waits for the rest.
- `fsm.go:258-260`: handlers of the caller do not collide with the FSM's.
  `EventuallyReady` fails with `UserActions = {"ZC_ACCEPT_ENTER"}` in
  `MCRathenaPaged.cfg`: `semantic.go:85-88` overwrites by packet ID.
- `mcp/server.go:23-25`: every call is atomic. It is when callers take turns; without
  `serial` in `AtomicWhenSerial` TLC shows the lost update.
- `cmd/semantics-tool/main.go:12-13`: mutations are validated before a save. Nothing
  calls `Validate`; `LookupsUnambiguous` is what holds without it.
- `docs/ADDING_PACKETS.md:834` asks for "the correct frame length" beside a
  decoder. The 26 IDs of `StaleLengths` have a shorter one at some version: emptying the list makes `DecoderInFrame` fail.
- `zc_group_list.go:123-127`: a frame shorter than the header of its packet would panic in
  the decoder, and so the decoder of group lists looks first. 60 other IDs of variable length do
  not: emptying the list `LongHeaders` makes `DecoderInFrame` fail.
- `internal/codegen/main.go:1470`: "Do not overwrite hand-written files". A file that cannot
  be read is overwritten all the same (line 1473); `HandWrittenKept` fails without its exception.
- `internal/codegen/main.go:1499`: the cleaning "ensures stale files ... are removed". One that
  cannot be read is skipped without an error (line 1517); `SuccessIsFresh` fails without its
  exception. An encoder that gofmt rejects is written with a warning (line 1486) and then
  skipped by the registration (`gen/register.go:63`): the run ends with success, and
  the action has an encoder file and no encoder.
- `internal/codegen/main.go:1079-1080`: a reset is not to erase what "a newer range for the
  same packet already claims". It looks for a length set at the very version of the reset, and
  the range may end after the window of its mapping: with layouts of 5, 5, 7 bytes in the
  window [0,1) and of 9, 9, 9 bytes from version 1 on, the reset of the first mapping's range at
  version 2 erases the 9 bytes of the second from there on, in either order of the two.
  `JoinInWindow` fails without its condition `Len(inputs) = 1`.
- The cause of `enter_gap` is in the generator: it samples the headers at the dates it
  finds (`internal/codegen/preprocess/breakpoints.go:16`) and does not find 20160330.

## 4. Proofs

Each theorem holds for every value of the constants that satisfies the named ASSUMEs of its
module; TLC evaluates those in every run. What a theorem needs beyond them is in its
statement and named here. TLC checked every property on the bounds of section 3 before it
was proved.

### SessionCoreProofs: every length table, set of streams, buffer size and bound

| Theorem | Inductive invariant, and why the property needs it |
|---|---|
| `TypeCorrect` | `TypeOK` is inductive |
| `Conservation` | `ConservedInv`. `CopyToFront` truncates, so `BytesConserved` alone is not kept; the bytes accepted are also the bytes fed until a fault, and what is left when the loop ends is shorter than a frame and fits the buffer. `IncompleteIsShort` reads that off the header |
| `RingHoldsHistory` | `RingInv` ties head and count to the number of dispatched frames and each slot to its frame; `RingPush` is its step, `RingOldestFirst` reads the snapshot off it |
| `CallsAreAccounted` | an inductive sum |
| `FaultStaysFinal` (action property) | `FaultInv`: a faulted session is outside the loop, so that no step of the loop can follow a fault |
| `EventsStayFaithful` | `EventsInv` records with each event how many frames had been dispatched; `HistoryStays` shows that the frames before that number never change |
| `TraceStaysInOrder` | `TraceInv` counts: the distinct places traced, plus the panics, are as many as the entries of the trace, plus one (`Surplus`) while the frame at hand is traced and not yet consumed. Only a panic returns to a traced place |
| `FeedImplementsFrameStream` (refinement) | each loop step that takes a frame is a step of `FrameStream`, all others stutter; `Conservation` is what makes the cut frame the next one of the stream |
| `CutsAreInvisible` | `ChunkInv`: until an unknown ID is met the dispatched frames stand one after the other in what was received and end where the buffer begins (`ChainIn`), and no whole frame is left at the front of the buffer when `Feed` has looked at all it holds. `RefFrames` cuts by a recursive function; that there is one (`CuttingExists`) and that it gives the sequence of the dispatched frames is shown at the least place where it would fail |

`Conservation`, `EventsStayFaithful`, `TraceStaysInOrder`, `FeedImplementsFrameStream` and
`CutsAreInvisible` assume `BufLen >= MaxFrame`: true of the map session, false of the login and char sessions,
where the properties do fail (section 3).

### ConnectionFSMProofs: every version, every answer of the callbacks, any servers

Against `AnyServer`, whose servers may send any packets in any order. `FSMTypeCorrect` is
`TypeOK` with `ControlInv`, which says where packets can be pending and in which phases the
handler can wait; every other proof starts from it.

| Theorem | Inductive invariant |
|---|---|
| `ConnectionsOwned` | `ConnOwnership` with the place in `Connect` |
| `BansReachTheCaller` | `BanNotified`. Assumes `~BanIsZoneSized` and that the caller does not register its own handler of SC_NOTIFY_BAN; without either the property fails (section 3) |
| `TokensAreFresh` | `TokenInv`: a phase that is past, or done without error, has stored tokens of this `Connect` |
| `RequestsInOrder` | `SelectInv` (no selection before a list and an answer; the slot to be selected is one `OnCharList` answered) and `ProgressInv` (how far the conversation is: what has been sent at each place, and that nothing of the map handshake has been sent before it) |
| `ReadyOnlyInGame` | `ProgressInv` and `RefusalInv`: a refusal sets an error that only the end of the `Connect` clears, whatever is handled after it in the same read |
| `ConnectImplementsLogin` (refinement) | all of the above and `PromiseInv`: the slot the char phase would report is one that `OnCharList` answered, or none. A done phase needs `TokenInv` for its grant and `RefusalInv` for having none refused; `ConnectionsOwned` is what makes the newest connection the open one. Every other step of the FSM stutters |

### RathenaServerProofs: every version, one or two characters, any cuts and failures

`IdentityIsSelection`. Against any server the property is false: a second list or a late
page would change the slot between the selection and `OnIdentity`. It rests on what
rAthena's servers do not send, and so the invariant follows the whole conversation.
`RathenaInv` is `PlaceInv` (the place in `Connect`), `LoginInv` (one request, one answer)
and `CharInv`: the char phase is in one of the stages `Listing`, `Paging`, `Picked`,
`Selected`. The key is a count: `Pages`, the pages handled, read, on their way and asked
for, never exceeds the number of characters announced, and so none is left when `OnCharList` has
answered. TLC checked the invariant at versions 20120410, 20160101, 20180307 and
20210101, which differ in how the list is sent, before it was proved for all.

### MapSendProofs: any keys, size of words, number of goroutines and calls

- `SendTypeCorrect`: `SendInv`, the types and the caller's lock.
- `KeysStayInStep` (`ServerUnderstands`): `KeysInv` asserts one stream of keys with which
  everything agrees: what was issued, what is on the wire, the packet between encoding and
  writing, what the server has decoded, and the next key on each side. The property alone
  says nothing of packets on their way.
- `TraceStaysWire`: `TraceInv` asserts a strictly increasing map from trace entries to
  places on the wire, and that a packet just written has no entry yet.

### WireProofs: every packet version, body and uint16 and uint8 value

`EntriesStayInBounds`: for each list decoder the size of an entry is compared with the walk
through it at every version; `ListInBody` then bounds a body of any number of entries.

`PosDirLossless`, `MoveDataLossless`: nothing is lost in a packed position. Numbers are cut into quotient and remainder where the
format cuts them; a lemma per byte shows that it holds both parts unmixed.

### SemanticsDBProofs: any number of processes, documents, calls, failures and kills

- `FileAlwaysWhole`, `AnswersHonest`: `SaveInv` adds to the properties that what is about
  to be renamed is wholly written, that a temporary file exists only during a save, and that a call
  in progress has replaced the file exactly when only its answer is left.
- `SerialCallsAtomic` (refinement of `AtomicDB`): the rename is the abstract step, all
  others stutter. `SerialInv` adds that when callers take turns one process at most is in a
  call and its copy is the document of the file until its mutation.
- `LookupsStayUnambiguous`: `DocInv`, that the file and every copy in progress is `Good`; a
  lemma per mutation shows that what it returns is good if what it was given is. This
  needs no turns: overlapping calls lose updates, but what they leave is one of the copies.
- `ConflictsExact` and `ValidateStaysExact`: `rangesOverlap` says exactly that some packet
  version falls to both implementations, and so `validateCrossActionConflicts` reports
  exactly the ambiguous pairs.

### GenLengthsProofs: any versions, lengths, sources and mappings

- `HeaderStaysReproduced`: `diffLengthMaps` and the look-up are inverse to each other at every sampled
  version and between two.
- `NothingOverridden`: the two fills keep every length their base has.
- `RedundantOnlyRemoved` (`DedupInvisible`): no table changes by deduplication.
- `JoinedInWindow`: the ranges of `BuildVersionTable` end where the next one starts, and
  each has the layout of every sample in it, so that `LayoutAt` is the layout of the last
  sample (`LayoutSampled`); the table of the join pass starts and resets a length at the
  ranges that meet the window.
- `OrderInvisible`: a table is determined by a set of entries (version, length, end), if no
  two start at one version (`IsTable`). Each range adds its entry whatever the table was
  (`JoinStep`), so that every permutation of the mappings gives the same set (`AnyOrder`).
  A reset that an earlier mapping left is the case that needs care: a later one that
  starts there replaces it, and the other way round the reset is not written.

A column is defined by the entries before it, which asks for induction over the column. The
proofs take the least version at which two tables would differ instead (`LeastNatural`,
from the library's `WFMin`): it is an entry of one of them, and the entry before it gives
the contradiction.

### CodegenRunProofs: any actions, first tree and number of runs

For any sets of paths at which reading may fail and gofmt may reject the text.

- `HandWrittenSafe` (action property): every step that writes or removes a file looks at
  its header first, or could not read it. It needs that a tree has an entry for every path.
- `SuccessStaysFresh`: `FreshInv` says of every step that is past that what it writes is
  new or has no header and its directory has nothing old that could be read, and of the step at
  hand the same of what it has written so far. `StepOrder` is why no later step undoes an
  earlier one: the encoders' directory is cleaned before the other files in it are written.
- `RegisterStaysExact`: when the text of `register.go` is generated the directory of the
  encoders has been cleaned (`GenerateExact`), so that an encoder which is not of
  mappings.yaml is hand-written or was not read; the write that follows touches no encoder
  (`WriteExact`).

### Only model-checked

- Liveness and fairness: `FeedReturns`, `ConnectReturns`, `EventuallyReady`.
- The properties of `Wire` other than `EntriesInBounds`. Its tables are constants and the
  run looks at every version at which any of them changes, so that it covers all the cases a
  proof would split into: thousands of entries, most of them put together with operators the
  provers cannot expand (`@@`, `SelectSeq`).

Induction over data has no rule here: the library's take an operator as a parameter. Where
a property needed it, the proof takes the least counterexample instead (`LeastNatural`); the
recursive functions of `Breakpoints` and `Framing` are treated that way.

## 5. Not modelled

- Events and requests (`pkg/events`, `pkg/send`): structs without behaviour.
- The values of fields: decoders and encoders are modelled by the bytes they touch, packed
  positions apart. Of generated decoders and encoders the map names the table entry.
- The generator's parsing of C headers, its expression evaluation and its templates: text
  in, text out, with golden tests of its own.
- The parsing of flags and of JSON-RPC; search, statistics and exports of the semantics
  tool, which only read; the layout of YAML (comments, indentation).
- Fixtures and one-off tools.
- Data races of callers that ignore USAGE.md's serialisation rule. Panics in the FSM's
  callbacks. Power failures: the save does not sync, and the model's file system keeps the
  order of operations.

## 6. Plan

Done: sessions, FSM and what it promises, sending, positions, wire tables, semantics
database, generator, and the proofs of section 4. What would come next is the FSM over the
framer: bytes instead of packets in the char phase.
