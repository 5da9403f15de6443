----------------------------- MODULE GenLengths -----------------------------
(*
  genLengths: the length table of the map server is put together from four
  sources, in this order of trust: clif_packetdb.hpp, the headers of
  packets.hpp, the struct sizes of the version table joined with mappings.yaml,
  and the packets named by enums. What each source says is an input.
*)
EXTENDS Breakpoints

CONSTANTS
  Versions,     \* the versions, 0 the baseline
  Headers,      \* what a header can say of the packet: sampled version -> length
  JoinInputs    \* the mappings of the packet, in the order LoadMappings lists them:
                \* sequences of a window and the history of the struct, a layout
                \* for each sampled version

ASSUME VersionsAssumption == Versions \subseteq Nat /\ 0 \in Versions

\* A window from min on, before max if that is not 0, and a struct sampled at some versions.
IsInput(w) ==
  /\ w.min \in Nat /\ w.max \in Nat /\ (w.max = 0 \/ w.min < w.max)
  /\ DOMAIN w.history \subseteq Nat /\ IsFiniteSet(DOMAIN w.history)

\* The windows of the mappings of one packet ID do not overlap.
Precedes(w, x) == w.max # 0 /\ w.max <= x.min

ASSUME JoinInputsAssumption ==
  \A ms \in JoinInputs :
    /\ Len(ms) \in Nat
    /\ \A i \in 1..Len(ms) : IsInput(ms[i])
    /\ \A i, j \in 1..Len(ms) : i # j => Precedes(ms[i], ms[j]) \/ Precedes(ms[j], ms[i])

VARIABLES
  part,         \* the parts of genLengths done so far
  header,       \* what clif_packetdb.hpp says, until the next part
  inputs,       \* the mappings joined last
  joined,       \* what the join pass made of them
  bps           \* mapBreakpoints

vars == <<part, header, inputs, joined, bps>>

Unread == [v \in {} |-> 0]
Mapping(w) == [min |-> w.min, max |-> w.max, ranges |-> BuildVersionTable(w.history)]

Init == part = 0 /\ header = Unread /\ inputs = <<>> /\ joined = Unread /\ bps = Unread

\* Part 1: clif_packetdb.hpp is the base.
PacketDB ==
  /\ part = 0 /\ part' = 1
  /\ header' \in Headers
  /\ bps' = lengthBreakpoints(header')
  /\ UNCHANGED <<inputs, joined>>

\* Part 2: packets.hpp fills what clif_packetdb.hpp leaves open.
PacketsHPP ==
  /\ part = 1 /\ part' = 2
  /\ \E h \in Headers : bps' = mergeBreakpointsFillOnly(bps, lengthBreakpoints(h))
  /\ header' = Unread
  /\ UNCHANGED <<inputs, joined>>

\* Part 3: the join pass, and its result as a fill.
JoinPass ==
  /\ part = 2 /\ part' = 3
  /\ inputs' \in JoinInputs
  /\ joined' = buildMapStocJoinPass([i \in 1..Len(inputs') |-> Mapping(inputs'[i])])
  /\ UNCHANGED <<header, bps>>

FillJoined ==
  /\ part = 3 /\ part' = 4
  /\ bps' = mergeBreakpointsFillOnly(bps, joined)
  /\ inputs' = <<>> /\ joined' = Unread
  /\ UNCHANGED header

\* Part 4: the enums of packets_struct.hpp overrule the rest, block by block.
Enums ==
  /\ part = 4 /\ part' = 5
  /\ \E h \in Headers : bps' = mergeBreakpoints(bps, lengthBreakpoints(h))
  /\ UNCHANGED <<header, inputs, joined>>

Deduplicate ==
  /\ part = 5 /\ part' = 6
  /\ bps' = deduplicateLengthBreakpoints(bps)
  /\ UNCHANGED <<header, inputs, joined>>

Written == part = 6 /\ UNCHANGED vars

Next == PacketDB \/ PacketsHPP \/ JoinPass \/ FillJoined \/ Enums \/ Deduplicate \/ Written

Spec == Init /\ [][Next]_vars

-----------------------------------------------------------------------------
(* Properties *)

\* The tables a session gets at every version are the same.
SameTables(a, b) == \A pv \in Versions : populateLengths(a, pv) = populateLengths(b, pv)

\* The breakpoints of a header say what the header says: at every version, the generated
\* code has the length of the last sample, and 0 once the packet is gone.
HeaderReproduced ==
  part = 1 => \A pv \in Versions :
    populateLengths(bps, pv) = LET l == SampledAt(header, pv) IN IF l = None THEN 0 ELSE l

\* b has every length that a has.
Keeps(a, b) ==
  \A pv \in Versions : populateLengths(a, pv) # 0 => populateLengths(b, pv) = populateLengths(a, pv)

\* mergeBreakpointsFillOnly: a length that an earlier source gives the packet at some version
\* is never overridden there by packets.hpp or by the join pass.
NeverOverridden == [][(part \in {1, 3}) => Keeps(bps, bps')]_vars

\* Removing the redundant entries changes no table.
DedupInvisible == [][part = 5 => SameTables(bps, bps')]_vars

\* With one mapping for a packet ID, the join pass gives it, at every version of the mapping's
\* window, the size of the layout LayoutAt finds there, which the decoders are generated from
\* and which is that of the last sample; before the window it has no length. It does not hold
\* of several mappings: a range that goes on after the window of its mapping resets the length
\* at its own end, where the mapping that follows may have set one at an earlier version.
JoinInWindow ==
  part = 3 /\ Len(inputs) = 1 =>
    LET m == inputs[1]
        layout(pv) == LayoutAt(Mapping(m).ranges, pv)
    IN  \A pv \in Versions :
          /\ layoutEqual(layout(pv), SampledAt(m.history, pv))
          /\ pv < m.min => populateLengths(joined, pv) = 0
          /\ pv >= m.min /\ (m.max = 0 \/ pv < m.max) =>
               populateLengths(joined, pv) = LengthOf(layout(pv))

\* The order in which Go iterates over the actions does not show in the table: mappings of
\* one packet ID with disjoint windows may be joined in either order.
JoinDeterministic ==
  part = 3 =>
    SameTables(joined, buildMapStocJoinPass([i \in 1..Len(inputs) |->
                                               Mapping(inputs[Len(inputs) + 1 - i])]))
==============================================================================
