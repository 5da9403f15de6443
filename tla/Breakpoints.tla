----------------------------- MODULE Breakpoints -----------------------------
(*
  The length tables of internal/codegen, for one packet ID: how the length of a
  packet at each sampled PACKETVER becomes a list of breakpoints, how the lists
  of several headers are merged, and what the generated populate*Lengths makes
  of the result. Every step of main.go treats the IDs independently, so a table
  is a column: a function from some versions to lengths. Version 0 is the
  baseline, which the generated code assigns unconditionally.
*)
EXTENDS Integers, Sequences, FiniteSets, FiniteSetsExt

CONSTANT None   \* a table without the packet, or a version without the struct

\* The versions of a column that apply at pv.
UpTo(column, pv) == DOMAIN column \cap 0..pv

Latest(S) == CHOOSE v \in S : \A w \in S : w <= v

\* populate*Lengths: the blocks run in the order of their versions, so the last one that
\* applies wins, and the table starts out all zero.
populateLengths(bps, pv) == IF UpTo(bps, pv) = {} THEN 0 ELSE bps[Latest(UpTo(bps, pv))]

\* What a header says at pv: what it said at the last sampled version.
SampledAt(header, pv) == IF UpTo(header, pv) = {} THEN None ELSE header[Latest(UpTo(header, pv))]

\* Without the packets that are gone.
diffLenTable_KeepsRemoved(first, prev, cur) ==
  IF cur # None /\ (first \/ cur # (IF prev = None THEN 0 ELSE prev)) THEN {cur} ELSE {}

\* The new length, if it changed: none, or the one in the set. A missing key reads as 0, and a
\* packet that is gone is reset to 0.
diffLenTable(first, prev, cur) ==
  IF cur # None /\ (first \/ cur # (IF prev = None THEN 0 ELSE prev)) THEN {cur}
  ELSE IF prev # None /\ cur = None THEN {0}
  ELSE {}

\* buildMapLengthBreakpoints and its siblings: the versions at which the sampled lengths
\* differ from the version sampled before.
lengthBreakpoints(header) ==
  LET before(v) == UpTo(header, v) \ {v}
      change(v) == diffLenTable(before(v) = {},
                                IF before(v) = {} THEN None ELSE header[Latest(before(v))],
                                header[v])
  IN  [v \in {w \in DOMAIN header : change(w) # {}} |-> CHOOSE l \in change(v) : TRUE]

-----------------------------------------------------------------------------
(* Merging *)

\* When both have the version, extra wins.
mergeBreakpoints(base, extra) ==
  [v \in DOMAIN base \cup DOMAIN extra |-> IF v \in DOMAIN extra THEN extra[v] ELSE base[v]]

\* Looking only at base's own block for the version.
mergeBreakpointsFillOnly_SameVersion(base, extra) ==
  LET fill == {v \in DOMAIN extra : v \notin DOMAIN base \/ base[v] = 0}
  IN  [v \in DOMAIN base \cup fill |-> IF v \in fill THEN extra[v] ELSE base[v]]

\* An entry of extra is taken only where base, all its earlier blocks applied, has 0.
mergeBreakpointsFillOnly(base, extra) ==
  LET fill == {v \in DOMAIN extra : populateLengths(base, v) = 0}
  IN  [v \in DOMAIN base \cup fill |-> IF v \in fill THEN extra[v] ELSE base[v]]

\* Dropping a value that any earlier block has set.
deduplicateLengthBreakpoints_Ever(bps) ==
  [v \in {w \in DOMAIN bps : \A u \in DOMAIN bps : u < w => bps[u] # bps[w]} |-> bps[v]]

\* In version order, an entry is kept when it changes the state: the length of the entry
\* before, whether that was kept or had the state's length already.
deduplicateLengthBreakpoints(bps) ==
  LET before(v) == UpTo(bps, v) \ {v}
  IN  [v \in {w \in DOMAIN bps : \/ before(w) = {}
                                \/ bps[Latest(before(w))] # bps[w]} |-> bps[v]]

-----------------------------------------------------------------------------
(* The version table and the join pass *)

\* Two layouts of a struct: None when the header lacks it; unavailable ones are all alike.
layoutEqual(a, b) ==
  IF a = None \/ b = None THEN a = b ELSE a.available = b.available /\ (a.available => a = b)

\* A range starts where the layout differs from the sample before, and ends where the next
\* one starts; 0 is no end. A struct that disappears gets a range with no layout.
BuildVersionTable(history) ==
  LET before(v) == UpTo(history, v) \ {v}
      prev(v) == IF before(v) = {} THEN None ELSE history[Latest(before(v))]
      starts == {v \in DOMAIN history : ~layoutEqual(prev(v), history[v])}
      after(v) == {w \in starts : w > v}
  IN  {[MinVer |-> v, MaxVer |-> IF after(v) = {} THEN 0 ELSE Min(after(v)),
        Layout |-> history[v]] : v \in starts}

Newest(ranges) == CHOOSE r \in ranges : \A s \in ranges : s.MinVer <= r.MinVer

\* The newest range that contains the version.
LayoutAt(ranges, pv) ==
  LET in == {r \in ranges : r.MinVer <= pv /\ (r.MaxVer = 0 \/ pv < r.MaxVer)}
  IN  IF in = {} THEN None ELSE Newest(in).Layout

\* The length of a layout: -1 with a flexible array, 0 when there is no size.
LengthOf(layout) == IF layout = None THEN 0 ELSE IF layout.flex THEN -1 ELSE layout.size

\* The ranges of a mapping's struct that overlap its window.
rangesInWindow(m) ==
  {r \in m.ranges : /\ LengthOf(r.Layout) # 0
                    /\ ~(r.MaxVer # 0 /\ r.MaxVer <= m.min)
                    /\ ~(m.max # 0 /\ r.MinVer >= m.max)}

Put(bps, v, length) == [w \in DOMAIN bps \cup {v} |-> IF w = v THEN length ELSE bps[w]]
At(bps, v) == IF v \in DOMAIN bps THEN bps[v] ELSE 0

\* From the start of the range, before the mapping is in force.
joinRange_Early(bps, m, r) ==
  LET set == IF At(bps, r.MinVer) = 0 THEN Put(bps, r.MinVer, LengthOf(r.Layout)) ELSE bps
  IN  IF r.MaxVer # 0 /\ At(set, r.MaxVer) = 0 THEN Put(set, r.MaxVer, 0) ELSE set

\* With a reset that overwrites the length of another range.
joinRange_Resets(bps, m, r) ==
  LET ver == IF m.min > r.MinVer THEN m.min ELSE r.MinVer
      set == IF At(bps, ver) = 0 THEN Put(bps, ver, LengthOf(r.Layout)) ELSE bps
  IN  IF r.MaxVer # 0 THEN Put(set, r.MaxVer, 0) ELSE set

\* One range: its length from the later of its start and the mapping's, and a reset where it
\* ends. A non-zero length stays where there is one.
joinRange(bps, m, r) ==
  LET ver == IF m.min > r.MinVer THEN m.min ELSE r.MinVer
      set == IF At(bps, ver) = 0 THEN Put(bps, ver, LengthOf(r.Layout)) ELSE bps
  IN  IF r.MaxVer # 0 /\ At(set, r.MaxVer) = 0 THEN Put(set, r.MaxVer, 0) ELSE set

\* The ranges of one mapping, oldest first.
joinRanges(bps, m) ==
  LET older(r) == {s \in rangesInWindow(m) : s.MinVer < r.MinVer}
      after[r \in rangesInWindow(m)] ==
        joinRange(IF older(r) = {} THEN bps ELSE after[Newest(older(r))], m, r)
  IN  IF rangesInWindow(m) = {} THEN bps ELSE after[Newest(rangesInWindow(m))]

\* The mappings of one packet ID in the order LoadMappings lists them, which is Go's order
\* of a map.
buildMapStocJoinPass(mappings) ==
  LET joined[i \in 0..Len(mappings)] ==
        IF i = 0 THEN [v \in {} |-> 0] ELSE joinRanges(joined[i - 1], mappings[i])
  IN  joined[Len(mappings)]
==============================================================================
