--------------------------- MODULE GenLengthsProofs --------------------------
(*
  Theorems about the length tables of internal/codegen: what the breakpoints of a
  header make of it, and what the merging of the sources keeps, for every header,
  every join pass and every set of sampled versions.
*)
EXTENDS GenLengths, FiniteSetTheorems, SequenceTheorems, WellFoundedInduction, TLAPS

\* A set of naturals that is not empty has a least element.
LEMMA LeastNatural ==
  ASSUME NEW S \in SUBSET Nat, S # {} PROVE \E i \in S : \A j \in S : i <= j
<1> DEFINE R == OpToRel(<, Nat)
<1>1. PICK i \in S : \A j \in S : <<j, i>> \notin R
  BY NatLessThanWellFounded, WFMin
<1>2. R = {ss \in Nat \X Nat : ss[1] < ss[2]}
  BY DEF OpToRel
<1> HIDE DEF R
<1>3. \A j \in S : i <= j
  <2> TAKE j \in S
  <2>1. i \in Nat /\ j \in Nat
    OBVIOUS
  <2>2. ~(j < i)
    BY <1>1, <1>2, <2>1
  <2> QED
    BY <2>1, <2>2
<1> QED
  BY <1>3

\* A bounded set of naturals that is not empty has a greatest element: its least upper bound.
LEMMA LatestIsMax ==
  ASSUME NEW S, NEW n \in Nat, S \subseteq 0..n, S # {}
  PROVE  Latest(S) \in S /\ \A w \in S : w <= Latest(S)
<1> DEFINE U == {u \in Nat : \A v \in S : v <= u}
<1>1. S \subseteq Nat /\ n \in U
  OBVIOUS
<1>2. PICK u \in U : \A x \in U : u <= x
  BY <1>1, LeastNatural
<1>3. u \in Nat /\ \A v \in S : v <= u
  BY <1>2
<1>4. u \in S
  <2> SUFFICES ASSUME u \notin S PROVE FALSE
    OBVIOUS
  <2>1. \A v \in S : v <= u - 1
    BY <1>1, <1>3
  <2>2. u - 1 \in Nat
    <3>1. PICK v \in S : v \in Nat
      BY <1>1
    <3>2. v <= u - 1
      BY <2>1
    <3> QED
      BY <1>3, <3>1, <3>2
  <2>3. u - 1 \in U
    BY <2>1, <2>2
  <2> QED
    BY <1>2, <1>3, <2>3
<1> HIDE DEF U
<1>5. \E v \in S : \A w \in S : w <= v
  BY <1>3, <1>4
<1> QED
  BY <1>5 DEF Latest

\* The latest version is the only one of the set that none is after.
LEMMA LatestIs ==
  ASSUME NEW S, S \subseteq Nat, NEW v \in S, \A w \in S : w <= v
  PROVE  Latest(S) = v
<1>1. \E x \in S : \A w \in S : w <= x
  OBVIOUS
<1>2. Latest(S) \in S /\ \A w \in S : w <= Latest(S)
  BY <1>1 DEF Latest
<1>3. v <= Latest(S) /\ Latest(S) <= v /\ v \in Nat /\ Latest(S) \in Nat
  BY <1>2
<1> QED
  BY <1>3

-----------------------------------------------------------------------------
(* A header and its breakpoints. *)

Before(h, v) == UpTo(h, v) \ {v}
Previous(h, v) == IF Before(h, v) = {} THEN None ELSE h[Latest(Before(h, v))]
Change(h, v) == diffLenTable(Before(h, v) = {}, Previous(h, v), h[v])

\* The length the header gives a sample; a packet that is not there has none.
LengthAt(h, v) == IF h[v] = None THEN 0 ELSE h[v]

LEMMA BreakpointsOf ==
  ASSUME NEW h
  PROVE  lengthBreakpoints(h) = [v \in {w \in DOMAIN h : Change(h, w) # {}} |->
                                   CHOOSE l \in Change(h, v) : TRUE]
BY Zenon DEF lengthBreakpoints, Change, Previous, Before

\* A change is a change to the length at the sample; without one, the length is that of the
\* sample before, or none.
LEMMA ChangeIs ==
  ASSUME NEW h, NEW v
  PROVE  /\ Change(h, v) # {} => (CHOOSE l \in Change(h, v) : TRUE) = LengthAt(h, v)
         /\ Change(h, v) = {} =>
              LengthAt(h, v) = IF Before(h, v) = {} THEN 0 ELSE LengthAt(h, Latest(Before(h, v)))
<1>2. ASSUME Change(h, v) # {} PROVE Change(h, v) = {LengthAt(h, v)}
  BY <1>2 DEF Change, diffLenTable, LengthAt
<1>3. \A x : (CHOOSE l \in {x} : TRUE) = x
  OBVIOUS
<1>4. ASSUME Change(h, v) = {}
      PROVE  LengthAt(h, v) = IF Before(h, v) = {} THEN 0 ELSE LengthAt(h, Latest(Before(h, v)))
  BY <1>4 DEF Change, diffLenTable, LengthAt, Previous
<1>5. ASSUME Change(h, v) # {} PROVE (CHOOSE l \in Change(h, v) : TRUE) = LengthAt(h, v)
  <2>1. Change(h, v) = {LengthAt(h, v)}
    BY <1>2, <1>5
  <2> QED
    BY <1>3, <2>1, Zenon
<1> QED
  BY <1>4, <1>5

\* Between two samples that follow each other the breakpoints change nothing.
LEMMA SameUpTo ==
  ASSUME NEW b, NEW h, DOMAIN b \subseteq DOMAIN h, NEW pv \in Nat, NEW S, S \subseteq UpTo(h, pv),
         S # {}, \A v \in DOMAIN b \cap 0..pv : v \in S
  PROVE  populateLengths(b, pv) = populateLengths(b, Latest(S))
<1>1. S \subseteq 0..pv /\ S \subseteq Nat
  BY DEF UpTo
<1>2. Latest(S) \in S /\ \A w \in S : w <= Latest(S)
  BY <1>1, LatestIsMax
<1>3. Latest(S) \in Nat /\ Latest(S) <= pv
  <2>1. Latest(S) \in 0..pv
    BY <1>1, <1>2
  <2> QED
    BY <2>1
<1>4. \A v : v \in UpTo(b, pv) <=> v \in UpTo(b, Latest(S))
  <2>1. ASSUME NEW v, v \in UpTo(b, pv) PROVE v \in UpTo(b, Latest(S))
    <3>1. v \in DOMAIN b /\ v \in 0..pv
      BY <2>1 DEF UpTo
    <3>2. v \in S
      BY <3>1
    <3>3. v <= Latest(S) /\ v \in Nat
      BY <1>1, <1>2, <3>2
    <3> QED
      BY <1>3, <3>1, <3>3 DEF UpTo
  <2>2. ASSUME NEW v, v \in UpTo(b, Latest(S)) PROVE v \in UpTo(b, pv)
    BY <1>3, <2>2 DEF UpTo
  <2> QED
    BY <2>1, <2>2
<1>5. UpTo(b, pv) = UpTo(b, Latest(S))
  BY <1>4
<1> QED
  BY <1>5 DEF populateLengths

\* At every sample, the table the breakpoints build has the length of the sample. A first
\* sample that it has not cannot be: there, nothing has changed since the sample before.
LEMMA SamplesReproduced ==
  ASSUME NEW h, NEW v \in DOMAIN h \cap Nat
  PROVE  populateLengths(lengthBreakpoints(h), v) = LengthAt(h, v)
<1> DEFINE b == lengthBreakpoints(h)
           Bad == {w \in DOMAIN h \cap Nat : populateLengths(b, w) # LengthAt(h, w)}
<1> SUFFICES ASSUME Bad # {} PROVE FALSE
  OBVIOUS
<1>1. PICK x \in Bad : \A y \in Bad : x <= y
  BY LeastNatural
<1>2. x \in Nat /\ x \in DOMAIN h /\ populateLengths(b, x) # LengthAt(h, x)
  BY <1>1
<1>3. \A y \in DOMAIN h \cap Nat : y < x => populateLengths(b, y) = LengthAt(h, y)
  BY <1>1, <1>2
<1> HIDE DEF Bad
<1>4. /\ DOMAIN b = {w \in DOMAIN h : Change(h, w) # {}}
      /\ \A w \in DOMAIN b : b[w] = CHOOSE l \in Change(h, w) : TRUE
  BY BreakpointsOf
<1> HIDE DEF b
<1>5. UpTo(b, x) \subseteq 0..x /\ UpTo(b, x) \subseteq Nat
  BY <1>2 DEF UpTo
<1>6. CASE Change(h, x) # {}
  <2>1. x \in UpTo(b, x) /\ \A w \in UpTo(b, x) : w <= x
    BY <1>2, <1>4, <1>6 DEF UpTo
  <2>2. Latest(UpTo(b, x)) = x /\ UpTo(b, x) # {}
    BY <1>5, <2>1, LatestIs
  <2>3. populateLengths(b, x) = b[x]
    BY <2>2 DEF populateLengths
  <2>4. b[x] = LengthAt(h, x)
    BY <1>2, <1>4, <1>6, ChangeIs
  <2> QED
    BY <1>2, <2>3, <2>4
<1>7. CASE Change(h, x) = {} /\ Before(h, x) = {}
  <2>1. UpTo(b, x) = {}
    BY <1>4, <1>7 DEF UpTo, Before
  <2>2. populateLengths(b, x) = 0
    BY <2>1 DEF populateLengths
  <2>3. LengthAt(h, x) = 0
    BY <1>7, ChangeIs
  <2> QED
    BY <1>2, <2>2, <2>3
<1>8. CASE Change(h, x) = {} /\ Before(h, x) # {}
  <2> DEFINE p == Latest(Before(h, x))
  <2>1. Before(h, x) \subseteq UpTo(h, x) /\ Before(h, x) \subseteq 0..x
    BY DEF Before, UpTo
  <2>2. p \in Before(h, x)
    BY <1>2, <1>8, <2>1, LatestIsMax
  <2>3. p \in DOMAIN h \cap Nat /\ p < x
    BY <1>2, <2>2 DEF Before, UpTo
  <2>4. populateLengths(b, p) = LengthAt(h, p)
    BY <1>3, <2>3
  <2>5. LengthAt(h, x) = LengthAt(h, p)
    BY <1>8, ChangeIs
  <2>6. DOMAIN b \subseteq DOMAIN h /\ \A w \in DOMAIN b \cap 0..x : w \in Before(h, x)
    BY <1>4, <1>8 DEF Before, UpTo
  <2>7. populateLengths(b, x) = populateLengths(b, p)
    BY <1>2, <1>8, <2>1, <2>6, SameUpTo
  <2> QED
    BY <1>2, <2>4, <2>5, <2>7
<1> QED
  BY <1>6, <1>7, <1>8

\* The breakpoints of a header say what it says, at every version.
LEMMA HeaderSays ==
  ASSUME NEW h, NEW pv \in Nat
  PROVE  populateLengths(lengthBreakpoints(h), pv) =
           LET l == SampledAt(h, pv) IN IF l = None THEN 0 ELSE l
<1> DEFINE b == lengthBreakpoints(h)
           S == UpTo(h, pv)
<1>1. DOMAIN b \subseteq DOMAIN h
  BY BreakpointsOf
<1>2. \A w \in DOMAIN h \cap Nat : populateLengths(b, w) = LengthAt(h, w)
  BY SamplesReproduced
<1> HIDE DEF b
<1>3. CASE S = {}
  <2>1. UpTo(b, pv) = {}
    BY <1>1, <1>3 DEF UpTo
  <2> QED
    BY <1>3, <2>1 DEF populateLengths, SampledAt, b
<1>4. CASE S # {}
  <2>1. S \subseteq 0..pv /\ \A v \in DOMAIN b \cap 0..pv : v \in S
    BY <1>1 DEF UpTo
  <2>2. Latest(S) \in S
    BY <1>4, <2>1, LatestIsMax
  <2>3. Latest(S) \in DOMAIN h \cap Nat
    BY <2>2 DEF UpTo
  <2>4. populateLengths(b, pv) = populateLengths(b, Latest(S))
    BY <1>1, <1>4, <2>1, SameUpTo
  <2>5. populateLengths(b, pv) = LengthAt(h, Latest(S))
    BY <1>2, <2>3, <2>4
  <2> QED
    BY <1>4, <2>5 DEF SampledAt, LengthAt, b
<1> QED
  BY <1>3, <1>4

\* lengthBreakpoints and populate*Lengths together are the identity on what a header says:
\* whatever versions are sampled, a session at any version has the length of the last sample,
\* and none once the packet is gone.
THEOREM HeaderStaysReproduced == Spec => []HeaderReproduced
<1> DEFINE Inv == part \in 0..6 /\ (part = 1 => bps = lengthBreakpoints(header))
<1>1. Init => Inv
  BY DEF Init
<1>2. Inv /\ [Next]_vars => Inv'
  BY DEF Next, PacketDB, PacketsHPP, JoinPass, FillJoined, Enums, Deduplicate, Written, vars
<1>3. Inv => HeaderReproduced
  BY HeaderSays, VersionsAssumption DEF HeaderReproduced
<1> QED
  BY <1>1, <1>2, <1>3, PTL DEF Spec

-----------------------------------------------------------------------------
(* The merging of the sources. *)

\* Where base gives a length, extra is not looked at: neither at base's block nor between it
\* and the version.
LEMMA FillOnlyKeeps ==
  ASSUME NEW base, NEW extra, NEW pv \in Nat, populateLengths(base, pv) # 0
  PROVE  populateLengths(mergeBreakpointsFillOnly(base, extra), pv) = populateLengths(base, pv)
<1> DEFINE fill == {v \in DOMAIN extra : populateLengths(base, v) = 0}
           m == mergeBreakpointsFillOnly(base, extra)
           w == Latest(UpTo(base, pv))
<1>1. /\ DOMAIN m = DOMAIN base \cup fill
      /\ \A v \in DOMAIN m : m[v] = IF v \in fill THEN extra[v] ELSE base[v]
  BY DEF mergeBreakpointsFillOnly
<1> HIDE DEF m
<1>2. UpTo(base, pv) # {} /\ populateLengths(base, pv) = base[w]
  BY DEF populateLengths
<1>3. UpTo(base, pv) \subseteq 0..pv
  BY DEF UpTo
<1>4. w \in UpTo(base, pv) /\ \A v \in UpTo(base, pv) : v <= w
  BY <1>2, <1>3, LatestIsMax
<1>5. w \in DOMAIN base /\ w \in Nat /\ w <= pv
  BY <1>4 DEF UpTo
<1>6. ASSUME NEW v \in Nat, w <= v, v <= pv PROVE populateLengths(base, v) = base[w]
  <2>1. UpTo(base, v) \subseteq Nat /\ w \in UpTo(base, v)
    BY <1>5, <1>6 DEF UpTo
  <2>2. \A u \in UpTo(base, v) : u <= w
    BY <1>4, <1>6 DEF UpTo
  <2>3. Latest(UpTo(base, v)) = w /\ UpTo(base, v) # {}
    BY <2>1, <2>2, LatestIs
  <2> QED
    BY <2>3 DEF populateLengths
<1>7. base[w] # 0
  BY <1>2
<1>8. \A v \in fill : ~(v \in Nat /\ w <= v /\ v <= pv)
  BY <1>6, <1>7
<1>9. w \in UpTo(m, pv) /\ w \notin fill /\ m[w] = base[w]
  BY <1>1, <1>5, <1>8 DEF UpTo
<1>10. \A v \in UpTo(m, pv) : v <= w
  <2> TAKE v \in UpTo(m, pv)
  <2>1. v \in Nat /\ v <= pv /\ v \in DOMAIN base \cup fill
    BY <1>1 DEF UpTo
  <2>2. CASE v \in DOMAIN base
    BY <1>4, <2>1, <2>2 DEF UpTo
  <2>3. CASE v \in fill
    BY <1>5, <1>8, <2>1, <2>3
  <2> QED
    BY <2>1, <2>2, <2>3
<1>11. UpTo(m, pv) \subseteq Nat
  BY DEF UpTo
<1>12. Latest(UpTo(m, pv)) = w /\ UpTo(m, pv) # {}
  BY <1>9, <1>10, <1>11, LatestIs
<1> QED
  BY <1>2, <1>9, <1>12 DEF populateLengths, m

\* A length that an earlier source gives the packet at some version is never overridden there
\* by packets.hpp or by the join pass, whatever they say.
THEOREM NothingOverridden == Spec => NeverOverridden
<1>1. [Next]_vars => [(part \in {1, 3}) => Keeps(bps, bps')]_vars
  <2> SUFFICES ASSUME Next, part \in {1, 3} PROVE Keeps(bps, bps')
    OBVIOUS
  <2>1. \E extra : bps' = mergeBreakpointsFillOnly(bps, extra)
    BY DEF Next, PacketDB, PacketsHPP, JoinPass, FillJoined, Enums, Deduplicate, Written, vars
  <2>2. PICK extra : bps' = mergeBreakpointsFillOnly(bps, extra)
    BY <2>1
  <2> QED
    BY <2>2, FillOnlyKeeps, VersionsAssumption DEF Keeps
<1> QED
  BY <1>1, PTL DEF Spec, NeverOverridden

-----------------------------------------------------------------------------
(* The removal of redundant entries. *)

LEMMA DeduplicatedIs ==
  ASSUME NEW b
  PROVE  LET d == deduplicateLengthBreakpoints(b)
         IN  /\ DOMAIN d = {w \in DOMAIN b : Before(b, w) = {} \/ b[Latest(Before(b, w))] # b[w]}
             /\ \A w \in DOMAIN d : d[w] = b[w]
BY DEF deduplicateLengthBreakpoints, Before

\* Where there was an entry, the table still has its length: the first entry to lack it would
\* be one that was dropped for the entry before, which has it.
LEMMA EntriesKept ==
  ASSUME NEW b, NEW v \in DOMAIN b \cap Nat
  PROVE  populateLengths(deduplicateLengthBreakpoints(b), v) = b[v]
<1> DEFINE d == deduplicateLengthBreakpoints(b)
           Bad == {w \in DOMAIN b \cap Nat : populateLengths(d, w) # b[w]}
<1> SUFFICES ASSUME Bad # {} PROVE FALSE
  OBVIOUS
<1>1. PICK x \in Bad : \A y \in Bad : x <= y
  BY LeastNatural
<1>2. x \in Nat /\ x \in DOMAIN b /\ populateLengths(d, x) # b[x]
  BY <1>1
<1>3. \A y \in DOMAIN b \cap Nat : y < x => populateLengths(d, y) = b[y]
  BY <1>1, <1>2
<1> HIDE DEF Bad
<1>4. /\ DOMAIN d = {w \in DOMAIN b : Before(b, w) = {} \/ b[Latest(Before(b, w))] # b[w]}
      /\ \A w \in DOMAIN d : d[w] = b[w]
  BY DeduplicatedIs
<1> HIDE DEF d
<1>5. CASE x \in DOMAIN d
  <2>1. x \in UpTo(d, x) /\ \A w \in UpTo(d, x) : w <= x
    BY <1>2, <1>5 DEF UpTo
  <2>2. UpTo(d, x) \subseteq Nat
    BY DEF UpTo
  <2>3. Latest(UpTo(d, x)) = x /\ UpTo(d, x) # {}
    BY <2>1, <2>2, LatestIs
  <2> QED
    BY <1>2, <1>4, <1>5, <2>3 DEF populateLengths
<1>6. CASE x \notin DOMAIN d
  <2> DEFINE p == Latest(Before(b, x))
  <2>1. Before(b, x) # {} /\ b[p] = b[x]
    BY <1>2, <1>4, <1>6
  <2>2. Before(b, x) \subseteq UpTo(b, x) /\ Before(b, x) \subseteq 0..x
    BY DEF Before, UpTo
  <2>3. p \in Before(b, x)
    BY <1>2, <2>1, <2>2, LatestIsMax
  <2>4. p \in DOMAIN b \cap Nat /\ p < x
    BY <1>2, <2>3 DEF Before, UpTo
  <2>5. DOMAIN d \subseteq DOMAIN b /\ \A w \in DOMAIN d \cap 0..x : w \in Before(b, x)
    BY <1>4, <1>6 DEF Before, UpTo
  <2>6. populateLengths(d, x) = populateLengths(d, p)
    BY <1>2, <2>1, <2>2, <2>5, SameUpTo
  <2> QED
    BY <1>2, <1>3, <2>1, <2>4, <2>6
<1> QED
  BY <1>5, <1>6

\* Removing what an earlier block has already set changes no table, at any version.
LEMMA SameTable ==
  ASSUME NEW b, NEW pv \in Nat
  PROVE  populateLengths(b, pv) = populateLengths(deduplicateLengthBreakpoints(b), pv)
<1> DEFINE d == deduplicateLengthBreakpoints(b)
           S == UpTo(b, pv)
<1>1. DOMAIN d \subseteq DOMAIN b
  BY DeduplicatedIs
<1>2. \A w \in DOMAIN b \cap Nat : populateLengths(d, w) = b[w]
  BY EntriesKept
<1> HIDE DEF d
<1>3. CASE S = {}
  <2>1. UpTo(d, pv) = {}
    BY <1>1, <1>3 DEF UpTo
  <2> QED
    BY <1>3, <2>1 DEF populateLengths, d
<1>4. CASE S # {}
  <2>1. S \subseteq 0..pv /\ \A v \in DOMAIN d \cap 0..pv : v \in S
    BY <1>1 DEF UpTo
  <2>2. Latest(S) \in S
    BY <1>4, <2>1, LatestIsMax
  <2>3. Latest(S) \in DOMAIN b \cap Nat
    BY <2>2 DEF UpTo
  <2>4. populateLengths(d, pv) = populateLengths(d, Latest(S))
    BY <1>1, <1>4, <2>1, SameUpTo
  <2> QED
    BY <1>2, <1>4, <2>3, <2>4 DEF populateLengths, d
<1> QED
  BY <1>3, <1>4

\* deduplicateLengthBreakpoints, the last step of genLengths, is invisible to every session,
\* whatever the sources said.
THEOREM RedundantOnlyRemoved == Spec => DedupInvisible
<1>1. [Next]_vars => [part = 5 => SameTables(bps, bps')]_vars
  <2> SUFFICES ASSUME Next, part = 5 PROVE SameTables(bps, bps') \/ UNCHANGED vars
    OBVIOUS
  <2>1. bps' = deduplicateLengthBreakpoints(bps)
    BY DEF Next, PacketDB, PacketsHPP, JoinPass, FillJoined, Enums, Deduplicate, Written, vars
  <2> QED
    BY <2>1, SameTable, VersionsAssumption DEF SameTables
<1> QED
  BY <1>1, PTL DEF Spec, DedupInvisible

-----------------------------------------------------------------------------
(* Finite sets of versions. *)

\* A finite set of naturals has a bound: otherwise take a smallest set without one.
LEMMA FiniteBounded ==
  ASSUME NEW S \in SUBSET Nat, IsFiniteSet(S)
  PROVE  \E n \in Nat : S \subseteq 0..n
<1> DEFINE Unbounded(T) == ~\E n \in Nat : T \subseteq 0..n
           Bad == {k \in Nat : \E T \in SUBSET Nat : IsFiniteSet(T) /\ Cardinality(T) = k /\ Unbounded(T)}
<1> SUFFICES ASSUME Unbounded(S) PROVE FALSE
  OBVIOUS
<1>1. Bad # {}
  BY FS_CardinalityType
<1>2. PICK k \in Bad : \A i \in Bad : k <= i
  BY <1>1, LeastNatural
<1>3. PICK T \in SUBSET Nat : IsFiniteSet(T) /\ Cardinality(T) = k /\ Unbounded(T)
  BY <1>2
<1>4. PICK x \in T : TRUE
  <2>1. {} \subseteq 0..0
    OBVIOUS
  <2> QED
    BY <1>3, <2>1
<1>5. /\ IsFiniteSet(T \ {x}) /\ Cardinality(T \ {x}) = k - 1 /\ k - 1 \in Nat
      /\ T \ {x} \in SUBSET Nat
  <2>1. IsFiniteSet(T \ {x}) /\ Cardinality(T \ {x}) = k - 1
    BY <1>3, <1>4, FS_RemoveElement
  <2>2. k \in Nat /\ k # 0
    BY <1>2, <1>3, <1>4, FS_EmptySet
  <2> QED
    BY <2>1, <2>2
<1>6. PICK n \in Nat : T \ {x} \subseteq 0..n
  <2>1. k - 1 \notin Bad
    <3>1. ~(k <= k - 1)
      BY <1>5
    <3> HIDE DEF Bad
    <3> QED
      BY <1>2, <3>1
  <2> QED
    BY <1>5, <2>1
<1>7. T \subseteq 0..(n + x) /\ n + x \in Nat
  BY <1>3, <1>4, <1>6
<1> QED
  BY <1>3, <1>7

-----------------------------------------------------------------------------
(* The version table of a struct. *)

\* The versions at which a range starts.
Starts(h) == {v \in DOMAIN h : ~layoutEqual(Previous(h, v), h[v])}
Later(h, v) == {w \in Starts(h) : w > v}
RangeAt(h, v) ==
  [MinVer |-> v, MaxVer |-> IF Later(h, v) = {} THEN 0 ELSE Min(Later(h, v)), Layout |-> h[v]]

LEMMA TableIs ==
  ASSUME NEW h
  PROVE  BuildVersionTable(h) = {RangeAt(h, v) : v \in Starts(h)}
BY Zenon DEF BuildVersionTable, RangeAt, Later, Starts, Previous, Before

\* A range ends where the next one starts, or never.
LEMMA EndsWhere ==
  ASSUME NEW h, DOMAIN h \subseteq Nat, NEW v \in Starts(h)
  PROVE  LET e == RangeAt(h, v).MaxVer
         IN  \/ e = 0 /\ \A w \in Starts(h) : w <= v
             \/ e \in Starts(h) /\ e \in Nat /\ v < e /\ \A w \in Starts(h) : v < w => e <= w
<1> DEFINE L == Later(h, v)
           e == RangeAt(h, v).MaxVer
<1>1. Starts(h) \subseteq Nat /\ v \in Nat
  BY DEF Starts
<1>2. L = {w \in Starts(h) : w > v} /\ e = IF L = {} THEN 0 ELSE Min(L)
  BY DEF Later, RangeAt
<1> HIDE DEF L, e
<1>3. CASE L = {}
  BY <1>1, <1>2, <1>3 DEF e
<1>4. CASE L # {}
  <2>1. L \in SUBSET Nat
    BY <1>1, <1>2
  <2>2. \E x \in L : \A y \in L : x <= y
    BY <1>4, <2>1, LeastNatural
  <2>3. Min(L) \in L /\ \A y \in L : Min(L) <= y
    BY <2>2 DEF Min
  <2>4. e \in L /\ \A y \in L : e <= y
    BY <1>2, <1>4, <2>3
  <2> QED
    BY <1>1, <1>2, <2>4 DEF e
<1> QED
  BY <1>3, <1>4

\* What the latest range that has started says.
StartsTo(h, pv) == Starts(h) \cap 0..pv
Said(h, pv) == IF StartsTo(h, pv) = {} THEN None ELSE h[Latest(StartsTo(h, pv))]

LEMMA LayoutIs ==
  ASSUME NEW h, DOMAIN h \subseteq Nat, NEW pv \in Nat
  PROVE  LayoutAt(BuildVersionTable(h), pv) = Said(h, pv)
<1> DEFINE R == {RangeAt(h, v) : v \in Starts(h)}
           in == {r \in R : r.MinVer <= pv /\ (r.MaxVer = 0 \/ pv < r.MaxVer)}
           S == StartsTo(h, pv)
<1>1. LayoutAt(BuildVersionTable(h), pv) = IF in = {} THEN None ELSE Newest(in).Layout
  BY TableIs, Zenon DEF LayoutAt
<1>2. Starts(h) \subseteq Nat
  BY DEF Starts
<1>3. \A v : RangeAt(h, v).MinVer = v /\ RangeAt(h, v).Layout = h[v]
  BY DEF RangeAt
<1>4. CASE S = {}
  <2>1. \A v \in Starts(h) : ~(v <= pv)
    BY <1>2, <1>4 DEF StartsTo
  <2>2. in = {}
    BY <1>3, <2>1
  <2> QED
    BY <1>1, <1>4, <2>2 DEF Said
<1>5. CASE S # {}
  <2> DEFINE x == Latest(S)
  <2>1. x \in S /\ \A w \in S : w <= x
    BY <1>5, LatestIsMax DEF StartsTo
  <2>2. x \in Starts(h) /\ x \in Nat /\ x <= pv
    BY <2>1 DEF StartsTo
  <2>3. \A w \in Starts(h) : w <= pv => w <= x
    BY <1>2, <2>1 DEF StartsTo
  <2> HIDE DEF x, S
  <2>4. RangeAt(h, x).MaxVer = 0 \/ pv < RangeAt(h, x).MaxVer
    <3> DEFINE e == RangeAt(h, x).MaxVer
    <3>1. e = 0 \/ (e \in Starts(h) /\ e \in Nat /\ x < e)
      BY <2>2, EndsWhere
    <3> HIDE DEF e
    <3>2. e = 0 \/ pv < e
      BY <2>2, <2>3, <3>1
    <3> QED
      BY <3>2 DEF e
  <2>5. ASSUME NEW v \in Starts(h), v <= pv, RangeAt(h, v).MaxVer = 0 \/ pv < RangeAt(h, v).MaxVer
        PROVE  v = x
    <3> DEFINE e == RangeAt(h, v).MaxVer
    <3>1. v \in Nat /\ v <= x
      BY <1>2, <2>3, <2>5
    <3>2. (e = 0 /\ x <= v) \/ (e \in Nat /\ (v < x => e <= x))
      BY <2>2, EndsWhere
    <3>3. e = 0 \/ pv < e
      BY <2>5
    <3>4. e # 0 \/ x <= v
      BY <2>2, <3>1, EndsWhere
    <3> HIDE DEF e
    <3> QED
      BY <2>2, <3>1, <3>2, <3>3, <3>4
  <2>6. in = {RangeAt(h, x)}
    BY <1>3, <2>2, <2>4, <2>5
  <2>7. Newest(in) = RangeAt(h, x)
    <3>1. \A s \in {RangeAt(h, x)} : s.MinVer <= RangeAt(h, x).MinVer
      BY <1>3, <2>2
    <3> HIDE DEF in
    <3>2. Newest(in) \in in
      BY <2>6, <3>1 DEF Newest
    <3> QED
      BY <2>6, <3>2
  <2> QED
    BY <1>1, <1>3, <1>5, <2>6, <2>7 DEF Said, x, S
<1> QED
  BY <1>4, <1>5

LEMMA AlikeReflexive == ASSUME NEW a PROVE layoutEqual(a, a)
BY DEF layoutEqual

LEMMA AlikeTransitive ==
  ASSUME NEW a, NEW b, NEW c, layoutEqual(a, b), layoutEqual(b, c) PROVE layoutEqual(a, c)
<1>1. CASE a = None \/ c = None \/ b = None
  BY <1>1 DEF layoutEqual
<1>2. CASE ~(a = None \/ c = None \/ b = None)
  <2>1. a.available = b.available /\ b.available = c.available
    BY <1>2, Zenon DEF layoutEqual
  <2>2. (a.available => a = b) /\ (b.available => b = c)
    BY <1>2, Zenon DEF layoutEqual
  <2>3. a.available = c.available /\ (a.available => a = c)
    BY <2>1, <2>2, Zenon
  <2> QED
    BY <1>2, <2>3, Zenon DEF layoutEqual
<1> QED
  BY <1>1, <1>2

\* The range says of a sample what the sample says: the first sample of which it does not
\* would start a range.
LEMMA SamplesSaid ==
  ASSUME NEW h, DOMAIN h \subseteq Nat, NEW v \in DOMAIN h
  PROVE  layoutEqual(Said(h, v), h[v])
<1> DEFINE Bad == {w \in DOMAIN h : ~layoutEqual(Said(h, w), h[w])}
<1> SUFFICES ASSUME Bad # {} PROVE FALSE
  OBVIOUS
<1>1. PICK x \in Bad : \A y \in Bad : x <= y
  BY LeastNatural
<1>2. x \in Nat /\ x \in DOMAIN h /\ ~layoutEqual(Said(h, x), h[x])
  BY <1>1
<1>3. \A y \in DOMAIN h : y < x => layoutEqual(Said(h, y), h[y])
  BY <1>1, <1>2
<1> HIDE DEF Bad
<1>4. StartsTo(h, x) \subseteq 0..x /\ StartsTo(h, x) \subseteq Nat
  BY DEF StartsTo
<1>5. CASE x \in Starts(h)
  <2>1. x \in StartsTo(h, x) /\ \A w \in StartsTo(h, x) : w <= x
    BY <1>2, <1>5 DEF StartsTo
  <2>2. Latest(StartsTo(h, x)) = x
    BY <1>4, <2>1, LatestIs
  <2>3. Said(h, x) = h[x]
    BY <2>1, <2>2 DEF Said
  <2> QED
    BY <1>2, <2>3, AlikeReflexive
<1>6. CASE x \notin Starts(h) /\ Before(h, x) = {}
  <2>1. StartsTo(h, x) = {}
    BY <1>2, <1>6 DEF StartsTo, Starts, Before, UpTo
  <2>2. Said(h, x) = None /\ Previous(h, x) = None
    BY <1>6, <2>1 DEF Said, Previous
  <2>3. layoutEqual(Previous(h, x), h[x])
    BY <1>2, <1>6 DEF Starts
  <2> QED
    BY <1>2, <2>2, <2>3
<1>7. CASE x \notin Starts(h) /\ Before(h, x) # {}
  <2> DEFINE p == Latest(Before(h, x))
  <2>1. Before(h, x) \subseteq 0..x
    BY DEF Before, UpTo
  <2>2. p \in Before(h, x) /\ \A w \in Before(h, x) : w <= p
    BY <1>2, <1>7, <2>1, LatestIsMax
  <2>3. p \in DOMAIN h /\ p \in Nat /\ p < x
    BY <1>2, <2>2 DEF Before, UpTo
  <2>4. Previous(h, x) = h[p]
    BY <1>7 DEF Previous
  <2> HIDE DEF p
  <2>5. layoutEqual(h[p], h[x])
    BY <1>2, <1>7, <2>4 DEF Starts
  <2>6. layoutEqual(Said(h, p), h[p])
    BY <1>3, <2>3
  <2>7. \A w : w \in StartsTo(h, x) <=> w \in StartsTo(h, p)
    <3>1. ASSUME NEW w, w \in StartsTo(h, x) PROVE w \in StartsTo(h, p)
      <4>1. w \in Starts(h) /\ w \in Nat /\ w <= x /\ w # x
        BY <1>2, <1>7, <3>1 DEF StartsTo
      <4>2. w \in Before(h, x)
        BY <1>2, <4>1 DEF Before, UpTo, Starts
      <4> QED
        BY <2>2, <2>3, <4>1, <4>2 DEF StartsTo
    <3>2. ASSUME NEW w, w \in StartsTo(h, p) PROVE w \in StartsTo(h, x)
      BY <1>2, <2>3, <3>2 DEF StartsTo
    <3> QED
      BY <3>1, <3>2
  <2>8. StartsTo(h, x) = StartsTo(h, p)
    BY <2>7
  <2>9. Said(h, x) = Said(h, p)
    BY <2>8 DEF Said
  <2> QED
    BY <1>2, <2>5, <2>6, <2>9, AlikeTransitive
<1> QED
  BY <1>5, <1>6, <1>7

\* At every version, LayoutAt has the layout of the last sample.
LEMMA LayoutSampled ==
  ASSUME NEW h, DOMAIN h \subseteq Nat, NEW pv \in Nat
  PROVE  layoutEqual(LayoutAt(BuildVersionTable(h), pv), SampledAt(h, pv))
<1> DEFINE S == UpTo(h, pv)
<1>1. LayoutAt(BuildVersionTable(h), pv) = Said(h, pv)
  BY LayoutIs
<1>2. CASE S = {}
  <2>1. StartsTo(h, pv) = {}
    BY <1>2 DEF StartsTo, Starts, UpTo
  <2> QED
    BY <1>1, <1>2, <2>1, AlikeReflexive DEF Said, SampledAt
<1>3. CASE S # {}
  <2> DEFINE p == Latest(S)
  <2>1. p \in S /\ \A w \in S : w <= p
    BY <1>3, LatestIsMax DEF UpTo
  <2>2. p \in DOMAIN h /\ p \in Nat /\ p <= pv
    BY <2>1 DEF UpTo
  <2>3. SampledAt(h, pv) = h[p]
    BY <1>3 DEF SampledAt
  <2>4. \A w \in DOMAIN h : w <= pv => w <= p
    BY <2>1 DEF UpTo
  <2> HIDE DEF p, S
  <2>5. \A w : w \in StartsTo(h, pv) <=> w \in StartsTo(h, p)
    BY <2>2, <2>4 DEF StartsTo, Starts
  <2>6. StartsTo(h, pv) = StartsTo(h, p)
    BY <2>5
  <2>7. Said(h, pv) = Said(h, p)
    BY <2>6 DEF Said
  <2> QED
    BY <1>1, <2>2, <2>3, <2>7, SamplesSaid
<1> QED
  BY <1>2, <1>3

\* The ranges of a mapping that are joined: in order, none before the window and none after it.
Chain(m, n) ==
  /\ m.min \in Nat /\ m.max \in Nat /\ (m.max = 0 \/ m.min < m.max)
  /\ \A r \in rangesInWindow(m) :
       /\ r.MinVer \in 0..n /\ LengthOf(r.Layout) # 0
       /\ m.max = 0 \/ r.MinVer < m.max
       /\ r.MaxVer = 0 \/ (r.MaxVer \in Nat /\ r.MinVer < r.MaxVer /\ m.min < r.MaxVer)
  /\ \A r, s \in rangesInWindow(m) :
       /\ r.MinVer < s.MinVer => r.MaxVer # 0 /\ r.MaxVer <= s.MinVer
       /\ r.MinVer = s.MinVer => r = s

LEMMA InputChain ==
  ASSUME NEW w, IsInput(w)
  PROVE  \E n \in Nat : Chain(Mapping(w), n)
<1> DEFINE m == Mapping(w)
           h == w.history
<1>1. DOMAIN h \subseteq Nat /\ w.min \in Nat /\ w.max \in Nat /\ (w.max = 0 \/ w.min < w.max)
  BY DEF IsInput
<1>2. PICK n \in Nat : DOMAIN h \subseteq 0..n
  BY FiniteBounded DEF IsInput
<1>3. m.min = w.min /\ m.max = w.max /\ m.ranges = {RangeAt(h, v) : v \in Starts(h)}
  BY TableIs DEF Mapping
<1>4. \A v : RangeAt(h, v).MinVer = v /\ RangeAt(h, v).Layout = h[v]
  BY DEF RangeAt
<1>5. Starts(h) \subseteq DOMAIN h
  BY DEF Starts
<1> HIDE DEF m, h
<1>6. \A r \in rangesInWindow(m) :
        /\ \E v \in Starts(h) : r = RangeAt(h, v)
        /\ LengthOf(r.Layout) # 0
        /\ r.MaxVer = 0 \/ ~(r.MaxVer <= m.min)
        /\ m.max = 0 \/ ~(r.MinVer >= m.max)
  BY <1>3 DEF rangesInWindow
<1>7. ASSUME NEW r \in rangesInWindow(m)
      PROVE  /\ r.MinVer \in 0..n /\ LengthOf(r.Layout) # 0
             /\ m.max = 0 \/ r.MinVer < m.max
             /\ r.MaxVer = 0 \/ (r.MaxVer \in Nat /\ r.MinVer < r.MaxVer /\ m.min < r.MaxVer)
  <2>1. PICK v \in Starts(h) : r = RangeAt(h, v)
    BY <1>6
  <2>2. r.MinVer = v /\ v \in 0..n
    BY <1>2, <1>4, <1>5, <2>1
  <2>3. r.MaxVer = 0 \/ (r.MaxVer \in Nat /\ v < r.MaxVer)
    BY <1>1, <2>1, EndsWhere
  <2>4. m.max = 0 \/ r.MinVer < m.max
    BY <1>1, <1>3, <1>6, <2>2
  <2>5. r.MaxVer = 0 \/ m.min < r.MaxVer
    BY <1>1, <1>3, <1>6, <2>3
  <2> QED
    BY <1>6, <2>2, <2>3, <2>4, <2>5
<1>8. ASSUME NEW r \in rangesInWindow(m), NEW s \in rangesInWindow(m)
      PROVE  /\ r.MinVer < s.MinVer => r.MaxVer # 0 /\ r.MaxVer <= s.MinVer
             /\ r.MinVer = s.MinVer => r = s
  <2>1. PICK v \in Starts(h) : r = RangeAt(h, v)
    BY <1>6
  <2>2. PICK x \in Starts(h) : s = RangeAt(h, x)
    BY <1>6
  <2>3. r.MinVer = v /\ s.MinVer = x /\ v \in Nat /\ x \in Nat
    BY <1>1, <1>4, <1>5, <2>1, <2>2
  <2>4. v < x => r.MaxVer # 0 /\ r.MaxVer <= x
    BY <1>1, <2>1, <2>3, EndsWhere
  <2> QED
    BY <2>1, <2>2, <2>3, <2>4
<1>9. Chain(m, n)
  BY <1>1, <1>3, <1>7, <1>8 DEF Chain
<1> QED
  BY <1>9 DEF m

\* Of some of the ranges there is a newest.
LEMMA NewestIs ==
  ASSUME NEW S, S # {}, NEW n \in Nat, \A r \in S : r.MinVer \in 0..n
  PROVE  Newest(S) \in S /\ \A s \in S : s.MinVer <= Newest(S).MinVer
<1> DEFINE V == {r.MinVer : r \in S}
<1>1. V \subseteq 0..n /\ V # {}
  OBVIOUS
<1>2. Latest(V) \in V /\ \A v \in V : v <= Latest(V)
  <2> HIDE DEF V
  <2> QED
    BY <1>1, LatestIsMax
<1>3. PICK r \in S : r.MinVer = Latest(V)
  BY <1>2
<1>4. \A s \in S : s.MinVer <= r.MinVer
  BY <1>2, <1>3
<1>5. \E x \in S : \A s \in S : s.MinVer <= x.MinVer
  BY <1>4
<1> QED
  BY <1>5, Zenon DEF Newest

-----------------------------------------------------------------------------
(* The join pass as a set of entries, which no order of joining changes. *)

Entry(m, r) ==
  [at |-> IF m.min > r.MinVer THEN m.min ELSE r.MinVer, len |-> LengthOf(r.Layout), end |-> r.MaxVer]

Entries(m) == {Entry(m, r) : r \in rangesInWindow(m)}

\* The table has the lengths of the entries where they start, 0 where one ends and none starts,
\* and nothing else.
IsTable(b, P) ==
  /\ \A v : v \in DOMAIN b <=> \E e \in P : v = e.at \/ (e.end # 0 /\ v = e.end)
  /\ \A e \in P : e.len # 0 /\ b[e.at] = e.len
  /\ \A v \in DOMAIN b : (\A e \in P : e.at # v) => b[v] = 0

\* A range adds its entry, if none starts at its version.
LEMMA JoinStep ==
  ASSUME NEW b, NEW P, IsTable(b, P), NEW m, NEW r, LengthOf(r.Layout) # 0,
         \A e \in P : e.at # Entry(m, r).at
  PROVE  IsTable(joinRange(b, m, r), P \cup {Entry(m, r)})
<1> DEFINE x == Entry(m, r)
           set == Put(b, x.at, x.len)
           Q == P \cup {x}
           j == joinRange(b, m, r)
<1>1. /\ x.at = (IF m.min > r.MinVer THEN m.min ELSE r.MinVer)
      /\ x.len = LengthOf(r.Layout) /\ x.end = r.MaxVer
  BY DEF Entry
<1> HIDE DEF x
<1>2. At(b, x.at) = 0
  BY DEF At, IsTable, x
<1>3. j = IF x.end # 0 /\ At(set, x.end) = 0 THEN Put(set, x.end, 0) ELSE set
  BY <1>1, <1>2, Zenon DEF joinRange
<1>4. /\ \A v : v \in DOMAIN set <=> v = x.at \/ v \in DOMAIN b
      /\ \A v \in DOMAIN set : set[v] = IF v = x.at THEN x.len ELSE b[v]
  BY DEF Put
<1>5. /\ \A v : v \in DOMAIN Put(set, x.end, 0) <=> v = x.end \/ v \in DOMAIN set
      /\ \A v \in DOMAIN Put(set, x.end, 0) : Put(set, x.end, 0)[v] = IF v = x.end THEN 0 ELSE set[v]
  BY DEF Put
<1>6. At(set, x.end) = IF x.end \in DOMAIN set THEN set[x.end] ELSE 0
  BY DEF At
<1> HIDE DEF set, j
<1>7. /\ \A v : v \in DOMAIN j <=> v = x.at \/ v \in DOMAIN b \/ (x.end # 0 /\ v = x.end)
      /\ \A v \in DOMAIN j : j[v] = IF v = x.at THEN x.len
                                    ELSE IF v \in DOMAIN b THEN b[v] ELSE 0
  <2>1. CASE x.end # 0 /\ At(set, x.end) = 0
    <3>1. j = Put(set, x.end, 0)
      BY <1>3, <2>1
    <3>2. x.end \in DOMAIN set => set[x.end] = 0
      BY <1>6, <2>1
    <3> QED
      BY <1>4, <1>5, <2>1, <3>1, <3>2
  <2>2. CASE x.end = 0
    BY <1>3, <1>4, <2>2
  <2>3. CASE At(set, x.end) # 0
    <3>1. x.end \in DOMAIN set /\ j = set
      BY <1>3, <1>6, <2>3
    <3> QED
      BY <1>4, <3>1
  <2> QED
    BY <2>1, <2>2, <2>3
<1>8. /\ \A v : v \in DOMAIN b <=> \E e \in P : v = e.at \/ (e.end # 0 /\ v = e.end)
      /\ \A e \in P : e.len # 0 /\ b[e.at] = e.len
      /\ \A v \in DOMAIN b : (\A e \in P : e.at # v) => b[v] = 0
  BY DEF IsTable
<1>9. \A v : v \in DOMAIN j <=> \E e \in Q : v = e.at \/ (e.end # 0 /\ v = e.end)
  BY <1>7, <1>8
<1>10. \A e \in Q : e.len # 0 /\ j[e.at] = e.len
  <2>1. ASSUME NEW e \in P PROVE e.len # 0 /\ j[e.at] = e.len
    <3>1. e.at # x.at
      BY DEF x
    <3>2. e.at \in DOMAIN b /\ e.at \in DOMAIN j
      BY <1>7, <1>8
    <3> QED
      BY <1>7, <1>8, <3>1, <3>2
  <2>2. x.len # 0 /\ j[x.at] = x.len
    BY <1>1, <1>7
  <2> QED
    BY <2>1, <2>2
<1>11. \A v \in DOMAIN j : (\A e \in Q : e.at # v) => j[v] = 0
  BY <1>7, <1>8
<1> QED
  BY <1>9, <1>10, <1>11, Zenon DEF IsTable, j, x

-----------------------------------------------------------------------------
(* One mapping. *)

Older(m, r) == {s \in rangesInWindow(m) : s.MinVer < r.MinVer}

\* The equation of joinRanges: what the table is after each range.
AfterRange(f, b, m, r) == joinRange(IF Older(m, r) = {} THEN b ELSE f[Newest(Older(m, r))], m, r)

LEMMA NewestOlder ==
  ASSUME NEW m, NEW n \in Nat, Chain(m, n), NEW r \in rangesInWindow(m), Older(m, r) # {}
  PROVE  LET q == Newest(Older(m, r))
         IN  /\ q \in rangesInWindow(m) /\ q.MinVer < r.MinVer
             /\ \A s \in Older(m, r) : s.MinVer <= q.MinVer
<1>1. \A s \in Older(m, r) : s.MinVer \in 0..n
  BY DEF Older, Chain
<1>2. Newest(Older(m, r)) \in Older(m, r) /\ \A s \in Older(m, r) : s.MinVer <= Newest(Older(m, r)).MinVer
  BY <1>1, NewestIs
<1> QED
  BY <1>2 DEF Older

\* It has a solution: otherwise take the first version up to which it has none.
LEMMA AfterExists ==
  ASSUME NEW m, NEW n \in Nat, Chain(m, n), NEW b
  PROVE  \E f : f = [r \in rangesInWindow(m) |-> AfterRange(f, b, m, r)]
<1> DEFINE W == rangesInWindow(m)
           Till(k) == \E f : \A r \in W : r.MinVer < k => f[r] = AfterRange(f, b, m, r)
           Bad == {k \in Nat : ~Till(k)}
<1>1. \A r \in W : r.MinVer \in 0..n /\ r.MinVer \in Int /\ ~(r.MinVer < 0)
  BY DEF Chain
<1>2. \A r \in W : Older(m, r) = {} \/ (Newest(Older(m, r)) \in W /\ Newest(Older(m, r)).MinVer < r.MinVer)
  BY NewestOlder
<1> HIDE DEF W
<1>3. Bad = {}
  <2> SUFFICES ASSUME Bad # {} PROVE FALSE
    OBVIOUS
  <2>1. PICK k \in Bad : \A i \in Bad : k <= i
    BY LeastNatural
  <2>2. k \in Nat /\ ~Till(k)
    BY <2>1
  <2>a. k \in Int
    BY <2>2
  <2>3. k # 0
    <3>1. \A r \in W : ~(r.MinVer < 0)
      BY <1>1
    <3>2. Till(0)
      BY <3>1
    <3> HIDE DEF Till
    <3> QED
      BY <2>2, <3>2
  <2>4. k - 1 \in Nat /\ ~(k <= k - 1)
    BY <2>2, <2>3
  <2>5. Till(k - 1)
    <3> HIDE DEF Till
    <3> QED
      BY <2>1, <2>4
  <2>6. PICK f : \A r \in W : r.MinVer < k - 1 => f[r] = AfterRange(f, b, m, r)
    BY <2>5
  <2> DEFINE g == [r \in W |-> IF r.MinVer < k - 1 THEN f[r] ELSE AfterRange(f, b, m, r)]
  <2>7. \A r \in W : g[r] = IF r.MinVer < k - 1 THEN f[r] ELSE AfterRange(f, b, m, r)
    OBVIOUS
  <2> HIDE DEF g
  <2>8. ASSUME NEW r \in W, r.MinVer < k PROVE g[r] = AfterRange(g, b, m, r)
    <3>1. g[r] = AfterRange(f, b, m, r)
      BY <2>6, <2>7, <2>8
    <3>2. Older(m, r) = {} \/ f[Newest(Older(m, r))] = g[Newest(Older(m, r))]
      <4> DEFINE q == Newest(Older(m, r))
      <4> SUFFICES ASSUME Older(m, r) # {} PROVE f[q] = g[q]
        OBVIOUS
      <4>1. q \in W /\ q.MinVer < r.MinVer
        BY <1>2
      <4> HIDE DEF q
      <4>2. q.MinVer < k - 1
        <5>1. q.MinVer \in Int /\ r.MinVer \in Int
          <6> HIDE DEF Bad
          <6> QED
            BY <1>1, <4>1
        <5>2. \A i, j, l \in Int : i < j /\ j < l => i < l - 1
          OBVIOUS
        <5>3. q.MinVer < r.MinVer /\ r.MinVer < k
          BY <2>8, <4>1
        <5> QED
          BY <2>a, <5>1, <5>2, <5>3
      <4> QED
        BY <2>7, <4>1, <4>2
    <3>3. AfterRange(f, b, m, r) = AfterRange(g, b, m, r)
      BY <3>2, Zenon DEF AfterRange
    <3> QED
      BY <3>1, <3>3
  <2>9. Till(k)
    BY <2>8
  <2> QED
    BY <2>2, <2>9
<1>4. PICK f : \A r \in W : r.MinVer < n + 1 => f[r] = AfterRange(f, b, m, r)
  <2>1. n + 1 \in Nat
    OBVIOUS
  <2>2. Till(n + 1)
    <3> HIDE DEF Till
    <3> QED
      BY <1>3, <2>1
  <2> QED
    BY <2>2
<1> DEFINE g == [r \in W |-> f[r]]
<1>5. \A r \in W : f[r] = AfterRange(f, b, m, r)
  BY <1>1, <1>4
<1>6. \A r \in W : AfterRange(f, b, m, r) = AfterRange(g, b, m, r)
  <2> TAKE r \in W
  <2>1. Older(m, r) = {} \/ f[Newest(Older(m, r))] = g[Newest(Older(m, r))]
    BY <1>2
  <2> HIDE DEF g
  <2> QED
    BY <2>1, Zenon DEF AfterRange
<1>7. g = [r \in W |-> AfterRange(g, b, m, r)]
  <2> DEFINE d == g
  <2>1. \A r \in W : f[r] = AfterRange(d, b, m, r)
    BY <1>5, <1>6
  <2> HIDE DEF d
  <2>2. [r \in W |-> f[r]] = [r \in W |-> AfterRange(d, b, m, r)]
    BY <2>1
  <2> QED
    BY <2>2 DEF d
<1> QED
  BY <1>7, Zenon DEF W

LEMMA JoinRangesIs ==
  ASSUME NEW m, NEW n \in Nat, Chain(m, n), NEW b
  PROVE  \E f : /\ \A r \in rangesInWindow(m) : f[r] = AfterRange(f, b, m, r)
                /\ joinRanges(b, m) = IF rangesInWindow(m) = {} THEN b ELSE f[Newest(rangesInWindow(m))]
<1> DEFINE E(f) == f = [r \in rangesInWindow(m) |-> AfterRange(f, b, m, r)]
           d == CHOOSE f : E(f)
<1>1. joinRanges(b, m) = IF rangesInWindow(m) = {} THEN b ELSE d[Newest(rangesInWindow(m))]
  BY Zenon DEF joinRanges, AfterRange, Older
<1>2. E(d)
  <2>1. \E f : E(f)
    BY AfterExists
  <2> HIDE DEF E
  <2> QED
    BY <2>1, Zenon
<1>3. \A r \in rangesInWindow(m) : d[r] = AfterRange(d, b, m, r)
  <2> HIDE DEF d
  <2> QED
    BY <1>2
<1> HIDE DEF d
<1> QED
  BY <1>1, <1>3

\* A later range of the mapping starts to count later: an earlier one has ended inside the window.
LEMMA StartsDiffer ==
  ASSUME NEW m, NEW n \in Nat, Chain(m, n),
         NEW r \in rangesInWindow(m), NEW s \in rangesInWindow(m), r.MinVer < s.MinVer
  PROVE  Entry(m, r).at < Entry(m, s).at
<1>1. /\ r.MinVer \in Nat /\ s.MinVer \in Nat /\ m.min \in Nat
      /\ r.MaxVer = 0 \/ (r.MaxVer \in Nat /\ r.MinVer < r.MaxVer /\ m.min < r.MaxVer)
  BY DEF Chain
<1>2. r.MaxVer # 0 /\ r.MaxVer <= s.MinVer
  BY DEF Chain
<1> QED
  BY <1>1, <1>2 DEF Entry

\* The entries of the ranges up to one.
EntriesUpTo(m, r) == {Entry(m, s) : s \in {x \in rangesInWindow(m) : x.MinVer <= r.MinVer}}

LEMMA UpToNext ==
  ASSUME NEW m, NEW n \in Nat, Chain(m, n), NEW r \in rangesInWindow(m)
  PROVE  /\ Older(m, r) = {} => EntriesUpTo(m, r) = {Entry(m, r)}
         /\ Older(m, r) # {} =>
              EntriesUpTo(m, r) = EntriesUpTo(m, Newest(Older(m, r))) \cup {Entry(m, r)}
<1> DEFINE W == rangesInWindow(m)
<1>1. \A s \in W : s.MinVer \in Nat /\ (s.MinVer = r.MinVer => s = r)
  BY DEF Chain
<1>2. CASE Older(m, r) = {}
  <2>1. \A s \in W : s.MinVer <= r.MinVer <=> s = r
    BY <1>1, <1>2 DEF Older
  <2>2. {x \in W : x.MinVer <= r.MinVer} = {r}
    BY <2>1
  <2> QED
    BY <1>2, <2>2 DEF EntriesUpTo
<1>3. CASE Older(m, r) # {}
  <2> DEFINE q == Newest(Older(m, r))
  <2>1. q \in W /\ q.MinVer < r.MinVer /\ \A s \in Older(m, r) : s.MinVer <= q.MinVer
    BY <1>3, NewestOlder
  <2> HIDE DEF q
  <2>2. \A s \in W : s.MinVer <= r.MinVer <=> s = r \/ s.MinVer <= q.MinVer
    BY <1>1, <2>1 DEF Older
  <2>3. {x \in W : x.MinVer <= r.MinVer} = {x \in W : x.MinVer <= q.MinVer} \cup {r}
    BY <2>2
  <2>4. EntriesUpTo(m, r) = EntriesUpTo(m, q) \cup {Entry(m, r)}
    BY <2>3 DEF EntriesUpTo
  <2> QED
    BY <1>3, <2>4 DEF q
<1> QED
  BY <1>2, <1>3

\* The ranges of a mapping add their entries, if none starts where one of theirs does.
LEMMA RangesStep ==
  ASSUME NEW m, NEW n \in Nat, Chain(m, n), NEW b, NEW P, IsTable(b, P),
         \A e \in P, r \in rangesInWindow(m) : e.at # Entry(m, r).at
  PROVE  IsTable(joinRanges(b, m), P \cup Entries(m))
<1> DEFINE W == rangesInWindow(m)
           Right(f, r) == IsTable(f[r], P \cup EntriesUpTo(m, r))
<1>1. PICK f : /\ \A r \in W : f[r] = AfterRange(f, b, m, r)
               /\ joinRanges(b, m) = IF W = {} THEN b ELSE f[Newest(W)]
  BY JoinRangesIs
<1>2. \A r \in W : r.MinVer \in 0..n /\ r.MinVer \in Nat /\ LengthOf(r.Layout) # 0
  BY DEF Chain
<1> DEFINE Bad == {k \in Nat : \E r \in W : r.MinVer = k /\ ~Right(f, r)}
<1>3. Bad = {}
  <2> SUFFICES ASSUME Bad # {} PROVE FALSE
    OBVIOUS
  <2>1. PICK k \in Bad : \A i \in Bad : k <= i
    BY LeastNatural
  <2>2. PICK r \in W : r.MinVer = k /\ ~Right(f, r)
    BY <2>1
  <2>3. CASE Older(m, r) = {}
    <3>1. f[r] = joinRange(b, m, r)
      BY <1>1, <2>3 DEF AfterRange
    <3>2. IsTable(joinRange(b, m, r), P \cup {Entry(m, r)})
      BY <1>2, JoinStep
    <3>3. EntriesUpTo(m, r) = {Entry(m, r)}
      BY <2>3, UpToNext
    <3> QED
      BY <2>2, <3>1, <3>2, <3>3
  <2>4. CASE Older(m, r) # {}
    <3> DEFINE q == Newest(Older(m, r))
               Q == P \cup EntriesUpTo(m, q)
    <3>1. q \in W /\ q.MinVer < r.MinVer
      BY <2>4, NewestOlder
    <3>2. f[r] = joinRange(f[q], m, r)
      BY <1>1, <2>4 DEF AfterRange
    <3>3. EntriesUpTo(m, r) = EntriesUpTo(m, q) \cup {Entry(m, r)}
      BY <2>4, UpToNext
    <3> HIDE DEF q
    <3>4. Right(f, q)
      <4>1. q.MinVer \in Nat /\ ~(k <= q.MinVer)
        <5>1. q.MinVer \in Nat /\ r.MinVer \in Nat
          BY <1>2, <3>1
        <5>2. \A i, j \in Nat : i < j => ~(j <= i)
          OBVIOUS
        <5> QED
          BY <2>2, <3>1, <5>1, <5>2
      <4>2. q.MinVer \notin Bad
        <5> HIDE DEF Bad
        <5> QED
          BY <2>1, <4>1
      <4> HIDE DEF Right
      <4> QED
        BY <3>1, <4>1, <4>2
    <3>5. \A e \in Q : e.at # Entry(m, r).at
      <4>1. ASSUME NEW e \in EntriesUpTo(m, q) PROVE e.at # Entry(m, r).at
        <5>1. PICK s \in W : s.MinVer <= q.MinVer /\ e = Entry(m, s)
          BY <4>1 DEF EntriesUpTo
        <5>2. s.MinVer < r.MinVer
          <6>1. s.MinVer \in Nat /\ q.MinVer \in Nat /\ r.MinVer \in Nat
            BY <1>2, <3>1
          <6>2. \A i, j, l \in Nat : i <= j /\ j < l => i < l
            OBVIOUS
          <6> QED
            BY <3>1, <5>1, <6>1, <6>2
        <5>3. Entry(m, s).at < Entry(m, r).at /\ Entry(m, s).at \in Nat
          BY <5>2, StartsDiffer DEF Chain, Entry
        <5> QED
          BY <5>1, <5>3
      <4> QED
        BY <4>1
    <3>6. IsTable(joinRange(f[q], m, r), Q \cup {Entry(m, r)})
      BY <1>2, <3>4, <3>5, JoinStep
    <3>7. Q \cup {Entry(m, r)} = P \cup EntriesUpTo(m, r)
      BY <3>3
    <3> QED
      BY <2>2, <3>2, <3>6, <3>7
  <2> QED
    BY <2>3, <2>4
<1>4. CASE W = {}
  <2>1. Entries(m) = {}
    BY <1>4 DEF Entries
  <2> QED
    BY <1>1, <1>4, <2>1
<1>5. CASE W # {}
  <2> DEFINE q == Newest(W)
  <2>1. q \in W /\ \A s \in W : s.MinVer <= q.MinVer
    BY <1>2, <1>5, NewestIs
  <2>2. EntriesUpTo(m, q) = Entries(m)
    BY <2>1 DEF EntriesUpTo, Entries
  <2>3. Right(f, q)
    <3> HIDE DEF Right, q
    <3> QED
      BY <1>2, <1>3, <2>1
  <2> QED
    BY <1>1, <1>5, <2>2, <2>3
<1> QED
  BY <1>4, <1>5

-----------------------------------------------------------------------------
(* All mappings of a packet ID. *)

EntriesOf(M, k) == UNION {Entries(M[i]) : i \in 1..k}

\* No two mappings have entries that start at the same version.
Apart(M, k) ==
  /\ \A i \in 1..k : \E n \in Nat : Chain(M[i], n)
  /\ \A i, j \in 1..k : i # j =>
       \A d \in Entries(M[i]), e \in Entries(M[j]) : d.at # e.at

Blank == [v \in {} |-> 0]

LEMMA PassExists ==
  ASSUME NEW M, NEW k \in Nat
  PROVE  \E f : f[0] = Blank /\ \A i \in 1..k : f[i] = joinRanges(f[i - 1], M[i])
<1> DEFINE Till(j) == \E f : f[0] = Blank /\ \A i \in 1..j : f[i] = joinRanges(f[i - 1], M[i])
           Bad == {j \in Nat : ~Till(j)}
<1> SUFFICES ASSUME Bad # {} PROVE FALSE
  OBVIOUS
<1>1. PICK j \in Bad : \A i \in Bad : j <= i
  BY LeastNatural
<1>2. j \in Nat
  OBVIOUS
<1>3. ~Till(j)
  OBVIOUS
<1>4. j # 0
  <2> DEFINE f == [i \in {0} |-> Blank]
  <2>1. f[0] = Blank /\ \A i \in 1..0 : f[i] = joinRanges(f[i - 1], M[i])
    OBVIOUS
  <2>2. Till(0)
    BY <2>1
  <2> HIDE DEF Till
  <2> QED
    BY <1>3, <2>2
<1>5. j - 1 \in Nat /\ ~(j <= j - 1)
  BY <1>2, <1>4
<1>6. Till(j - 1)
  <2> HIDE DEF Till
  <2> QED
    BY <1>1, <1>5
<1>7. PICK f : f[0] = Blank /\ \A i \in 1..(j - 1) : f[i] = joinRanges(f[i - 1], M[i])
  BY <1>6
<1> DEFINE g == [i \in 0..j |-> IF i = j THEN joinRanges(f[j - 1], M[j]) ELSE f[i]]
<1>8. \A i \in 0..j : g[i] = IF i = j THEN joinRanges(f[j - 1], M[j]) ELSE f[i]
  OBVIOUS
<1> HIDE DEF g
<1>9. g[0] = Blank
  BY <1>2, <1>4, <1>7, <1>8
<1>10. \A i \in 1..j : g[i] = joinRanges(g[i - 1], M[i])
  <2> TAKE i \in 1..j
  <2>1. g[i - 1] = f[i - 1]
    BY <1>2, <1>8
  <2>2. CASE i = j
    BY <1>2, <1>8, <2>1, <2>2
  <2>3. CASE i # j
    <3>1. i \in 1..(j - 1) /\ i \in 0..j
      BY <1>2, <2>3
    <3> QED
      BY <1>7, <1>8, <2>1, <2>3, <3>1
  <2> QED
    BY <2>2, <2>3
<1> QED
  BY <1>3, <1>9, <1>10

LEMMA PassIs ==
  ASSUME NEW M, Len(M) \in Nat
  PROVE  \E f : /\ f[0] = Blank /\ \A i \in 1..Len(M) : f[i] = joinRanges(f[i - 1], M[i])
                /\ buildMapStocJoinPass(M) = f[Len(M)]
<1> DEFINE k == Len(M)
           F(f) == [i \in 0..k |-> IF i = 0 THEN Blank ELSE joinRanges(f[i - 1], M[i])]
           E(f) == f = F(f)
           d == CHOOSE f : E(f)
<1>1. buildMapStocJoinPass(M) = d[k]
  BY Zenon DEF buildMapStocJoinPass, Blank
<1>2. PICK f : f[0] = Blank /\ \A i \in 1..k : f[i] = joinRanges(f[i - 1], M[i])
  BY PassExists
<1> DEFINE g == [i \in 0..k |-> f[i]]
<1>3. E(g)
  <2>1. \A i \in 0..k : f[i] = IF i = 0 THEN Blank ELSE joinRanges(g[i - 1], M[i])
    <3> TAKE i \in 0..k
    <3>1. CASE i = 0
      BY <1>2, <3>1
    <3>2. CASE i # 0
      <4>1. i \in 1..k /\ i - 1 \in 0..k
        BY <3>2
      <4>2. g[i - 1] = f[i - 1]
        BY <4>1
      <4> HIDE DEF g
      <4> QED
        BY <1>2, <3>2, <4>1, <4>2
    <3> QED
      BY <3>1, <3>2
  <2> DEFINE c == g
  <2>2. \A i \in 0..k : f[i] = IF i = 0 THEN Blank ELSE joinRanges(c[i - 1], M[i])
    BY <2>1
  <2> HIDE DEF c
  <2>3. [i \in 0..k |-> f[i]] = F(c)
    BY <2>2
  <2> QED
    BY <2>3 DEF c
<1>4. E(d)
  <2> HIDE DEF E
  <2> QED
    BY <1>3, Zenon
<1>5. /\ d[0] = Blank
      /\ \A i \in 1..k : d[i] = joinRanges(d[i - 1], M[i])
  <2> DEFINE c == d
  <2>1. c = F(c)
    BY <1>4
  <2> HIDE DEF d, c
  <2>2. \A i \in 0..k : c[i] = IF i = 0 THEN Blank ELSE joinRanges(c[i - 1], M[i])
    BY <2>1
  <2>3. c[0] = Blank /\ \A i \in 1..k : c[i] = joinRanges(c[i - 1], M[i])
    BY <2>2
  <2> QED
    BY <2>3 DEF c
<1> HIDE DEF d
<1> QED
  BY <1>1, <1>5

\* The join pass has the entries of all mappings.
LEMMA PassTable ==
  ASSUME NEW M, Len(M) \in Nat, Apart(M, Len(M))
  PROVE  IsTable(buildMapStocJoinPass(M), EntriesOf(M, Len(M)))
<1> DEFINE k == Len(M)
<1>1. PICK f : /\ f[0] = Blank /\ \A i \in 1..k : f[i] = joinRanges(f[i - 1], M[i])
               /\ buildMapStocJoinPass(M) = f[k]
  BY PassIs
<1> DEFINE Right(j) == IsTable(f[j], EntriesOf(M, j))
           Bad == {j \in 0..k : ~Right(j)}
<1>2. Bad = {}
  <2> SUFFICES ASSUME Bad # {} PROVE FALSE
    OBVIOUS
  <2>1. PICK j \in Bad : \A i \in Bad : j <= i
    <3>1. Bad \in SUBSET Nat
      OBVIOUS
    <3> HIDE DEF Bad
    <3> QED
      BY <3>1, LeastNatural
  <2>2. j \in 0..k
    OBVIOUS
  <2>3. ~Right(j)
    OBVIOUS
  <2>4. CASE j = 0
    <3>1. EntriesOf(M, 0) = {}
      BY DEF EntriesOf
    <3>2. IsTable(Blank, {})
      BY DEF IsTable, Blank
    <3> QED
      BY <1>1, <2>3, <2>4, <3>1, <3>2
  <2>5. CASE j # 0
    <3>1. j - 1 \in 0..k /\ ~(j <= j - 1) /\ j \in 1..k
      BY <2>2, <2>5
    <3>2. Right(j - 1)
      <4> HIDE DEF Right
      <4> QED
        BY <2>1, <3>1
    <3> DEFINE Q == EntriesOf(M, j - 1)
    <3>3. EntriesOf(M, j) = Q \cup Entries(M[j])
      <4>1. 1..j = 1..(j - 1) \cup {j}
        BY <3>1
      <4> QED
        BY <4>1 DEF EntriesOf
    <3>4. \A e \in Q, r \in rangesInWindow(M[j]) : e.at # Entry(M[j], r).at
      <4> TAKE e \in Q, r \in rangesInWindow(M[j])
      <4>1. PICK i \in 1..(j - 1) : e \in Entries(M[i])
        BY DEF EntriesOf
      <4>2. i \in 1..k /\ i # j
        BY <3>1, <4>1
      <4>3. Entry(M[j], r) \in Entries(M[j])
        BY DEF Entries
      <4> QED
        BY <3>1, <4>1, <4>2, <4>3 DEF Apart
    <3>5. PICK n \in Nat : Chain(M[j], n)
      BY <3>1 DEF Apart
    <3> HIDE DEF Q
    <3>6. IsTable(joinRanges(f[j - 1], M[j]), Q \cup Entries(M[j]))
      <4>1. IsTable(f[j - 1], Q)
        BY <3>2 DEF Q
      <4> QED
        BY <3>4, <3>5, <4>1, RangesStep
    <3> QED
      BY <1>1, <2>3, <3>1, <3>3, <3>6
  <2> QED
    BY <2>4, <2>5
<1>3. k \in 0..k /\ k \notin Bad
  BY <1>2
<1> HIDE DEF Bad
<1>4. Right(k)
  BY <1>3 DEF Bad
<1> QED
  BY <1>1, <1>4

\* Tables with the same entries give the same lengths at every version.
LEMMA SameEntries ==
  ASSUME NEW a, NEW b, NEW P, IsTable(a, P), IsTable(b, P), NEW pv \in Nat
  PROVE  populateLengths(a, pv) = populateLengths(b, pv)
<1>1. \A v : v \in DOMAIN a <=> v \in DOMAIN b
  BY Zenon DEF IsTable
<1>2. \A v \in DOMAIN a : a[v] = b[v]
  <2> TAKE v \in DOMAIN a
  <2>1. CASE \E e \in P : e.at = v
    BY <2>1 DEF IsTable
  <2>2. CASE \A e \in P : e.at # v
    BY <1>1, <2>2 DEF IsTable
  <2> QED
    BY <2>1, <2>2
<1>3. UpTo(a, pv) = UpTo(b, pv)
  BY <1>1 DEF UpTo
<1>4. CASE UpTo(a, pv) = {}
  BY <1>3, <1>4 DEF populateLengths
<1>5. CASE UpTo(a, pv) # {}
  <2>1. Latest(UpTo(a, pv)) \in UpTo(a, pv)
    BY <1>5, LatestIsMax DEF UpTo
  <2>2. Latest(UpTo(a, pv)) \in DOMAIN a
    BY <2>1 DEF UpTo
  <2> QED
    BY <1>2, <1>3, <1>5, <2>2 DEF populateLengths
<1> QED
  BY <1>4, <1>5

\* Where the entries of a mapping start.
LEMMA EntriesWithin ==
  ASSUME NEW w, IsInput(w), NEW e \in Entries(Mapping(w))
  PROVE  e.at \in Nat /\ w.min <= e.at /\ (w.max = 0 \/ e.at < w.max)
<1> DEFINE m == Mapping(w)
<1>1. PICK n \in Nat : Chain(m, n)
  BY InputChain
<1>2. m.min = w.min /\ m.max = w.max
  BY DEF Mapping
<1>3. PICK r \in rangesInWindow(m) : e = Entry(m, r)
  BY DEF Entries
<1> HIDE DEF m
<1>4. /\ m.min \in Nat /\ m.max \in Nat /\ r.MinVer \in Nat
      /\ m.max = 0 \/ (m.min < m.max /\ r.MinVer < m.max)
  BY <1>1 DEF Chain
<1>5. e.at = IF m.min > r.MinVer THEN m.min ELSE r.MinVer
  BY <1>3 DEF Entry
<1> QED
  BY <1>2, <1>4, <1>5

\* Windows that do not overlap have no entries in common.
LEMMA WindowsApart ==
  ASSUME NEW w, NEW x, IsInput(w), IsInput(x), Precedes(w, x),
         NEW d \in Entries(Mapping(w)), NEW e \in Entries(Mapping(x))
  PROVE  d.at < e.at /\ d.at \in Nat /\ e.at \in Nat
<1>1. d.at \in Nat /\ (w.max = 0 \/ d.at < w.max)
  BY EntriesWithin
<1>2. e.at \in Nat /\ x.min <= e.at
  BY EntriesWithin
<1>3. w.max # 0 /\ w.max <= x.min /\ w.max \in Nat /\ x.min \in Nat
  BY DEF Precedes, IsInput
<1> QED
  BY <1>1, <1>2, <1>3

\* The inputs in any order: p[i] is the place of the mapping that is joined as the i-th.
Joined(ms, p) == [i \in 1..Len(ms) |-> Mapping(ms[p[i]])]

LEMMA JoinedIs ==
  ASSUME NEW ms, Len(ms) \in Nat, NEW p
  PROVE  /\ Len(Joined(ms, p)) = Len(ms)
         /\ \A i \in 1..Len(ms) : Joined(ms, p)[i] = Mapping(ms[p[i]])
<1> DEFINE k == Len(ms)
           M == Joined(ms, p)
           S == {Mapping(ms[p[i]]) : i \in 1..k}
<1>1. \A i \in 1..k : M[i] = Mapping(ms[p[i]])
  BY DEF Joined
<1>2. M \in [1..k -> S]
  BY DEF Joined
<1>3. DOMAIN M = 1..k
  BY DEF Joined
<1> HIDE DEF M, S
<1>4. M \in Seq(S)
  BY <1>2
<1>5. Len(M) \in Nat /\ DOMAIN M = 1..Len(M)
  BY <1>4, LenProperties
<1>6. Len(M) = k
  BY <1>3, <1>5
<1> QED
  BY <1>1, <1>6 DEF M

LEMMA InputsApart ==
  ASSUME NEW ms \in JoinInputs, NEW p, \A i \in 1..Len(ms) : p[i] \in 1..Len(ms),
         \A i, j \in 1..Len(ms) : i # j => p[i] # p[j]
  PROVE  Apart(Joined(ms, p), Len(ms))
<1> DEFINE k == Len(ms)
           M == Joined(ms, p)
<1>1. /\ k \in Nat
      /\ \A i \in 1..k : IsInput(ms[i])
      /\ \A i, j \in 1..k : i # j => Precedes(ms[i], ms[j]) \/ Precedes(ms[j], ms[i])
  BY JoinInputsAssumption
<1>2. \A i \in 1..k : M[i] = Mapping(ms[p[i]]) /\ IsInput(ms[p[i]])
  BY <1>1, JoinedIs
<1> HIDE DEF M, k
<1>3. ASSUME NEW i \in 1..k PROVE \E n \in Nat : Chain(M[i], n)
  BY <1>2, InputChain
<1>4. ASSUME NEW i \in 1..k, NEW j \in 1..k, i # j,
             NEW d \in Entries(M[i]), NEW e \in Entries(M[j])
      PROVE  d.at # e.at
  <2>1. /\ IsInput(ms[p[i]]) /\ IsInput(ms[p[j]])
        /\ d \in Entries(Mapping(ms[p[i]])) /\ e \in Entries(Mapping(ms[p[j]]))
    BY <1>2
  <2>2. Precedes(ms[p[i]], ms[p[j]]) \/ Precedes(ms[p[j]], ms[p[i]])
    BY <1>1, <1>4 DEF k
  <2>3. CASE Precedes(ms[p[i]], ms[p[j]])
    <3>1. d.at < e.at /\ d.at \in Nat /\ e.at \in Nat
      BY <2>1, <2>3, WindowsApart
    <3> QED
      BY <3>1
  <2>4. CASE Precedes(ms[p[j]], ms[p[i]])
    <3>1. e.at < d.at /\ d.at \in Nat /\ e.at \in Nat
      BY <2>1, <2>4, WindowsApart
    <3> QED
      BY <3>1
  <2> QED
    BY <2>2, <2>3, <2>4
<1> QED
  BY <1>3, <1>4 DEF Apart, M, k

\* Whatever the order, the join pass has the entries of the inputs.
LEMMA AnyOrder ==
  ASSUME NEW ms \in JoinInputs, NEW p, \A i \in 1..Len(ms) : p[i] \in 1..Len(ms),
         \A i, j \in 1..Len(ms) : i # j => p[i] # p[j],
         \A j \in 1..Len(ms) : \E i \in 1..Len(ms) : p[i] = j
  PROVE  IsTable(buildMapStocJoinPass(Joined(ms, p)),
                 UNION {Entries(Mapping(ms[i])) : i \in 1..Len(ms)})
<1> DEFINE k == Len(ms)
           M == Joined(ms, p)
<1>1. k \in Nat
  BY JoinInputsAssumption
<1>2. Len(M) = k /\ \A i \in 1..k : M[i] = Mapping(ms[p[i]])
  BY <1>1, JoinedIs
<1>3. Apart(M, k)
  BY InputsApart
<1> HIDE DEF M, k
<1>4. IsTable(buildMapStocJoinPass(M), EntriesOf(M, k))
  BY <1>1, <1>2, <1>3, PassTable
<1>5. EntriesOf(M, k) = UNION {Entries(Mapping(ms[i])) : i \in 1..k}
  <2> DEFINE A == EntriesOf(M, k)
             B == UNION {Entries(Mapping(ms[i])) : i \in 1..k}
  <2>1. ASSUME NEW e \in A PROVE e \in B
    <3>1. PICK i \in 1..k : e \in Entries(M[i])
      BY DEF EntriesOf
    <3>2. p[i] \in 1..k /\ M[i] = Mapping(ms[p[i]])
      BY <1>2 DEF k
    <3> QED
      BY <3>1, <3>2
  <2>2. ASSUME NEW e \in B PROVE e \in A
    <3>1. PICK j \in 1..k : e \in Entries(Mapping(ms[j]))
      OBVIOUS
    <3>2. PICK i \in 1..k : p[i] = j
      BY DEF k
    <3>3. M[i] = Mapping(ms[j])
      BY <1>2, <3>2
    <3> QED
      BY <3>1, <3>3 DEF EntriesOf
  <2> QED
    BY <2>1, <2>2
<1> QED
  BY <1>4, <1>5 DEF M, k

-----------------------------------------------------------------------------
(* Reading the table of one mapping. *)

LEMMA BeforeWindow ==
  ASSUME NEW w, IsInput(w), NEW b, IsTable(b, Entries(Mapping(w))), NEW pv \in Nat, pv < w.min
  PROVE  populateLengths(b, pv) = 0
<1> DEFINE m == Mapping(w)
<1>1. PICK n \in Nat : Chain(m, n)
  BY InputChain
<1>2. m.min = w.min /\ m.min \in Nat
  BY DEF Mapping, IsInput
<1> HIDE DEF m
<1>3. ASSUME NEW v \in UpTo(b, pv) PROVE FALSE
  <2>1. v \in Nat /\ v <= pv /\ v \in DOMAIN b
    BY <1>3 DEF UpTo
  <2>2. PICK e \in Entries(m) : v = e.at \/ (e.end # 0 /\ v = e.end)
    BY <2>1 DEF IsTable, m
  <2>3. e.at \in Nat /\ m.min <= e.at
    BY <1>2, EntriesWithin DEF m
  <2>4. PICK r \in rangesInWindow(m) : e = Entry(m, r)
    BY DEF Entries
  <2>5. e.end = 0 \/ (e.end \in Nat /\ m.min < e.end)
    BY <1>1, <2>4 DEF Chain, Entry
  <2> QED
    BY <1>2, <2>1, <2>2, <2>3, <2>5
<1>4. UpTo(b, pv) = {}
  BY <1>3
<1> QED
  BY <1>4 DEF populateLengths

\* The range that says something at a version has not ended there.
LEMMA SaysUntil ==
  ASSUME NEW h, DOMAIN h \subseteq Nat, NEW pv \in Nat, StartsTo(h, pv) # {}
  PROVE  LET x == Latest(StartsTo(h, pv))
             e == RangeAt(h, x).MaxVer
         IN  /\ x \in Starts(h) /\ x \in Nat /\ x <= pv
             /\ \A v \in Starts(h) : v <= pv => v <= x
             /\ e = 0 \/ (e \in Nat /\ pv < e)
<1> DEFINE x == Latest(StartsTo(h, pv))
           e == RangeAt(h, x).MaxVer
<1>1. x \in StartsTo(h, pv) /\ \A v \in StartsTo(h, pv) : v <= x
  BY LatestIsMax DEF StartsTo
<1>2. x \in Starts(h) /\ x \in Nat /\ x <= pv
  BY <1>1 DEF StartsTo
<1>3. Starts(h) \subseteq Nat
  BY DEF Starts
<1>4. \A v \in Starts(h) : v <= pv => v <= x
  BY <1>1, <1>3 DEF StartsTo
<1>5. e = 0 \/ (e \in Starts(h) /\ e \in Nat /\ x < e)
  BY <1>2, EndsWhere
<1> HIDE DEF x, e
<1>6. e = 0 \/ (e \in Nat /\ pv < e)
  BY <1>2, <1>4, <1>5
<1> QED
  BY <1>2, <1>4, <1>6 DEF x, e

\* What the entries of a mapping are.
LEMMA EntryIs ==
  ASSUME NEW w, IsInput(w), NEW e \in Entries(Mapping(w))
  PROVE  \E y \in Starts(w.history) :
           /\ RangeAt(w.history, y) \in rangesInWindow(Mapping(w))
           /\ e = Entry(Mapping(w), RangeAt(w.history, y))
           /\ y \in Nat /\ y <= e.at /\ e.len = LengthOf(w.history[y])
           /\ e.end = RangeAt(w.history, y).MaxVer
           /\ e.end = 0 \/ (e.end \in Nat /\ e.at < e.end /\ y < e.end)
<1> DEFINE m == Mapping(w)
           h == w.history
<1>1. PICK n \in Nat : Chain(m, n)
  BY InputChain
<1>2. m.ranges = {RangeAt(h, v) : v \in Starts(h)} /\ DOMAIN h \subseteq Nat
  BY TableIs DEF Mapping, IsInput
<1>3. PICK r \in rangesInWindow(m) : e = Entry(m, r)
  BY DEF Entries
<1> HIDE DEF m
<1>4. PICK y \in Starts(h) : r = RangeAt(h, y)
  BY <1>2, <1>3 DEF rangesInWindow
<1>5. y \in Nat /\ r.MinVer = y /\ r.Layout = h[y]
  BY <1>2, <1>4 DEF Starts, RangeAt
<1>6. /\ e.at = (IF m.min > r.MinVer THEN m.min ELSE r.MinVer)
      /\ e.len = LengthOf(r.Layout) /\ e.end = r.MaxVer
  BY <1>3 DEF Entry
<1>7. /\ m.min \in Nat
      /\ r.MaxVer = 0 \/ (r.MaxVer \in Nat /\ r.MinVer < r.MaxVer /\ m.min < r.MaxVer)
  BY <1>1 DEF Chain
<1>8. y <= e.at /\ (e.end = 0 \/ (e.end \in Nat /\ e.at < e.end /\ y < e.end))
  BY <1>5, <1>6, <1>7
<1>9. e.len = LengthOf(h[y]) /\ e.end = RangeAt(h, y).MaxVer
  BY <1>4, <1>5, <1>6
<1> QED
  BY <1>3, <1>4, <1>5, <1>8, <1>9 DEF m

LEMMA InWindow ==
  ASSUME NEW w, IsInput(w), NEW b, IsTable(b, Entries(Mapping(w))), NEW pv \in Nat,
         w.min <= pv, w.max = 0 \/ pv < w.max
  PROVE  populateLengths(b, pv) = LengthOf(Said(w.history, pv))
<1> DEFINE m == Mapping(w)
           h == w.history
           P == Entries(m)
           U == UpTo(b, pv)
<1>1. PICK n \in Nat : Chain(m, n)
  BY InputChain
<1>2. /\ m.ranges = {RangeAt(h, v) : v \in Starts(h)} /\ DOMAIN h \subseteq Nat
      /\ m.min = w.min /\ m.max = w.max /\ w.min \in Nat /\ w.max \in Nat
  BY TableIs DEF Mapping, IsInput
<1>3. \A e \in P : \E y \in Starts(h) :
           /\ RangeAt(h, y) \in rangesInWindow(m) /\ e = Entry(m, RangeAt(h, y))
           /\ y \in Nat /\ y <= e.at /\ e.len = LengthOf(h[y]) /\ e.end = RangeAt(h, y).MaxVer
           /\ e.end = 0 \/ (e.end \in Nat /\ e.at < e.end /\ y < e.end)
  BY EntryIs
<1>4. \A e \in P : e.at \in Nat
  BY EntriesWithin
<1> HIDE DEF m, h
<1>5. /\ U \subseteq 0..pv /\ U \subseteq Nat
      /\ \A v : v \in U <=> v \in DOMAIN b /\ v \in Nat /\ v <= pv
  BY DEF UpTo
<1>6. /\ \A v : v \in DOMAIN b <=> \E e \in P : v = e.at \/ (e.end # 0 /\ v = e.end)
      /\ \A e \in P : e.len # 0 /\ b[e.at] = e.len
      /\ \A v \in DOMAIN b : (\A e \in P : e.at # v) => b[v] = 0
  BY DEF IsTable, m
<1> HIDE DEF P, U
<1>7. populateLengths(b, pv) = IF U = {} THEN 0 ELSE b[Latest(U)]
  BY DEF populateLengths, U
<1>8. CASE StartsTo(h, pv) = {}
  <2>1. \A v \in Starts(h) : v \in Nat => ~(v <= pv)
    BY <1>8 DEF StartsTo
  <2>2. ASSUME NEW v \in U PROVE FALSE
    <3>1. PICK e \in P : v = e.at \/ (e.end # 0 /\ v = e.end)
      BY <1>5, <1>6
    <3>2. PICK y \in Starts(h) : /\ y \in Nat /\ y <= e.at
                                 /\ e.end = 0 \/ (e.end \in Nat /\ e.at < e.end /\ y < e.end)
      BY <1>3
    <3>3. v \in Nat /\ v <= pv
      BY <1>5
    <3> QED
      BY <1>4, <2>1, <3>1, <3>2, <3>3
  <2>3. U = {}
    BY <2>2
  <2>4. LengthOf(Said(h, pv)) = 0
    BY <1>8 DEF Said, LengthOf
  <2> QED
    BY <1>7, <2>3, <2>4 DEF h
<1>9. CASE StartsTo(h, pv) # {}
  <2> DEFINE x == Latest(StartsTo(h, pv))
             r == RangeAt(h, x)
             z == Entry(m, r)
  <2>1. /\ x \in Starts(h) /\ x \in Nat /\ x <= pv
        /\ \A v \in Starts(h) : v <= pv => v <= x
        /\ r.MaxVer = 0 \/ (r.MaxVer \in Nat /\ pv < r.MaxVer)
    BY <1>2, <1>9, SaysUntil
  <2>2. Said(h, pv) = h[x]
    BY <1>9 DEF Said
  <2>3. r.MinVer = x /\ r.Layout = h[x]
    BY DEF RangeAt
  <2>4. /\ z.at = (IF m.min > x THEN m.min ELSE x) /\ z.len = LengthOf(h[x])
        /\ z.end = r.MaxVer
    BY <2>3 DEF Entry
  <2> HIDE DEF x
  <2>5. z.at \in Nat /\ x <= z.at /\ z.at <= pv
    BY <1>2, <2>1, <2>4
  \* An earlier range that is joined ends before the range of the version counts.
  <2>6. ASSUME NEW y \in Starts(h), y \in Nat, y < x
        PROVE  /\ RangeAt(h, y).MaxVer # 0 /\ RangeAt(h, y).MaxVer \in Nat
               /\ RangeAt(h, y).MaxVer <= x
    <3> DEFINE e == RangeAt(h, y).MaxVer
    <3>1. \/ e = 0 /\ x <= y
          \/ e \in Nat /\ y < e /\ e <= x
      BY <1>2, <2>1, <2>6, EndsWhere
    <3> HIDE DEF e
    <3>2. e # 0 /\ e \in Nat /\ e <= x
      BY <2>1, <2>6, <3>1
    <3> QED
      BY <3>2 DEF e
  <2>7. CASE LengthOf(h[x]) # 0
    <3>1. r \in rangesInWindow(m)
      <4>1. r \in m.ranges /\ LengthOf(r.Layout) # 0
        BY <1>2, <2>1, <2>3, <2>7
      <4>2. ~(r.MaxVer # 0 /\ r.MaxVer <= m.min)
        <5> HIDE DEF r
        <5> QED
          BY <1>2, <2>1
      <4>3. ~(m.max # 0 /\ r.MinVer >= m.max)
        BY <1>2, <2>1, <2>3
      <4> HIDE DEF r
      <4> QED
        BY <4>1, <4>2, <4>3 DEF rangesInWindow
    <3>2. z \in P
      BY <3>1 DEF P, Entries
    <3>3. z.at \in U /\ b[z.at] = z.len
      BY <1>5, <1>6, <2>5, <3>2
    <3>4. ASSUME NEW v \in U PROVE v <= z.at
      <4>1. PICK e \in P : v = e.at \/ (e.end # 0 /\ v = e.end)
        BY <1>5, <1>6
      <4>2. PICK y \in Starts(h) :
              /\ RangeAt(h, y) \in rangesInWindow(m) /\ e = Entry(m, RangeAt(h, y))
              /\ y \in Nat /\ y <= e.at /\ e.end = RangeAt(h, y).MaxVer
              /\ e.end = 0 \/ (e.end \in Nat /\ e.at < e.end /\ y < e.end)
        BY <1>3
      <4>3. v \in Nat /\ v <= pv /\ e.at \in Nat
        BY <1>4, <1>5
      <4>4. y <= pv
        BY <4>1, <4>2, <4>3
      <4>5. y <= x
        BY <2>1, <4>2, <4>4
      <4>6. CASE y = x
        <5>1. e = z
          BY <4>2, <4>6
        <5>2. e.end = 0 \/ (e.end \in Nat /\ pv < e.end)
          BY <2>1, <2>4, <5>1
        <5>3. v = e.at
          BY <4>1, <4>3, <5>2
        <5> QED
          BY <2>5, <5>1, <5>3
      <4>7. CASE y < x
        <5>1. e.end # 0 /\ e.end \in Nat /\ e.end <= x
          BY <2>6, <4>2, <4>7
        <5> HIDE DEF z
        <5> QED
          BY <2>1, <2>5, <4>1, <4>2, <4>3, <5>1
      <4> QED
        BY <2>1, <4>2, <4>5, <4>6, <4>7
    <3> HIDE DEF z
    <3>5. Latest(U) = z.at /\ U # {}
      BY <1>5, <3>3, <3>4, LatestIs
    <3>6. populateLengths(b, pv) = LengthOf(h[x])
      BY <1>7, <2>4, <3>3, <3>5
    <3> QED
      BY <2>2, <3>6 DEF h
  <2>8. CASE LengthOf(h[x]) = 0
    <3> DEFINE v == Latest(U)
    <3>1. CASE U = {}
      BY <1>7, <2>2, <2>8, <3>1 DEF h
    <3>2. CASE U # {}
      <4>1. v \in U /\ \A u \in U : u <= v
        BY <1>5, <3>2, LatestIsMax
      <4> HIDE DEF v
      <4>2. ASSUME NEW e \in P, e.at = v PROVE FALSE
        <5>1. PICK y \in Starts(h) :
                /\ y \in Nat /\ y <= e.at /\ e.len = LengthOf(h[y])
                /\ e.end = RangeAt(h, y).MaxVer
                /\ e.end = 0 \/ (e.end \in Nat /\ e.at < e.end /\ y < e.end)
          BY <1>3
        <5>2. v \in Nat /\ v <= pv
          BY <1>5, <4>1
        <5>3. y <= x /\ y # x
          <6>1. y # x
            BY <1>6, <2>8, <5>1
          <6>2. y <= pv
            BY <4>2, <5>1, <5>2
          <6> QED
            BY <2>1, <5>1, <6>1, <6>2
        <5>4. y < x
          BY <2>1, <5>1, <5>3
        <5>5. e.end # 0 /\ e.end \in Nat /\ e.end <= x
          BY <2>6, <5>1, <5>4
        <5>6. e.end \in U
          <6>1. e.end \in DOMAIN b
            BY <1>6, <5>5
          <6>2. e.end <= pv
            BY <2>1, <5>5
          <6> QED
            BY <1>5, <5>5, <6>1, <6>2
        <5>7. e.end <= v
          BY <4>1, <5>6
        <5> QED
          BY <4>2, <5>1, <5>2, <5>5, <5>7
      <4>3. b[v] = 0
        BY <1>5, <1>6, <4>1, <4>2
      <4> QED
        BY <1>7, <2>2, <2>8, <3>2, <4>3 DEF v, h
    <3> QED
      BY <3>1, <3>2
  <2> QED
    BY <2>7, <2>8
<1> QED
  BY <1>8, <1>9

-----------------------------------------------------------------------------
(* The join pass in genLengths. *)

Identity(k) == [i \in 1..k |-> i]
Backwards(k) == [i \in 1..k |-> k + 1 - i]

LEMMA EitherOrder ==
  ASSUME NEW ms \in JoinInputs
  PROVE  /\ IsTable(buildMapStocJoinPass([i \in 1..Len(ms) |-> Mapping(ms[i])]),
                    UNION {Entries(Mapping(ms[i])) : i \in 1..Len(ms)})
         /\ IsTable(buildMapStocJoinPass([i \in 1..Len(ms) |-> Mapping(ms[Len(ms) + 1 - i])]),
                    UNION {Entries(Mapping(ms[i])) : i \in 1..Len(ms)})
<1> DEFINE k == Len(ms)
           p == Identity(k)
           q == Backwards(k)
<1>1. k \in Nat
  BY JoinInputsAssumption
<1> HIDE DEF k
<1>2. \A i \in 1..k : p[i] = i /\ q[i] = k + 1 - i
  BY DEF Identity, Backwards
<1> HIDE DEF p, q
<1>3. Joined(ms, p) = [i \in 1..k |-> Mapping(ms[i])]
  BY <1>2 DEF Joined, k
<1>4. Joined(ms, q) = [i \in 1..k |-> Mapping(ms[k + 1 - i])]
  BY <1>2 DEF Joined, k
<1>5. IsTable(buildMapStocJoinPass(Joined(ms, p)), UNION {Entries(Mapping(ms[i])) : i \in 1..k})
  <2>1. /\ \A i \in 1..k : p[i] \in 1..k
        /\ \A i, j \in 1..k : i # j => p[i] # p[j]
        /\ \A j \in 1..k : \E i \in 1..k : p[i] = j
    BY <1>2
  <2> QED
    BY <2>1, AnyOrder DEF k
<1>6. IsTable(buildMapStocJoinPass(Joined(ms, q)), UNION {Entries(Mapping(ms[i])) : i \in 1..k})
  <2>1. \A i \in 1..k : q[i] \in 1..k /\ k + 1 - i \in 1..k
    BY <1>1, <1>2
  <2>2. \A i, j \in 1..k : i # j => q[i] # q[j]
    BY <1>1, <1>2
  <2>3. ASSUME NEW j \in 1..k PROVE \E i \in 1..k : q[i] = j
    <3>1. k + 1 - j \in 1..k /\ q[k + 1 - j] = j
      BY <1>1, <1>2
    <3> QED
      BY <3>1
  <2> QED
    BY <2>1, <2>2, <2>3, AnyOrder DEF k
<1> QED
  BY <1>3, <1>4, <1>5, <1>6 DEF k

JoinInv ==
  /\ part \in 0..6
  /\ part = 3 => /\ inputs \in JoinInputs
                 /\ joined = buildMapStocJoinPass([i \in 1..Len(inputs) |-> Mapping(inputs[i])])

LEMMA JoinInvAlways == Spec => []JoinInv
<1>1. Init => JoinInv
  BY DEF Init, JoinInv
<1>2. JoinInv /\ [Next]_vars => JoinInv'
  BY DEF JoinInv, Next, PacketDB, PacketsHPP, JoinPass, FillJoined, Enums, Deduplicate, Written, vars
<1> QED
  BY <1>1, <1>2, PTL DEF Spec

\* Whatever the histories and the windows, a struct joined for one mapping gives the packet, at
\* every version of the window, the size of the layout that LayoutAt finds there, which is the
\* layout of the last sample, and no length before the window.
THEOREM JoinedInWindow == Spec => []JoinInWindow
<1>1. JoinInv => JoinInWindow
  <2> SUFFICES ASSUME JoinInv, part = 3, Len(inputs) = 1 PROVE JoinInWindow
    BY DEF JoinInWindow
  <2> DEFINE w == inputs[1]
             layout(pv) == LayoutAt(Mapping(w).ranges, pv)
  <2>1. /\ inputs \in JoinInputs
        /\ joined = buildMapStocJoinPass([i \in 1..Len(inputs) |-> Mapping(inputs[i])])
    BY DEF JoinInv
  <2>2. IsInput(w)
    BY <2>1, JoinInputsAssumption
  <2>3. IsTable(joined, Entries(Mapping(w)))
    <3>1. IsTable(joined, UNION {Entries(Mapping(inputs[i])) : i \in 1..Len(inputs)})
      BY <2>1, EitherOrder
    <3>2. UNION {Entries(Mapping(inputs[i])) : i \in 1..Len(inputs)} = Entries(Mapping(w))
      <4>1. 1..Len(inputs) = {1}
        OBVIOUS
      <4> QED
        BY <4>1
    <3> QED
      BY <3>1, <3>2
  <2>4. DOMAIN w.history \subseteq Nat /\ Mapping(w).ranges = BuildVersionTable(w.history)
    BY <2>2 DEF IsInput, Mapping
  <2>5. ASSUME NEW pv \in Versions
        PROVE  /\ layoutEqual(layout(pv), SampledAt(w.history, pv))
               /\ pv < w.min => populateLengths(joined, pv) = 0
               /\ pv >= w.min /\ (w.max = 0 \/ pv < w.max) =>
                    populateLengths(joined, pv) = LengthOf(layout(pv))
    <3>1. pv \in Nat /\ w.min \in Nat
      BY <2>2, VersionsAssumption DEF IsInput
    <3>2. layoutEqual(layout(pv), SampledAt(w.history, pv))
      BY <2>4, <3>1, LayoutSampled
    <3>3. layout(pv) = Said(w.history, pv)
      BY <2>4, <3>1, LayoutIs
    <3> HIDE DEF layout, w
    <3>4. pv < w.min => populateLengths(joined, pv) = 0
      BY <2>2, <2>3, <3>1, BeforeWindow
    <3>5. pv >= w.min /\ (w.max = 0 \/ pv < w.max) =>
            populateLengths(joined, pv) = LengthOf(Said(w.history, pv))
      BY <2>2, <2>3, <3>1, InWindow
    <3> QED
      BY <3>2, <3>3, <3>4, <3>5
  <2> QED
    BY <2>5 DEF JoinInWindow
<1> QED
  BY <1>1, JoinInvAlways, PTL

\* Go's order of the actions does not show: mappings whose windows do not overlap give the
\* packet the same length at every version, joined in either order.
THEOREM OrderInvisible == Spec => []JoinDeterministic
<1>1. JoinInv => JoinDeterministic
  <2> SUFFICES ASSUME JoinInv, part = 3 PROVE JoinDeterministic
    BY DEF JoinDeterministic
  <2>1. /\ inputs \in JoinInputs
        /\ joined = buildMapStocJoinPass([i \in 1..Len(inputs) |-> Mapping(inputs[i])])
    BY DEF JoinInv
  <2> DEFINE other == buildMapStocJoinPass([i \in 1..Len(inputs) |-> Mapping(inputs[Len(inputs) + 1 - i])])
             P == UNION {Entries(Mapping(inputs[i])) : i \in 1..Len(inputs)}
  <2>2. IsTable(joined, P) /\ IsTable(other, P)
    BY <2>1, EitherOrder
  <2> HIDE DEF other, P
  <2>3. SameTables(joined, other)
    BY <2>2, SameEntries, VersionsAssumption DEF SameTables
  <2> QED
    BY <2>3 DEF JoinDeterministic, other
<1> QED
  BY <1>1, JoinInvAlways, PTL
==============================================================================
