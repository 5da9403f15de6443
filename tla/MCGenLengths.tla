---------------------------- MODULE MCGenLengths ----------------------------
(*
  Four versions; fixed, variable and absent lengths; structs that change size, disappear,
  come back or become unavailable. Headers are sampled at every subset of the versions that
  has the baseline.
*)
EXTENDS GenLengths

MCVersions == 0..3

Samples == {S \in SUBSET MCVersions : 0 \in S}

MCHeaders == UNION {[S -> {None, 5, -1}] : S \in Samples}

Fixed(n) == [available |-> TRUE, size |-> n, flex |-> FALSE]
Flex == [available |-> TRUE, size |-> 4, flex |-> TRUE]
Unavailable == [available |-> FALSE, size |-> 0, flex |-> FALSE]

MCHistories == [0..2 -> {None, Unavailable, Fixed(5), Fixed(7), Flex}]

Window(history, min, max) == [history |-> history, min |-> min, max |-> max]

\* One mapping with each window, or two whose windows meet at version 1 or 2.
MCJoinInputs ==
  {<<Window(h, w[1], w[2])>> : h \in MCHistories, w \in {<<0, 0>>, <<0, 2>>, <<1, 0>>, <<1, 2>>}}
    \cup {<<Window(h, 0, k), Window(g, k, 0)>> :
            h \in MCHistories, g \in [0..2 -> {None, Fixed(9)}], k \in {1, 2}}
==============================================================================
