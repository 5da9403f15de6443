------------------------------- MODULE MCWire -------------------------------
(*
  TLC instance of Wire. Between two consecutive versions of AllPacketvers every
  table gives the same answers, so the finite set stands for all versions.
*)
EXTENDS Wire

Rungs == UNION {{r[1] : r \in Range(e[2])} : e \in UNION {Range(receiveDispatch[a]) : a \in DOMAIN receiveDispatch}}
Arms == UNION {{r.from : r \in Range(sendRegistry[a])} : a \in DOMAIN sendRegistry}

\* The versions at which some table changes, and the one after each exact version.
AllPacketvers ==
  {v \in ShuffledVersions \cup KeyedVersions \cup {w + 1 : w \in ShuffledVersions \cup KeyedVersions}
         \cup LengthVersions \cup ListVersions \cup Rungs \cup Arms
         \cup {20040101, 20160330, 20170315} : v >= 20040101}
==============================================================================
