---------------------------- MODULE MCCodegenRun ----------------------------
(*
  Two actions, one of which has a hand-written file in pkg/encode, and one that was removed
  from mappings.yaml after the last run. The first run finds a fresh tree, or the output of a
  complete run, in each directory; in one tree the hand-written file does not parse and the
  action that is gone has a hand-written encoder, too.

  Reading may fail at a file that is hand-written, at files the run leaves behind and at one
  it writes; gofmt may reject an encoder and a file of pkg/session.
*)
EXTENDS CodegenRun

MCActions == {"walk", "look"}
MCRemoved == {"gone"}

InitialAt(p, generatedIn) ==
  IF p = Encoder("look") THEN "hand"
  ELSE IF p[1] \in generatedIn THEN "old"
  ELSE "absent"

MCInitialTrees ==
  {[p \in Paths |-> InitialAt(p, dirs)] : dirs \in {{}, {"encode"}, Dirs, Dirs \cup {"session"}}}
  \cup {[p \in Paths |-> CASE p = Encoder("look") -> "broken"
                           [] p = Encoder("gone") -> "hand"
                           [] OTHER -> "absent"]}

MCUnreadable == {Encoder("look"), Encoder("gone"), Encoder("walk"), <<"events", "gone">>}
MCMisformatted == {Encoder("walk"), <<"session", "actions">>}
==============================================================================
