--------------------------- MODULE CodegenRunProofs --------------------------
(*
  Theorems about CodegenRun for any actions, any tree a first run finds and any
  number of runs.
*)
EXTENDS CodegenRun, TLAPS

\* A tree has a state for every path, so that the steps, which change some of them, leave
\* the others what they were.
TreeTypeOK == DOMAIN tree = Paths

LEMMA TreeInit == Init => TreeTypeOK
  BY TreesAssumption DEF Init, TreeTypeOK

LEMMA TreeNext == TreeTypeOK /\ [Next]_vars => TreeTypeOK'
<1> SUFFICES ASSUME TreeTypeOK, [Next]_vars PROVE TreeTypeOK'
  OBVIOUS
<1> USE DEF TreeTypeOK
<1>1. CASE Run
  BY <1>1 DEF Run
<1>2. CASE GenerateFails
  BY <1>2 DEF GenerateFails
<1>3. CASE Generate
  BY <1>3 DEF Generate, cleanGeneratedDir
<1>4. CASE CleanFails
  BY <1>4 DEF CleanFails
<1>5. CASE ShuffleOverlap
  BY <1>5 DEF ShuffleOverlap, Write, Overwrite
<1>6. ASSUME NEW p \in Paths, writeFile(p) PROVE TreeTypeOK'
  BY <1>6 DEF writeFile, Write, Overwrite
<1>7. ASSUME NEW p \in Paths, WriteFails(p) PROVE TreeTypeOK'
  BY <1>7 DEF WriteFails, Overwrite
<1>8. CASE UNCHANGED vars
  BY <1>8 DEF vars
<1> QED
  BY <1>1, <1>2, <1>3, <1>4, <1>5, <1>6, <1>7, <1>8 DEF Next, Done

KeepsHandWritten ==
  \A p \in Paths : tree[p] \in {"hand", "broken"} => tree'[p] = tree[p] \/ p \in unread'

\* Other contents are for a file with the header, or for one that could not be read.
LEMMA OverwriteKeepsHandWritten ==
  ASSUME TreeTypeOK, NEW p, NEW contents, Overwrite(p, contents),
         NEW q \in Paths, tree[q] \in {"hand", "broken"}
  PROVE  tree'[q] = tree[q] \/ q \in unread'
<1>1. CASE p = q
  BY <1>1 DEF Overwrite, NoHeader
<1>2. CASE p # q
  BY <1>2 DEF Overwrite, TreeTypeOK
<1> QED
  BY <1>1, <1>2

\* Each step that writes or removes looks at what is there.
LEMMA StepKeepsHandWritten == TreeTypeOK /\ [Next]_vars => KeepsHandWritten
<1> SUFFICES ASSUME TreeTypeOK, [Next]_vars, NEW q \in Paths, tree[q] \in {"hand", "broken"}
             PROVE  tree'[q] = tree[q] \/ q \in unread'
  BY DEF KeepsHandWritten
<1>1. CASE Run
  BY <1>1 DEF Run
<1>2. CASE GenerateFails
  BY <1>2 DEF GenerateFails
<1>3. CASE Generate
  BY <1>3 DEF Generate, cleanGeneratedDir, Generated
<1>4. CASE CleanFails
  BY <1>4 DEF CleanFails, Generated
<1>5. CASE ShuffleOverlap
  BY <1>5, OverwriteKeepsHandWritten DEF ShuffleOverlap, Write
<1>6. ASSUME NEW p \in Paths, writeFile(p) PROVE tree'[q] = tree[q] \/ q \in unread'
  BY <1>6, OverwriteKeepsHandWritten DEF writeFile, Write
<1>7. ASSUME NEW p \in Paths, WriteFails(p) PROVE tree'[q] = tree[q] \/ q \in unread'
  BY <1>7, OverwriteKeepsHandWritten DEF WriteFails
<1>8. CASE UNCHANGED vars
  BY <1>8 DEF vars
<1> QED
  BY <1>1, <1>2, <1>3, <1>4, <1>5, <1>6, <1>7, <1>8 DEF Next, Done

\* writeFile and cleanGeneratedDir: no hand-written file is removed by any run, and none is
\* changed that the run could read, whatever it finds and however it ends.
THEOREM HandWrittenSafe == Spec => HandWrittenKept
<1>1. TreeTypeOK /\ [Next]_vars => [KeepsHandWritten]_tree
  BY StepKeepsHandWritten
<1> QED
  BY <1>1, TreeInit, TreeNext, PTL DEF Spec, HandWrittenKept, KeepsHandWritten

-----------------------------------------------------------------------------
(* What a run that succeeds leaves behind. *)

States == {"absent", "hand", "broken", "old", "new", "bad", "part", "cut"}

\* The step has been gone through by the run under way, or by the last one if it succeeded.
Passed(i) == i < step \/ outcome = "ok"

\* Its files have been written, or were not the run's to write, and its directory has no
\* other file of an earlier run that could be read.
Written == {"new", "bad"} \cup NoHeader
Wrote(name, but) == \A p \in Target(name) \ but : tree[p] \in Written
Cleaned(name) == \A p \in Paths \ unread : p[1] = name => tree[p] \notin {"old", "part"}

TypeInv ==
  /\ tree \in [Paths -> States]
  /\ step \in 0..12
  /\ outcome \in {"none", "error", "ok"}
  /\ outcome # "none" => step = 0
  /\ step = 0 => todo = {}
  /\ step # 0 => todo \subseteq Target(Current)

PassedInv == \A i \in 1..12 : Passed(i) => Wrote(Steps[i], {}) /\ Cleaned(Steps[i])

CurrentInv == step # 0 /\ todo # {} => Wrote(Current, todo) /\ Cleaned(Current)

FreshInv == TypeInv /\ PassedInv /\ CurrentInv

\* The steps of run(), and their order: each comes once, and the directory of the encoders is
\* cleaned before the two other files in it are written.
LEMMA StepOrder ==
  /\ Len(Steps) = 12
  /\ \A i \in 1..12 : Steps[i] \in Dirs \cup FixedFiles \cup InEncode
  /\ \A i, j \in 1..12 : i < j => Steps[i] # Steps[j]
  /\ \A i, j \in 1..12 : i < j /\ Steps[j] = "encode" => Steps[i] \notin InEncode
  /\ \A name \in Dirs \cup FixedFiles \cup InEncode : \E i \in 1..12 : Steps[i] = name
<1>1. Len(Steps) = 12
  BY DEF Steps
<1>2. /\ Steps[1] = "obfuscation_keys" /\ Steps[2] = "lengths_map" /\ Steps[3] = "lengths_login"
      /\ Steps[4] = "lengths_char" /\ Steps[5] = "events" /\ Steps[6] = "send"
      /\ Steps[7] = "decode" /\ Steps[8] = "encode" /\ Steps[9] = "shuffle_map"
      /\ Steps[10] = "actions" /\ Steps[11] = "receive_dispatch" /\ Steps[12] = "register"
  BY DEF Steps
<1> HIDE DEF Steps
<1>3. \A i \in 1..12 : i \in {1, 2, 3, 4, 5, 6, 7, 8, 9, 10, 11, 12}
  OBVIOUS
<1>4. \A i \in 1..12 : Steps[i] \in Dirs \cup FixedFiles \cup InEncode
  BY <1>2, <1>3 DEF Dirs, FixedFiles, InEncode
<1>5. \A i, j \in 1..12 : i < j => Steps[i] # Steps[j]
  BY <1>2, <1>3
<1>6. \A i, j \in 1..12 : i < j /\ Steps[j] = "encode" => Steps[i] \notin InEncode
  BY <1>2, <1>3 DEF InEncode
<1>7. \A name \in Dirs \cup FixedFiles \cup InEncode : \E i \in 1..12 : Steps[i] = name
  <2>1. ASSUME NEW name \in Dirs PROVE \E i \in 1..12 : Steps[i] = name
    <3>1. 5 \in 1..12 /\ 6 \in 1..12 /\ 7 \in 1..12 /\ 8 \in 1..12
      OBVIOUS
    <3> QED
      BY <1>2, <3>1 DEF Dirs
  <2>2. ASSUME NEW name \in FixedFiles PROVE \E i \in 1..12 : Steps[i] = name
    <3>1. 1 \in 1..12 /\ 2 \in 1..12 /\ 3 \in 1..12 /\ 4 \in 1..12 /\ 10 \in 1..12 /\ 11 \in 1..12
      OBVIOUS
    <3> QED
      BY <1>2, <3>1 DEF FixedFiles
  <2>3. ASSUME NEW name \in InEncode PROVE \E i \in 1..12 : Steps[i] = name
    <3>1. 9 \in 1..12 /\ 12 \in 1..12
      OBVIOUS
    <3> QED
      BY <1>2, <3>1 DEF InEncode
  <2> QED
    BY <2>1, <2>2, <2>3
<1> QED
  BY <1>1, <1>4, <1>5, <1>6, <1>7

\* The files of a step are paths, and they are in its directory, in pkg/encode or in
\* pkg/session.
LEMMA TargetPaths ==
  ASSUME NEW name \in Dirs \cup FixedFiles \cup InEncode
  PROVE  /\ Target(name) \subseteq Paths
         /\ \A p \in Target(name) : \/ name \in Dirs /\ p[1] = name
                                    \/ name \in InEncode /\ p[1] = "encode"
                                    \/ name \in FixedFiles /\ p[1] = "session"
<1>1. CASE name \in Dirs
  BY <1>1 DEF Target, Paths
<1>2. CASE name \in InEncode
  <2>1. name \notin Dirs
    BY <1>2 DEF Dirs, InEncode
  <2>2. Target(name) = {<<"encode", name>>}
    BY <1>2, <2>1 DEF Target
  <2> QED
    BY <1>2, <2>2 DEF Paths
<1>3. CASE name \in FixedFiles
  <2>1. name \notin Dirs /\ name \notin InEncode
    BY <1>3 DEF Dirs, InEncode, FixedFiles
  <2>2. Target(name) = {<<"session", name>>}
    BY <2>1 DEF Target
  <2> QED
    BY <1>3, <2>2 DEF Paths
<1> QED
  BY <1>1, <1>2, <1>3

LEMMA FreshInit == Init => FreshInv
<1> SUFFICES ASSUME Init PROVE FreshInv
  OBVIOUS
<1>1. tree \in [Paths -> States]
  BY TreesAssumption DEF Init, States
<1>2. step = 0 /\ todo = {} /\ outcome = "none"
  BY DEF Init
<1>3. \A i \in 1..12 : ~Passed(i)
  BY <1>2 DEF Passed
<1> QED
  BY <1>1, <1>2, <1>3 DEF FreshInv, TypeInv, PassedInv, CurrentInv

\* After a failure nothing is promised but the states of the files.
LEMMA FailKeepsFresh ==
  ASSUME Fail, tree' \in [Paths -> States] PROVE FreshInv'
<1>1. step' = 0 /\ todo' = {} /\ outcome' = "error"
  BY DEF Fail
<1>2. \A i \in 1..12 : ~Passed(i)'
  BY <1>1 DEF Passed
<1> QED
  BY <1>1, <1>2 DEF FreshInv, TypeInv, PassedInv, CurrentInv

\* What other contents do to the tree.
LEMMA Overwritten ==
  ASSUME tree \in [Paths -> States], NEW q \in Paths,
         NEW contents \in SUBSET States, Overwrite(q, contents)
  PROVE  /\ tree' \in [Paths -> States]
         /\ tree'[q] \in contents
         /\ \A p \in Paths : p # q => tree'[p] = tree[p] /\ (p \in unread' <=> p \in unread)
  BY DEF Overwrite

\* The file is left because it has no header, or it is written.
LEMMA WriteEffect ==
  ASSUME tree \in [Paths -> States], NEW q \in Paths, Write(q)
  PROVE  /\ tree' \in [Paths -> States]
         /\ tree'[q] \in Written
         /\ tree' = tree \/ tree'[q] \in {"new", "bad"}
         /\ \A p \in Paths : p # q => tree'[p] = tree[p] /\ (p \in unread' <=> p \in unread)
<1>1. CASE tree[q] \in NoHeader /\ UNCHANGED <<tree, unread>>
  BY <1>1 DEF Written
<1>2. CASE Overwrite(q, IF q \in Misformatted THEN {"new", "bad"} ELSE {"new"})
  <2>1. PICK contents \in SUBSET {"new", "bad"} : Overwrite(q, contents)
    BY <1>2
  <2>2. contents \in SUBSET States /\ contents \subseteq Written
    BY <2>1 DEF States, Written
  <2> QED
    BY <2>1, <2>2, Overwritten
<1> QED
  BY <1>1, <1>2 DEF Write

\* Cleaning one directory leaves alone what the steps before have written.
LEMMA GenerateKeepsFresh == ASSUME FreshInv, Generate PROVE FreshInv'
<1>0. /\ tree \in [Paths -> States] /\ step \in 1..12 /\ outcome = "none"
  BY DEF FreshInv, TypeInv, Generate
<1>1. todo' = Target(Current) /\ step' = step /\ outcome' = outcome
  BY DEF Generate
<1>2. Current \in Dirs \cup FixedFiles \cup InEncode /\ Current' = Current
  BY <1>0, <1>1, StepOrder DEF Current
<1>5. \/ Current \in Dirs /\ cleanGeneratedDir(Current)
      \/ Current \notin Dirs /\ tree' = tree /\ unread \subseteq unread'
  <2>1. "register" \notin Dirs
    BY DEF Dirs
  <2> QED
    BY <2>1 DEF Generate, GenerateRegisterFileWithDir
<1>3. /\ \A p \in Paths : \/ tree'[p] = tree[p]
                          \/ tree'[p] = "absent" /\ p[1] = Current
      /\ unread \subseteq unread'
      /\ tree' \in [Paths -> States]
  <2>1. CASE cleanGeneratedDir(Current)
    <3>1. \A p \in Paths : \/ tree'[p] = tree[p]
                           \/ tree'[p] = "absent" /\ p[1] = Current
      BY <1>0, <2>1 DEF cleanGeneratedDir
    <3>2. unread \subseteq unread'
      BY <2>1 DEF cleanGeneratedDir
    <3>3. tree' \in [Paths -> States]
      BY <1>0, <2>1 DEF cleanGeneratedDir, States
    <3> QED
      BY <3>1, <3>2, <3>3
  <2>2. CASE tree' = tree /\ unread \subseteq unread'
    BY <1>0, <2>2
  <2> QED
    BY <1>5, <2>1, <2>2
<1>4. TypeInv'
  BY <1>0, <1>1, <1>2, <1>3 DEF TypeInv
<1>6. PassedInv'
  <2>1. ASSUME NEW i \in 1..12, Passed(i)' PROVE (Wrote(Steps[i], {}) /\ Cleaned(Steps[i]))'
    <3>1. i < step
      BY <1>0, <1>1, <2>1 DEF Passed
    <3>2. Wrote(Steps[i], {}) /\ Cleaned(Steps[i])
      BY <3>1 DEF FreshInv, PassedInv, Passed
    <3>3. /\ Steps[i] \in Dirs \cup FixedFiles \cup InEncode
          /\ Steps[i] # Current
          /\ Current = "encode" => Steps[i] \notin InEncode
      BY <1>0, <3>1, StepOrder DEF Current
    <3>4. \A p \in Target(Steps[i]) : p \in Paths /\ p[1] # Current
      <4>1. "session" \notin Dirs \cup FixedFiles \cup InEncode
        BY DEF Dirs, FixedFiles, InEncode
      <4>2. Target(Steps[i]) \subseteq Paths
        BY <3>3, TargetPaths
      <4>3. \A p \in Target(Steps[i]) : \/ Steps[i] \in Dirs /\ p[1] = Steps[i]
                                        \/ Steps[i] \in InEncode /\ p[1] = "encode"
                                        \/ Steps[i] \in FixedFiles /\ p[1] = "session"
        BY <3>3, TargetPaths
      <4> QED
        BY <1>2, <3>3, <4>1, <4>2, <4>3, Zenon
    <3>5. \A p \in Target(Steps[i]) : tree'[p] = tree[p]
      BY <1>3, <3>4
    <3>6. Wrote(Steps[i], {})'
      BY <3>2, <3>5 DEF Wrote, Target, Written
    <3>7. Cleaned(Steps[i])'
      BY <1>3, <3>2, <3>3 DEF Cleaned
    <3> QED
      BY <3>6, <3>7
  <2> QED
    BY <2>1 DEF PassedInv
<1>7. CurrentInv'
  <2>1. Cleaned(Current)'
    <3>1. CASE cleanGeneratedDir(Current)
      <4>1. \A p \in Paths \ unread' : p[1] = Current => tree'[p] \notin {"old", "part"}
        BY <1>0, <3>1 DEF cleanGeneratedDir, Generated
      <4> QED
        BY <1>2, <4>1 DEF Cleaned
    <3>2. CASE Current \notin Dirs
      <4>1. \A p \in Paths : p[1] # Current
        BY <1>2, <3>2 DEF Paths, Dirs, FixedFiles, InEncode
      <4> QED
        BY <1>2, <4>1 DEF Cleaned
    <3> QED
      BY <1>5, <3>1, <3>2
  <2>2. Wrote(Current, todo)'
    BY <1>1, <1>2 DEF Wrote, Target
  <2> QED
    BY <2>1, <2>2 DEF CurrentInv
<1> QED
  BY <1>4, <1>6, <1>7 DEF FreshInv

\* A file written, or left because it has no header, is done with.
LEMMA WriteKeepsFresh == ASSUME FreshInv, NEW q \in Paths, writeFile(q) PROVE FreshInv'
<1>0. /\ tree \in [Paths -> States] /\ step \in 1..12 /\ outcome = "none"
      /\ todo \subseteq Target(Current) /\ q \in todo
  BY DEF FreshInv, TypeInv, writeFile
<1>1. todo' = todo \ {q} /\ Finish(todo')
  BY DEF writeFile
<1>2. /\ tree' \in [Paths -> States]
      /\ tree'[q] \in Written
      /\ \A p \in Paths : p # q => tree'[p] = tree[p] /\ (p \in unread' <=> p \in unread)
  BY <1>0, WriteEffect DEF writeFile
<1>3. \/ todo' # {} /\ step' = step /\ outcome' = "none"
      \/ todo' = {} /\ step = 12 /\ step' = 0 /\ outcome' = "ok"
      \/ todo' = {} /\ step # 12 /\ step' = step + 1 /\ outcome' = "none"
  BY <1>1, StepOrder DEF Finish
<1>4. \A i \in 1..12 : Steps[i] \in Dirs \cup FixedFiles \cup InEncode
                       /\ Target(Steps[i]) \subseteq Paths
  BY StepOrder, TargetPaths
<1>5. ASSUME NEW i \in 1..12, NEW but, NEW left, Wrote(Steps[i], but), but \subseteq left \cup {q}
      PROVE  \A p \in Target(Steps[i]) \ left : tree'[p] \in Written
  BY <1>2, <1>4, <1>5 DEF Wrote
<1>6. ASSUME NEW i \in 1..12, Cleaned(Steps[i])
      PROVE  \A p \in Paths \ unread' : p[1] = Steps[i] => tree'[p] \notin {"old", "part"}
  <2>1. tree'[q] \notin {"old", "part"}
    BY <1>2 DEF Written, NoHeader
  <2> QED
    BY <1>2, <1>6, <2>1 DEF Cleaned
<1>7. todo # {} /\ Wrote(Current, todo) /\ Cleaned(Current)
  BY <1>0 DEF FreshInv, CurrentInv
<1>8. /\ \A p \in Target(Steps[step]) \ todo' : tree'[p] \in Written
      /\ \A p \in Paths \ unread' : p[1] = Steps[step] => tree'[p] \notin {"old", "part"}
  <2>1. Wrote(Steps[step], todo) /\ Cleaned(Steps[step]) /\ todo \subseteq todo' \cup {q}
    BY <1>1, <1>7 DEF Current
  <2> QED
    BY <1>0, <1>5, <1>6, <2>1
<1>9. ASSUME NEW i \in 1..12, i < step
       PROVE  /\ \A p \in Target(Steps[i]) \ {} : tree'[p] \in Written
              /\ \A p \in Paths \ unread' : p[1] = Steps[i] => tree'[p] \notin {"old", "part"}
  <2>1. Wrote(Steps[i], {}) /\ Cleaned(Steps[i])
    BY <1>9 DEF FreshInv, PassedInv, Passed
  <2>2. {} \subseteq {} \cup {q}
    OBVIOUS
  <2> QED
    BY <1>5, <1>6, <2>1, <2>2
<1>10. TypeInv'
  <2>1. CASE todo' # {} /\ step' = step /\ outcome' = "none"
    BY <1>0, <1>1, <1>2, <2>1 DEF TypeInv, Current
  <2>2. CASE todo' = {} /\ step = 12 /\ step' = 0 /\ outcome' = "ok"
    BY <1>0, <1>2, <2>2 DEF TypeInv
  <2>3. CASE todo' = {} /\ step # 12 /\ step' = step + 1 /\ outcome' = "none"
    <3>1. step' \in 1..12
      BY <1>0, <2>3
    <3> QED
      BY <1>2, <2>3, <3>1 DEF TypeInv
  <2> QED
    BY <1>3, <2>1, <2>2, <2>3
<1>11. PassedInv'
  <2>1. ASSUME NEW i \in 1..12, Passed(i)' PROVE (Wrote(Steps[i], {}) /\ Cleaned(Steps[i]))'
    <3>1. i < step \/ (i = step /\ todo' = {})
      BY <1>0, <1>3, <2>1 DEF Passed
    <3>2. /\ \A p \in Target(Steps[i]) \ {} : tree'[p] \in Written
          /\ \A p \in Paths \ unread' : p[1] = Steps[i] => tree'[p] \notin {"old", "part"}
      BY <1>8, <1>9, <3>1
    <3>3. Wrote(Steps[i], {})'
      BY <3>2 DEF Wrote, Target, Written
    <3>4. Cleaned(Steps[i])'
      BY <3>2 DEF Cleaned
    <3> QED
      BY <3>3, <3>4
  <2> QED
    BY <2>1 DEF PassedInv
<1>12. CurrentInv'
  <2>1. ASSUME step' # 0, todo' # {} PROVE (Wrote(Current, todo) /\ Cleaned(Current))'
    <3>1. Current' = Steps[step]
      BY <1>3, <2>1 DEF Current
    <3> QED
      BY <1>8, <3>1 DEF Wrote, Cleaned, Target, Written
  <2> QED
    BY <2>1 DEF CurrentInv
<1> QED
  BY <1>10, <1>11, <1>12 DEF FreshInv

LEMMA FreshNext == FreshInv /\ [Next]_vars => FreshInv'
<1> SUFFICES ASSUME FreshInv, [Next]_vars PROVE FreshInv'
  OBVIOUS
<1>t. tree \in [Paths -> States]
  BY DEF FreshInv, TypeInv
<1>1. CASE Run
  <2>1. tree' \in [Paths -> States]
    BY <1>1, <1>t DEF Run, States
  <2>2. step' = 1 /\ todo' = {} /\ outcome' = "none"
    BY <1>1 DEF Run
  <2>3. \A i \in 1..12 : ~Passed(i)'
    BY <2>2 DEF Passed
  <2> QED
    BY <2>1, <2>2, <2>3 DEF FreshInv, TypeInv, PassedInv, CurrentInv
<1>2. CASE GenerateFails
  BY <1>2, <1>t, FailKeepsFresh DEF GenerateFails
<1>3. CASE Generate
  BY <1>3, GenerateKeepsFresh
<1>4. CASE CleanFails
  <2>1. PICK gone : tree' = [p \in Paths |-> IF p \in gone THEN "absent" ELSE tree[p]]
    BY <1>4 DEF CleanFails
  <2>2. tree' \in [Paths -> States]
    BY <1>t, <2>1 DEF States
  <2> QED
    BY <1>4, <2>2, FailKeepsFresh DEF CleanFails
<1>5. CASE ShuffleOverlap
  <2>1. PICK q \in todo : Write(q)
    BY <1>5 DEF ShuffleOverlap
  <2>2. q \in Paths
    BY <1>5, StepOrder, TargetPaths DEF ShuffleOverlap, FreshInv, TypeInv, Dirs
  <2> QED
    BY <1>5, <1>t, <2>1, <2>2, WriteEffect, FailKeepsFresh DEF ShuffleOverlap
<1>6. ASSUME NEW q \in Paths, writeFile(q) PROVE FreshInv'
  BY <1>6, WriteKeepsFresh
<1>7. ASSUME NEW q \in Paths, WriteFails(q) PROVE FreshInv'
  <2>1. tree' \in [Paths -> States]
    <3>1. {"part", "cut"} \in SUBSET States
      BY DEF States
    <3> QED
      BY <1>7, <1>t, <3>1, Overwritten DEF WriteFails
  <2> QED
    BY <1>7, <2>1, FailKeepsFresh DEF WriteFails
<1>8. CASE UNCHANGED vars
  BY <1>8 DEF vars, FreshInv, TypeInv, PassedInv, CurrentInv, Passed, Wrote, Cleaned, Written,
              Current, Target
<1> QED
  BY <1>1, <1>2, <1>3, <1>4, <1>5, <1>6, <1>7, <1>8 DEF Next, Done

\* A run that succeeds has written every file of mappings.yaml that has the generator's
\* header, and has left nothing of an earlier run but what it could not read, whatever tree
\* failed and interrupted runs left to it.
THEOREM SuccessStaysFresh == Spec => []SuccessIsFresh
<1>1. FreshInv => SuccessIsFresh
  <2> SUFFICES ASSUME FreshInv, outcome = "ok" PROVE
        /\ \A i \in 1..Len(Steps) : \A p \in Target(Steps[i]) : tree[p] \in Written
        /\ \A p \in Paths \ unread : tree[p] \notin {"old", "part"}
    BY DEF SuccessIsFresh, Written
  <2>1. \A i \in 1..12 : /\ \A p \in Target(Steps[i]) : tree[p] \in Written
                         /\ Cleaned(Steps[i])
    BY DEF FreshInv, PassedInv, Passed, Wrote
  <2>2. ASSUME NEW name \in FixedFiles \cup InEncode, NEW p \in Target(name)
        PROVE  tree[p] \notin {"old", "part"}
    <3>1. PICK i \in 1..12 : Steps[i] = name
      BY StepOrder
    <3> QED
      BY <2>1, <3>1 DEF Written, NoHeader
  <2>3. ASSUME NEW p \in Paths \ unread PROVE tree[p] \notin {"old", "part"}
    <3>1. CASE p \in Dirs \X (Actions \cup Removed)
      <4>1. p[1] \in Dirs
        BY <3>1
      <4>2. PICK i \in 1..12 : Steps[i] = p[1]
        BY <4>1, StepOrder
      <4> QED
        BY <2>1, <4>2 DEF Cleaned
    <3>2. CASE p \in {"session"} \X FixedFiles
      <4>1. PICK name \in FixedFiles : p = <<"session", name>>
        BY <3>2
      <4>2. p \in Target(name)
        BY <4>1 DEF Target, Dirs, InEncode, FixedFiles
      <4> QED
        BY <2>2, <4>2
    <3>3. CASE p \in {"encode"} \X InEncode
      <4>1. PICK name \in InEncode : p = <<"encode", name>>
        BY <3>3
      <4>2. p \in Target(name)
        BY <4>1 DEF Target, Dirs, InEncode
      <4> QED
        BY <2>2, <4>2
    <3> QED
      BY <3>1, <3>2, <3>3 DEF Paths
  <2> QED
    BY <2>1, <2>3, StepOrder
<1> QED
  BY <1>1, FreshInit, FreshNext, PTL DEF Spec

-----------------------------------------------------------------------------
(* The registration of the encoders. *)

Register == Encoder("register")

\* What register.go has to name: the encoders that parse, but those that could not be read and
\* those hand-written for an action that is gone.
Exact ==
  /\ registered \subseteq Encoders
  /\ \A a \in Encoders \ registered :
       Encoder(a) \in unread \/ (a \notin Actions /\ tree[Encoder(a)] = "hand")

\* No run writes the encoder of an action that is gone, and the text of register.go stays exact
\* until it is written.
RegisterInv ==
  /\ \A a \in Removed \ Actions : tree[Encoder(a)] # "new"
  /\ step # 0 /\ Current = "register" /\ todo # {} => Exact
  /\ outcome = "ok" => Exact

LEMMA EncoderPaths ==
  /\ Register \in Paths
  /\ \A a \in Actions \cup Removed : Encoder(a) \in Paths /\ Encoder(a) # Register
<1>1. Register \in Paths
  BY DEF Register, Encoder, Paths, InEncode
<1>2. ASSUME NEW a \in Actions \cup Removed PROVE Encoder(a) \in Paths /\ Encoder(a) # Register
  <2>1. a # "register"
    BY NamesAssumption DEF InEncode
  <2> QED
    BY <2>1 DEF Encoder, Register, Paths, Dirs
<1> QED
  BY <1>1, <1>2

\* No step writes the encoder of an action that is gone.
LEMMA GoneUnwritten ==
  ASSUME NEW name \in Dirs \cup FixedFiles \cup InEncode, NEW a \in Removed \ Actions
  PROVE  Encoder(a) \notin Target(name)
<1>1. CASE name \in Dirs
  BY <1>1 DEF Target, Encoder
<1>2. CASE name \in InEncode
  BY <1>2, NamesAssumption DEF Target, Encoder, Dirs, InEncode
<1>3. CASE name \in FixedFiles
  BY <1>3 DEF Target, Encoder, Dirs, InEncode, FixedFiles
<1> QED
  BY <1>1, <1>2, <1>3

\* A step makes a file new only if it is one it has to write.
LEMMA StepChanges ==
  FreshInv /\ [Next]_vars =>
    \A p \in Paths : tree'[p] = tree[p] \/ tree'[p] # "new" \/ p \in todo
<1> SUFFICES ASSUME FreshInv, [Next]_vars, NEW p \in Paths, p \notin todo
             PROVE  tree'[p] = tree[p] \/ tree'[p] # "new"
  OBVIOUS
<1>t. tree \in [Paths -> States]
  BY DEF FreshInv, TypeInv
<1>1. CASE Run
  BY <1>1 DEF Run
<1>2. CASE GenerateFails
  BY <1>2 DEF GenerateFails
<1>3. CASE Generate
  BY <1>3 DEF Generate, cleanGeneratedDir
<1>4. CASE CleanFails
  BY <1>4 DEF CleanFails
<1>5. CASE ShuffleOverlap
  BY <1>5, <1>t DEF ShuffleOverlap, Write, Overwrite
<1>6. ASSUME NEW q \in Paths, writeFile(q) PROVE tree'[p] = tree[p]
  BY <1>6, <1>t, WriteEffect DEF writeFile
<1>7. ASSUME NEW q \in Paths, WriteFails(q) PROVE tree'[p] = tree[p]
  BY <1>7, <1>t DEF WriteFails, Overwrite
<1>8. CASE UNCHANGED vars
  BY <1>8 DEF vars
<1> QED
  BY <1>1, <1>2, <1>3, <1>4, <1>5, <1>6, <1>7, <1>8 DEF Next, Done

\* What exactness speaks of is unchanged.
LEMMA ExactKept ==
  ASSUME Exact, registered' = registered,
         \A a \in Actions \cup Removed :
           /\ tree'[Encoder(a)] = tree[Encoder(a)]
           /\ Encoder(a) \in unread' <=> Encoder(a) \in unread
  PROVE  Exact'
<1>1. \A a : a \in Encoders' <=> a \in Encoders
  BY DEF Encoders
<1>2. ASSUME NEW a \in Encoders' \ registered'
      PROVE  Encoder(a) \in unread' \/ (a \notin Actions /\ tree'[Encoder(a)] = "hand")
  <2>1. a \in Encoders \ registered /\ a \in Actions \cup Removed
    BY <1>1, <1>2 DEF Encoders
  <2> QED
    BY <2>1 DEF Exact
<1>3. registered' \subseteq Encoders'
  BY <1>1 DEF Exact
<1> QED
  BY <1>2, <1>3 DEF Exact, Encoder

\* The text is generated from a directory that has been cleaned.
LEMMA GenerateExact ==
  ASSUME FreshInv, RegisterInv, Generate, Current = "register" PROVE Exact'
<1>1. /\ step \in 1..12 /\ tree' = tree /\ GenerateRegisterFileWithDir
  BY DEF FreshInv, TypeInv, Generate, Dirs
<1>2. PICK missed \in SUBSET Encoders :
        /\ registered' = (Encoders \cap Actions) \ missed
        /\ unread' = unread \cup {Encoder(a) : a \in missed}
  BY <1>1 DEF GenerateRegisterFileWithDir
<1>3. Cleaned("encode")
  <2>1. step = 12
    <3>1. Steps[12] = "register" /\ \A i \in 1..12 : i < 12 => Steps[i] # Steps[12]
      BY StepOrder DEF Steps
    <3> QED
      BY <1>1, <3>1 DEF Current
  <2>2. 8 \in 1..12 /\ 8 < step /\ Steps[8] = "encode"
    BY <2>1 DEF Steps
  <2> QED
    BY <2>2 DEF FreshInv, PassedInv, Passed
<1>4. Encoders' = Encoders
  BY <1>1 DEF Encoders, Encoder
<1>5. ASSUME NEW a \in Encoders \ registered', Encoder(a) \notin unread'
      PROVE  a \notin Actions /\ tree[Encoder(a)] = "hand"
  <2>1. a \notin missed /\ a \notin Actions
    BY <1>2, <1>5
  <2>2. a \in Removed \ Actions /\ tree[Encoder(a)] \in {"hand", "old", "new"}
    BY <2>1, <1>5 DEF Encoders
  <2>3. tree[Encoder(a)] # "new"
    BY <2>2 DEF RegisterInv
  <2>4. Encoder(a) \in Paths \ unread /\ Encoder(a)[1] = "encode"
    BY <1>2, <1>5, <2>2, EncoderPaths DEF Encoder
  <2> QED
    BY <1>3, <2>1, <2>2, <2>3, <2>4 DEF Cleaned
<1> QED
  BY <1>1, <1>2, <1>4, <1>5 DEF Exact, Encoder

\* The write of register.go touches no encoder, and it is the one that ends a run with success.
LEMMA WriteExact ==
  ASSUME FreshInv, RegisterInv, NEW q \in Paths, writeFile(q),
         outcome' = "ok" \/ Current = "register"
  PROVE  Exact'
<1>1. /\ step \in 1..12 /\ q \in todo /\ todo \subseteq Target(Current)
      /\ tree \in [Paths -> States] /\ registered' = registered /\ Write(q)
  BY DEF FreshInv, TypeInv, writeFile
<1>2. Current = "register"
  <2>1. ASSUME outcome' = "ok" PROVE step = 12
    BY <2>1, StepOrder DEF writeFile, Finish
  <2> QED
    BY <2>1 DEF Current, Steps
<1>3. q = Register
  BY <1>1, <1>2 DEF Target, Dirs, InEncode, Register, Encoder
<1>4. Exact
  BY <1>1, <1>2 DEF RegisterInv
<1>5. \A a \in Actions \cup Removed : /\ tree'[Encoder(a)] = tree[Encoder(a)]
                                      /\ Encoder(a) \in unread' <=> Encoder(a) \in unread
  BY <1>1, <1>3, WriteEffect, EncoderPaths
<1> QED
  BY <1>1, <1>4, <1>5, ExactKept

LEMMA RegisterNext == FreshInv /\ RegisterInv /\ [Next]_vars => RegisterInv'
<1> SUFFICES ASSUME FreshInv, RegisterInv, [Next]_vars PROVE RegisterInv'
  OBVIOUS
<1>1. ASSUME NEW a \in Removed \ Actions PROVE tree'[Encoder(a)] # "new"
  <2>1. Encoder(a) \in Paths
    BY EncoderPaths
  <2>2. Encoder(a) \notin todo
    <3>1. CASE step = 0
      BY <3>1 DEF FreshInv, TypeInv
    <3>2. CASE step # 0
      <4>1. step \in 1..12 /\ todo \subseteq Target(Current)
        BY <3>2 DEF FreshInv, TypeInv
      <4>2. Current \in Dirs \cup FixedFiles \cup InEncode
        BY <4>1, StepOrder DEF Current
      <4> QED
        BY <4>1, <4>2, GoneUnwritten
    <3> QED
      BY <3>1, <3>2
  <2> QED
    BY <2>1, <2>2, StepChanges DEF RegisterInv
<1>2. ASSUME NEW q \in Paths, writeFile(q)
      PROVE  (outcome' = "ok" => Exact') /\ (step' # 0 /\ Current' = "register" /\ todo' # {} => Exact')
  <2>1. ASSUME step' # 0, Current' = "register", todo' # {} PROVE Current = "register"
    BY <1>2, <2>1 DEF writeFile, Finish, Current
  <2> QED
    BY <1>2, <2>1, WriteExact
<1>3. CASE Generate
  <2>1. outcome' # "ok" /\ step' = step
    BY <1>3 DEF Generate, FreshInv, TypeInv
  <2>2. Current' = Current
    BY <2>1 DEF Current
  <2> QED
    BY <1>1, <1>3, <2>1, <2>2, GenerateExact DEF RegisterInv
<1>4. CASE UNCHANGED vars
  <2>1. Exact => Exact'
    BY <1>4, ExactKept DEF vars
  <2> QED
    BY <1>1, <1>4, <2>1 DEF vars, RegisterInv, Current
<1>5. CASE Run \/ GenerateFails \/ CleanFails \/ ShuffleOverlap \/ \E q \in Paths : WriteFails(q)
  <2>1. outcome' # "ok" /\ todo' = {}
    BY <1>5 DEF Run, GenerateFails, CleanFails, ShuffleOverlap, WriteFails, Fail
  <2> QED
    BY <1>1, <2>1 DEF RegisterInv
<1> QED
  BY <1>1, <1>2, <1>3, <1>4, <1>5 DEF Next, Done, RegisterInv

\* After a run that succeeds, register.go names exactly the encoders in the tree that parse,
\* those that could not be read and those hand-written for a gone action excepted.
THEOREM RegisterStaysExact == Spec => []RegisterMatches
<1>1. Init => RegisterInv
  <2> SUFFICES ASSUME Init PROVE RegisterInv
    OBVIOUS
  <2>1. tree \in [Paths -> {"absent", "hand", "broken", "old"}] /\ outcome = "none" /\ step = 0
    BY TreesAssumption DEF Init
  <2>2. \A a \in Removed \ Actions : tree[Encoder(a)] # "new"
    BY <2>1, EncoderPaths
  <2> QED
    BY <2>1, <2>2 DEF RegisterInv
<1>2. RegisterInv => RegisterMatches
  BY DEF RegisterInv, RegisterMatches, Exact
<1> QED
  BY <1>1, <1>2, FreshInit, FreshNext, RegisterNext, PTL DEF Spec
==============================================================================
