-------------------------- MODULE SemanticsDBProofs --------------------------
(*
  Theorems about SemanticsDB for any number of processes, any documents and
  calls, and any number of failed steps and killed processes. What a mutation
  makes of a document plays no part in what the save and the turns guarantee;
  the last part is about the documents alone.
*)
EXTENDS SemanticsDB, SequenceTheorems, WellFoundedInduction, TLAPS

\* The points of a call: before the file is replaced, and before a temporary file exists or
\* after it is gone.
BeforeRename == {"load", "dispatch", "create", "write", "close", "rename"}
WithoutTemp == {"idle", "load", "dispatch", "create", "reply"}

DBTypeOK ==
  /\ temp = [p \in Procs |-> temp[p]]
  /\ pc \in [Procs -> BeforeRename \cup {"idle", "reply"}]
  /\ reply \in [Procs -> {"none", "ok", "read", "error"}]
  /\ wrote \in [Procs -> BOOLEAN]
  /\ orphans \in Nat /\ kills \in Nat

\* A process that is about to rename has written all of its document.
ReadyToRename == \A p \in Procs : pc[p] \in {"close", "rename"} => temp[p].whole

\* A process has a temporary file only while it saves.
TempOnlyInSave == \A p \in Procs : pc[p] \in WithoutTemp => ~temp[p].exists

\* A call in progress has not answered, and it has replaced the file exactly when only the
\* answer is left.
Progress ==
  \A p \in Procs :
    /\ pc[p] # "idle" => reply[p] = "none"
    /\ pc[p] \in BeforeRename => ~wrote[p]
    /\ pc[p] = "reply" => wrote[p]

\* FileWhole and ReplyHonest are not inductive: the first needs that whatever is renamed is
\* whole, the second what a call has done by the time it answers.
SaveInv ==
  DBTypeOK /\ FileWhole /\ ReadyToRename /\ TempOnlyInSave /\ Progress /\ ReplyHonest

LEMMA SaveInit == Init => SaveInv
<1> SUFFICES ASSUME Init PROVE SaveInv
  OBVIOUS
<1>1. FileWhole
  BY DEF Init, FileWhole
<1>2. DBTypeOK
  BY DEF Init, DBTypeOK
<1>3. \A p \in Procs : pc[p] = "idle" /\ reply[p] = "none" /\ ~temp[p].exists
  BY DEF Init, NoTemp
<1>4. orphans <= kills
  BY DEF Init
<1> QED
  BY <1>1, <1>2, <1>3, <1>4
     DEF SaveInv, ReadyToRename, TempOnlyInSave, Progress, ReplyHonest, BeforeRename

LEMMA SaveNext == SaveInv /\ [Next]_vars => SaveInv'
<1> SUFFICES ASSUME SaveInv, [Next]_vars PROVE SaveInv'
  OBVIOUS
<1> USE DEF SaveInv, DBTypeOK, FileWhole, ReadyToRename, TempOnlyInSave, Progress, ReplyHonest,
            BeforeRename, WithoutTemp
<1>1. ASSUME NEW p \in Procs, NEW m \in Calls, Start(p, m) PROVE SaveInv'
  BY <1>1 DEF Start, At
<1>2. ASSUME NEW p \in Procs, Load(p) PROVE SaveInv'
  BY <1>2 DEF Load, At
<1>3. ASSUME NEW p \in Procs, LoadFails(p) PROVE SaveInv'
  BY <1>3 DEF LoadFails, Answer
<1>4. ASSUME NEW p \in Procs, Dispatch(p) PROVE SaveInv'
  BY <1>4 DEF Dispatch, Answer, At
<1>5. ASSUME NEW p \in Procs, CreateTemp(p) PROVE SaveInv'
  BY <1>5 DEF CreateTemp, At, NoTemp
<1>6. ASSUME NEW p \in Procs, CreateTempFails(p) PROVE SaveInv'
  BY <1>6 DEF CreateTempFails, Answer
<1>7. ASSUME NEW p \in Procs, WriteString(p) PROVE SaveInv'
  BY <1>7 DEF WriteString, At
<1>8. ASSUME NEW p \in Procs, WriteFails(p) PROVE SaveInv'
  BY <1>8 DEF WriteFails, Answer, NoTemp
<1>9. ASSUME NEW p \in Procs, CloseTemp(p) PROVE SaveInv'
  BY <1>9 DEF CloseTemp, At
<1>10. ASSUME NEW p \in Procs, CloseFails(p) PROVE SaveInv'
  BY <1>10 DEF CloseFails, Answer, NoTemp
<1>11. ASSUME NEW p \in Procs, Rename(p) PROVE SaveInv'
  BY <1>11 DEF Rename, At, NoTemp
<1>12. ASSUME NEW p \in Procs, RenameFails(p) PROVE SaveInv'
  BY <1>12 DEF RenameFails, Answer, NoTemp
<1>13. ASSUME NEW p \in Procs, Reply(p) PROVE SaveInv'
  BY <1>13 DEF Reply, Answer
<1>14. ASSUME NEW p \in Procs, Kill(p) PROVE SaveInv'
  <2>1. orphans' \in Nat /\ kills' \in Nat /\ orphans' <= kills'
    <3>1. CASE temp[p].exists
      BY <1>14, <3>1 DEF Kill
    <3>2. CASE ~temp[p].exists
      BY <1>14, <3>2 DEF Kill
    <3> QED
      BY <3>1, <3>2
  <2>2. FileWhole' /\ wrote' \in [Procs -> BOOLEAN]
    BY <1>14 DEF Kill
  <2>3. /\ temp' = [q \in Procs |-> temp'[q]]
        /\ pc' \in [Procs -> BeforeRename \cup {"idle", "reply"}]
        /\ reply' \in [Procs -> {"none", "ok", "read", "error"}]
    BY <1>14 DEF Kill, Answer
  <2>4. ReadyToRename' /\ TempOnlyInSave'
    BY <1>14 DEF Kill, Answer, NoTemp
  <2>5. Progress'
    BY <1>14 DEF Kill, Answer
  <2>6. ASSUME NEW q \in Procs
        PROVE  /\ reply'[q] = "ok" => wrote'[q]
               /\ reply'[q] \in {"error", "read"} => ~wrote'[q]
               /\ pc'[q] = "idle" => ~temp'[q].exists
    BY <1>14 DEF Kill, Answer, NoTemp
  <2> QED
    BY <2>1, <2>2, <2>3, <2>4, <2>5, <2>6
<1>15. CASE UNCHANGED vars
  BY <1>15 DEF vars
<1> QED
  BY <1>1, <1>2, <1>3, <1>4, <1>5, <1>6, <1>7, <1>8, <1>9, <1>10, <1>11, <1>12, <1>13, <1>14,
     <1>15 DEF Next, Finished, handleToolCall, SaveTo

LEMMA SaveInvariant == Spec => []SaveInv
  BY SaveInit, SaveNext, PTL DEF Spec

\* SaveTo: whatever fails and whoever is killed, mappings.yaml is a whole document.
THEOREM FileAlwaysWhole == Spec => []FileWhole
<1>1. SaveInv => FileWhole
  BY DEF SaveInv
<1> QED
  BY <1>1, SaveInvariant, PTL

\* handleToolCall and withDB: the answer says whether the file was replaced, and only killed
\* processes leave temporary files.
THEOREM AnswersHonest == Spec => []ReplyHonest
<1>1. SaveInv => ReplyHonest
  BY DEF SaveInv
<1> QED
  BY <1>1, SaveInvariant, PTL

-----------------------------------------------------------------------------
(* Callers that take turns. *)

\* Past the mutation and before the rename.
Saving == {"create", "write", "close", "rename"}

\* When callers take turns, at most one process is in a call, and its copy is the document the
\* file holds, until the mutation makes it the document the file is to hold.
SerialInv ==
  /\ call = [p \in Procs |-> call[p]] /\ db = [p \in Procs |-> db[p]]
  /\ \A p \in Procs : pc[p] # "idle" => call[p] \in Calls
  /\ \A p \in Procs : pc[p] \in {"close", "rename"} => temp[p].doc = db[p]
  /\ serial =>
       /\ \A p, q \in Procs : pc[p] # "idle" /\ pc[q] # "idle" => p = q
       /\ \A p \in Procs : pc[p] = "dispatch" => db[p] = file.doc
       /\ \A p \in Procs : pc[p] \in Saving =>
            /\ dispatchTool(file.doc, call[p]).ok
            /\ db[p] = dispatchTool(file.doc, call[p]).doc

LEMMA SerialInit == Init => SerialInv
BY DEF Init, SerialInv, Saving

LEMMA SerialNext == SaveInv /\ SerialInv /\ [Next]_vars => SerialInv'
<1> SUFFICES ASSUME SaveInv, SerialInv, [Next]_vars PROVE SerialInv'
  OBVIOUS
<1> USE DEF SaveInv, DBTypeOK, SerialInv, Saving, BeforeRename
<1>1. ASSUME NEW p \in Procs, NEW m \in Calls, Start(p, m) PROVE SerialInv'
  BY <1>1 DEF Start, At
<1>2. ASSUME NEW p \in Procs, Load(p) PROVE SerialInv'
  BY <1>2, SMTT(30) DEF Load, At
<1>3. ASSUME NEW p \in Procs, LoadFails(p) \/ CreateTempFails(p) \/ Reply(p) PROVE SerialInv'
  BY <1>3 DEF LoadFails, CreateTempFails, Reply, Answer
<1>4. ASSUME NEW p \in Procs, Dispatch(p) PROVE SerialInv'
  BY <1>4 DEF Dispatch, Answer, At
<1>5. ASSUME NEW p \in Procs, CreateTemp(p) PROVE SerialInv'
  BY <1>5 DEF CreateTemp, At
<1>6. ASSUME NEW p \in Procs, WriteFails(p) \/ CloseFails(p) \/ RenameFails(p) PROVE SerialInv'
  BY <1>6 DEF WriteFails, CloseFails, RenameFails, Answer
<1>7. ASSUME NEW p \in Procs, WriteString(p) PROVE SerialInv'
  BY <1>7 DEF WriteString, At
<1>8. ASSUME NEW p \in Procs, CloseTemp(p) PROVE SerialInv'
  BY <1>8 DEF CloseTemp, At
<1>9. ASSUME NEW p \in Procs, Rename(p) PROVE SerialInv'
  BY <1>9 DEF Rename, At
<1>10. ASSUME NEW p \in Procs, Kill(p) PROVE SerialInv'
  <2>1. /\ call' = [call EXCEPT ![p] = NoCall] /\ db' = [db EXCEPT ![p] = <<>>]
        /\ file' = file /\ serial' = serial /\ pc'[p] = "idle"
    BY <1>10 DEF Kill, Answer
  <2>2. \A q \in Procs : q # p => /\ pc'[q] = pc[q] /\ call'[q] = call[q]
                                 /\ db'[q] = db[q] /\ temp'[q] = temp[q]
    BY <1>10 DEF Kill, Answer
  <2>3. call' = [q \in Procs |-> call'[q]] /\ db' = [q \in Procs |-> db'[q]]
    BY <2>1
  <2> QED
    <3>1. \A q \in Procs : pc'[q] # "idle" => call'[q] \in Calls
      BY <2>1, <2>2
    <3>2. \A q \in Procs : pc'[q] \in {"close", "rename"} => temp'[q].doc = db'[q]
      BY <2>1, <2>2
    <3>3. ASSUME serial', NEW q \in Procs, NEW r \in Procs, pc'[q] # "idle", pc'[r] # "idle"
          PROVE  q = r
      <4>1. pc[q] # "idle" /\ pc[r] # "idle" /\ serial
        BY <2>1, <2>2, <3>3
      <4> QED
        BY <4>1
    <3>4. ASSUME serial', NEW q \in Procs, pc'[q] = "dispatch" PROVE db'[q] = file'.doc
      <4>1. pc[q] = "dispatch" /\ serial /\ db'[q] = db[q] /\ file'.doc = file.doc
        BY <2>1, <2>2, <3>4
      <4> QED
        BY <4>1
    <3>5. ASSUME serial', NEW q \in Procs, pc'[q] \in Saving
          PROVE  /\ dispatchTool(file'.doc, call'[q]).ok
                 /\ db'[q] = dispatchTool(file'.doc, call'[q]).doc
      <4>1. q # p /\ pc[q] \in Saving /\ serial
        BY <2>1, <2>2, <3>5
      <4>2. dispatchTool(file.doc, call[q]).ok /\ db[q] = dispatchTool(file.doc, call[q]).doc
        BY <4>1
      <4> QED
        BY <2>1, <2>2, <4>1, <4>2, Zenon
    <3> QED
      BY <2>3, <3>1, <3>2, <3>3, <3>4, <3>5, Zenon
<1>11. CASE UNCHANGED vars
  BY <1>11 DEF vars
<1> QED
  BY <1>1, <1>2, <1>3, <1>4, <1>5, <1>6, <1>7, <1>8, <1>9, <1>10, <1>11
     DEF Next, Finished, handleToolCall, SaveTo

\* The abstract specification applies the same mutations.
LEMMA SameMutation ==
  ASSUME NEW d, NEW m PROVE Atomic!dispatchTool(d, m) = dispatchTool(d, m)
BY Zenon DEF Atomic!dispatchTool, Atomic!Done, Atomic!Failed, Atomic!Keyed, Atomic!WithID,
  Atomic!First, Atomic!Indexed, Atomic!normPacketID, Atomic!CreateAction, Atomic!DeleteAction,
  Atomic!RenameAction, Atomic!UpdateActionMetadata, Atomic!AddImplementation,
  Atomic!UpdateImplementation, Atomic!DeleteImplementation, Atomic!RemoveAt,
  dispatchTool, Done, Failed, Keyed, WithID, First, Indexed, normPacketID, CreateAction, DeleteAction,
  RenameAction, UpdateActionMetadata, AddImplementation, UpdateImplementation,
  DeleteImplementation, RemoveAt

\* A step that changes the document is one call applied to the document as it was.
LEMMA AtomicStep ==
  ASSUME SaveInv, SerialInv, [Next]_vars PROVE [serial => Atomic!Next]_(file.doc)
<1>1. ASSUME NEW p \in Procs, Rename(p), serial PROVE Atomic!Next
  <2>1. pc[p] = "rename" /\ file' = [doc |-> temp[p].doc, whole |-> temp[p].whole]
    BY <1>1 DEF Rename, At
  <2>2. /\ call[p] \in Calls /\ dispatchTool(file.doc, call[p]).ok
        /\ temp[p].doc = dispatchTool(file.doc, call[p]).doc
    BY <1>1, <2>1 DEF SerialInv, Saving
  <2>3. file'.doc = dispatchTool(file.doc, call[p]).doc
    BY <2>1, <2>2
  <2>4. Atomic!Call(call[p])
    BY <2>2, <2>3, SameMutation DEF Atomic!Call
  <2> QED
    BY <2>2, <2>4 DEF Atomic!Next
<1>2. (\E p \in Procs : Rename(p)) \/ file' = file
  BY DEF Next, Finished, handleToolCall, SaveTo, Start, Load, LoadFails, Dispatch, CreateTemp,
         CreateTempFails, WriteString, WriteFails, CloseTemp, CloseFails, RenameFails, Reply, Kill,
         vars
<1> QED
  BY <1>1, <1>2

\* When callers take turns, the processes implement AtomicDB, whatever fails and whoever is
\* killed: each change of the file is one call applied to the file as it was.
THEOREM SerialCallsAtomic == Spec => AtomicWhenSerial
<1>1. Init => Atomic!Init
  BY DEF Init, Atomic!Init
<1>2. Spec => []SerialInv
  BY SaveInvariant, SerialInit, SerialNext, PTL DEF Spec
<1>3. SaveInv /\ SerialInv /\ [Next]_vars => [serial => Atomic!Next]_(file.doc)
  BY AtomicStep
<1> QED
  BY <1>1, <1>2, <1>3, SaveInvariant, PTL DEF Spec, AtomicWhenSerial

-----------------------------------------------------------------------------
(* What the mutations make of a document. *)

\* RemoveAt closes the gap.
LEMMA RemoveAtFacts ==
  ASSUME NEW S, NEW s \in Seq(S), NEW i \in 1..Len(s)
  PROVE  /\ RemoveAt(s, i) \in Seq(S)
         /\ Len(RemoveAt(s, i)) = Len(s) - 1
         /\ \A j \in 1..(Len(s) - 1) : RemoveAt(s, i)[j] = s[IF j < i THEN j ELSE j + 1]
<1> DEFINE a == SubSeq(s, 1, i - 1)
           b == SubSeq(s, i + 1, Len(s))
<1>0. Len(s) \in Nat /\ i \in Nat /\ i >= 1 /\ i <= Len(s) /\ \A k \in 1..Len(s) : s[k] \in S
  BY ElementOfSeq
<1>1. /\ a \in Seq(S) /\ Len(a) = i - 1 /\ \A j \in 1..(i - 1) : a[j] = s[j]
  <2>1. \A k \in 1..(i - 1) : s[k] \in S
    BY <1>0
  <2> QED
    BY <1>0, <2>1, SubSeqProperties
<1>2. /\ b \in Seq(S) /\ Len(b) = Len(s) - i /\ \A j \in 1..(Len(s) - i) : b[j] = s[i + j]
  <2>1. \A k \in (i + 1)..Len(s) : s[k] \in S
    BY <1>0
  <2> QED
    BY <1>0, <2>1, SubSeqProperties
<1> HIDE DEF a, b
<1>3. /\ a \o b \in Seq(S) /\ Len(a \o b) = Len(s) - 1
      /\ \A j \in 1..(Len(s) - 1) : (a \o b)[j] = IF j < i THEN a[j] ELSE b[j - (i - 1)]
  BY <1>0, <1>1, <1>2, ConcatProperties
<1>4. ASSUME NEW j \in 1..(Len(s) - 1) PROVE (a \o b)[j] = s[IF j < i THEN j ELSE j + 1]
  <2>1. CASE j < i
    BY <1>0, <1>1, <1>3, <2>1
  <2>2. CASE ~(j < i)
    <3>1. j - (i - 1) \in 1..(Len(s) - i) /\ i + (j - (i - 1)) = j + 1
      BY <1>0, <2>2
    <3> QED
      BY <1>2, <1>3, <2>2, <3>1
  <2> QED
    BY <2>1, <2>2
<1> QED
  BY <1>3, <1>4 DEF RemoveAt, a, b

\* A set of numbers that is not empty has a first one.
LEMMA FirstMember ==
  ASSUME NEW S \in SUBSET Nat, S # {} PROVE First(S) \in S /\ \A j \in S : First(S) <= j
<1> DEFINE R == OpToRel(<, Nat)
<1>1. PICK i \in S : \A j \in S : <<j, i>> \notin R
  BY NatLessThanWellFounded, WFMin
<1>2. R = {ss \in Nat \X Nat : ss[1] < ss[2]}
  BY DEF OpToRel
<1> HIDE DEF R
<1>3. \A j \in S : i <= j
  <2> TAKE j \in S
  <2>1. i \in Nat /\ j \in Nat
    OBVIOUS
  <2>2. <<j, i>> \in Nat \X Nat /\ <<j, i>>[1] = j /\ <<j, i>>[2] = i
    BY <2>1
  <2>3. ~(j < i)
    BY <1>1, <1>2, <2>2
  <2> QED
    BY <2>1, <2>3
<1>4. \E k \in S : \A j \in S : k <= j
  BY <1>3
<1> QED
  BY <1>4, Zenon DEF First

\* A set of places in a sequence that is not empty has a last one.
LEMMA LastMember ==
  ASSUME NEW n \in Nat, NEW S \in SUBSET (1..n), S # {}
  PROVE  \E i \in S : \A j \in S : j <= i
<1> DEFINE T == {n - i : i \in S}
<1>1. T \in SUBSET Nat /\ T # {}
  <2>1. PICK x \in S : TRUE
    OBVIOUS
  <2>2. n - x \in T /\ \A i \in S : n - i \in Nat
    BY <2>1
  <2> QED
    BY <2>2
<1>2. PICK t \in T : \A u \in T : t <= u
  BY <1>1, FirstMember
<1>3. PICK i \in S : t = n - i
  OBVIOUS
<1>4. ASSUME NEW j \in S PROVE j <= i
  <2>1. n - i <= n - j
    BY <1>2, <1>3
  <2> QED
    BY <2>1
<1> QED
  BY <1>4

\* Where a document has the action, in the file and in the map.
LEMMA FoundAction ==
  ASSUME NEW d \in Docs, NEW name, Keyed(d, name) # {}
  PROVE  \A i \in {First(Keyed(d, name)), Indexed(d, name)} :
           i \in 1..Len(d) /\ d[i] \in Entries /\ d[i].key = name
<1>2. Keyed(d, name) \subseteq 1..Len(d) /\ Len(d) \in Nat
  BY DEF Keyed, Docs
<1>3. First(Keyed(d, name)) \in Keyed(d, name)
  BY <1>2, FirstMember
<1>4. Indexed(d, name) \in Keyed(d, name)
  <2>1. \E i \in Keyed(d, name) : \A j \in Keyed(d, name) : j <= i
    BY <1>2, LastMember
  <2> QED
    BY <2>1, Zenon DEF Indexed
<1> QED
  BY <1>2, <1>3, <1>4, ElementOfSeq DEF Keyed, Docs

\* Normal forms are normal.
LEMMA NormIdempotent ==
  ASSUME NEW raw \in PacketIDs
  PROVE  normPacketID(raw) \in PacketIDs /\ normPacketID(normPacketID(raw)) = normPacketID(raw)
<1>1. CASE raw = Blank
  BY <1>1 DEF PacketIDs, normPacketID
<1>2. CASE raw # Blank
  <2> DEFINE id == [raw EXCEPT !.form = "0xABCD"]
  <2>1. raw \in [digits : Digits, form : Forms]
    BY <1>2 DEF PacketIDs
  <2>2. id \in [digits : Digits, form : Forms] /\ [id EXCEPT !.form = "0xABCD"] = id
    BY <2>1, FormsAssumption
  <2>3. normPacketID(raw) = id
    BY <1>2 DEF normPacketID
  <2>4. normPacketID(id) = id
    BY <2>2 DEF normPacketID
  <2> QED
    BY <2>2, <2>3, <2>4 DEF PacketIDs
<1> QED
  BY <1>1, <1>2

\* Documents as the lookups want them, when the first one is.
Good(d) == d \in Docs /\ (StartsUnambiguous => Unambiguous(d))

\* Replacing one entry by one whose name and implementations are good keeps the document good.
LEMMA ReplaceEntry ==
  ASSUME NEW d, Good(d), NEW i \in 1..Len(d), NEW e \in Entries,
         StartsUnambiguous =>
           /\ e.key # Blank /\ (e.key = d[i].key \/ Keyed(d, e.key) = {})
           /\ e.name \in {Blank, e.key}
           /\ \A j, k \in 1..Len(e.impls) :
                normPacketID(e.impls[j].id) = normPacketID(e.impls[k].id) => j = k
  PROVE  Good([d EXCEPT ![i] = e])
<1> DEFINE n == [d EXCEPT ![i] = e]
<1>1. d \in Seq(Entries)
      /\ (StartsUnambiguous => KeysUnique(d) /\ InnerNameMirrors(d) /\ IdsUnique(d))
  BY DEF Good, Docs, Unambiguous
<1>2. /\ n \in Seq(Entries) /\ Len(n) = Len(d)
      /\ \A j \in 1..Len(d) : n[j] = IF j = i THEN e ELSE d[j]
  BY <1>1, ExceptSeq
<1> HIDE DEF n
<1>3. StartsUnambiguous => KeysUnique(n)
  <2>1. StartsUnambiguous => \A j \in 1..Len(d) : j # i => d[j].key # e.key
    BY <1>1 DEF KeysUnique, Keyed
  <2> QED
    BY <1>1, <1>2, <2>1 DEF KeysUnique
<1>4. StartsUnambiguous => InnerNameMirrors(n)
  BY <1>1, <1>2 DEF InnerNameMirrors
<1>5. StartsUnambiguous => IdsUnique(n)
  BY <1>1, <1>2 DEF IdsUnique
<1> QED
  BY <1>2, <1>3, <1>4, <1>5 DEF Good, Docs, Unambiguous, n

\* An entry of a good document is as ReplaceEntry asks.
LEMMA GoodEntry ==
  ASSUME NEW d, Good(d), NEW i \in 1..Len(d)
  PROVE  /\ d[i] \in Entries
         /\ StartsUnambiguous =>
              /\ d[i].key # Blank /\ d[i].name \in {Blank, d[i].key}
              /\ \A j, k \in 1..Len(d[i].impls) :
                   normPacketID(d[i].impls[j].id) = normPacketID(d[i].impls[k].id) => j = k
<1>1. d \in Seq(Entries)
  BY DEF Good, Docs
<1>2. d[i] \in Entries
  BY <1>1, ElementOfSeq
<1> QED
  BY <1>2 DEF Good, Unambiguous, KeysUnique, InnerNameMirrors, IdsUnique

LEMMA CreateKeeps ==
  ASSUME NEW d, Good(d), NEW name \in Names, NEW meta \in Metas,
         CreateAction(d, name, meta).ok
  PROVE  Good(CreateAction(d, name, meta).doc)
<1> DEFINE e == [key |-> name, name |-> name, meta |-> meta, impls |-> <<>>]
           n == Append(d, e)
<1>1. name # Blank /\ Keyed(d, name) = {} /\ CreateAction(d, name, meta).doc = n
  BY DEF CreateAction, Failed, Done
<1>2. e \in Entries /\ e.key = name /\ e.name = name /\ Len(e.impls) = 0
  BY EmptySeq DEF Entries
<1>3. d \in Seq(Entries)
      /\ (StartsUnambiguous => KeysUnique(d) /\ InnerNameMirrors(d) /\ IdsUnique(d))
  BY DEF Good, Docs, Unambiguous
<1> HIDE DEF e
<1>4. /\ n \in Seq(Entries) /\ Len(n) = Len(d) + 1 /\ n[Len(d) + 1] = e
      /\ \A j \in 1..Len(d) : n[j] = d[j]
  BY <1>2, <1>3, AppendProperties
<1>5. Len(d) \in Nat /\ \A j \in 1..Len(n) : j \in 1..Len(d) \/ j = Len(d) + 1
  BY <1>3, <1>4
<1> HIDE DEF n
<1>6. StartsUnambiguous => KeysUnique(n)
  BY <1>1, <1>2, <1>3, <1>4, <1>5 DEF KeysUnique, Keyed
<1>7. StartsUnambiguous => InnerNameMirrors(n)
  BY <1>2, <1>3, <1>4, <1>5 DEF InnerNameMirrors
<1>8. StartsUnambiguous => IdsUnique(n)
  BY <1>2, <1>3, <1>4, <1>5 DEF IdsUnique
<1> QED
  BY <1>1, <1>4, <1>6, <1>7, <1>8 DEF Good, Docs, Unambiguous

LEMMA DeleteKeeps ==
  ASSUME NEW d, Good(d), NEW name, DeleteAction(d, name).ok
  PROVE  Good(DeleteAction(d, name).doc)
<1> DEFINE i == First(Keyed(d, name))
           n == RemoveAt(d, i)
           from(j) == IF j < i THEN j ELSE j + 1
<1>1. Keyed(d, name) # {} /\ DeleteAction(d, name).doc = n
  BY DEF DeleteAction, Failed, Done
<1>2. d \in Seq(Entries)
      /\ (StartsUnambiguous => KeysUnique(d) /\ InnerNameMirrors(d) /\ IdsUnique(d))
  BY SMTT(30) DEF Good, Docs, Unambiguous
<1>3. i \in 1..Len(d)
  BY <1>1, <1>2, FoundAction DEF Docs
<1> HIDE DEF i
<1>4. n \in Seq(Entries) /\ Len(n) = Len(d) - 1 /\ \A j \in 1..(Len(d) - 1) : n[j] = d[from(j)]
  BY <1>2, <1>3, RemoveAtFacts
<1>5. \A j, k \in 1..Len(n) : from(j) \in 1..Len(d) /\ (from(j) = from(k) => j = k)
  BY <1>2, <1>3, <1>4
<1> HIDE DEF n, from
<1>6. StartsUnambiguous => KeysUnique(n)
  BY <1>2, <1>4, <1>5 DEF KeysUnique
<1>7. StartsUnambiguous => InnerNameMirrors(n)
  BY <1>2, <1>4, <1>5 DEF InnerNameMirrors
<1>8. StartsUnambiguous => IdsUnique(n)
  BY <1>2, <1>4, <1>5, SMTT(30) DEF IdsUnique
<1> QED
  BY <1>1, <1>4, <1>6, <1>7, <1>8 DEF Good, Docs, Unambiguous

LEMMA RenameKeeps ==
  ASSUME NEW d, Good(d), NEW old \in Names, NEW new \in Names, RenameAction(d, old, new).ok
  PROVE  Good(RenameAction(d, old, new).doc)
<1> DEFINE f == First(Keyed(d, old))
           i == Indexed(d, old)
           name == IF d[i].name = old THEN new ELSE d[i].name
           named == [d EXCEPT ![i] = [d[i] EXCEPT !.name = name]]
           n == [named EXCEPT ![f] = [named[f] EXCEPT !.key = new]]
<1>1. CASE old = new
  BY <1>1 DEF RenameAction, Failed, Done
<1>2. CASE old # new
  <2>1. new # Blank /\ Keyed(d, old) # {} /\ Keyed(d, new) = {}
    BY <1>2 DEF RenameAction, Failed, Done
  <2>2. RenameAction(d, old, new).doc = n
    BY <1>2, <2>1 DEF RenameAction, Done
  <2>3. /\ d \in Seq(Entries)
        /\ f \in 1..Len(d) /\ d[f].key = old
        /\ i \in 1..Len(d) /\ d[i].key = old
    BY <2>1, FoundAction DEF Good, Docs
  <2> HIDE DEF f, i
  <2>4. d[i] \in Entries /\ (StartsUnambiguous => d[i].name \in {Blank, old})
    BY <2>3, GoodEntry
  <2>5. name \in Names
    BY <2>4 DEF Entries
  <2>6. CASE f = i
    <3> DEFINE e == [d[i] EXCEPT !.key = new, !.name = name]
    <3>1. n = [d EXCEPT ![i] = e]
      <4>1. named[f] = [d[i] EXCEPT !.name = name]
        BY <2>3, <2>6
      <4>2. [[d[i] EXCEPT !.name = name] EXCEPT !.key = new] = e
        BY <2>4 DEF Entries
      <4> HIDE DEF e
      <4> QED
        BY <2>3, <2>6, <4>1, <4>2
    <3>2. /\ e \in Entries /\ e.key = new /\ e.impls = d[i].impls
          /\ StartsUnambiguous => e.name \in {Blank, new}
      BY <2>4 DEF Entries
    <3>3. StartsUnambiguous => \A j, k \in 1..Len(e.impls) :
            normPacketID(e.impls[j].id) = normPacketID(e.impls[k].id) => j = k
      BY <2>3, <3>2, GoodEntry
    <3> HIDE DEF e, n
    <3>4. Good([d EXCEPT ![i] = e])
      BY <2>1, <2>3, <3>2, <3>3, ReplaceEntry
    <3> QED
      BY <2>2, <3>1, <3>4
  <2>7. CASE f # i
    <3>1. ~StartsUnambiguous
      BY <2>3, <2>7 DEF Good, Unambiguous, KeysUnique
    <3>2. [d[i] EXCEPT !.name = name] \in Entries
      BY <2>4, <2>5 DEF Entries
    <3>3. named \in Seq(Entries) /\ Len(named) = Len(d)
      BY <2>3, <3>2, ExceptSeq
    <3> HIDE DEF named
    <3>4. [named[f] EXCEPT !.key = new] \in Entries
      <4>1. named[f] \in Entries
        BY <2>3, <3>3, ElementOfSeq
      <4> QED
        BY <4>1 DEF Entries
    <3>5. n \in Seq(Entries)
      BY <2>3, <3>3, <3>4, ExceptSeq
    <3> QED
      BY <2>2, <3>1, <3>5 DEF Good, Docs
  <2> QED
    BY <2>6, <2>7
<1> QED
  BY <1>1, <1>2

LEMMA UpdateKeeps ==
  ASSUME NEW d, Good(d), NEW name, NEW meta \in Metas \cup {Keep},
         UpdateActionMetadata(d, name, meta).ok
  PROVE  Good(UpdateActionMetadata(d, name, meta).doc)
<1> DEFINE i == Indexed(d, name)
           e == [d[i] EXCEPT !.meta = meta]
<1>1. CASE meta = Keep
  BY <1>1 DEF UpdateActionMetadata, Failed, Done
<1>2. CASE meta # Keep
  <2>1. Keyed(d, name) # {}
    BY DEF UpdateActionMetadata, Failed
  <2>2. UpdateActionMetadata(d, name, meta).doc = [d EXCEPT ![i] = e]
    BY <1>2, <2>1 DEF UpdateActionMetadata, Done
  <2>3. i \in 1..Len(d)
    BY <2>1, FoundAction DEF Good
  <2> HIDE DEF i
  <2>4. d[i] \in Entries
    BY <2>3, GoodEntry
  <2>5. e \in Entries /\ e.key = d[i].key /\ e.name = d[i].name /\ e.impls = d[i].impls
    BY <1>2, <2>4 DEF Entries
  <2> HIDE DEF e
  <2> QED
    BY <2>2, <2>3, <2>5, GoodEntry, ReplaceEntry
<1> QED
  BY <1>1, <1>2

\* The implementations of an entry of a good document.
LEMMA GoodImpls ==
  ASSUME NEW d, Good(d), NEW i \in 1..Len(d), NEW impls \in Seq(Impls),
         StartsUnambiguous => \A j, k \in 1..Len(impls) :
           normPacketID(impls[j].id) = normPacketID(impls[k].id) => j = k
  PROVE  Good([d EXCEPT ![i] = [d[i] EXCEPT !.impls = impls]])
<1> DEFINE e == [d[i] EXCEPT !.impls = impls]
<1>1. d[i] \in Entries
  BY GoodEntry
<1>2. e \in Entries /\ e.key = d[i].key /\ e.name = d[i].name /\ e.impls = impls
  BY <1>1 DEF Entries
<1> HIDE DEF e
<1>3. Good([d EXCEPT ![i] = e])
  BY <1>2, GoodEntry, ReplaceEntry
<1> QED
  BY <1>3 DEF e

\* Where an entry of a good document has a packet ID.
LEMMA FoundImpl ==
  ASSUME NEW d, Good(d), NEW i \in 1..Len(d), NEW raw, WithID(d[i].impls, raw) # {}
  PROVE  First(WithID(d[i].impls, raw)) \in 1..Len(d[i].impls)
<1>2. Len(d[i].impls) \in Nat
  BY GoodEntry DEF Entries
<1>3. WithID(d[i].impls, raw) \in SUBSET Nat
  BY <1>2 DEF WithID
<1>4. First(WithID(d[i].impls, raw)) \in WithID(d[i].impls, raw)
  BY <1>3, FirstMember
<1> QED
  BY <1>4 DEF WithID

LEMMA AddKeeps ==
  ASSUME NEW d, Good(d), NEW name, NEW impl \in Impls, AddImplementation(d, name, impl).ok
  PROVE  Good(AddImplementation(d, name, impl).doc)
<1> DEFINE i == Indexed(d, name)
           x == [impl EXCEPT !.id = normPacketID(@)]
           impls == Append(d[i].impls, x)
<1>1. Keyed(d, name) # {} /\ WithID(d[i].impls, impl.id) = {}
  BY DEF AddImplementation, Failed
<1>2. AddImplementation(d, name, impl).doc = [d EXCEPT ![i] = [d[i] EXCEPT !.impls = impls]]
  BY DEF AddImplementation, Failed, Done
<1>3. i \in 1..Len(d)
  BY <1>1, FoundAction DEF Good
<1> HIDE DEF i
<1>4. d[i].impls \in Seq(Impls)
  BY <1>3, GoodEntry DEF Entries
<1>5. x \in Impls /\ normPacketID(x.id) = normPacketID(impl.id)
  <2>1. impl.id \in PacketIDs
    BY DEF Impls
  <2>2. x.id = normPacketID(impl.id)
    BY DEF Impls
  <2>3. normPacketID(impl.id) \in PacketIDs
    BY <2>1, NormIdempotent
  <2>4. x \in Impls
    BY <2>3 DEF Impls
  <2> QED
    BY <2>1, <2>2, <2>4, NormIdempotent
<1> HIDE DEF x
<1>6. /\ impls \in Seq(Impls) /\ Len(impls) = Len(d[i].impls) + 1
      /\ impls[Len(d[i].impls) + 1] = x
      /\ \A j \in 1..Len(d[i].impls) : impls[j] = d[i].impls[j]
  BY <1>4, <1>5, AppendProperties
<1>7. Len(d[i].impls) \in Nat
  BY <1>4
<1> HIDE DEF impls
<1>8. \A j \in 1..Len(d[i].impls) : normPacketID(d[i].impls[j].id) # normPacketID(x.id)
  BY <1>1, <1>5 DEF WithID
<1>9. StartsUnambiguous => \A j, k \in 1..Len(d[i].impls) :
        normPacketID(d[i].impls[j].id) = normPacketID(d[i].impls[k].id) => j = k
  BY <1>3, GoodEntry
<1>10. StartsUnambiguous => \A j, k \in 1..Len(impls) :
         normPacketID(impls[j].id) = normPacketID(impls[k].id) => j = k
  <2>1. \A j \in 1..Len(impls) : j \in 1..Len(d[i].impls) \/ j = Len(d[i].impls) + 1
    BY <1>6, <1>7
  <2> QED
    BY <1>6, <1>8, <1>9, <2>1
<1> QED
  BY <1>2, <1>3, <1>6, <1>10, GoodImpls

LEMMA UpdateImplKeeps ==
  ASSUME NEW d, Good(d), NEW name, NEW raw,
         NEW struct \in Structs \cup {Keep},
         NEW min \in Versions \cup {Keep}, NEW max \in Versions \cup {Keep},
         UpdateImplementation(d, name, raw, struct, min, max).ok
  PROVE  Good(UpdateImplementation(d, name, raw, struct, min, max).doc)
<1> DEFINE i == Indexed(d, name)
           k == First(WithID(d[i].impls, raw))
           old == d[i].impls[k]
           or(new, o) == IF new = Keep THEN o ELSE new
           x == [old EXCEPT !.struct = or(struct, old.struct),
                            !.min = or(min, old.min), !.max = or(max, old.max)]
           impls == [d[i].impls EXCEPT ![k] = x]
<1>1. Keyed(d, name) # {} /\ WithID(d[i].impls, raw) # {}
  BY DEF UpdateImplementation, Failed
<1>2. UpdateImplementation(d, name, raw, struct, min, max).doc =
        [d EXCEPT ![i] = [d[i] EXCEPT !.impls = impls]]
  BY <1>1 DEF UpdateImplementation, Failed, Done
<1>3. i \in 1..Len(d)
  BY <1>1, FoundAction DEF Good
<1> HIDE DEF i
<1>4. k \in 1..Len(d[i].impls) /\ d[i].impls \in Seq(Impls)
  BY <1>1, <1>3, FoundImpl, GoodEntry DEF Entries
<1> HIDE DEF k
<1>5. old \in Impls
  BY <1>4, ElementOfSeq
<1> HIDE DEF old
<1>6. x \in Impls /\ x.id = old.id
  <2>1. or(struct, old.struct) \in Structs
    BY <1>5 DEF Impls
  <2>2. or(min, old.min) \in Versions
    BY <1>5 DEF Impls
  <2>3. or(max, old.max) \in Versions
    BY <1>5 DEF Impls
  <2> HIDE DEF or
  <2> QED
    BY <1>5, <2>1, <2>2, <2>3 DEF Impls
<1> HIDE DEF x
<1>7. /\ impls \in Seq(Impls) /\ Len(impls) = Len(d[i].impls)
      /\ \A j \in 1..Len(d[i].impls) : impls[j] = IF j = k THEN x ELSE d[i].impls[j]
  BY <1>4, <1>6, ExceptSeq
<1> HIDE DEF impls
<1>8. \A j \in 1..Len(impls) : impls[j].id = d[i].impls[j].id
  BY <1>6, <1>7 DEF old
<1>9. StartsUnambiguous => \A j, l \in 1..Len(impls) :
        normPacketID(impls[j].id) = normPacketID(impls[l].id) => j = l
  BY <1>3, <1>7, <1>8, GoodEntry
<1> QED
  BY <1>2, <1>3, <1>7, <1>9, GoodImpls

LEMMA DeleteImplKeeps ==
  ASSUME NEW d, Good(d), NEW name, NEW raw, DeleteImplementation(d, name, raw).ok
  PROVE  Good(DeleteImplementation(d, name, raw).doc)
<1> DEFINE i == Indexed(d, name)
           k == First(WithID(d[i].impls, raw))
           impls == RemoveAt(d[i].impls, k)
           from(j) == IF j < k THEN j ELSE j + 1
<1>1. Keyed(d, name) # {} /\ WithID(d[i].impls, raw) # {}
  BY DEF DeleteImplementation, Failed
<1>2. DeleteImplementation(d, name, raw).doc = [d EXCEPT ![i] = [d[i] EXCEPT !.impls = impls]]
  BY <1>1 DEF DeleteImplementation, Failed, Done
<1>3. i \in 1..Len(d)
  BY <1>1, FoundAction DEF Good
<1> HIDE DEF i
<1>4. k \in 1..Len(d[i].impls) /\ d[i].impls \in Seq(Impls)
  BY <1>1, <1>3, FoundImpl, GoodEntry DEF Entries
<1> HIDE DEF k
<1>5. /\ impls \in Seq(Impls) /\ Len(impls) = Len(d[i].impls) - 1
      /\ \A j \in 1..(Len(d[i].impls) - 1) : impls[j] = d[i].impls[from(j)]
  BY <1>4, RemoveAtFacts
<1>6. \A j, l \in 1..Len(impls) : from(j) \in 1..Len(d[i].impls) /\ (from(j) = from(l) => j = l)
  BY <1>4, <1>5
<1> HIDE DEF impls, from
<1>7. StartsUnambiguous => \A j, l \in 1..Len(impls) :
        normPacketID(impls[j].id) = normPacketID(impls[l].id) => j = l
  <2>1. StartsUnambiguous => \A j, l \in 1..Len(d[i].impls) :
          normPacketID(d[i].impls[j].id) = normPacketID(d[i].impls[l].id) => j = l
    BY <1>3, GoodEntry
  <2>2. \A j \in 1..Len(impls) : impls[j] = d[i].impls[from(j)]
    BY <1>5
  <2> QED
    BY <1>6, <2>1, <2>2
<1> QED
  BY <1>2, <1>3, <1>5, <1>7, GoodImpls

\* A mutation that succeeds keeps a good document good.
LEMMA MutationKeeps ==
  ASSUME NEW d, Good(d), NEW m \in ToolCalls, dispatchTool(d, m).ok
  PROVE  Good(dispatchTool(d, m).doc)
<1>1. CASE m \in [tool : {"validate"}]
  <2>1. m.tool = "validate"
    BY <1>1
  <2>2. dispatchTool(d, m) = Done(d)
    BY <2>1, Zenon DEF dispatchTool
  <2> QED
    BY <2>2 DEF Done
<1>2. CASE m \in [tool : {"create_action"}, name : Names, meta : Metas]
  <2>1. m.tool = "create_action" /\ m.name \in Names /\ m.meta \in Metas
    BY <1>2
  <2>2. dispatchTool(d, m) = CreateAction(d, m.name, m.meta)
    BY <2>1, Zenon DEF dispatchTool
  <2> QED
    BY <2>1, <2>2, CreateKeeps
<1>3. CASE m \in [tool : {"update_action"}, name : Names, meta : Metas \cup {Keep}]
  <2>1. m.tool = "update_action" /\ m.meta \in Metas \cup {Keep}
    BY <1>3
  <2>2. dispatchTool(d, m) = UpdateActionMetadata(d, m.name, m.meta)
    BY <2>1, Zenon DEF dispatchTool
  <2> QED
    BY <2>1, <2>2, UpdateKeeps
<1>4. CASE m \in [tool : {"delete_action"}, name : Names]
  <2>1. m.tool = "delete_action"
    BY <1>4
  <2>2. dispatchTool(d, m) = DeleteAction(d, m.name)
    BY <2>1, Zenon DEF dispatchTool
  <2> QED
    BY <2>2, DeleteKeeps
<1>5. CASE m \in [tool : {"rename_action"}, name : Names, new : Names]
  <2>1. m.tool = "rename_action" /\ m.name \in Names /\ m.new \in Names
    BY <1>5
  <2>2. dispatchTool(d, m) = RenameAction(d, m.name, m.new)
    BY <2>1, Zenon DEF dispatchTool
  <2> QED
    BY <2>1, <2>2, RenameKeeps
<1>6. CASE m \in [tool : {"add_implementation"}, name : Names, impl : Impls]
  <2>1. m.tool = "add_implementation" /\ m.impl \in Impls
    BY <1>6
  <2>2. dispatchTool(d, m) = AddImplementation(d, m.name, m.impl)
    BY <2>1, Zenon DEF dispatchTool
  <2> QED
    BY <2>1, <2>2, AddKeeps
<1>7. CASE m \in [tool : {"update_implementation"}, name : Names, id : PacketIDs,
                  struct : Structs \cup {Keep}, min : Versions \cup {Keep},
                  max : Versions \cup {Keep}]
  <2>1. /\ m.tool = "update_implementation" /\ m.struct \in Structs \cup {Keep}
        /\ m.min \in Versions \cup {Keep} /\ m.max \in Versions \cup {Keep}
    BY <1>7
  <2>2. dispatchTool(d, m) = UpdateImplementation(d, m.name, m.id, m.struct, m.min, m.max)
    BY <2>1, Zenon DEF dispatchTool
  <2> QED
    BY <2>1, <2>2, UpdateImplKeeps
<1>8. CASE m \in [tool : {"delete_implementation"}, name : Names, id : PacketIDs]
  <2>1. m.tool = "delete_implementation"
    BY <1>8
  <2>2. dispatchTool(d, m) = DeleteImplementation(d, m.name, m.id)
    BY <2>1, Zenon DEF dispatchTool
  <2> QED
    BY <2>2, DeleteImplKeeps
<1> QED
  BY <1>1, <1>2, <1>3, <1>4, <1>5, <1>6, <1>7, <1>8 DEF ToolCalls

\* The file, and every copy a process works on, is a good document.
DocInv ==
  /\ Good(file.doc)
  /\ \A p \in Procs : pc[p] \in {"dispatch"} \cup Saving => Good(db[p])

LEMMA DocInit == Init => DocInv
<1> SUFFICES ASSUME Init PROVE DocInv
  OBVIOUS
<1>1. file.doc \in InitialDocs /\ \A p \in Procs : pc[p] = "idle"
  BY DEF Init
<1>2. file.doc \in Docs /\ (StartsUnambiguous => Unambiguous(file.doc))
  BY <1>1, CallsAssumption DEF StartsUnambiguous
<1> QED
  BY <1>1, <1>2 DEF DocInv, Good, Saving

LEMMA DocNext == SaveInv /\ SerialInv /\ DocInv /\ [Next]_vars => DocInv'
<1> SUFFICES ASSUME SaveInv, SerialInv, DocInv, [Next]_vars PROVE DocInv'
  OBVIOUS
<1> USE DEF SaveInv, DBTypeOK, SerialInv, DocInv, Saving, BeforeRename
<1>1. ASSUME NEW p \in Procs, NEW m \in Calls, Start(p, m) PROVE DocInv'
  BY <1>1 DEF Start, At
<1>2. ASSUME NEW p \in Procs, Load(p) PROVE DocInv'
  BY <1>2 DEF Load, At
<1>3. ASSUME NEW p \in Procs, LoadFails(p) \/ CreateTempFails(p) \/ Reply(p) PROVE DocInv'
  BY <1>3 DEF LoadFails, CreateTempFails, Reply, Answer
<1>4. ASSUME NEW p \in Procs, Dispatch(p) PROVE DocInv'
  <2>1. pc[p] = "dispatch" /\ Good(db[p]) /\ call[p] \in ToolCalls
    BY <1>4, CallsAssumption DEF Dispatch
  <2>2. dispatchTool(db[p], call[p]).ok => Good(dispatchTool(db[p], call[p]).doc)
    BY <2>1, MutationKeeps
  <2> QED
    BY <1>4, <2>1, <2>2 DEF Dispatch, Answer, At
<1>5. ASSUME NEW p \in Procs, CreateTemp(p) \/ WriteString(p) \/ CloseTemp(p) PROVE DocInv'
  BY <1>5 DEF CreateTemp, WriteString, CloseTemp, At
<1>6. ASSUME NEW p \in Procs, WriteFails(p) \/ CloseFails(p) \/ RenameFails(p) PROVE DocInv'
  BY <1>6 DEF WriteFails, CloseFails, RenameFails, Answer
<1>7. ASSUME NEW p \in Procs, Rename(p) PROVE DocInv'
  <2>1. pc[p] = "rename" /\ file'.doc = db[p] /\ Good(db[p])
    BY <1>7 DEF Rename, At
  <2> QED
    BY <1>7, <2>1 DEF Rename, At
<1>8. ASSUME NEW p \in Procs, Kill(p) PROVE DocInv'
  BY <1>8 DEF Kill, Answer
<1>9. CASE UNCHANGED vars
  BY <1>9 DEF vars
<1> QED
  BY <1>1, <1>2, <1>3, <1>4, <1>5, <1>6, <1>7, <1>8, <1>9
     DEF Next, Finished, handleToolCall, SaveTo

LEMMA DocInvariant == Spec => []DocInv
<1>1. Spec => []SerialInv
  BY SaveInvariant, SerialInit, SerialNext, PTL DEF Spec
<1> QED
  BY <1>1, SaveInvariant, DocInit, DocNext, PTL DEF Spec

\* Whatever the calls, the processes and their failures, lost updates included, an unambiguous
\* file stays unambiguous: the checks of mutate.go suffice on a stale copy, too.
THEOREM LookupsStayUnambiguous == Spec => []LookupsUnambiguous
<1>1. DocInv => LookupsUnambiguous
  BY DEF DocInv, Good, LookupsUnambiguous
<1> QED
  BY <1>1, DocInvariant, PTL

-----------------------------------------------------------------------------
(* Validate. *)

\* An implementation that the per-action checks let pass.
Valid(impl) ==
  /\ impl \in Impls /\ impl.id # Blank /\ impl.struct # Blank
  /\ impl.min # 0 /\ impl.max # 0 => impl.min <= impl.max

LEMMA PassingImpl ==
  ASSUME NEW d \in Docs, validateActions(d) = {}, NEW at \in Places(d)
  PROVE  Valid(ImplAt(d, at))
<1> DEFINE impl == ImplAt(d, at)
<1>1. impl \in Impls
  <2>1. PICK i \in 1..Len(d) : at \in {i} \X (1..Len(d[i].impls))
    BY DEF Places, Listed
  <2>2. at[1] = i /\ at[2] \in 1..Len(d[i].impls)
    BY <2>1
  <2>3. d[i] \in Entries
    BY ElementOfSeq DEF Docs
  <2>4. d[i].impls \in Seq(Impls)
    BY <2>3 DEF Entries
  <2> QED
    BY <2>2, <2>4, ElementOfSeq DEF ImplAt
<1>2. impl.id # Blank
  BY DEF validateActions
<1>3. \A f \in {"struct_name", "range"} :
        ~ \/ f = "struct_name" /\ impl.struct = Blank
          \/ f = "range" /\ impl.min # 0 /\ impl.max # 0 /\ impl.min > impl.max
  <2>1. {at} \X implErrors(d, at) \subseteq validateActions(d)
    BY <1>2 DEF validateActions
  <2>2. ASSUME NEW e, e \in implErrors(d, at) PROVE FALSE
    <3>1. <<at, e>> \in {at} \X implErrors(d, at)
      BY <2>2
    <3>2. <<at, e>> \in validateActions(d)
      BY <2>1, <3>1
    <3> QED
      BY <3>2
  <2> QED
    BY <2>2 DEF implErrors
<1>4. impl.struct # Blank /\ ~(impl.min # 0 /\ impl.max # 0 /\ impl.min > impl.max)
  BY <1>3
<1>5. impl.min \in Nat /\ impl.max \in Nat
  BY <1>1, InfAssumption DEF Impls, Versions
<1> QED
  BY <1>1, <1>2, <1>4, <1>5 DEF Valid

\* rangesOverlap decides whether some version is in both ranges.
LEMMA OverlapExact ==
  ASSUME NEW a, NEW b, Valid(a), Valid(b)
  PROVE  rangesOverlap(a, b) <=> \E v \in 1..inf : InRange(v, a) /\ InRange(v, b)
<1> DEFINE hi(r) == IF r.max = 0 THEN inf ELSE r.max
           Larger(x, y) == IF x < y THEN y ELSE x
           w == Larger(1, Larger(a.min, b.min))
<1>0. /\ inf \in Nat /\ inf >= 1
      /\ a.min \in 0..inf /\ a.max \in 0..inf /\ b.min \in 0..inf /\ b.max \in 0..inf
  BY InfAssumption DEF Valid, Impls, Versions
<1>1. a.min <= hi(a) /\ b.min <= hi(b) /\ hi(a) \in 1..inf /\ hi(b) \in 1..inf
  BY <1>0 DEF Valid
<1>2. rangesOverlap(a, b) <=> a.min <= hi(b) /\ b.min <= hi(a)
  BY DEF rangesOverlap
<1>3. \A v \in 1..inf : InRange(v, a) <=> a.min <= v /\ v <= hi(a)
  BY <1>0 DEF InRange
<1>4. \A v \in 1..inf : InRange(v, b) <=> b.min <= v /\ v <= hi(b)
  BY <1>0 DEF InRange
<1> HIDE DEF hi
<1>5. ASSUME a.min <= hi(b), b.min <= hi(a)
      PROVE  w \in 1..inf /\ a.min <= w /\ b.min <= w /\ w <= hi(a) /\ w <= hi(b)
  BY <1>0, <1>1, <1>5
<1> HIDE DEF w
<1>6. ASSUME a.min <= hi(b), b.min <= hi(a)
      PROVE  \E v \in 1..inf : InRange(v, a) /\ InRange(v, b)
  BY <1>3, <1>4, <1>5, <1>6
<1>7. ASSUME NEW v \in 1..inf, InRange(v, a), InRange(v, b)
      PROVE  a.min <= hi(b) /\ b.min <= hi(a)
  BY <1>0, <1>1, <1>3, <1>4, <1>7
<1> QED
  BY <1>2, <1>6, <1>7

\* Two spellings have one normal form exactly when they have the same digits.
LEMMA NormExact ==
  ASSUME NEW x \in PacketIDs, NEW y \in PacketIDs, x # Blank, y # Blank
  PROVE  normPacketID(x) = normPacketID(y) <=> x.digits = y.digits
<1>1. x \in [digits : Digits, form : Forms] /\ y \in [digits : Digits, form : Forms]
  BY DEF PacketIDs
<1>2. [x EXCEPT !.form = "0xABCD"] = [y EXCEPT !.form = "0xABCD"] <=> x.digits = y.digits
  BY <1>1
<1> QED
  BY <1>2 DEF normPacketID

\* On every document, not only on those the tool can reach, Validate's range arithmetic with 0
\* as no bound finds exactly the pairs that share a packet ID in some version.
THEOREM ConflictsExact ==
  ASSUME NEW d \in Docs, validateActions(d) = {}
  PROVE  validateCrossActionConflicts(d) =
           {pair \in Places(d) \X Places(d) :
              LET a == ImplAt(d, pair[1])
                  b == ImplAt(d, pair[2])
              IN  /\ pair[1] # pair[2]
                  /\ a.id.digits = b.id.digits
                  /\ \E v \in 1..inf : InRange(v, a) /\ InRange(v, b)}
<1>1. ASSUME NEW p \in Places(d), NEW q \in Places(d)
      PROVE  LET a == ImplAt(d, p)
                 b == ImplAt(d, q)
             IN  /\ Blank \notin {a.id, a.struct, b.id, b.struct}
                 /\ normPacketID(a.id) = normPacketID(b.id) <=> a.id.digits = b.id.digits
                 /\ rangesOverlap(a, b) <=> \E v \in 1..inf : InRange(v, a) /\ InRange(v, b)
  <2>1. Valid(ImplAt(d, p)) /\ Valid(ImplAt(d, q))
    BY PassingImpl
  <2>2. ImplAt(d, p).id \in PacketIDs /\ ImplAt(d, q).id \in PacketIDs
    BY <2>1 DEF Valid, Impls
  <2> QED
    BY <2>1, <2>2, OverlapExact, NormExact DEF Valid
<1> QED
  BY <1>1, Zenon DEF validateCrossActionConflicts

\* Validate's verdict on the file is exact in every state.
THEOREM ValidateStaysExact == Spec => []ValidateExact
<1>1. DocInv => ValidateExact
  BY ConflictsExact DEF DocInv, Good, ValidateExact
<1> QED
  BY <1>1, DocInvariant, PTL
==============================================================================
