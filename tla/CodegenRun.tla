----------------------------- MODULE CodegenRun -----------------------------
(*
  A run of internal/codegen over the source tree: run() goes through its steps in
  order; a step that writes a whole directory first removes the generated files
  in it, then writes the new ones in Go's order of a map. The first error ends
  the run, and the next run starts from the tree it left. A file counts as
  generated when it begins with the generator's header; all others are taken for
  hand-written and are left alone.

  A failure need not end the run. A file that cannot be read is not recognised:
  the cleaning leaves it, writeFile overwrites it, the registration does not see
  what is in it. A text that gofmt rejects is written all the same.

  os.WriteFile truncates before it writes, so a write that fails, or during which
  the process is killed, can leave a file cut short: before the end of the header,
  or after it.

  Every directory is given a file for each action; which actions have a file in
  which directory makes no difference here.
*)
EXTENDS Naturals, Sequences, FiniteSets, SequencesExt

CONSTANTS
  Actions,        \* the actions of mappings.yaml: each names a file of a directory
  Removed,        \* actions that are no longer in mappings.yaml
  InitialTrees,   \* the trees a first run may find
  Unreadable,     \* the paths at which reading may fail
  Misformatted,   \* the paths for which a template may emit what gofmt rejects
  MaxRuns         \* bound: runs in a behaviour

ASSUME MaxRunsAssumption == MaxRuns \in Nat \ {0}

VARIABLES
  tree,           \* what is at each path: "absent", "hand", "broken" (hand-written, does not
                  \* parse), "old", "new" (written by this run), "bad" (written by this run,
                  \* does not parse), "part" (does not parse) or "cut" (without the header)
  registered,     \* the encoders that the last text for register.go registers
  step,           \* the index of the step under way, or 0 between runs
  todo,           \* the files the step has still to write
  outcome,        \* "none", or how the last run ended
  runs,           \* runs started so far
  unread          \* ghost: the files this run took for something else, unable to read them

vars == <<tree, registered, step, todo, outcome, runs, unread>>

\* The directories that are cleaned, and the files at fixed paths.
Dirs == {"events", "send", "decode", "encode"}
FixedFiles ==
  { "obfuscation_keys", "lengths_map", "lengths_login", "lengths_char", "actions",
    "receive_dispatch" }
InEncode == {"shuffle_map", "register"}
Paths ==
  (Dirs \X (Actions \cup Removed)) \cup ({"session"} \X FixedFiles) \cup ({"encode"} \X InEncode)

\* No action is called shuffle_map or register: its encoder would have the file of one of
\* these steps.
ASSUME NamesAssumption == (Actions \cup Removed) \cap InEncode = {}

\* The first run finds whole files only, hand-written or of a run long ago.
ASSUME TreesAssumption == InitialTrees \subseteq [Paths -> {"absent", "hand", "broken", "old"}]

ASSUME FailuresAssumption == Unreadable \subseteq Paths /\ Misformatted \subseteq Paths

\* The file does not begin with the header, or it does.
NoHeader == {"hand", "broken", "cut"}
Generated(path) == tree[path] \in {"old", "new", "bad", "part"}

\* With genShuffle before the directory is cleaned.
Steps_ShuffleFirst ==
  << "obfuscation_keys", "lengths_map", "lengths_login", "lengths_char",
     "events", "send", "decode", "shuffle_map", "encode", "actions", "receive_dispatch", "register" >>

\* With the registration before the encoders.
Steps_RegisterFirst ==
  << "obfuscation_keys", "lengths_map", "lengths_login", "lengths_char",
     "events", "send", "decode", "register", "encode", "shuffle_map", "actions", "receive_dispatch" >>

\* The steps of run() that write; loading the semantic DB and building the version table come
\* before "lengths_map" and can only fail.
Steps ==
  << "obfuscation_keys", "lengths_map", "lengths_login", "lengths_char",
     "events", "send", "decode", "encode", "shuffle_map", "actions", "receive_dispatch", "register" >>

Current == Steps[step]
Target(name) ==
  IF name \in Dirs THEN {name} \X Actions
  ELSE IF name \in InEncode THEN {<<"encode", name>>}
  ELSE {<<"session", name>>}

Init ==
  /\ tree \in InitialTrees
  /\ registered = {}
  /\ step = 0 /\ todo = {} /\ outcome = "none" /\ runs = 0 /\ unread = {}

\* A new process: what an earlier run wrote is old now.
Run ==
  /\ step = 0 /\ runs < MaxRuns
  /\ tree' = [p \in Paths |-> IF tree[p] = "new" THEN "old"
                             ELSE IF tree[p] = "bad" THEN "part" ELSE tree[p]]
  /\ runs' = runs + 1
  /\ step' = 1
  /\ todo' = {} /\ outcome' = "none" /\ unread' = {}
  /\ UNCHANGED registered

Fail ==
  /\ step' = 0 /\ todo' = {} /\ outcome' = "error"

\* An error before the step touches the tree: a header that does not preprocess or parse.
GenerateFails ==
  /\ step # 0 /\ todo = {}
  /\ Fail
  /\ UNCHANGED <<tree, registered, runs, unread>>

\* The generated files of a directory go, those that cannot be read excepted.
cleanGeneratedDir(dir) ==
  \E skipped \in SUBSET {p \in Unreadable : p[1] = dir /\ Generated(p)} :
    /\ tree' = [p \in Paths |-> IF p[1] = dir /\ Generated(p) /\ p \notin skipped
                                THEN "absent" ELSE tree[p]]
    /\ unread' = unread \cup skipped

Encoder(a) == <<"encode", a>>

\* The encoders in pkg/encode: the files that parse.
Encoders == {a \in Actions \cup Removed : tree[Encoder(a)] \in {"hand", "old", "new"}}

\* The text of register.go names the encoders of mappings.yaml that are found. Files that
\* cannot be read are passed over, and all of them when the directory cannot.
GenerateRegisterFileWithDir ==
  \E missed \in {Encoders} \cup SUBSET {a \in Encoders : Encoder(a) \in Unreadable} :
    /\ registered' = (Encoders \cap Actions) \ missed
    /\ unread' = unread \cup {Encoder(a) : a \in missed}

\* The contents are ready: the step cleans its directory, if it has one, and starts to write.
Generate ==
  /\ step # 0 /\ todo = {}
  /\ \/ Current \in Dirs /\ cleanGeneratedDir(Current) /\ UNCHANGED registered
     \/ Current = "register" /\ GenerateRegisterFileWithDir /\ UNCHANGED tree
     \/ Current \notin Dirs \cup {"register"} /\ UNCHANGED <<tree, registered, unread>>
  /\ todo' = Target(Current)
  /\ UNCHANGED <<step, outcome, runs>>

\* A file that cannot be removed ends the run after some of the others are gone.
CleanFails ==
  /\ step # 0 /\ todo = {} /\ Current \in Dirs
  /\ \E gone \in SUBSET {p \in Paths : p[1] = Current /\ Generated(p)} :
       tree' = [p \in Paths |-> IF p \in gone THEN "absent" ELSE tree[p]]
  /\ Fail
  /\ UNCHANGED <<registered, runs, unread>>

\* Done with the step, unless files are left.
Finish(left) ==
  IF left # {} THEN step' = step /\ outcome' = "none"
  ELSE IF step = Len(Steps) THEN step' = 0 /\ outcome' = "ok"
  ELSE step' = step + 1 /\ outcome' = "none"

\* The file gets other contents. A file without the header is spared only if it can be read.
Overwrite(p, contents) ==
  /\ tree[p] \in NoHeader => p \in Unreadable
  /\ \E c \in contents : tree' = [tree EXCEPT ![p] = c]
  /\ unread' = IF tree[p] \in NoHeader THEN unread \cup {p} ELSE unread \ {p}

\* Whatever is there.
Write_Overwrites(p) ==
  /\ tree' = [tree EXCEPT ![p] = "new"]
  /\ UNCHANGED unread

\* A file without the header is preserved; what gofmt rejects is written as it is.
Write(p) ==
  \/ tree[p] \in NoHeader /\ UNCHANGED <<tree, unread>>
  \/ Overwrite(p, IF p \in Misformatted THEN {"new", "bad"} ELSE {"new"})

writeFile(p) ==
  /\ step # 0 /\ p \in todo
  /\ Write(p)
  /\ todo' = todo \ {p}
  /\ Finish(todo')
  /\ UNCHANGED <<registered, runs>>

\* The directory cannot be made, or the write fails or is killed on its way.
WriteFails(p) ==
  /\ step # 0 /\ p \in todo
  /\ UNCHANGED <<tree, unread>> \/ Overwrite(p, {"part", "cut"})
  /\ Fail
  /\ UNCHANGED <<registered, runs>>

\* The shuffle check fails: genEncodeWithShuffleCheck has written the files all the same.
ShuffleOverlap ==
  /\ step # 0 /\ Current = "encode" /\ Cardinality(todo) = 1
  /\ \E p \in todo : Write(p)
  /\ Fail
  /\ UNCHANGED <<registered, runs>>

Done == step = 0 /\ runs = MaxRuns /\ UNCHANGED vars

Next ==
  \/ Run \/ GenerateFails \/ Generate \/ CleanFails \/ ShuffleOverlap \/ Done
  \/ \E p \in Paths : writeFile(p) \/ WriteFails(p)

Spec == Init /\ [][Next]_vars

-----------------------------------------------------------------------------
(* Properties *)

\* No run changes or removes a hand-written file, not even one with the name of a file the
\* run generates, and however the run ends. The exception is a file that cannot be read:
\* writeFile looks for the header only if os.ReadFile succeeds, and overwrites otherwise.
HandWrittenKept ==
  [][\A p \in Paths : tree[p] \in {"hand", "broken"} => tree'[p] = tree[p] \/ p \in unread']_tree

\* After a run that succeeds, every file of mappings.yaml is there and is either of this run
\* or without the header, and nothing of an earlier run is left, whatever state failed runs
\* had left the tree in. The exception is a file cleanGeneratedDir could not read and that
\* the run does not write. Files that gofmt rejected are among those of this run, and a file
\* cut before the end of its header is among those without.
SuccessIsFresh ==
  outcome = "ok" =>
    /\ \A i \in 1..Len(Steps) : \A p \in Target(Steps[i]) : tree[p] \in {"new", "bad"} \cup NoHeader
    /\ \A p \in Paths \ unread : tree[p] \notin {"old", "part"}

\* After a run that succeeds and whose register.go was not kept as hand-written, register.go
\* names only encoders that are in the tree and parse, so that the package compiles with them,
\* and it names all of them but those that could not be read and those hand-written for an
\* action that is gone. An encoder that does not parse, because gofmt rejected it, is in the
\* tree and not registered.
RegisterMatches ==
  outcome = "ok" /\ tree[Encoder("register")] \notin NoHeader =>
    /\ registered \subseteq Encoders
    /\ \A a \in Encoders \ registered :
         Encoder(a) \in unread \/ (a \notin Actions /\ tree[Encoder(a)] = "hand")
==============================================================================
