----------------------------- MODULE SemanticsDB -----------------------------
(*
  The processes that edit mappings.yaml: MCP servers (handleToolCall) and runs
  of the command line (withDB). Each call loads the file, applies one mutation
  to its own copy and saves it: SaveTo writes a temporary file in the same
  directory and renames it over the original. Every step of the file system may
  fail, and a process may be killed between any two.

  Nothing locks the file: "concurrency is the caller's concern" (server.go). The
  caller that takes this up is `serial`, which starts a call only when no other
  one is running; it is chosen once, so that both disciplines are explored.
*)
EXTENDS SemanticDoc

CONSTANTS
  Procs,         \* the processes
  InitialDocs,   \* the documents the file may hold at first
  Calls,         \* the tool calls clients make
  MaxCalls,      \* bound: calls started in a behaviour
  MaxKills       \* bound: processes killed in a behaviour

ASSUME BoundsAssumption == MaxCalls \in Nat /\ MaxKills \in Nat
ASSUME CallsAssumption == InitialDocs \subseteq Docs /\ Calls \subseteq ToolCalls

VARIABLES
  file,          \* mappings.yaml: its document, and whether all of it is there
  temp,          \* each process's temporary file, or NoTemp
  orphans,       \* temporary files of killed processes
  pc,            \* where each process is in its call
  call,          \* the call it is serving
  db,            \* its copy of the document
  reply,         \* its last answer: the JSON-RPC result or the exit status
  wrote,         \* ghost: the call has replaced the file
  serial,        \* the callers take turns
  calls, kills   \* calls started and processes killed so far

vars == <<file, temp, orphans, pc, call, db, reply, wrote, serial, calls, kills>>

NoTemp == [doc |-> <<>>, whole |-> FALSE, exists |-> FALSE]
NoCall == [tool |-> "none"]

Init ==
  /\ file \in [doc : InitialDocs, whole : {TRUE}]
  /\ temp = [p \in Procs |-> NoTemp]
  /\ orphans = 0
  /\ pc = [p \in Procs |-> "idle"]
  /\ call = [p \in Procs |-> NoCall]
  /\ db = [p \in Procs |-> <<>>]
  /\ reply = [p \in Procs |-> "none"]
  /\ wrote = [p \in Procs |-> FALSE]
  /\ serial \in BOOLEAN
  /\ calls = 0
  /\ kills = 0

\* The process answers and is ready for the next call; its copy of the document is gone. A
\* result is "read" or "ok", after a save.
Answer(p, r) ==
  /\ reply' = [reply EXCEPT ![p] = r]
  /\ pc' = [pc EXCEPT ![p] = "idle"]
  /\ call' = [call EXCEPT ![p] = NoCall]
  /\ db' = [db EXCEPT ![p] = <<>>]

At(p, from, to) == pc[p] = from /\ pc' = [pc EXCEPT ![p] = to]

-----------------------------------------------------------------------------
(* handleToolCall and withDB *)

Start(p, m) ==
  /\ calls < MaxCalls
  /\ serial => \A q \in Procs : pc[q] = "idle"
  /\ At(p, "idle", "load")
  /\ call' = [call EXCEPT ![p] = m]
  /\ reply' = [reply EXCEPT ![p] = "none"]
  /\ wrote' = [wrote EXCEPT ![p] = FALSE]
  /\ calls' = calls + 1
  /\ UNCHANGED <<file, temp, orphans, db, serial, kills>>

Load(p) ==
  /\ file.whole
  /\ At(p, "load", "dispatch")
  /\ db' = [db EXCEPT ![p] = file.doc]
  /\ UNCHANGED <<file, temp, orphans, call, reply, wrote, serial, calls, kills>>

\* The file cannot be read, or what is there does not parse.
LoadFails(p) ==
  /\ pc[p] = "load"
  /\ Answer(p, "error")
  /\ UNCHANGED <<file, temp, orphans, wrote, serial, calls, kills>>

\* Saving what a failed mutation left, too.
Dispatch_SaveAnyway(p) ==
  LET result == dispatchTool(db[p], call[p])
  IN  /\ pc[p] = "dispatch"
      /\ \/ /\ isReadonly(call[p].tool)
            /\ Answer(p, "read")
         \/ /\ ~isReadonly(call[p].tool)
            /\ At(p, "dispatch", "create")
            /\ db' = [db EXCEPT ![p] = result.doc]
            /\ UNCHANGED <<call, reply>>
      /\ UNCHANGED <<file, temp, orphans, wrote, serial, calls, kills>>

\* A call that fails, or that only reads, ends here without saving.
Dispatch(p) ==
  LET result == dispatchTool(db[p], call[p])
  IN  /\ pc[p] = "dispatch"
      /\ \/ /\ ~result.ok
            /\ Answer(p, "error")
         \/ /\ result.ok /\ isReadonly(call[p].tool)
            /\ Answer(p, "read")
         \/ /\ result.ok /\ ~isReadonly(call[p].tool)
            /\ At(p, "dispatch", "create")
            /\ db' = [db EXCEPT ![p] = result.doc]
            /\ UNCHANGED <<call, reply>>
      /\ UNCHANGED <<file, temp, orphans, wrote, serial, calls, kills>>

-----------------------------------------------------------------------------
(* SaveTo *)

CreateTemp(p) ==
  /\ At(p, "create", "write")
  /\ temp' = [temp EXCEPT ![p] = [NoTemp EXCEPT !.exists = TRUE]]
  /\ UNCHANGED <<file, orphans, call, db, reply, wrote, serial, calls, kills>>

CreateTempFails(p) ==
  /\ pc[p] = "create"
  /\ Answer(p, "error")
  /\ UNCHANGED <<file, temp, orphans, wrote, serial, calls, kills>>

\* A write that fails may leave some of the document behind.
WriteString(p) ==
  /\ At(p, "write", "close")
  /\ temp' = [temp EXCEPT ![p] = [doc |-> db[p], whole |-> TRUE, exists |-> TRUE]]
  /\ UNCHANGED <<file, orphans, call, db, reply, wrote, serial, calls, kills>>

\* Going on to the rename with what was written.
WriteFails_Ignored(p) ==
  /\ At(p, "write", "close")
  /\ temp' = [temp EXCEPT ![p] = [doc |-> db[p], whole |-> FALSE, exists |-> TRUE]]
  /\ UNCHANGED <<file, orphans, call, db, reply, wrote, serial, calls, kills>>

\* The deferred Remove runs on every return after CreateTemp.
WriteFails(p) ==
  /\ pc[p] = "write"
  /\ Answer(p, "error")
  /\ temp' = [temp EXCEPT ![p] = NoTemp]
  /\ UNCHANGED <<file, orphans, wrote, serial, calls, kills>>

CloseTemp(p) ==
  /\ At(p, "close", "rename")
  /\ UNCHANGED <<file, temp, orphans, call, db, reply, wrote, serial, calls, kills>>

CloseFails(p) ==
  /\ pc[p] = "close"
  /\ Answer(p, "error")
  /\ temp' = [temp EXCEPT ![p] = NoTemp]
  /\ UNCHANGED <<file, orphans, wrote, serial, calls, kills>>

\* The temporary file becomes mappings.yaml, and the deferred Remove finds nothing.
Rename(p) ==
  /\ At(p, "rename", "reply")
  /\ file' = [doc |-> temp[p].doc, whole |-> temp[p].whole]
  /\ temp' = [temp EXCEPT ![p] = NoTemp]
  /\ wrote' = [wrote EXCEPT ![p] = TRUE]
  /\ UNCHANGED <<orphans, call, db, reply, serial, calls, kills>>

\* Without returning the error.
RenameFails_Silent(p) ==
  /\ At(p, "rename", "reply")
  /\ temp' = [temp EXCEPT ![p] = NoTemp]
  /\ UNCHANGED <<file, orphans, call, db, reply, wrote, serial, calls, kills>>

RenameFails(p) ==
  /\ pc[p] = "rename"
  /\ Answer(p, "error")
  /\ temp' = [temp EXCEPT ![p] = NoTemp]
  /\ UNCHANGED <<file, orphans, wrote, serial, calls, kills>>

\* sendToolResult, or the zero exit status.
Reply(p) ==
  /\ pc[p] = "reply"
  /\ Answer(p, "ok")
  /\ UNCHANGED <<file, temp, orphans, wrote, serial, calls, kills>>

\* The process is killed and started again. Its deferred Remove does not run.
Kill(p) ==
  /\ kills < MaxKills
  /\ pc[p] # "idle"
  /\ Answer(p, "none")
  /\ temp' = [temp EXCEPT ![p] = NoTemp]
  /\ orphans' = orphans + (IF temp[p].exists THEN 1 ELSE 0)
  /\ kills' = kills + 1
  /\ UNCHANGED <<file, wrote, serial, calls>>

-----------------------------------------------------------------------------
SaveTo(p) ==
  \/ CreateTemp(p) \/ WriteString(p) \/ CloseTemp(p) \/ Rename(p)
  \/ CreateTempFails(p) \/ WriteFails(p) \/ CloseFails(p) \/ RenameFails(p)

handleToolCall(p) ==
  \/ \E m \in Calls : Start(p, m)
  \/ Load(p) \/ LoadFails(p) \/ Dispatch(p) \/ SaveTo(p) \/ Reply(p)

Finished == calls = MaxCalls /\ (\A p \in Procs : pc[p] = "idle") /\ UNCHANGED vars

Next == Finished \/ \E p \in Procs : handleToolCall(p) \/ Kill(p)

Spec == Init /\ [][Next]_vars

-----------------------------------------------------------------------------
(* Properties *)

\* mappings.yaml is a whole document at every moment, whatever fails and whoever is killed
\* during a save, and however many processes save at once.
FileWhole == file.whole

\* An answer tells the truth about what the call did: "ok" only after it replaced the file, an
\* error or the result of a read only when it did not; and it leaves no temporary file, so that
\* only killed processes do.
ReplyHonest ==
  /\ \A p \in Procs :
       /\ reply[p] = "ok" => wrote[p]
       /\ reply[p] \in {"error", "read"} => ~wrote[p]
       /\ pc[p] = "idle" => ~temp[p].exists
  /\ orphans <= kills

\* No action is without a name and no two have the same: GetAction finds what ListActions lists.
KeysUnique(doc) ==
  \A i, j \in 1..Len(doc) : doc[i].key # Blank /\ (doc[i].key = doc[j].key => i = j)

\* The inner name of an action is empty or the name it is filed under: GetAction, the exports
\* and the code generator report the inner one.
InnerNameMirrors(doc) == \A i \in 1..Len(doc) : doc[i].name \in {Blank, doc[i].key}

\* No action has two implementations of one packet ID, however the callers and the file
\* spell it.
IdsUnique(doc) ==
  \A i \in 1..Len(doc) : \A j, k \in 1..Len(doc[i].impls) :
    normPacketID(doc[i].impls[j].id) = normPacketID(doc[i].impls[k].id) => j = k

Unambiguous(doc) == KeysUnique(doc) /\ InnerNameMirrors(doc) /\ IdsUnique(doc)

StartsUnambiguous == \A d \in InitialDocs : Unambiguous(d)

\* A file that a lookup by name or by packet ID answers in one way only stays one, after any
\* sequence of calls, stale ones included.
LookupsUnambiguous == StartsUnambiguous => Unambiguous(file.doc)

\* The versions of a range.
InRange(v, impl) == impl.min <= v /\ (impl.max = 0 \/ v <= impl.max)

\* When the per-action checks pass, the conflicts Validate reports are exactly the pairs of
\* implementations that both apply to a packet ID in some version.
ValidateExact ==
  validateActions(file.doc) = {} =>
    validateCrossActionConflicts(file.doc) =
      {pair \in Places(file.doc) \X Places(file.doc) :
         LET a == ImplAt(file.doc, pair[1])
             b == ImplAt(file.doc, pair[2])
         IN  /\ pair[1] # pair[2]
             /\ a.id.digits = b.id.digits
             /\ \E v \in 1..inf : InRange(v, a) /\ InRange(v, b)}

Atomic == INSTANCE AtomicDB WITH doc <- file.doc

\* When callers take turns, the processes implement AtomicDB: each change of the file is
\* one call applied to the file as it was, failed saves and kills included.
AtomicWhenSerial == Atomic!Init /\ [][serial => Atomic!Next]_(file.doc)
==============================================================================
