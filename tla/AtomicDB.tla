------------------------------ MODULE AtomicDB ------------------------------
(*
  What the header of cmd/semantics-tool/mcp/server.go promises of the semantic
  actions in mappings.yaml: every call is one step, which applies one mutation
  to the document as it is, or leaves it alone.
*)
EXTENDS SemanticDoc

CONSTANTS
  InitialDocs,   \* the documents a session may start from
  Calls          \* the tool calls clients make

VARIABLE doc

Init == doc \in InitialDocs

Call(m) ==
  /\ dispatchTool(doc, m).ok
  /\ doc' = dispatchTool(doc, m).doc

Next == \E m \in Calls : Call(m)

Spec == Init /\ [][Next]_doc
==============================================================================
