----------------------------- MODULE SemanticDoc -----------------------------
(*
  The document of internal/semanticsdb: the `semantic_actions:` mapping of
  mappings.yaml, and what each mutation of mutate.go and each check of
  validate.go makes of it.

  A document is a sequence of entries in file order. An entry has the mapping
  key, the inner `name:` field, one token for the other metadata, and its
  implementations; an implementation has a packet ID as it is spelled in the
  file, a struct name and a packetver range, in which 0 means no bound.
*)
EXTENDS Integers, Sequences, SequencesExt

CONSTANTS
  Names,        \* of actions, a blank one among them
  Metas,        \* the other metadata of an action
  Digits,       \* of packet IDs
  Forms,        \* the ways a packet ID can be spelled
  Structs,      \* struct names, a blank one among them
  SnakeCase,    \* the action names isValidActionName accepts
  FourDigits,   \* the hex digits of a packet ID that packetIDRe accepts
  Blank,        \* a blank string, as a name, a packet ID or a struct name
  Keep,         \* a nil pointer argument: leave the field as it is
  inf           \* the upper end of an unbounded packetver range

ASSUME InfAssumption == inf \in Nat \ {0}
ASSUME FormsAssumption == "0xABCD" \in Forms

-----------------------------------------------------------------------------
(* Documents, and the calls that change them. *)

PacketIDs == {Blank} \cup [digits : Digits, form : Forms]
Versions == 0..inf
Impls == [id : PacketIDs, struct : Structs, min : Versions, max : Versions]
Entries == [key : Names, name : Names, meta : Metas, impls : Seq(Impls)]
Docs == Seq(Entries)

ToolCalls ==
  [tool : {"validate"}]
    \cup [tool : {"create_action"}, name : Names, meta : Metas]
    \cup [tool : {"update_action"}, name : Names, meta : Metas \cup {Keep}]
    \cup [tool : {"delete_action"}, name : Names]
    \cup [tool : {"rename_action"}, name : Names, new : Names]
    \cup [tool : {"add_implementation"}, name : Names, impl : Impls]
    \cup [tool : {"update_implementation"}, name : Names, id : PacketIDs,
          struct : Structs \cup {Keep}, min : Versions \cup {Keep}, max : Versions \cup {Keep}]
    \cup [tool : {"delete_implementation"}, name : Names, id : PacketIDs]

-----------------------------------------------------------------------------
(* Looking things up. *)

\* A packet ID is its digits and the way they are spelled. normPacketID gives every
\* spelling of the same digits one form; it does not pad the digits.
normPacketID(raw) == IF raw = Blank THEN Blank ELSE [raw EXCEPT !.form = "0xABCD"]

\* The entries with a given key. Nothing in Load refuses a file that repeats one.
Keyed(doc, name) == {i \in 1..Len(doc) : doc[i].key = name}

\* d.action: parse fills the map in file order, so that the last entry of a key stays.
Indexed(doc, name) == CHOOSE i \in Keyed(doc, name) : \A j \in Keyed(doc, name) : j <= i

\* ListActions: the entries in the map.
Listed(doc) == {i \in 1..Len(doc) : i = Indexed(doc, doc[i].key)}

\* The implementations with a given packet ID, of which findImplIndex takes the first.
WithID(impls, raw) == {i \in 1..Len(impls) : normPacketID(impls[i].id) = normPacketID(raw)}
First(S) == CHOOSE i \in S : \A j \in S : i <= j

Failed == [ok |-> FALSE, doc |-> <<>>]
Done(doc) == [ok |-> TRUE, doc |-> doc]

-----------------------------------------------------------------------------
(* The mutations: whether they succeed, and the document they leave. *)

CreateAction(doc, name, meta) ==
  IF name = Blank \/ Keyed(doc, name) # {} THEN Failed
  ELSE Done(Append(doc, [key |-> name, name |-> name, meta |-> meta, impls |-> <<>>]))

\* removeActionsMappingEntry walks the file and removes the first entry of the key.
DeleteAction(doc, name) ==
  IF Keyed(doc, name) = {} THEN Failed ELSE Done(RemoveAt(doc, First(Keyed(doc, name))))

\* Without the check that the new name is free.
RenameAction_Unchecked(doc, old, new) ==
  IF new = Blank THEN Failed
  ELSE IF old = new THEN Done(doc)
  ELSE IF Keyed(doc, old) = {} THEN Failed
  ELSE LET i == Indexed(doc, old)
           name == IF doc[i].name = old THEN new ELSE doc[i].name
           named == [doc EXCEPT ![i].name = name]
       IN  Done([named EXCEPT ![First(Keyed(doc, old))].key = new])

\* The entry keeps its place; the inner name follows only when it mirrored the key. The key
\* is that of the first entry in the file, the inner name that of the one in the map.
RenameAction(doc, old, new) ==
  IF new = Blank THEN Failed
  ELSE IF old = new THEN Done(doc)
  ELSE IF Keyed(doc, old) = {} \/ Keyed(doc, new) # {} THEN Failed
  ELSE LET i == Indexed(doc, old)
           name == IF doc[i].name = old THEN new ELSE doc[i].name
           named == [doc EXCEPT ![i].name = name]
       IN  Done([named EXCEPT ![First(Keyed(doc, old))].key = new])

UpdateActionMetadata(doc, name, meta) ==
  IF Keyed(doc, name) = {} THEN Failed
  ELSE IF meta = Keep THEN Done(doc)
  ELSE Done([doc EXCEPT ![Indexed(doc, name)].meta = meta])

\* The new implementation is stored with its canonical ID, unless the action has it already.
AddImplementation(doc, name, impl) ==
  IF impl.id = Blank \/ impl.struct = Blank \/ Keyed(doc, name) = {} THEN Failed
  ELSE LET i == Indexed(doc, name)
       IN  IF WithID(doc[i].impls, impl.id) # {} THEN Failed
           ELSE Done([doc EXCEPT ![i].impls =
                        Append(@, [impl EXCEPT !.id = normPacketID(@)])])

UpdateImplementation(doc, name, raw, struct, min, max) ==
  IF Keyed(doc, name) = {} THEN Failed
  ELSE LET i == Indexed(doc, name)
           found == WithID(doc[i].impls, raw)
           impl == doc[i].impls[First(found)]
           or(new, old) == IF new = Keep THEN old ELSE new
       IN  IF found = {} THEN Failed
           ELSE Done([doc EXCEPT ![i].impls[First(found)] =
                        [impl EXCEPT !.struct = or(struct, impl.struct),
                                     !.min = or(min, impl.min), !.max = or(max, impl.max)]])

DeleteImplementation(doc, name, raw) ==
  IF Keyed(doc, name) = {} THEN Failed
  ELSE LET i == Indexed(doc, name)
           found == WithID(doc[i].impls, raw)
       IN  IF found = {} THEN Failed
           ELSE Done([doc EXCEPT ![i].impls = RemoveAt(@, First(found))])

\* dispatchTool, and the commands of the CLI: one call is one mutation, or none.
dispatchTool(doc, m) ==
  CASE m.tool = "validate" -> Done(doc)
    [] m.tool = "create_action" -> CreateAction(doc, m.name, m.meta)
    [] m.tool = "update_action" -> UpdateActionMetadata(doc, m.name, m.meta)
    [] m.tool = "delete_action" -> DeleteAction(doc, m.name)
    [] m.tool = "rename_action" -> RenameAction(doc, m.name, m.new)
    [] m.tool = "add_implementation" -> AddImplementation(doc, m.name, m.impl)
    [] m.tool = "update_implementation" ->
         UpdateImplementation(doc, m.name, m.id, m.struct, m.min, m.max)
    [] m.tool = "delete_implementation" -> DeleteImplementation(doc, m.name, m.id)

\* The tools that do not save: the other seven read-only tools differ in what they print.
isReadonly(tool) == tool = "validate"

-----------------------------------------------------------------------------
(* Validate. *)

\* With the ends of the ranges left out.
rangesOverlap_Open(a, b) ==
  LET hi(r) == IF r.max = 0 THEN inf ELSE r.max
  IN  a.min < hi(b) /\ b.min < hi(a)

\* 0 is no bound: below every version, or inf.
rangesOverlap(a, b) ==
  LET hi(r) == IF r.max = 0 THEN inf ELSE r.max
  IN  a.min <= hi(b) /\ b.min <= hi(a)

\* Every implementation of the actions listed, as its place.
Places(doc) == UNION {{i} \X (1..Len(doc[i].impls)) : i \in Listed(doc)}
ImplAt(doc, at) == doc[at[1]].impls[at[2]]

\* What is wrong with one implementation that has a packet ID.
implErrors(doc, at) ==
  LET impl == ImplAt(doc, at)
      id == normPacketID(impl.id)
  IN  {e \in {"packet_id", "struct_name", "duplicate", "range"} :
         \/ e = "packet_id" /\ id.digits \notin FourDigits
         \/ e = "struct_name" /\ impl.struct = Blank
         \/ e = "duplicate" /\ \E j \in 1..(at[2] - 1) :
               normPacketID(doc[at[1]].impls[j].id) = id
         \/ e = "range" /\ impl.min # 0 /\ impl.max # 0 /\ impl.min > impl.max}

\* The checks of one action: its name, and each implementation's ID, struct name and range.
\* An implementation without a packet ID gets the first error only.
validateActions(doc) ==
  {<<<<i, 0>>, "name">> : i \in {j \in Listed(doc) : doc[j].key \notin SnakeCase}}
    \cup {<<at, "empty packet_id">> : at \in {p \in Places(doc) : ImplAt(doc, p).id = Blank}}
    \cup UNION {{at} \X implErrors(doc, at) : at \in {p \in Places(doc) : ImplAt(doc, p).id # Blank}}

\* The pairs of implementations that claim one packet ID for overlapping ranges. Those
\* without a packet ID or a struct name are skipped.
validateCrossActionConflicts(doc) ==
  {pair \in Places(doc) \X Places(doc) :
     LET a == ImplAt(doc, pair[1])
         b == ImplAt(doc, pair[2])
     IN  /\ pair[1] # pair[2]
         /\ Blank \notin {a.id, a.struct, b.id, b.struct}
         /\ normPacketID(a.id) = normPacketID(b.id)
         /\ rangesOverlap(a, b)}

\* Whether there are no errors.
Validate(doc) == validateActions(doc) = {} /\ validateCrossActionConflicts(doc) = {}
==============================================================================
