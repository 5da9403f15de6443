---------------------------- MODULE MCSemanticsDB ----------------------------
(*
  A mappings.yaml with up to three actions: "a" mirrors its name, "b" leaves it empty, as
  most of the production file does, and a packet ID that was typed in lower case. The calls
  take every mutation through its success and through each of its errors.
*)
EXTENDS SemanticsDB

ID(digits, form) == [digits |-> digits, form |-> form]
Impl(id, struct, min, max) == [id |-> id, struct |-> struct, min |-> min, max |-> max]

MCInitialDocs ==
  { << [key |-> "a", name |-> "a", meta |-> "m0",
        impls |-> << Impl(ID("00FB", "0xabcd"), "S", 0, 2) >>],
       [key |-> "b", name |-> Blank, meta |-> "m0", impls |-> << >>] >>,
    << [key |-> "b", name |-> "b", meta |-> "m0",
        impls |-> << Impl(ID("00FB", "0xABCD"), "S", 3, 0) >>] >> }

Create(name) == [tool |-> "create_action", name |-> name, meta |-> "m1"]
Update(name, meta) == [tool |-> "update_action", name |-> name, meta |-> meta]
Delete(name) == [tool |-> "delete_action", name |-> name]
RenameTo(name, new) == [tool |-> "rename_action", name |-> name, new |-> new]
Add(name, impl) == [tool |-> "add_implementation", name |-> name, impl |-> impl]
UpdateImpl(name, id, struct, min, max) ==
  [tool |-> "update_implementation", name |-> name, id |-> id, struct |-> struct,
   min |-> min, max |-> max]
DeleteImpl(name, id) == [tool |-> "delete_implementation", name |-> name, id |-> id]

\* "C-1" is a name Validate rejects, "0xFB" an ID it rejects.
MCCalls ==
  { [tool |-> "validate"],
    Create("a"), Create("C-1"), Create(Blank),
    Update("a", "m1"), Update("b", Keep),
    Delete("a"),
    RenameTo("a", "b"), RenameTo("b", "a"), RenameTo("a", "a"), RenameTo("b", Blank),
    Add("a", Impl(ID("00FB", "abcd"), "S", 2, 3)),
    Add("b", Impl(ID("00FB", "0xABCD"), "S", 2, 3)),
    Add("b", Impl(ID("FB", "0xABCD"), "S", 0, 0)),
    Add("b", Impl(Blank, "S", 0, 0)),
    Add("a", Impl(ID("00FB", "0xABCD"), Blank, 0, 0)),
    UpdateImpl("a", ID("00FB", "abcd"), Keep, 3, Keep),
    UpdateImpl("a", ID("00FB", "0xABCD"), Blank, Keep, 0),
    UpdateImpl("b", ID("00FB", "0xABCD"), "T", Keep, Keep),
    DeleteImpl("b", ID("00FB", "0xabcd")) }
==============================================================================
