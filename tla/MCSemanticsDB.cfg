SPECIFICATION Spec
CONSTANTS
  Procs = {p1, p2}
  Names = {"a", "b", "C-1", Blank}
  Metas = {"m0", "m1"}
  Digits = {"00FB", "FB"}
  Forms = {"0xABCD", "0xabcd", "abcd"}
  Structs = {"S", "T", Blank}
  SnakeCase = {"a", "b"}
  FourDigits = {"00FB"}
  Blank = Blank
  Keep = Keep
  inf = 4
  InitialDocs <- MCInitialDocs
  Calls <- MCCalls
  MaxCalls = 3
  MaxKills = 1
INVARIANTS
  FileWhole
  ReplyHonest
  LookupsUnambiguous
  ValidateExact
PROPERTIES
  AtomicWhenSerial
