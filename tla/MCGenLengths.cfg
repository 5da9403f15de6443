SPECIFICATION Spec
CONSTANTS
  None = None
  Versions <- MCVersions
  Headers <- MCHeaders
  JoinInputs <- MCJoinInputs
INVARIANTS
  HeaderReproduced
  JoinInWindow
  JoinDeterministic
PROPERTIES
  NeverOverridden
  DedupInvisible
