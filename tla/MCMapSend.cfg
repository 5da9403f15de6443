\* Keys of eight bits: the same generator on a narrower word.
SPECIFICATION Spec
CONSTANTS
    Goroutines = {g1, g2}
    Actions = {"MoveTo", "SkillUse"}
    HalfWord = 16
    key0 = 71
    key1 = 93
    key2 = 85
    MaxSends = 4
    MaxFailures = 1
INVARIANTS
    ServerUnderstands
    TraceIsWire
