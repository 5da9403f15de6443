SPECIFICATION Spec
CONSTANTS
  Packetvers = {20160330}
  EmbeddedLengths = {4}
  Bodies = {0}
INVARIANT
  EnterAlwaysFramed
