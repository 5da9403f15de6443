SPECIFICATION Spec
CONSTANTS
  Packetvers <- AllPacketvers
  EmbeddedLengths = {4, 5, 27, 28, 65535}
  Bodies = {0, 1, 45, 46, 112, 136, 175, 360}
INVARIANTS
  DecoderInFrame
  EntriesInBounds
  HandshakeFramed
  PacketWhole
  FsmCopiesAgree
  ShuffledIsObfuscated
  RequestsDistinguished
