SPECIFICATION Spec
CONSTANTS
  W = 2
  Payload <- MCPayload
  Depth = 2
  Data <- Byte
INVARIANTS TypeOK WholeFrames PacketTells
PROPERTIES FifoSpec FrameEnds
