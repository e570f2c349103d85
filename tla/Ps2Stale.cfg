SPECIFICATION Spec
CONSTANTS
  W = 2
  Payload <- MCPayload
  Depth = 2
  Data <- Byte
INVARIANT StoresOnlyReceived
