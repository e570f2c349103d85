SPECIFICATION Spec
CONSTANTS
  NDisp = 2
  Char = {"a", "b", " "}
  Clear = "clear"
  Off = " "
  NCHAR = 2
  Code <- MCCode
  Text <- MCText
  BufSize = 6
  MinScroll = 2
  MaxErrors = 1
INVARIANTS TypeOK Shows
PROPERTIES AllSeen BufferHeld Returns
