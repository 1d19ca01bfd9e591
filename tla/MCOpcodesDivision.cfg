SPECIFICATION Spec
CONSTANTS
  ByteBits = 2
  FracBits = 4
  ExtendedBits = 12
  Instructions <- MCInstructions
  Starts <- MCStarts
  Ebx = 52
  WideDivision = TRUE
  None = None
PROPERTY RemainderOK
