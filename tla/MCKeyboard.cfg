CONSTANTS
  PasteText <- Text
  Keys <- Typeable
  MaxPasteChunk = 4
  MaxCsiParams = 4
  MaxKeys = 2
  MaxBytes = 11
  MaxFrames = 1
  MaxLosses = 1
  HeaderSize = 2
  MaxBuffer = 12
SPECIFICATION Spec
INVARIANT Transparent
PROPERTY KeysArrive
PROPERTY EscapeDecided
CHECK_DEADLOCK FALSE
