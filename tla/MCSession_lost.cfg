SPECIFICATION Spec
CONSTANTS
  Frames = {f1, f2, f3}
  NoFrame = NoFrame
  MaxTry = 4
  Window = 3
  MaxWire = 2
  Prompt = TRUE
CHECK_DEADLOCK TRUE
INVARIANTS
  NothingLost
