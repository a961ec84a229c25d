SPECIFICATION Spec
CONSTANTS
  NoFrame = NoFrame
  Lengths = {3, 4, 6, 127, 130, 232}
  Noise = {0, 1, 2, 3, 6, 24, 200, 210, 233}
  SignedChar = TRUE
  SizeofFrame = 56
  MaxSize = 231
INVARIANTS
  
  NoAnswerInsideFrame
  WholeFrameDelivered
PROPERTIES
  HandedOverOnce
CHECK_DEADLOCK FALSE
