SPECIFICATION FairSpec
CONSTANTS
  Frames = {f1, f2, f3}
  NoFrame = NoFrame
  MaxTry = 4
  Window = 3
  MaxWire = 1
  Prompt = FALSE
INVARIANTS
  IdleMeansDrained
  NoFreedFrame
  InFlightIsHeadOrGone
PROPERTIES
  ReportedFromLine
  InFlightSettles
