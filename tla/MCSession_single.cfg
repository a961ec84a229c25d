SPECIFICATION FairSpec
CONSTANTS
  Frames = {f1, f2}
  NoFrame = NoFrame
  MaxTry = 4
  Window = 1
  MaxWire = 2
  Prompt = TRUE
PROPERTIES
  ImplementsFairService
