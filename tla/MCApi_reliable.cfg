CONSTANTS
  c1 = c1 c2 = c2 c3 = c3 c4 = c4 c5 = c5
  Calls = {c1, c2, c3, c4, c5}
  ApiOf <- AppApis
  Stops = {c5}
  NoCall = NoCall
  LeaveCall = c5
  Lead = 5
  LinkFails = FALSE
  Silent = FALSE
  Strays = {"ApplicationCommandHandler"}
  Reissue = TRUE
SPECIFICATION FairSpec
INVARIANTS OneFrameAtATime WaitingIsRestored
PROPERTIES MessageOfCurrent QueuedIsStarted RunningEnds
CHECK_DEADLOCK FALSE
