CONSTANTS
  c1 = c1 c2 = c2 c3 = c3 c4 = c4 c5 = c5
  Calls = {c1, c2, c3, c4}
  ApiOf <- HostileApis
  Stops = {c2}
  NoCall = NoCall
  LeaveCall = NoCall
  Lead = 2
  LinkFails = TRUE
  Silent = TRUE
  Strays = {"ApplicationCommandHandler"}
  Reissue = FALSE
SPECIFICATION Spec
INVARIANTS QueuedHasBeat ReceivedAtOnce CallOnce
CHECK_DEADLOCK FALSE
