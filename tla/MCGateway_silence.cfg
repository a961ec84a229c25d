SPECIFICATION Spec
CONSTANTS
  n1 = n1 v = v i = i p = p m = m s = s k1 = k1 d1 = d1 d2 = d2 d3 = d3
  Nodes = {n1}
  NoNode = NoNode
  Controller = n0
  Attrs = 1
  MaxRequests = 2
  Calls = {v, i, p, m, s, k1, d1, d2, d3}
  ApiOf <- Apis
  NodeOf <- DeviceOf
  NoCall = NoCall
  Lead = 5
  Silent = TRUE
  Strays = {"ApplicationCommandHandler"}
INVARIANTS WorkHasTimer MachinesAgree ClassEventsHaveMachine
CHECK_DEADLOCK FALSE
