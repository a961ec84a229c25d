SPECIFICATION Spec
CONSTANTS
  Timers = {t1, t2, t3}
  NULL = NULL
  Delays = {1, 2}
  MaxTime = 4
  Fds = {api, console}
  Slots = 2
INVARIANT ListIsSorted
PROPERTIES EarliestFires TimersFire ReadyIsCalled
