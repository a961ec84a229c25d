------------------------------ MODULE MainLoop ------------------------------
(***************************************************************************)
(* The loop of the daemon (main.c, file_event.c): the descriptors are      *)
(* registered once; from then on timer_advance runs the timers that are    *)
(* due, and file_event_poll sleeps for the delay it returned, or until a   *)
(* descriptor is ready, and calls the callbacks of those that are.         *)
(***************************************************************************)
EXTENDS Timers, Sequences

CONSTANTS
  Fds,   \* the descriptors of the serial port, of the console and of ubus
  Slots  \* POLL_EVENT_NFD

ASSUME MainLoopAssumption ==
  IsFiniteSet(Fds) /\ Slots \in Nat /\ Cardinality(Fds) <= Slots

VARIABLES
  pc,       \* "init", "advance", "poll" or "dispatch"
  table,    \* the fds of fet->poll, -1 (no entry) past the end
  ready,    \* the descriptors that have something to read
  until,    \* when the poll under way times out, or NULL
  revents,  \* the slots poll reported, from the one the loop is at
  rc,       \* how many of them are left
  callback  \* the descriptor whose callback runs, or NULL

pollvars == <<pc, table, ready, until, revents, rc, callback>>
vars == <<timervars, pollvars>>

Init ==
  /\ TimersInit
  /\ pc = "init" /\ table = <<>> /\ ready = {}
  /\ until = NULL /\ revents = {} /\ rc = 0 /\ callback = NULL

Registered(fd) == \E i \in DOMAIN table : table[i] = fd

file_event_reg(fd) ==
  /\ pc = "init" /\ ~Registered(fd)
  /\ table' = IF Len(table) < Slots THEN Append(table, fd) ELSE table
  /\ UNCHANGED <<timervars, pc, ready, until, revents, rc, callback>>

(* api_test registers them all, sets a timer and goes on to the loop.      *)
Start ==
  /\ pc = "init" /\ \A fd \in Fds : Registered(fd)
  /\ \E t \in Timers, ms \in Delays : ListBecomes(timer_set(List, t, now + ms))
  /\ pc' = "advance"
  /\ UNCHANGED <<now, mtime, handler, delay,
                 table, ready, until, revents, rc, callback>>

(* file_event_poll is called with what timer_advance returned.  -1, as an  *)
(* unsigned 64 bit number, is cut to INT32_MAX, longer than any delay.     *)
PollForDeadline(ms) ==                               \* mutant of TimesOut
  IF ms = NULL THEN MaxTime + 1 ELSE now + timeMs[first]

TimesOut(ms) == IF ms = NULL THEN MaxTime + 1 ELSE now + ms

timer_advance ==
  /\ pc = "advance"
  /\ \/ (Advance \/ Fire \/ HandlerEnds) /\ UNCHANGED <<pc, until>>
     \/ Return /\ pc' = "poll" /\ until' = TimesOut(delay')
  /\ UNCHANGED <<table, ready, revents, rc, callback>>

InHandler ==
  /\ handler # NULL \/ callback # NULL
  /\ SetOrCancel
  /\ UNCHANGED pollvars

-----------------------------------------------------------------------------
(* file_event_poll *)
TimedOut ==
  /\ pc = "poll" /\ ready = {} /\ now >= until
  /\ until' = NULL /\ pc' = "advance"
  /\ UNCHANGED <<timervars, table, ready, revents, rc, callback>>

SomeReady ==
  /\ pc = "poll" /\ ready # {}
  /\ until' = NULL /\ pc' = "dispatch"
  /\ revents' = {i \in DOMAIN table : table[i] \in ready}
  /\ rc' = Cardinality(revents')
  /\ UNCHANGED <<timervars, table, ready, callback>>

OneTooFew == rc > 1                                  \* mutant of MoreReady

MoreReady == rc > 0

(* The callback reads what there is, or a part of it (api_step reads one   *)
(* byte).                                                                  *)
Callback ==
  /\ pc = "dispatch" /\ callback = NULL /\ MoreReady
  /\ LET i == Min(revents) IN
     /\ callback' = table[i]
     /\ revents' = revents \ {i}
     /\ rc' = rc - 1
     /\ ready' \in {ready, ready \ {table[i]}}
  /\ UNCHANGED <<timervars, pc, table, until>>

CallbackReturns ==
  /\ callback # NULL
  /\ callback' = NULL
  /\ UNCHANGED <<timervars, pc, table, ready, until, revents, rc>>

PollReturns ==
  /\ pc = "dispatch" /\ callback = NULL /\ ~MoreReady
  /\ pc' = "advance" /\ revents' = {} /\ rc' = 0
  /\ UNCHANGED <<timervars, table, ready, until, callback>>

file_event_poll ==
  TimedOut \/ SomeReady \/ Callback \/ CallbackReturns \/ PollReturns

Arrives(fd) ==
  /\ Registered(fd) /\ fd \notin ready
  /\ ready' = ready \cup {fd}
  /\ UNCHANGED <<timervars, pc, table, until, revents, rc, callback>>

TimePasses == pc # "init" /\ Tick /\ UNCHANGED pollvars

Next ==
  \/ \E fd \in Fds : file_event_reg(fd) \/ Arrives(fd)
  \/ Start \/ timer_advance \/ InHandler \/ file_event_poll \/ TimePasses

Fairness ==
  /\ \A fd \in Fds : WF_vars(file_event_reg(fd))
  /\ WF_vars(Start) /\ WF_vars(timer_advance) /\ WF_vars(file_event_poll)
  /\ WF_vars(TimePasses)

Spec == Init /\ [][Next]_vars /\ Fairness

-----------------------------------------------------------------------------
(* Properties. *)

(* A timer that is set runs its handler in the end, unless it is cancelled *)
(* (or, until the clock stops, set again): neither the list nor the sleep  *)
(* in poll keeps it back, whatever the handlers and callbacks do.          *)
TimersFire == \A t \in Timers : timer_active(t) ~> ~timer_active(t)

(* A descriptor that has something to read gets its callback, whatever the *)
(* timers and the other descriptors do.                                    *)
ReadyIsCalled ==
  \A fd \in Fds : (fd \in ready) ~> (callback = fd)
=============================================================================
