------------------------------- MODULE Timers -------------------------------
(***************************************************************************)
(* The timer list (timer.c): the active timers of a timer_head, linked in  *)
(* the order of their deadlines.  timer_advance takes the timers that are  *)
(* due off the list one by one and runs their handlers, which set and      *)
(* cancel timers, their own among them, while time goes on.                *)
(***************************************************************************)
EXTENDS Null, Naturals, FiniteSets, FiniteSetsExt

CONSTANTS
  Timers,
  Delays,  \* the delays timers are set with
  MaxTime  \* bound: the last deadline, and how far the clock goes

ASSUME TimersAssumption ==
  /\ IsFiniteSet(Timers) /\ NULL \notin Timers \cup Nat
  /\ Delays \subseteq Nat \ {0} /\ MaxTime \in Nat

VARIABLES
  first,   \* head->first
  next,    \* timer->next
  timeMs,  \* timer->time_ms, 0 while the timer is not active
  now,     \* time_mtime_ms()
  mtime,   \* mtime of the timer_advance under way, or NULL
  handler, \* the timer whose handler runs, or NULL
  delay    \* what the last timer_advance returned; NULL stands for -1

list == <<first, next, timeMs>>
timervars == <<list, now, mtime, handler, delay>>

TimersInit ==
  /\ first = NULL
  /\ next = [t \in Timers |-> NULL] /\ timeMs = [t \in Timers |-> 0]
  /\ now = 1 /\ mtime = NULL /\ handler = NULL /\ delay = 0

timer_active(t) == timeMs[t] # 0

(* The list as the code walks it: the node n links away from the head.     *)
Node(l) ==
  LET node[n \in 0..Cardinality(Timers)] ==
        IF n = 0 THEN l.first
        ELSE IF node[n - 1] = NULL THEN NULL ELSE l.next[node[n - 1]]
  IN  node

List == [first |-> first, next |-> next, timeMs |-> timeMs]

SetPrev(l, n, t) ==   \* *prev = t, where prev points at the node n
  IF n = 0 THEN [l EXCEPT !.first = t]
  ELSE [l EXCEPT !.next = [@ EXCEPT ![Node(l)[n - 1]] = t]]

timer_cancel(l, t) ==
  LET at == {n \in DOMAIN Node(l) : Node(l)[n] = t} IN
  IF l.timeMs[t] = 0 \/ at = {} THEN l
  ELSE [SetPrev(l, Min(at), l.next[t]) EXCEPT !.timeMs = [@ EXCEPT ![t] = 0]]

InsertAtHead(l, t, time) ==                          \* mutant of Insert
  [l EXCEPT !.first  = t,
            !.next   = [@ EXCEPT ![t] = l.first],
            !.timeMs = [@ EXCEPT ![t] = time]]

Insert(l, t, time) ==
  LET n    == Min({i \in DOMAIN Node(l) :
                     Node(l)[i] = NULL \/ time < l.timeMs[Node(l)[i]]})
      node == Node(l)[n]
      set  == SetPrev(l, n, t)
  IN  [set EXCEPT !.next   = [@ EXCEPT ![t] = node],
                  !.timeMs = [@ EXCEPT ![t] = time]]

SetTwice(l, t, time) == Insert(l, t, time)           \* mutant of timer_set

timer_set(l, t, time) == Insert(timer_cancel(l, t), t, time)

ListBecomes(l) ==
  /\ first' = l.first /\ next' = l.next /\ timeMs' = l.timeMs

(* What the handlers and callbacks do to the timers.                       *)
SetOrCancel ==
  /\ \E t \in Timers :
       \/ \E ms \in Delays :
            /\ now + ms <= MaxTime
            /\ ListBecomes(timer_set(List, t, now + ms))
       \/ timer_active(t) /\ ListBecomes(timer_cancel(List, t))
  /\ UNCHANGED <<now, mtime, handler, delay>>

-----------------------------------------------------------------------------
(* timer_advance *)
Advance ==
  /\ mtime = NULL
  /\ mtime' = 0
  /\ UNCHANGED <<list, now, handler, delay>>

(* The clock is read again for a timer that was not due when it was read   *)
(* last.                                                                   *)
Due(t) == timeMs[t] <= mtime \/ timeMs[t] <= now

Fire ==
  /\ mtime # NULL /\ handler = NULL
  /\ first # NULL /\ Due(first)
  /\ mtime' = IF timeMs[first] > mtime THEN now ELSE mtime
  /\ first' = next[first]
  /\ timeMs' = [timeMs EXCEPT ![first] = 0]
  /\ next' = [next EXCEPT ![first] = NULL]
  /\ handler' = first
  /\ UNCHANGED <<now, delay>>

HandlerEnds ==
  /\ handler # NULL
  /\ handler' = NULL
  /\ UNCHANGED <<list, now, mtime, delay>>

Return ==
  /\ mtime # NULL /\ handler = NULL
  /\ first # NULL => ~Due(first)
  /\ mtime' = NULL
  /\ delay' = IF first = NULL THEN NULL ELSE timeMs[first] - now
  /\ UNCHANGED <<list, now, handler>>

Tick ==
  /\ now < MaxTime
  /\ now' = now + 1
  /\ UNCHANGED <<list, mtime, handler, delay>>

-----------------------------------------------------------------------------
(* Properties. *)

(* The list ends, holds each active timer once and no other, and is sorted *)
(* by deadline, whatever handlers set and cancel while timer_advance walks *)
(* the list.                                                               *)
ListIsSorted ==
  LET node == Node(List)
      len  == Cardinality({n \in DOMAIN node : node[n] # NULL})
  IN  /\ node[Cardinality(Timers)] = NULL
      /\ {node[n] : n \in DOMAIN node} \ {NULL} = {t \in Timers : timer_active(t)}
      /\ len = Cardinality({t \in Timers : timer_active(t)})
      /\ \A n \in 1..(len - 1) : timeMs[node[n - 1]] <= timeMs[node[n]]

(* A handler is run for an active timer that is due, and for none before   *)
(* one with an earlier deadline.                                           *)
EarliestFires ==
  [][handler' \notin {handler, NULL}
       => /\ timeMs[handler'] \in 1..now
          /\ \A t \in Timers :
               timer_active(t) => timeMs[handler'] <= timeMs[t]]_timervars
=============================================================================
