----------------------------- MODULE LockQueue -----------------------------
(***************************************************************************)
(* A queue between two threads (lockqueue.c, cond.c, mutex.c), used as in  *)
(* test/test.c: one thread puts elements in and wakes the other, which     *)
(* waits and then takes all there are.  What holds a mutex is one step.    *)
(***************************************************************************)
EXTENDS LinkedList

CONSTANT MaxPushes  \* bound: the elements put in

VARIABLES
  cnt,      \* of the stCond_t
  producer, \* "push" or "wake"
  consumer, \* "wait", "blocked", "signalled", "empty" or "pop"
  pushes    \* bound

threadvars == <<cnt, producer, consumer, pushes>>
queuevars == <<itemvars, threadvars>>

QueueInit ==
  /\ ListInit
  /\ cnt = 0 /\ producer = "push" /\ consumer = "wait" /\ pushes = 0

lockqueue_push ==
  /\ producer = "push" /\ pushes < MaxPushes
  /\ \E i \in Items : list_push_front(i) \/ list_push_back(i)
  /\ pushes' = pushes + 1 /\ producer' = "wake"
  /\ UNCHANGED <<cnt, consumer>>

cond_wake ==
  /\ producer = "wake"
  /\ producer' = "push"
  /\ cnt' = cnt + 1
  /\ consumer' = IF consumer = "blocked" THEN "signalled" ELSE consumer
  /\ UNCHANGED <<itemvars, pushes>>

(* The thread that puts in may also take out, the newest first.            *)
lockqueue_pop_back ==
  /\ list_pop_front
  /\ UNCHANGED threadvars

WaitFirst == cnt > 0 /\ consumer = "signalled"       \* mutant of Wakeable

Wakeable == cnt > 0

(* pthread_cond_wait lets go of the mutex as it blocks, and may return     *)
(* without a signal.                                                       *)
cond_wait ==
  /\ consumer \in {"wait", "signalled"}
  /\ IF Wakeable THEN cnt' = cnt - 1 /\ consumer' = "empty"
     ELSE consumer' = "blocked" /\ UNCHANGED cnt
  /\ UNCHANGED <<itemvars, producer, pushes>>

Spurious ==
  /\ consumer = "blocked" /\ consumer' = "signalled"
  /\ UNCHANGED <<itemvars, cnt, producer, pushes>>

(* lockqueue_empty reads the size without the lock.                        *)
lockqueue_empty ==
  /\ consumer = "empty"
  /\ consumer' = IF size = 0 THEN "wait" ELSE "pop"
  /\ UNCHANGED <<itemvars, cnt, producer, pushes>>

lockqueue_pop ==
  /\ consumer = "pop" /\ consumer' = "empty"
  /\ \/ list_pop_back
     \/ size = 0 /\ UNCHANGED itemvars
  /\ UNCHANGED <<cnt, producer, pushes>>

Consumer == cond_wait \/ lockqueue_empty \/ lockqueue_pop

QueueNext ==
  lockqueue_push \/ cond_wake \/ lockqueue_pop_back \/ Consumer \/ Spurious

QueueFairness == WF_queuevars(cond_wake) /\ WF_queuevars(Consumer)

QueueSpec == QueueInit /\ [][QueueNext]_queuevars /\ QueueFairness

-----------------------------------------------------------------------------
(* Properties. *)

(* No wake-up is lost: what was put in is taken out, although the size is  *)
(* read without the lock, the count is under a mutex of its own, and the   *)
(* other thread takes elements between the two.                            *)
AllIsTaken == (size > 0) ~> (size = 0)
=============================================================================
