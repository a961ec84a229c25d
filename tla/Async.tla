-------------------------------- MODULE Async --------------------------------
(***************************************************************************)
(* Asynchronous operations (async.c): each has a timer in the timer list,  *)
(* may time out, be finished by whoever does its work, and be started      *)
(* again, by its own callback too.                                         *)
(***************************************************************************)
EXTENDS Timers

CONSTANT MaxRuns  \* bound: the starts of an operation

(* An operation is known by its timer.                                     *)
VARIABLES
  active,    \* op->active
  armed,     \* is op->callback set
  runs,      \* history: how often the operation was started
  called,    \* history: and called back
  deadline   \* history: when it times out, or NULL

opvars == <<active, armed, runs, called, deadline>>
asyncvars == <<timervars, opvars>>

AsyncInit ==
  /\ TimersInit
  /\ active = [t \in Timers |-> FALSE] /\ armed = [t \in Timers |-> FALSE]
  /\ runs = [t \in Timers |-> 0] /\ called = [t \in Timers |-> 0]
  /\ deadline = [t \in Timers |-> NULL]

(* An operation as its fields and the timer list.  ms is NULL for no       *)
(* timeout.                                                                *)
Op(op) == [active |-> active[op], armed |-> armed[op], runs |-> runs[op],
           deadline |-> deadline[op], list |-> List]

OpBecomes(op, st) ==
  /\ active' = [active EXCEPT ![op] = st.active]
  /\ armed' = [armed EXCEPT ![op] = st.armed]
  /\ runs' = [runs EXCEPT ![op] = st.runs]
  /\ deadline' = [deadline EXCEPT ![op] = st.deadline]
  /\ ListBecomes(st.list)

Timeouts == {NULL} \cup {ms \in Delays : now + ms <= MaxTime}

async_op_start(st, op, ms) ==
  [active |-> TRUE, armed |-> TRUE, runs |-> st.runs + 1,
   deadline |-> IF ms = NULL THEN NULL ELSE now + ms,
   list |-> IF ms = NULL THEN st.list ELSE timer_set(st.list, op, now + ms)]

OverButTimed(st, op) ==                              \* mutant of Over
  [st EXCEPT !.active = FALSE, !.armed = FALSE, !.deadline = NULL]

Over(st, op) ==
  [st EXCEPT !.active = FALSE, !.armed = FALSE, !.deadline = NULL,
             !.list = timer_cancel(@, op)]

(* The operation is over when its callback runs, which may start it again. *)
async_op_finish(op) ==
  /\ active[op]
  /\ called' = [called EXCEPT ![op] = IF armed[op] THEN @ + 1 ELSE @]
  /\ \/ OpBecomes(op, Over(Op(op), op))
     \/ /\ runs[op] < MaxRuns
        /\ \E ms \in Timeouts :
             OpBecomes(op, async_op_start(Over(Op(op), op), op, ms))

(* What a callback does to other operations comes as a step of its own.    *)
OpStarts ==
  /\ handler = NULL
  /\ \E op \in Timers, ms \in Timeouts :
       /\ ~active[op] /\ runs[op] < MaxRuns
       /\ OpBecomes(op, async_op_start(Op(op), op, ms))
  /\ UNCHANGED <<now, mtime, handler, delay, called>>

OpFinishes ==
  /\ handler = NULL
  /\ \E op \in Timers : async_op_finish(op)
  /\ UNCHANGED <<now, mtime, handler, delay>>

(* The handler of its timer.                                               *)
async_op_timeout ==
  /\ handler # NULL /\ handler' = NULL
  /\ IF active[handler] THEN async_op_finish(handler)
     ELSE UNCHANGED <<opvars, list>>
  /\ UNCHANGED <<now, mtime, delay>>

AsyncNext ==
  \/ OpStarts \/ OpFinishes \/ async_op_timeout
  \/ (Advance \/ Fire \/ Return \/ Tick) /\ UNCHANGED opvars

AsyncSpec == AsyncInit /\ [][AsyncNext]_asyncvars

-----------------------------------------------------------------------------
(* Properties. *)

(* Each start of an operation is called back once, and ends by a timeout   *)
(* only at its own deadline: not at that of an earlier start of the same   *)
(* operation, finished in time or by the callback of another.              *)
OwnTimeoutOnly ==
  [][\A op \in Timers :
       called'[op] # called[op] =>
         /\ called'[op] = runs[op]
         /\ handler = op /\ handler' = NULL
              => deadline[op] # NULL /\ deadline[op] <= now]_asyncvars
=============================================================================
