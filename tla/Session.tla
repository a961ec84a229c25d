------------------------------ MODULE Session ------------------------------
(***************************************************************************)
(* The sending side of the serial link to the Z-Wave module: the send half *)
(* of frame.c (one frame on the line, a timer that waits for its ACK, NAK  *)
(* or CAN) under session.c (a queue of frames and the retry policy),       *)
(* together with the two directions of the line and the module's answers.  *)
(*                                                                         *)
(* The program is one thread: the functions below run to completion from   *)
(* a byte that arrived, a timer that expired, or a call of the api layer.  *)
(***************************************************************************)
EXTENDS Naturals, Sequences, FiniteSets

CONSTANTS
  Frames,    \* the frame buffers the api layer allocates and hands in
  NoFrame,   \* the NULL of fs.frameSend
  MaxTry,    \* SESSION_MAX_SEND_TRY_CNT
  Window,    \* how many frames the caller keeps handed in at a time
  MaxWire,   \* bound: what either direction of the line holds at a time
  Prompt     \* TRUE: the module answers within FRAME_WAIT_NAK_ACK_TIMEOUT

ASSUME MaxTryAssumption == MaxTry \in Nat \ {0}
ASSUME NoFrameAssumption == NoFrame \notin Frames
ASSUME LineAssumption == Window \in Nat /\ MaxWire \in Nat /\ Prompt \in BOOLEAN

VARIABLES
  stateSend,  \* fs.stateSend
  frameSend,  \* fs.frameSend
  timerSend,  \* is fs.timerSend in the timer list
  qSend,      \* ss.qSend, oldest first
  trycnt,     \* the trycnt field of each frame
  held,       \* history: frames handed in and not yet given back by send_cb
  outcome,    \* history: the error each frame was last given back with
  sent,       \* history: transmissions of each frame since it was handed in
  got,        \* history: held frames the module has received
  toModule,   \* the line from the host to the module
  toHost      \* the line from the module to the host

codeVars == <<stateSend, frameSend, timerSend, qSend, trycnt>>
histVars == <<held, outcome, sent>>
vars == <<codeVars, histVars, got, toModule, toHost>>

Answers == {"ACK", "NAK", "CAN"}
Errors  == Answers \cup {"TIMEOUT"}

QueueSet == {qSend[i] : i \in DOMAIN qSend}

TypeOK ==
  /\ stateSend \in {"READY", "WAIT_ACK_NAK"}
  /\ frameSend \in Frames \cup {NoFrame}
  /\ timerSend \in BOOLEAN
  /\ qSend \in Seq(Frames)
  /\ trycnt \in [Frames -> 0..MaxTry]
  /\ held \in SUBSET Frames
  /\ outcome \in [Frames -> Errors \cup {"NONE"}]
  /\ sent \in [Frames -> Nat]
  /\ got \in SUBSET Frames
  /\ toModule \in Seq(Frames)
  /\ toHost \in Seq(Answers)

Init ==
  /\ stateSend = "READY"
  /\ frameSend = NoFrame
  /\ timerSend = FALSE
  /\ qSend = <<>>
  /\ trycnt = [f \in Frames |-> 0]
  /\ held = {}
  /\ outcome = [f \in Frames |-> "NONE"]
  /\ sent = [f \in Frames |-> 0]
  /\ got = {}
  /\ toModule = <<>>
  /\ toHost = <<>>

-----------------------------------------------------------------------------
(***************************************************************************)
(* The line.  frame_send ignores what transport_write returns, so a frame  *)
(* is written whole or, as far as the module can tell, not at all.         *)
(***************************************************************************)
WriteFrame(f) ==
  \/ toModule' = toModule
  \/ /\ Len(toModule) < MaxWire
     /\ toModule' = Append(toModule, f)

(* frame_send of a frame that is not NULL with stateSend = READY.          *)
Transmit(f) ==
  /\ frameSend' = f
  /\ stateSend' = "WAIT_ACK_NAK"
  /\ timerSend' = TRUE
  /\ WriteFrame(f)

(* The line after a frame has left it, when no other takes its place.      *)
LineIdle ==
  /\ frameSend' = NoFrame
  /\ stateSend' = "READY"
  /\ timerSend' = FALSE
  /\ UNCHANGED toModule

-----------------------------------------------------------------------------
(* lockqueue_push and lockqueue_pop; nothing is popped off an empty queue. *)
PushFront(q, f) == <<f>> \o q                        \* mutant of Push
Push(q, f) == Append(q, f)

PopNothing(q) == q                                   \* mutant of Pop
Pop(q) == IF q = <<>> THEN q ELSE Tail(q)

(***************************************************************************)
(* session_send: the frame goes to the tail of the queue and to            *)
(* frame_send, which refuses it (-2, ignored) while another is in flight.  *)
(* make_frame has set trycnt to 0.                                         *)
(***************************************************************************)
session_send(f) ==
  /\ f \notin held
  /\ Cardinality(held) < Window
  /\ held' = held \cup {f}
  /\ got' = got \ {f}
  /\ outcome' = [outcome EXCEPT ![f] = "NONE"]
  /\ trycnt' = [trycnt EXCEPT ![f] = 0]
  /\ qSend' = Push(qSend, f)
  /\ \/ /\ stateSend = "READY"
        /\ Transmit(f)
        /\ sent' = [sent EXCEPT ![f] = 1]
     \/ /\ stateSend # "READY"
        /\ sent' = [sent EXCEPT ![f] = 0]
        /\ UNCHANGED <<stateSend, frameSend, timerSend, toModule>>
  /\ UNCHANGED toHost

(***************************************************************************)
(* session_send_over_callback for the frame that was in flight: it is sent *)
(* again, or it is over.  When it is over, one element is popped as "the   *)
(* frame that is over" and the next one is popped and sent.                *)
(***************************************************************************)
LastTryTooEarly(f) == trycnt[f] + 2 >= MaxTry        \* mutant of LastTry
LastTry(f) == trycnt[f] + 1 >= MaxTry

Retry(f, e) ==
  /\ e # "ACK" /\ ~LastTry(f)
  /\ trycnt' = [trycnt EXCEPT ![f] = @ + 1]
  /\ sent' = [sent EXCEPT ![f] = @ + 1]
  /\ Transmit(f)
  /\ UNCHANGED <<qSend, held, outcome>>

SendNextOnlyIdles(f) ==                              \* mutant of SendNext
  /\ LineIdle
  /\ trycnt' = [trycnt EXCEPT ![f] = @ + 1]
  /\ UNCHANGED sent

SendNext(f) ==
  LET rest == Pop(qSend) IN
  \/ /\ rest = <<>>
     /\ LineIdle
     /\ trycnt' = [trycnt EXCEPT ![f] = @ + 1]
     /\ UNCHANGED sent
  \/ /\ rest # <<>>
     /\ Transmit(Head(rest))
     /\ trycnt' = [trycnt EXCEPT ![f] = @ + 1, ![Head(rest)] = 0]
     /\ sent' = [sent EXCEPT ![Head(rest)] = @ + 1]

(* ss.send_cb of the frame that is over. *)
GiveBackOnAck(f, e) ==                               \* mutant of GiveBack
  IF e = "ACK"
  THEN held' = held \ {f} /\ outcome' = [outcome EXCEPT ![f] = e]
  ELSE UNCHANGED <<held, outcome>>

GiveBack(f, e) ==
  /\ held' = held \ {f}
  /\ outcome' = [outcome EXCEPT ![f] = e]

Over(f, e) ==
  /\ e = "ACK" \/ LastTry(f)
  /\ qSend' = Pop(Pop(qSend))
  /\ SendNext(f)
  /\ GiveBack(f, e)

(* send_over_cb, called with the frame that frame.c had in flight or NULL. *)
send_over(e) ==
  \/ /\ frameSend = NoFrame
     /\ LineIdle
     /\ UNCHANGED <<qSend, trycnt, histVars>>
  \/ /\ frameSend # NoFrame
     /\ Retry(frameSend, e) \/ Over(frameSend, e)

(* frame_receive_step, the branches of an ACK, NAK or CAN byte: whichever  *)
(* frame is in flight takes it, as the byte does not say which it answers. *)
AnyAnswerIsAck ==                                    \* mutant of
  /\ toHost # <<>>                                   \* frame_receive_answer
  /\ toHost' = Tail(toHost)
  /\ send_over("ACK")
  /\ UNCHANGED got

frame_receive_answer ==
  /\ toHost # <<>>
  /\ toHost' = Tail(toHost)
  /\ send_over(Head(toHost))
  /\ UNCHANGED got

(* frame_send_timer_callback.  A prompt module's answer comes earlier than *)
(* the timer, unless the frame or the answer was lost.                     *)
frame_send_timer_callback ==
  /\ timerSend
  /\ Prompt => toModule = <<>> /\ toHost = <<>>
  /\ send_over("TIMEOUT")
  /\ UNCHANGED <<got, toHost>>

-----------------------------------------------------------------------------
(* The module takes a frame off the line and answers; the answer may be    *)
(* lost.  It acknowledges only a frame it could read.                      *)
ModuleAnswers ==
  /\ toModule # <<>>
  /\ toModule' = Tail(toModule)
  /\ \E a \in Answers :
       /\ got' = IF a = "ACK" THEN got \cup ({Head(toModule)} \cap held) ELSE got
       /\ \/ UNCHANGED toHost
          \/ /\ Len(toHost) < MaxWire
             /\ toHost' = Append(toHost, a)
  /\ UNCHANGED <<codeVars, histVars>>

-----------------------------------------------------------------------------
Next ==
  \/ \E f \in Frames : session_send(f)
  \/ frame_receive_answer
  \/ frame_send_timer_callback
  \/ ModuleAnswers

Spec == Init /\ [][Next]_vars

(* The main loop polls the descriptor and advances the timers for ever, so *)
(* a byte that is there is read and a timer that is due fires; the module  *)
(* reads its side of the line.                                             *)
Fairness ==
  /\ WF_vars(frame_receive_answer)
  /\ WF_vars(frame_send_timer_callback)
  /\ WF_vars(ModuleAnswers)

FairSpec == Spec /\ Fairness

-----------------------------------------------------------------------------
(***************************************************************************)
(* Properties.                                                             *)
(***************************************************************************)

(* frame_send's refusal is ignored by session_send: a queued frame is sent *)
(* only because some frame in flight will come to an end.  So an idle line *)
(* must mean an empty queue, and a frame in flight must have its timer.    *)
IdleMeansDrained ==
  /\ stateSend = "READY" <=> frameSend = NoFrame
  /\ timerSend <=> frameSend # NoFrame
  /\ stateSend = "READY" => qSend = <<>>

(* send_cb frees the frame it is given (api_send_over).  No freed frame    *)
(* may stay in the queue or be on the line, and none is queued twice.      *)
NoFreedFrame ==
  /\ QueueSet \subseteq held
  /\ frameSend # NoFrame => frameSend \in held
  /\ \A i, j \in DOMAIN qSend : qSend[i] = qSend[j] => i = j

(* The pop that follows a frame's end never throws away the frame behind   *)
(* the one in flight while the latter is still at the head of the queue.   *)
InFlightIsHeadOrGone ==
  frameSend \in QueueSet => frameSend = Head(qSend)

(* A frame is written at most SESSION_MAX_SEND_TRY_CNT times, and trycnt   *)
(* is one behind the writes while it is in flight, across every mix of     *)
(* timeouts, NAKs, CANs and stale answers.                                 *)
TryBound ==
  /\ \A f \in Frames : sent[f] <= MaxTry
  /\ frameSend # NoFrame => sent[frameSend] = trycnt[frameSend] + 1

(* A frame is given back only from the line: as acknowledged, or as failed *)
(* after all its transmissions were used up.                               *)
ReportedFromLine ==
  [][\A f \in held \ held' :
       /\ f = frameSend
       /\ outcome'[f] # "ACK" => sent[f] = MaxTry]_vars

(* A frame that was written is settled: the api layer hears of it.         *)
InFlightSettles ==
  \A f \in Frames : frameSend = f ~> f \notin held

(* What MODULES.md calls the frame queue function of the session layer: a  *)
(* frame for which session_send returned 0 waits in the queue or is in     *)
(* flight until it is given back.                                          *)
NothingLost ==
  \A f \in held : f = frameSend \/ f \in QueueSet

(* The session layer and the line implement the service of SendService: a  *)
(* frame is accepted while it is held, delivered once the module has it.   *)
Service == INSTANCE SendService WITH
  status <- [f \in Frames |-> IF f \notin held THEN "idle"
                              ELSE IF f \in got THEN "delivered"
                              ELSE "accepted"]

(* With a prompt module every step of the link is a step of the service,   *)
(* so a stale answer never acknowledges a frame the module does not have;  *)
(* with one frame at a time every frame handed in is also given back.      *)
ImplementsFairService == Service!SFairSpec
=============================================================================
