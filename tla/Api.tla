-------------------------------- MODULE Api --------------------------------
(***************************************************************************)
(* The api layer (api.c over statemachine.c): one state machine, smApi,    *)
(* idle or running one command; a machine of ApiMachines inside its        *)
(* running state; three event queues; the 1 ms beat timer that works them  *)
(* off one event at a time, as does every byte that arrives; and the 3 s   *)
(* timer of CmdZWaveSendData.  Below it stands the session layer, of which *)
(* only the queue and the end of a frame matter here (module Session has   *)
(* the retries), and the Z-Wave module, which acknowledges a frame and     *)
(* then sends its replies byte by byte.                                    *)
(***************************************************************************)
EXTENDS Naturals, Sequences, ApiMachines

CONSTANTS
  Calls,     \* api_call invocations, each with its own arguments
  ApiOf,     \* the command of each call
  Stops,     \* calls that end a command in progress: the module is silent
  LeaveCall, \* the call wait_transition_leaved_node_s2 makes, a member of Calls
  NoCall,    \* no call
  Lead,      \* bytes of an inbound frame before its last one
  LinkFails, \* TRUE: frames may end with a timeout, NAK or CAN
  Silent,    \* TRUE: replies may be missing, or later than API_EXEC_TIMEOUT_MS
  Strays,    \* commands of the frames that come unasked
  Reissue    \* TRUE: a call may be made again once it is gone

ApplicationCommand == "ApplicationCommandHandler"   \* 0x04
ControllerUpdate   == "CmdApplicationControllerUpdate"

ASSUME CallsAssumption ==
  /\ ApiOf \in [Calls -> Apis]
  /\ Stops \subseteq Calls /\ NoCall \notin Calls
  /\ LeaveCall \in Calls \cup {NoCall}
ASSUME BytesAssumption == Lead \in Nat \ {0}
ASSUME EnvAssumption ==
  /\ {LinkFails, Silent, Reissue} \subseteq BOOLEAN
  /\ Strays \subseteq {ApplicationCommand, ControllerUpdate}

(* The removal of a node ends with a call of the api layer's own.          *)
ASSUME LeaveAssumption ==
  /\ LeaveCall \in Calls => ApiOf[LeaveCall] = "CmdZWaveRemoveNodeFromNetwork"
  /\ \A c \in Calls : ApiOf[c] = "CmdZWaveRemoveNodeFromNetwork"
                       => LeaveCall \in Calls

VARIABLES
  smState,    \* smApi.state
  param,      \* the param of S_RUNNING: the command's machine, or NoMachine
  nested,     \* inside the api_beat(1) of running_transition_error
  qSend,      \* env.qSend, oldest first
  qSendBack,  \* env.qSendBack: calls put back while another ran
  qRecv,      \* env.qRecv
  timerBeat,  \* is env.timerBeat in the timer list
  timerSend,  \* is env.timerSend in the timer list
  said,       \* history: what the last step pushed to the app layer
  cur,        \* history: the call idle_action_call_api started last
  used,       \* history: the calls made, when none is made twice
  link,       \* the session: its queue and the frame in flight
  rx,         \* the frame coming in: its command and the bytes to come
  owed        \* the replies the module has yet to send

queues  == <<qSend, qSendBack, qRecv>>
machine == <<smState, param, nested>>
vars == <<machine, queues, timerBeat, timerSend, said, cur, used, link, rx, owed>>

NoMachine == [api |-> "none", state |-> "none"]
NoRx == [cmd |-> "none", left |-> 0]

(* An event: its id and, for a call, the call, else the command byte.      *)
Event(eid, arg) == [eid |-> eid, arg |-> arg]
Beat    == Event("E_BEAT", "none")
Call(c) == Event("E_CALL_API", c)
CallEvents == {Call(c) : c \in Calls}
Asked == {ApiOf[c] : c \in Calls}   \* the commands that can be under way
SendEvents ==
  CallEvents \cup {Beat}
    \cup {Event(eid, api) : eid \in {"E_ACK", "E_ERROR"}, api \in Asked}
Frames == Apis \cup {ApplicationCommand, ControllerUpdate}
RecvEvents ==
  {Event(eid, cmd) : eid \in {"E_DATA", "E_ASYNC_DATA"}, cmd \in Frames}

InSeq(q) == {q[i] : i \in DOMAIN q}
NoneOf(q, x) == x \notin InSeq(q)

TypeOK ==
  /\ smState \in {"S_IDLE", "S_RUNNING"}
  /\ param \in [api : Asked, state : SubStates] \cup {NoMachine}
  /\ nested \in BOOLEAN
  /\ qSend \in Seq(SendEvents)
  /\ qSendBack \in Seq(CallEvents)
  /\ qRecv \in Seq(RecvEvents)
  /\ timerBeat \in BOOLEAN /\ timerSend \in BOOLEAN
  /\ said \in Range(Message) \cup {"E_ATTR_OVER", "none"}
  /\ cur \in Calls \cup {NoCall} /\ used \subseteq Calls
  /\ link \in [queue : Seq(Calls), flying : Calls \cup {NoCall}]
  /\ rx \in [cmd : Frames, left : 0..(Lead - 1)] \cup {NoRx}
  /\ owed \in Seq(Frames)

Init ==
  /\ smState = "S_IDLE" /\ param = NoMachine /\ nested = FALSE
  /\ qSend = <<>> /\ qSendBack = <<>> /\ qRecv = <<>>
  /\ timerBeat = FALSE /\ timerSend = FALSE
  /\ said = "none" /\ cur = NoCall /\ used = {}
  /\ link = [queue |-> <<>>, flying |-> NoCall]
  /\ rx = NoRx /\ owed = <<>>

-----------------------------------------------------------------------------
(* The session layer, its retries left out.                                *)
Pop(q) == IF q = <<>> THEN q ELSE Tail(q)

session_send(l, c) ==
  [queue  |-> Append(l.queue, c),
   flying |-> IF l.flying = NoCall THEN c ELSE l.flying]

session_send_over(l) ==
  LET rest == Pop(l.queue) IN
  [queue |-> Pop(rest), flying |-> IF rest = <<>> THEN NoCall ELSE Head(rest)]

-----------------------------------------------------------------------------
(***************************************************************************)
(* The handlers of smApi.  Each is one state_machine_step for the event e  *)
(* just popped; qs and l are qSend and the session as the step finds them, *)
(* after what came before in the same call.                                *)
(***************************************************************************)

(* state_machine_set_state.  The step that runs inside the error           *)
(* transition ends with that transition's S_IDLE.                          *)
Become(state) ==
  /\ smState' = IF nested THEN "S_IDLE" ELSE state
  /\ nested' = FALSE

Keep == UNCHANGED <<param, timerSend, cur>>

(* api_restore_api_call_event, then api_post_beat_event.                   *)
BeatOnly(qs) ==                                      \* mutants of RestoreAndBeat
  qSend' = Append(qs, Beat) /\ UNCHANGED qSendBack
RestoreWithoutPop(qs) ==
  /\ qSend' = IF qSendBack = <<>> THEN Append(qs, Beat)
              ELSE qs \o <<Head(qSendBack), Beat>>
  /\ UNCHANGED qSendBack

RestoreAndBeat(qs) ==
  IF qSendBack = <<>>
  THEN qSend' = Append(qs, Beat) /\ UNCHANGED qSendBack
  ELSE /\ qSend' = qs \o <<Head(qSendBack), Beat>>
       /\ qSendBack' = Tail(qSendBack)

(* A command is over: S_END of its machine, or no machine to take data.    *)
Complete(qs) ==
  /\ RestoreAndBeat(qs)
  /\ param' = NoMachine
  /\ Become("S_IDLE")

(* Both async handlers: a report of a node that came in good (rxStatus 0). *)
AsyncData(e) ==
  /\ \/ said' = "none"
     \/ e.arg = ApplicationCommand /\ said' = "E_ATTR_OVER"
  /\ Keep

IdleStep(e, qs, l) ==
  /\ UNCHANGED qSendBack
  /\ qSend' = qs
  /\ \/ /\ e.eid = "E_CALL_API"         \* idle_action_call_api
        /\ link' = session_send(l, e.arg)
        /\ timerSend' = (ApiOf[e.arg] = "CmdZWaveSendData")
        /\ cur' = e.arg
        /\ Become("S_RUNNING")
        /\ said' = "none"
        /\ UNCHANGED param
     \/ /\ e.eid = "E_ASYNC_DATA"       \* idle_action_async_data
        /\ AsyncData(e)
        /\ Become("S_IDLE")
        /\ link' = l
     \/ /\ e.eid \notin {"E_CALL_API", "E_ASYNC_DATA"}
        /\ Become("S_IDLE")
        /\ said' = "none"
        /\ link' = l
        /\ Keep

(* The machine inside S_RUNNING goes to state s, or is done.               *)
MoveMachine(s, qs) ==
  \/ /\ s = "S_END"
     /\ Complete(qs)
  \/ /\ s # "S_END"
     /\ param' = [param EXCEPT !.state = s]
     /\ qSend' = IF s = "S_WAIT_LEAVE_COMP" /\ param.state # s
                 THEN Append(qs, Call(LeaveCall))   \* its api_call
                 ELSE qs
     /\ Become("S_RUNNING")
     /\ UNCHANGED qSendBack

AckGoesIdle(e, qs) ==                                \* mutant of
  /\ param' = [api |-> e.arg, state |-> InitState[e.arg]]  \* running_action_ack
  /\ Become("S_IDLE")
  /\ qSend' = qs
  /\ UNCHANGED qSendBack

running_action_ack(e, qs) ==
  \/ /\ param = NoMachine
     /\ param' = [api |-> e.arg, state |-> InitState[e.arg]]
     /\ Become(IF e.arg \in NumstateZero THEN "S_IDLE" ELSE "S_RUNNING")
     /\ qSend' = qs
     /\ UNCHANGED qSendBack
  \/ /\ param # NoMachine
     /\ MoveMachine(NextState(AckNext, param.state), qs)

running_action_data(qs) ==
  /\ IF param = NoMachine
     THEN Complete(qs)
     ELSE MoveMachine(NextState(DataNext, param.state), qs)
  /\ said' = IF param.state \in DOMAIN Message THEN Message[param.state]
             ELSE "none"
  /\ timerSend' = (timerSend /\ param.state # "S_WAIT_TX_STATUS")

RunningStep(e, qs, l) ==
  \/ /\ e.eid = "E_ERROR"               \* running_transition_error
     /\ RestoreAndBeat(qs)
     /\ nested' = TRUE
     /\ said' = "none" /\ link' = l
     /\ Keep
     /\ UNCHANGED smState
  \/ /\ e.eid = "E_ACK"
     /\ running_action_ack(e, qs)
     /\ said' = "none" /\ link' = l
     /\ UNCHANGED <<timerSend, cur>>
  \/ /\ e.eid = "E_ASYNC_DATA"
     /\ AsyncData(e)
     /\ Become("S_RUNNING")
     /\ qSend' = qs /\ link' = l
     /\ UNCHANGED qSendBack
  \/ /\ e.eid = "E_DATA"
     /\ running_action_data(qs)
     /\ link' = l
     /\ UNCHANGED cur
  \/ /\ e.eid = "E_CALL_API"            \* running_action_call_api
     /\ \/ /\ GoesThrough(param, ApiOf[e.arg])
           /\ link' = session_send(l, e.arg)
           /\ UNCHANGED qSendBack
        \/ /\ ~GoesThrough(param, ApiOf[e.arg])
           /\ qSendBack' = Append(qSendBack, e)
           /\ link' = l
     /\ Become("S_RUNNING")
     /\ qSend' = qs /\ said' = "none"
     /\ Keep
  \/ /\ e.eid = "E_BEAT"
     /\ Become("S_RUNNING")
     /\ qSend' = qs /\ said' = "none" /\ link' = l
     /\ Keep
     /\ UNCHANGED qSendBack

state_machine_step(e, qs, l) ==
  \/ smState = "S_IDLE" /\ IdleStep(e, qs, l)
  \/ smState = "S_RUNNING" /\ RunningStep(e, qs, l)

SendQueueFirst(qr, qs, l) ==                         \* mutant of
  \/ /\ qs # <<>>                                    \* handlerOneEvent
     /\ qRecv' = qr
     /\ state_machine_step(Head(qs), Tail(qs), l)
  \/ /\ qs = <<>> /\ qr # <<>>
     /\ qRecv' = Tail(qr)
     /\ state_machine_step(Head(qr), qs, l)

(* handlerOneEvent: what was received goes before what is to be sent.      *)
handlerOneEvent(qr, qs, l) ==
  \/ /\ qr # <<>>
     /\ qRecv' = Tail(qr)
     /\ state_machine_step(Head(qr), qs, l)
  \/ /\ qr = <<>> /\ qs # <<>>
     /\ qRecv' = qr
     /\ state_machine_step(Head(qs), Tail(qs), l)
  \/ /\ qr = <<>> /\ qs = <<>>
     /\ qRecv' = qr /\ qSend' = qs /\ link' = l /\ said' = "none"
     /\ UNCHANGED <<machine, qSendBack, timerSend, cur>>

-----------------------------------------------------------------------------
(* The entry points. *)

Gone(c) ==
  /\ NoneOf(qSend, Call(c)) /\ NoneOf(qSendBack, Call(c))
  /\ NoneOf(link.queue, c) /\ link.flying # c
  /\ cur = c => smState = "S_IDLE"

api_calls(cs) ==
  /\ ~nested
  /\ \A c \in InSeq(cs) : c \notin used /\ Gone(c)
  /\ used' = IF Reissue THEN used ELSE used \cup InSeq(cs)
  /\ qSend' = qSend \o [i \in DOMAIN cs |-> Call(cs[i])]
  /\ timerBeat' = TRUE
  /\ said' = "none"
  /\ UNCHANGED <<machine, qSendBack, qRecv, timerSend, cur, link, rx, owed>>

api_call(c) == api_calls(<<c>>)

(* api_step: the byte that session_receive_step took has left qr, qs and l *)
(* behind; api_beat(1) sets the beat timer anew and handles one event.     *)
api_step(qr, qs, l) ==
  /\ ~nested
  /\ timerBeat' = TRUE
  /\ handlerOneEvent(qr, qs, l)
  /\ UNCHANGED used

(* The module serves the frame it acknowledged.                            *)
Served(c) == IF c \in Stops THEN <<>> ELSE owed \o Replies(ApiOf[c])

AckByte ==
  /\ link.flying # NoCall /\ rx = NoRx
  /\ api_step(qRecv, Append(qSend, Event("E_ACK", ApiOf[link.flying])),
              session_send_over(link))
  /\ owed' = Served(link.flying)
  /\ UNCHANGED rx

(* The last NAK or CAN the session takes for the frame in flight.          *)
RefusedByte ==
  /\ LinkFails
  /\ link.flying # NoCall /\ rx = NoRx
  /\ api_step(qRecv, Append(qSend, Event("E_ERROR", ApiOf[link.flying])),
              session_send_over(link))
  /\ UNCHANGED <<rx, owed>>

(* The last timeout: api_send_over posts E_ERROR twice, and no api_beat    *)
(* follows, as no byte came.  The module may have served the frame.        *)
SendTimeout ==
  /\ ~nested /\ LinkFails
  /\ link.flying # NoCall
  /\ LET e == Event("E_ERROR", ApiOf[link.flying]) IN qSend' = qSend \o <<e, e>>
  /\ link' = session_send_over(link)
  /\ owed' \in {owed, Served(link.flying)}
  /\ said' = "none"
  /\ UNCHANGED <<machine, qSendBack, qRecv, timerBeat, timerSend, cur, used, rx>>

(* The bytes of a frame up to its last.                                    *)
FirstByte(cmd, rest) ==
  /\ rx = NoRx
  /\ rx' = [cmd |-> cmd, left |-> Lead - 1]
  /\ owed' = rest
  /\ api_step(qRecv, qSend, link)

NextByte ==
  /\ rx # NoRx /\ rx.left > 0
  /\ rx' = [rx EXCEPT !.left = @ - 1]
  /\ api_step(qRecv, qSend, link)
  /\ UNCHANGED owed

(* api_is_async_data, when the frame's last byte is there.                 *)
IsReply(cmd) ==
  /\ smState = "S_RUNNING" /\ param # NoMachine
  /\ \/ param.api = cmd
     \/ param.api = "CmdZWaveRequestNodeInfo" /\ cmd = ControllerUpdate

LastByte ==
  /\ rx # NoRx /\ rx.left = 0
  /\ rx' = NoRx
  /\ LET e == Event(IF IsReply(rx.cmd) THEN "E_DATA" ELSE "E_ASYNC_DATA", rx.cmd)
     IN  api_step(Append(qRecv, e), qSend, link)
  /\ UNCHANGED owed

Reply == owed # <<>> /\ FirstByte(Head(owed), Tail(owed))
Stray == \E cmd \in Strays : FirstByte(cmd, owed)

BeatIsNotSetAnew ==                                  \* mutant of
  /\ ~nested /\ timerBeat                            \* api_beat_timer_callback
  /\ timerBeat' = FALSE
  /\ handlerOneEvent(qRecv, qSend, link)
  /\ UNCHANGED <<used, rx, owed>>

api_beat_timer_callback ==
  /\ ~nested /\ timerBeat
  /\ timerBeat' = (qRecv # <<>> \/ qSend # <<>>)
  /\ handlerOneEvent(qRecv, qSend, link)
  /\ UNCHANGED <<used, rx, owed>>

(* The rest of the calls nested by running_transition_error.               *)
NestedBeat ==
  /\ nested
  /\ handlerOneEvent(qRecv, qSend, link)
  /\ timerBeat' = TRUE
  /\ UNCHANGED <<used, rx, owed>>

(* api_send_timer_callback *)
api_send_timer_callback ==
  /\ ~nested /\ (Silent \/ LinkFails)
  /\ timerSend
  /\ timerSend' = FALSE
  /\ smState' = "S_IDLE" /\ param' = NoMachine
  /\ qSend' = Append(qSend, Beat)
  /\ timerBeat' = TRUE
  /\ said' = "E_ATTR_OVER"
  /\ UNCHANGED <<nested, qSendBack, qRecv, cur, used, link, rx, owed>>

ReplyMissing ==
  /\ ~nested /\ Silent
  /\ owed # <<>>
  /\ owed' = Tail(owed)
  /\ UNCHANGED <<machine, queues, timerBeat, timerSend, said, cur, used, link, rx>>

-----------------------------------------------------------------------------
Next ==
  \/ \E c \in Calls \ {LeaveCall} : api_call(c)
  \/ AckByte \/ RefusedByte \/ SendTimeout
  \/ Reply \/ Stray \/ NextByte \/ LastByte
  \/ api_beat_timer_callback \/ NestedBeat \/ api_send_timer_callback
  \/ ReplyMissing

Spec == Init /\ [][Next]_vars

(* The main loop fires a timer that is due and reads a byte that is there; *)
(* the module answers and replies.                                         *)
FairSpec ==
  /\ Spec
  /\ SF_vars(AckByte) /\ SF_vars(Reply) /\ WF_vars(NextByte) /\ WF_vars(LastByte)
  /\ WF_vars(api_beat_timer_callback) /\ WF_vars(NestedBeat)

-----------------------------------------------------------------------------
(* Properties. *)

(* An event in a queue has a beat coming to handle it, except for the      *)
(* errors of a send timeout, which are posted without one.                 *)
QueuedHasBeat ==
  ~timerBeat => qRecv = <<>> /\ \A e \in InSeq(qSend) : e.eid = "E_ERROR"

(* The api_step of a frame's last byte handles that frame: it never waits  *)
(* behind another event, so the verdict of api_is_async_data, reached when *)
(* the frame was queued, still fits the machine that gets the frame.       *)
ReceivedAtOnce == qRecv = <<>>

Places(c) ==
  Cardinality({i \in DOMAIN qSend : qSend[i] = Call(c)})
    + Cardinality({i \in DOMAIN qSendBack : qSendBack[i] = Call(c)})

(* A call put back and restored any number of times is never in two places *)
(* and never queued and running at once: no command is sent twice.         *)
CallOnce ==
  \A c \in Calls :
    /\ Places(c) <= 1
    /\ Places(c) = 1 => ~(smState = "S_RUNNING" /\ cur = c) \/ c = LeaveCall

(* With no failure below, the api layer hands the session one frame at a   *)
(* time: the queue of session.c, which loses frames from the third on,     *)
(* never holds a second one.                                               *)
OneFrameAtATime == Len(link.queue) <= 1

(* What the app layer is told is about the command that was started last:  *)
(* the end of one command is never reported while another runs.            *)
ReportOf == [
  E_INIT_OVER    |-> "CmdZWaveGetSucNodeId",
  E_CLASS_OVER   |-> "CmdZWaveRequestNodeInfo",
  E_COMMAND_OVER |-> "CmdZWaveSendData"]
MessageOfCurrent ==
  [][said' \in DOMAIN ReportOf => cur # NoCall /\ ApiOf[cur] = ReportOf[said']]_vars

(* A call that api_call accepted and that had to wait is not forgotten:    *)
(* while nothing runs, either none waits or a call is on its way to be     *)
(* started and to restore the next when it ends.                           *)
WaitingIsRestored ==
  smState = "S_IDLE" /\ ~nested /\ qSendBack # <<>>
    => \E c \in Calls : Call(c) \in InSeq(qSend)

(* Once the app layer makes no more calls, every call that waits is        *)
(* started, also one that was put back any number of times.  While calls   *)
(* keep coming it may wait for ever: at each end of a command it is        *)
(* restored behind the newest of them.  (A call that stops a command in    *)
(* progress is not started: it goes through.)                              *)
CallsCease == <>[][\A c \in Calls : ~api_call(c)]_vars
QueuedIsStarted ==
  CallsCease => \A c \in Calls \ Stops :
                  Places(c) = 1 ~> smState = "S_RUNNING" /\ cur = c

(* A command that was started comes to its end: none of its replies is     *)
(* taken for something else.                                               *)
RunningEnds ==
  smState = "S_RUNNING" ~> smState = "S_IDLE"

=============================================================================
