------------------------------ MODULE Gateway ------------------------------
(***************************************************************************)
(* The app layer over the api layer: what app_run calls goes into the      *)
(* queue of the api layer, and what the api layer has to tell goes into    *)
(* the message queue of the app layer.                                     *)
(***************************************************************************)
EXTENDS App

CONSTANTS Calls, ApiOf, NoCall, Lead, Silent, Strays
CONSTANT NodeOf  \* the device a call asks, NoNode for the others

VARIABLES smState, param, nested, qSend, qSendBack, qRecv, timerBeat,
          timerSend, said, cur, used, link, rx, owed

Api == INSTANCE Api WITH
  Stops <- {}, LeaveCall <- NoCall, LinkFails <- FALSE, Reissue <- TRUE

apivars == <<smState, param, nested, qSend, qSendBack, qRecv, timerBeat,
             timerSend, said, cur, used, link, rx, owed>>
vars == <<avars, apivars>>

Init == AppInit /\ Api!Init

(* The api_calls of a step of app_run: each is a call that carries its     *)
(* command to its device and is not under way; which one does not matter.  *)
Free(a) ==
  CHOOSE c \in Calls :
    /\ ApiOf[c] = a.api
    /\ NodeOf[c] \in {a.node, NoNode}
    /\ Api!Gone(c)

CallsOf(asked) == [i \in DOMAIN asked |-> Free(asked[i])]

Run ==
  /\ ~nested
  /\ app_run
  /\ \/ made' = <<>> /\ UNCHANGED apivars
     \/ made' # <<>> /\ Api!api_calls(CallsOf(made'))

Others == ~nested /\ (Callers \/ Clock) /\ UNCHANGED apivars

(* The device a message is about: whichever sent the node information or   *)
(* the report, or none.                                                    *)
About == IF said' \in {"E_CLASS_OVER", "E_ATTR_OVER"} THEN Nodes ELSE {NoNode}

Tell ==
  \/ said' = "none" /\ UNCHANGED avars
  \/ said' # "none" /\ \E node \in About : app_util_push_msg(Event(said', node))

(* A report comes later than the app layer took the message before it, one *)
(* step of 10 ms.                                                          *)
AckByte  == Api!AckByte /\ Tell
Reply    == Api!Reply /\ Tell
Report   == msgq = <<>> /\ Api!Stray /\ Tell
NextByte == Api!NextByte /\ Tell
LastByte == Api!LastByte /\ Tell
api_beat_timer_callback == Api!api_beat_timer_callback /\ Tell
ReplyMissing == Api!ReplyMissing /\ UNCHANGED avars

api_send_timer_callback ==
  /\ Api!api_send_timer_callback
  /\ app_util_push_msg(Event("E_ATTR_OVER", NoNode))

Next ==
  \/ Run \/ Others
  \/ AckByte \/ Reply \/ Report \/ NextByte \/ LastByte
  \/ api_beat_timer_callback \/ api_send_timer_callback
  \/ ReplyMissing

Spec == Init /\ [][Next]_vars

(* The main loop's fairness as in Api.  The devices keep reporting, as a   *)
(* report is what ends smAttr's wait, but not so often that the app layer, *)
(* which takes a message every 10 ms, has no turn left for its other work. *)
FairSpec ==
  /\ Spec
  /\ WF_vars(Run) /\ SF_vars(Run /\ msgq = <<>>)
  /\ WF_vars(api_beat_timer_callback)
  /\ WF_vars(NextByte) /\ WF_vars(LastByte)
  /\ SF_vars(AckByte) /\ SF_vars(Reply) /\ SF_vars(Report)
  /\ SF_vars(LastByte /\ said' = "E_ATTR_OVER")
  /\ WF_vars(api_send_timer_callback)

-----------------------------------------------------------------------------
(* Every command the console or the cloud put in the queue is taken up and *)
(* comes to its end: each call that its submachine makes is ended by a     *)
(* message of the api layer that the submachine takes.                     *)
CommandsEnd == cmdq # <<>> ~> cmdq = <<>> /\ subsm = "NULL"

(* What the console promises with "get device class/attr" (cmd.c:35): one  *)
(* get or set that a device does not answer does not end them all.         *)
GetEnds == subState = "S_COMMANDING" ~> subState # "S_COMMANDING"
=============================================================================
