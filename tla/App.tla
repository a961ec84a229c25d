-------------------------------- MODULE App --------------------------------
(***************************************************************************)
(* The app layer (app.c): the machine smApp takes a command off cmdq and   *)
(* installs the command's submachine, which works through subcmdq with one *)
(* call of the api layer each and ends a call on a message of that layer,  *)
(* from msgq.  A 10 ms timer works the three queues off, one event at a    *)
(* time, and is set anew only by what may have left it something to do.    *)
(*                                                                         *)
(* Here the api layer and the callers (the console, the cloud) are any:    *)
(* every message and every request comes at any time.                      *)
(***************************************************************************)
EXTENDS Naturals, Sequences, FiniteSets, Functions

CONSTANTS
  Nodes,       \* the devices of the network
  Controller,  \* the controller, which is in the network's map with them
  NoNode,      \* a message or an event without a device
  Attrs,       \* what wait_action_attr asks of a device whose classes it knows
  MaxRequests  \* bound: requests of the console and the cloud

VARIABLES
  cmdq,       \* ae.cmdq
  subcmdq,    \* ae.subcmdq
  msgq,       \* ae.msgq
  stepTimer,  \* is ae.step_timer in the timer list
  appState,   \* smApp.state
  subsm,      \* ae.subsm, the submachine, or "NULL"
  subState,   \* the state of the machine subsm points to
  nodes,      \* the devices in ae.initdata.nodes_map
  listed,     \* the devices whose id is set in ae.devs
  classed,    \* the devices whose clen is not 0
  recent,     \* the devices whose lasttime is less than 15 minutes ago
  online,     \* the devices whose online is not 0
  made,       \* history: the api_calls of the last step, in order
  requests    \* bound: how many requests came

queuevars == <<cmdq, subcmdq, msgq>>
machinevars == <<appState, subsm, subState>>
devvars == <<nodes, listed, classed, recent, online>>
avars == <<queuevars, machinevars, devvars, stepTimer, made, requests>>

Event(eid, node) == [eid |-> eid, node |-> node]
ApiCall(api, node) == [api |-> api, node |-> node]

(* The submachine of each command of smApp, and the states they work in.   *)
(* E_SUB_COMMAND has the value of E_SUB_ATTR.  Nothing pushes E_INCLUDE or *)
(* E_EXCLUDE.                                                              *)
MachineOf == [
  E_INIT    |-> "smInit",
  E_CLASS   |-> "smClass",
  E_ATTR    |-> "smAttr",
  E_COMMAND |-> "smCommand"]
Working == [
  smInit    |-> "S_INITTING",
  smClass   |-> "S_CLASSING",
  smAttr    |-> "S_ATTRING",
  smCommand |-> "S_COMMANDING"]
OverEvent == [
  S_INITTING   |-> "E_INIT_OVER",
  S_CLASSING   |-> "E_CLASS_OVER",
  S_ATTRING    |-> "E_ATTR_OVER",
  S_COMMANDING |-> "E_COMMAND_OVER"]
SubEvent == [
  smClass   |-> "E_SUB_CLASS",
  smAttr    |-> "E_SUB_ATTR",
  smCommand |-> "E_SUB_ATTR"]
CallOf == [
  E_SUB_CLASS |-> "CmdZWaveRequestNodeInfo",
  E_SUB_ATTR  |-> "CmdZWaveSendData"]

Commands  == DOMAIN MachineOf
Machines  == DOMAIN Working
AppStates == Range(Working) \cup {"S_IDLEING"}
SubEvents == [eid : {"E_SUB_CLASS", "E_SUB_ATTR"}, node : Nodes \cup {NoNode}]
Messages  ==
  [eid : {"E_CLASS_OVER"}, node : Nodes]
    \cup [eid : {"E_INIT_OVER", "E_COMMAND_OVER"}, node : {NoNode}]
    \cup [eid : {"E_ATTR_OVER"}, node : Nodes \cup {NoNode}]

ASSUME NodesAssumption ==
  /\ IsFiniteSet(Nodes)
  /\ NoNode \notin Nodes /\ Controller \notin Nodes
  /\ Attrs \in Nat /\ MaxRequests \in Nat

TypeOK ==
  /\ cmdq \in Seq(Commands) /\ subcmdq \in Seq(SubEvents) /\ msgq \in Seq(Messages)
  /\ stepTimer \in BOOLEAN
  /\ appState \in AppStates /\ subState \in AppStates
  /\ subsm \in Machines \cup {"NULL"}
  /\ nodes \subseteq Nodes \cup {Controller} /\ listed \subseteq Nodes /\ classed \subseteq Nodes
  /\ recent \subseteq Nodes /\ online \subseteq Nodes
  /\ requests \in 0..MaxRequests

(* app_init.  The submachines are in their first states, which nothing     *)
(* reads before they are reset.                                            *)
AppInit ==
  /\ cmdq = <<>> /\ subcmdq = <<>> /\ msgq = <<>>
  /\ stepTimer = FALSE
  /\ appState = "S_IDLEING" /\ subsm = "NULL" /\ subState = "S_IDLEING"
  /\ nodes = {} /\ listed = {} /\ classed = {} /\ recent = {} /\ online = {}
  /\ made = <<>> /\ requests = 0

-----------------------------------------------------------------------------
(* The handlers of the submachines' working states.                        *)
wait_action_init_over ==
  /\ nodes' = Nodes \cup {Controller}    \* api_app_init_over_fetch
  /\ UNCHANGED <<listed, classed, recent, online>>

wait_action_class_over(node) ==
  /\ listed' = listed \cup {node} /\ classed' = classed \cup {node}
  /\ recent' = recent \cup {node} /\ online' = online \cup {node}
  /\ UNCHANGED nodes

wait_action_attr_over(node) ==
  /\ recent' = recent \cup ({node} \cap listed)
  /\ online' = online \cup ({node} \cap listed)
  /\ UNCHANGED <<nodes, listed, classed>>

OverAction(e) ==
  \/ e.eid = "E_INIT_OVER" /\ wait_action_init_over
  \/ e.eid = "E_CLASS_OVER" /\ wait_action_class_over(e.node)
  \/ e.eid = "E_ATTR_OVER" /\ wait_action_attr_over(e.node)
  \/ e.eid = "E_COMMAND_OVER" /\ UNCHANGED devvars

Ends(e) ==
  /\ subsm # "NULL" /\ subState = Working[subsm]
  /\ e.eid = OverEvent[subState]

(* A message that nothing waits for is taken off the queue all the same.   *)
RunMessage ==
  /\ msgq # <<>>
  /\ msgq' = Tail(msgq)
  /\ \/ /\ Ends(Head(msgq))
        /\ OverAction(Head(msgq))
        /\ subState' = "S_IDLEING"
     \/ /\ ~Ends(Head(msgq))
        /\ UNCHANGED <<devvars, subState>>
  /\ stepTimer' = TRUE
  /\ made' = <<>>
  /\ UNCHANGED <<cmdq, subcmdq, appState, subsm, requests>>

(* The timer is not set again: the message that ends the call sets it.     *)
RunWaits ==
  /\ msgq = <<>> /\ subsm # "NULL" /\ subState # "S_IDLEING"
  /\ stepTimer' = FALSE
  /\ made' = <<>>
  /\ UNCHANGED <<queuevars, machinevars, devvars, requests>>

(* The event goes to whatever submachine is there, which may not take it.  *)
Takes(machine, e) == machine \in DOMAIN SubEvent /\ e.eid = SubEvent[machine]

RunSubEvent ==
  /\ msgq = <<>> /\ subsm # "NULL" /\ subState = "S_IDLEING"
  /\ subcmdq # <<>>
  /\ subcmdq' = Tail(subcmdq)
  /\ LET e == Head(subcmdq) IN
     \/ /\ Takes(subsm, e)
        /\ made' = <<ApiCall(CallOf[e.eid], e.node)>>
        /\ subState' = Working[subsm]
     \/ /\ ~Takes(subsm, e)
        /\ made' = <<>>
        /\ UNCHANGED subState
  /\ stepTimer' = TRUE
  /\ UNCHANGED <<cmdq, msgq, appState, subsm, devvars, requests>>

RunOverTooEarly ==                                   \* mutants of RunOver
  /\ msgq = <<>> /\ subsm # "NULL" /\ subState = "S_IDLEING"
  /\ subsm' = "NULL"
  /\ appState' = "S_IDLEING"
  /\ stepTimer' = TRUE
  /\ made' = <<>>
  /\ UNCHANGED <<queuevars, subState, devvars, requests>>
RunOverKeepsState ==
  /\ msgq = <<>> /\ subsm # "NULL" /\ subState = "S_IDLEING"
  /\ subcmdq = <<>>
  /\ subsm' = "NULL"
  /\ stepTimer' = TRUE
  /\ made' = <<>>
  /\ UNCHANGED <<queuevars, appState, subState, devvars, requests>>

RunOver ==
  /\ msgq = <<>> /\ subsm # "NULL" /\ subState = "S_IDLEING"
  /\ subcmdq = <<>>
  /\ subsm' = "NULL"
  /\ appState' = "S_IDLEING"
  /\ stepTimer' = TRUE
  /\ made' = <<>>
  /\ UNCHANGED <<queuevars, subState, devvars, requests>>

(* wait_action_class and wait_action_attr push an event for each device,   *)
(* in the order of their ids; which device is which does not matter.       *)
ForEach(eid, set, n) ==
  {q \in [1..(n * Cardinality(set)) -> [eid : {eid}, node : set]] :
     \A d \in set : Cardinality({i \in DOMAIN q : q[i].node = d}) = n}

Asked == nodes \ {Controller}

InitCalls == <<
  ApiCall("CmdZWaveGetVersion", NoNode),
  ApiCall("CmdSerialApiGetInitData", NoNode),
  ApiCall("CmdSerialApiGetCapabilities", NoNode),
  ApiCall("CmdMemoryGetId", NoNode),
  ApiCall("CmdZWaveGetSucNodeId", NoNode)>>

CommandAction(eid) ==
  \/ /\ eid = "E_INIT"
     /\ made' = InitCalls
     /\ UNCHANGED <<subcmdq, listed>>
  \/ /\ eid = "E_CLASS"
     /\ \E q \in ForEach("E_SUB_CLASS", Asked, 1) : subcmdq' = subcmdq \o q
     /\ listed' = listed \cup Asked
     /\ made' = <<>>
  \/ /\ eid = "E_ATTR"
     /\ \E q \in ForEach("E_SUB_ATTR", Asked \cap classed, Attrs) :
          subcmdq' = subcmdq \o q
     /\ made' = <<>>
     /\ UNCHANGED listed
  \/ /\ eid = "E_COMMAND"
     /\ made' = <<>>
     /\ UNCHANGED <<subcmdq, listed>>

(* smInit is reset to its working state, the others to S_IDLEING.          *)
ResetState(machine) == IF machine = "smInit" THEN Working[machine] ELSE "S_IDLEING"

RunCommand ==
  /\ msgq = <<>> /\ subsm = "NULL" /\ cmdq # <<>>
  /\ cmdq' = Tail(cmdq)
  /\ CommandAction(Head(cmdq))
  /\ LET machine == MachineOf[Head(cmdq)] IN
     /\ subsm' = machine
     /\ subState' = ResetState(machine)
     /\ appState' = Working[machine]
  /\ stepTimer' = TRUE
  /\ UNCHANGED <<msgq, nodes, classed, recent, online, requests>>

RunNothing ==
  /\ msgq = <<>> /\ subsm = "NULL" /\ cmdq = <<>>
  /\ stepTimer' = FALSE
  /\ made' = <<>>
  /\ UNCHANGED <<queuevars, machinevars, devvars, requests>>

app_run ==
  /\ stepTimer
  /\ RunMessage \/ RunWaits \/ RunSubEvent \/ RunOver \/ RunCommand \/ RunNothing

-----------------------------------------------------------------------------
(* The callers of app_util_push_cmd and app_push; each sets the timer.     *)
Request(cmds, events) ==
  /\ requests < MaxRequests
  /\ requests' = requests + 1
  /\ cmdq' = cmdq \o cmds
  /\ subcmdq' = subcmdq \o events
  /\ stepTimer' = TRUE
  /\ made' = <<>>
  /\ UNCHANGED <<msgq, machinevars, devvars>>

do_cmd_init == Request(<<"E_INIT", "E_CLASS", "E_ATTR">>, <<>>)

(* do_cmd_get, do_cmd_set and zwave_device_light_onoff: a get of an        *)
(* attribute pushes one event, a set one and another for the get that      *)
(* follows, a class or attribute the gateway does not know none.           *)
DeviceCommand ==
  \E node \in Nodes :
    LET e == Event("E_SUB_ATTR", node) IN
    \E events \in {<<>>, <<e>>, <<e, e>>} : Request(<<"E_COMMAND">>, events)

(* do_cmd_list and zwave_device_list ask for the attributes that neither   *)
(* store has, without a command that would do the asking.                  *)
DeviceList ==
  \E unknown \in SUBSET (listed \cap classed) \ {{}}, n \in 1..Attrs :
    \E q \in ForEach("E_SUB_ATTR", unknown, n) : Request(<<>>, q)

(* app_util_push_msg, called by the api layer.                             *)
MessageWithoutStep(e) ==                             \* mutant of
  /\ msgq' = Append(msgq, e)                         \* app_util_push_msg
  /\ made' = <<>>
  /\ UNCHANGED <<cmdq, subcmdq, machinevars, devvars, stepTimer, requests>>

app_util_push_msg(e) ==
  /\ msgq' = Append(msgq, e)
  /\ stepTimer' = TRUE
  /\ made' = <<>>
  /\ UNCHANGED <<cmdq, subcmdq, machinevars, devvars, requests>>

TimePasses(node) ==
  /\ recent' = recent \ {node}
  /\ made' = <<>>
  /\ UNCHANGED <<queuevars, machinevars, nodes, listed, classed, online,
                 stepTimer, requests>>

app_online_check ==
  /\ online' = online \ (listed \ recent)
  /\ made' = <<>>
  /\ UNCHANGED <<queuevars, machinevars, nodes, listed, classed, recent,
                 stepTimer, requests>>

Callers == do_cmd_init \/ DeviceCommand \/ DeviceList

Clock == app_online_check \/ \E node \in recent : TimePasses(node)

AppNext ==
  \/ app_run
  \/ Callers
  \/ Clock
  \/ \E e \in Messages : app_util_push_msg(e)

AppSpec == AppInit /\ [][AppNext]_avars

-----------------------------------------------------------------------------
(* Properties. *)

(* No wake-up is lost: whenever app_run would find something to do, its    *)
(* timer is set, although it does not set it while a call is under way and *)
(* the handlers of the submachines set it or do not.                       *)
WorkHasTimer ==
  \/ msgq # <<>>
  \/ subsm # "NULL" /\ subState = "S_IDLEING"
  \/ subsm = "NULL" /\ cmdq # <<>>
  => stepTimer

(* smApp, which has handlers in S_IDLEING only, leaves it with its         *)
(* submachine and comes back with the submachine gone: a command never     *)
(* starts while another is under way, and none finds smApp deaf to it.     *)
MachinesAgree ==
  /\ appState = "S_IDLEING" <=> subsm = "NULL"
  /\ subsm # "NULL" => appState = Working[subsm] /\ subState \in {"S_IDLEING", appState}

(* The devices whose classes wait to be asked for are asked by smClass: no *)
(* other submachine gets at their events, and none is left behind.         *)
ClassEventsHaveMachine ==
  (\E i \in DOMAIN subcmdq : subcmdq[i].eid = "E_SUB_CLASS") => subsm = "smClass"
=============================================================================
