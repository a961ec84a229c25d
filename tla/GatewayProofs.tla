--------------------------- MODULE GatewayProofs ---------------------------
(***************************************************************************)
(* The safety of the app layer, for every set of devices and every number  *)
(* of attributes and requests, first over any api layer: AppSpec lets      *)
(* every message come at any time.  IInv is inductive: what a submachine   *)
(* does with an event and where smApp stands are told by MachinesAgree,    *)
(* and which events wait for whom by ClassEventsHaveMachine.               *)
(*                                                                         *)
(* Then over the api layer, which implements that: what it tells in a step *)
(* is one of the messages App expects, and a step of it touches the app    *)
(* layer in no other way.  So the same invariants hold in the composition, *)
(* for every set of devices and calls, of bytes per frame, and with        *)
(* devices that answer or not.                                             *)
(***************************************************************************)
EXTENDS Gateway, SequenceTheorems, FiniteSetTheorems, TLAPS

IInv ==
  /\ TypeOK
  /\ WorkHasTimer
  /\ MachinesAgree
  /\ ClassEventsHaveMachine

-----------------------------------------------------------------------------
(* The tables, which the provers do not expand in each step.               *)
LEMMA Tables ==
  /\ Commands = {"E_INIT", "E_CLASS", "E_ATTR", "E_COMMAND"}
  /\ Machines = {"smInit", "smClass", "smAttr", "smCommand"}
  /\ AppStates =
       {"S_IDLEING", "S_INITTING", "S_CLASSING", "S_ATTRING", "S_COMMANDING"}
  /\ Range(OverEvent) =
       {"E_INIT_OVER", "E_CLASS_OVER", "E_ATTR_OVER", "E_COMMAND_OVER"}
  /\ \A m \in Machines : Working[m] \in AppStates \ {"S_IDLEING"}
  /\ \A m \in Machines : ResetState(m) \in {"S_IDLEING", Working[m]}
  /\ \A c \in Commands : MachineOf[c] \in Machines
  /\ MachineOf["E_CLASS"] = "smClass"
<1>1. /\ Commands = {"E_INIT", "E_CLASS", "E_ATTR", "E_COMMAND"}
      /\ Machines = {"smInit", "smClass", "smAttr", "smCommand"}
  BY DEF Commands, MachineOf, Machines, Working
<1>2. Range(Working) = {"S_INITTING", "S_CLASSING", "S_ATTRING", "S_COMMANDING"}
  BY DEF Range, Working
<1>3. AppStates =
       {"S_IDLEING", "S_INITTING", "S_CLASSING", "S_ATTRING", "S_COMMANDING"}
  BY <1>2 DEF AppStates
<1>4. Range(OverEvent) =
       {"E_INIT_OVER", "E_CLASS_OVER", "E_ATTR_OVER", "E_COMMAND_OVER"}
  BY DEF Range, OverEvent
<1>5. \A m \in Machines : Working[m] \in AppStates \ {"S_IDLEING"}
  BY <1>1, <1>3 DEF Working
<1>6. \A m \in Machines : ResetState(m) \in {"S_IDLEING", Working[m]}
  BY DEF ResetState
<1>7. (\A c \in Commands : MachineOf[c] \in Machines) /\ MachineOf["E_CLASS"] = "smClass"
  BY <1>1 DEF MachineOf
<1> QED
  BY <1>1, <1>3, <1>4, <1>5, <1>6, <1>7

LEMMA FunctionIsSeq ==
  ASSUME NEW S, NEW k \in Nat, NEW q \in [1..k -> S]
  PROVE  q \in Seq(S)
  OBVIOUS

(* What the handlers of E_CLASS and E_ATTR push: a sequence of events.     *)
LEMMA ForEachType ==
  ASSUME NEW eid, NEW set, IsFiniteSet(set), NEW n \in Nat,
         NEW q \in ForEach(eid, set, n)
  PROVE  q \in Seq([eid : {eid}, node : set])
<1> DEFINE S == [eid : {eid}, node : set]
           k == n * Cardinality(set)
<1>1. Cardinality(set) \in Nat
  BY FS_CardinalityType
<1>2. k \in Nat
  BY <1>1
<1>3. q \in [1..k -> S]
  BY DEF ForEach
<1> HIDE DEF S, k
<1>4. q \in Seq(S)
  BY <1>2, <1>3, FunctionIsSeq
<1> QED
  BY <1>4 DEF S


(* What a step leaves of ClassEventsHaveMachine: no event for the classes  *)
(* of a device in the part of a sequence it adds or keeps.                 *)
NoClassEvent(q) == \A i \in DOMAIN q : q[i].eid # "E_SUB_CLASS"

LEMMA ClassEvents ==
  ClassEventsHaveMachine <=> (subsm = "smClass" \/ NoClassEvent(subcmdq))
  BY DEF ClassEventsHaveMachine, NoClassEvent

LEMMA OthersAreNoClassEvents ==
  ASSUME NEW set, NEW q \in Seq([eid : {"E_SUB_ATTR"}, node : set])
  PROVE  NoClassEvent(q)
<1> DEFINE E == [eid : {"E_SUB_ATTR"}, node : set]
<1>1. \A x \in E : x.eid # "E_SUB_CLASS"
  OBVIOUS
<1> HIDE DEF E
<1>2. \A i \in DOMAIN q : q[i] \in E
  BY LenProperties DEF E
<1> QED
  BY <1>1, <1>2 DEF NoClassEvent

LEMMA NoClassEventTail ==
  ASSUME NEW S, NEW q \in Seq(S), q # <<>>, NoClassEvent(q)
  PROVE  NoClassEvent(Tail(q))
  BY HeadTailProperties, LenProperties DEF NoClassEvent

LEMMA NoClassEventConcat ==
  ASSUME NEW S, NEW p \in Seq(S), NEW q \in Seq(S),
         NoClassEvent(p), NoClassEvent(q)
  PROVE  NoClassEvent(p \o q)
<1>1. \A i \in 1..(Len(p) + Len(q)) :
        (p \o q)[i] = IF i <= Len(p) THEN p[i] ELSE q[i - Len(p)]
  BY ConcatProperties
<1>2. p \o q \in Seq(S) /\ Len(p \o q) = Len(p) + Len(q)
  BY ConcatProperties
<1>3. /\ DOMAIN p = 1..Len(p) /\ DOMAIN q = 1..Len(q)
      /\ DOMAIN (p \o q) = 1..(Len(p) + Len(q))
      /\ Len(p) \in Nat /\ Len(q) \in Nat
  BY <1>2, LenProperties
<1>4. ASSUME NEW i \in 1..(Len(p) + Len(q))
      PROVE  (p \o q)[i].eid # "E_SUB_CLASS"
  <2>1. CASE i <= Len(p)
    BY <1>1, <1>3, <2>1 DEF NoClassEvent
  <2>2. CASE ~(i <= Len(p))
    <3>1. i - Len(p) \in 1..Len(q)
      BY <1>3, <2>2
    <3> QED
      BY <1>1, <1>3, <2>2, <3>1 DEF NoClassEvent
  <2> QED
    BY <2>1, <2>2
<1> QED
  BY <1>3, <1>4 DEF NoClassEvent

LEMMA InitIInv == AppInit => IInv
<1> SUFFICES ASSUME AppInit PROVE IInv
  OBVIOUS
<1> USE Tables, NodesAssumption DEF AppInit
<1>1. TypeOK
  <2>1. /\ cmdq \in Seq(Commands) /\ subcmdq \in Seq(SubEvents)
        /\ msgq \in Seq(Messages)
    OBVIOUS
  <2>2. stepTimer \in BOOLEAN /\ appState \in AppStates /\ subState \in AppStates
    OBVIOUS
  <2> QED
    BY <2>1, <2>2 DEF TypeOK
<1>2. WorkHasTimer /\ MachinesAgree /\ ClassEventsHaveMachine
  BY DEF WorkHasTimer, MachinesAgree, ClassEventsHaveMachine
<1> QED
  BY <1>1, <1>2 DEF IInv

-----------------------------------------------------------------------------
(* A message: taken by the submachine that waits for it, or dropped.       *)
LEMMA RunMessageKeepsIInv ==
  ASSUME IInv, RunMessage
  PROVE  IInv'
<1> USE Tables DEF IInv
<1>1. /\ msgq # <<>> /\ msgq' = Tail(msgq) /\ stepTimer' = TRUE
      /\ UNCHANGED <<cmdq, subcmdq, appState, subsm, requests>>
  BY DEF RunMessage
<1>2. Head(msgq) \in Messages /\ msgq' \in Seq(Messages)
  BY <1>1, HeadTailProperties DEF TypeOK
<1>3. \/ subState' = "S_IDLEING"
      \/ UNCHANGED subState
  BY DEF RunMessage
<1>4. /\ nodes' \subseteq Nodes \cup {Controller}
      /\ listed' \subseteq Nodes /\ classed' \subseteq Nodes
      /\ recent' \subseteq Nodes /\ online' \subseteq Nodes
  <2>1. CASE UNCHANGED devvars
    BY <2>1 DEF devvars, TypeOK
  <2>2. CASE wait_action_init_over
    BY <2>2 DEF wait_action_init_over, TypeOK
  <2>3. CASE Head(msgq).eid = "E_CLASS_OVER" /\ wait_action_class_over(Head(msgq).node)
    <3>1. Head(msgq).node \in Nodes
      BY <1>2, <2>3 DEF Messages
    <3> QED
      BY <2>3, <3>1 DEF wait_action_class_over, TypeOK
  <2>4. CASE wait_action_attr_over(Head(msgq).node)
    BY <2>4 DEF wait_action_attr_over, TypeOK
  <2> QED
    BY <2>1, <2>2, <2>3, <2>4 DEF RunMessage, OverAction
<1>5. TypeOK'
  BY <1>1, <1>2, <1>3, <1>4 DEF TypeOK
<1>6. WorkHasTimer' /\ MachinesAgree' /\ ClassEventsHaveMachine'
  BY <1>1, <1>3 DEF WorkHasTimer, MachinesAgree, ClassEventsHaveMachine
<1> QED
  BY <1>5, <1>6

LEMMA RunWaitsKeepsIInv ==
  ASSUME IInv, RunWaits
  PROVE  IInv'
<1> USE Tables DEF IInv, RunWaits
<1>1. TypeOK'
  BY DEF TypeOK, queuevars, machinevars, devvars
<1>2. WorkHasTimer' /\ MachinesAgree' /\ ClassEventsHaveMachine'
  BY DEF WorkHasTimer, MachinesAgree, ClassEventsHaveMachine, queuevars, machinevars
<1> QED
  BY <1>1, <1>2

(* An event: its call is made, or it is dropped.                           *)
LEMMA RunSubEventKeepsIInv ==
  ASSUME IInv, RunSubEvent
  PROVE  IInv'
<1> USE Tables DEF IInv
<1>1. /\ subsm # "NULL" /\ subState = "S_IDLEING" /\ subcmdq # <<>>
      /\ subcmdq' = Tail(subcmdq) /\ stepTimer' = TRUE
      /\ UNCHANGED <<cmdq, msgq, appState, subsm, devvars, requests>>
  BY DEF RunSubEvent
<1>2. subState' \in {subState, Working[subsm]} /\ subsm \in Machines
  BY <1>1 DEF RunSubEvent, TypeOK
<1>3. subcmdq' \in Seq(SubEvents)
  BY <1>1, HeadTailProperties DEF TypeOK
<1>4. TypeOK'
  BY <1>1, <1>2, <1>3 DEF TypeOK, devvars
<1>5. WorkHasTimer' /\ MachinesAgree'
  BY <1>1, <1>2 DEF WorkHasTimer, MachinesAgree
<1>6. ClassEventsHaveMachine'
  <2>1. CASE subsm = "smClass"
    BY <1>1, <2>1 DEF ClassEventsHaveMachine
  <2>2. CASE subsm # "smClass"
    <3>1. NoClassEvent(subcmdq)
      BY <2>2, ClassEvents
    <3>2. NoClassEvent(subcmdq')
      BY <1>1, <3>1, NoClassEventTail DEF TypeOK
    <3> QED
      BY <3>2 DEF ClassEventsHaveMachine, NoClassEvent
  <2> QED
    BY <2>1, <2>2
<1> QED
  BY <1>4, <1>5, <1>6

(* The end of a command: nothing waits for its submachine any more.        *)
LEMMA RunOverKeepsIInv ==
  ASSUME IInv, RunOver
  PROVE  IInv'
<1> USE Tables DEF IInv, RunOver
<1>1. TypeOK'
  BY DEF TypeOK, queuevars, devvars
<1>2. WorkHasTimer' /\ MachinesAgree' /\ ClassEventsHaveMachine'
  BY DEF WorkHasTimer, MachinesAgree, ClassEventsHaveMachine, queuevars
<1> QED
  BY <1>1, <1>2

(* The start of a command: E_CLASS alone pushes events for the classes,    *)
(* and installs smClass.                                                   *)
LEMMA CommandActionType ==
  ASSUME IInv, NEW eid \in Commands, CommandAction(eid)
  PROVE  /\ subcmdq' \in Seq(SubEvents)
         /\ listed' \subseteq Nodes
         /\ eid # "E_CLASS" /\ NoClassEvent(subcmdq) => NoClassEvent(subcmdq')
<1> USE NodesAssumption DEF IInv
<1>1. Asked \subseteq Nodes
  BY DEF Asked, TypeOK
<1>2. IsFiniteSet(Asked) /\ IsFiniteSet(Asked \cap classed)
  BY <1>1, FS_Subset
<1>3. CASE eid = "E_CLASS"
  <2>1. PICK q \in ForEach("E_SUB_CLASS", Asked, 1) : subcmdq' = subcmdq \o q
    BY <1>3 DEF CommandAction
  <2>2. q \in Seq([eid : {"E_SUB_CLASS"}, node : Asked])
    BY <1>2, ForEachType
  <2>3. q \in Seq(SubEvents)
    <3>1. [eid : {"E_SUB_CLASS"}, node : Asked] \subseteq SubEvents
      BY <1>1 DEF SubEvents
    <3> QED
      BY <2>2, <3>1, SeqMonotonic
  <2>4. listed' = listed \cup Asked
    BY <1>3 DEF CommandAction
  <2> QED
    BY <1>1, <1>3, <2>1, <2>3, <2>4, ConcatProperties DEF TypeOK
<1>4. CASE eid = "E_ATTR"
  <2>1. PICK q \in ForEach("E_SUB_ATTR", Asked \cap classed, Attrs) :
          subcmdq' = subcmdq \o q
    BY <1>4 DEF CommandAction
  <2> DEFINE E == [eid : {"E_SUB_ATTR"}, node : Asked \cap classed]
  <2>2. q \in Seq(E)
    BY <1>2, ForEachType
  <2>3. q \in Seq(SubEvents)
    <3>1. E \subseteq SubEvents
      BY <1>1 DEF SubEvents
    <3> QED
      BY <2>2, <3>1, SeqMonotonic
  <2>4. NoClassEvent(q)
    BY <2>2, OthersAreNoClassEvents
  <2>5. listed' = listed
    BY <1>4 DEF CommandAction
  <2> QED
    BY <2>1, <2>3, <2>4, <2>5, ConcatProperties, NoClassEventConcat DEF TypeOK
<1>5. CASE eid \in {"E_INIT", "E_COMMAND"}
  BY <1>5 DEF CommandAction, TypeOK
<1> QED
  BY <1>3, <1>4, <1>5, Tables

LEMMA RunCommandKeepsIInv ==
  ASSUME IInv, RunCommand
  PROVE  IInv'
<1> USE Tables DEF IInv
<1> DEFINE eid == Head(cmdq)
           machine == MachineOf[eid]
<1>1. /\ subsm = "NULL" /\ cmdq # <<>> /\ cmdq' = Tail(cmdq)
      /\ CommandAction(eid)
      /\ subsm' = machine /\ subState' = ResetState(machine)
      /\ appState' = Working[machine] /\ stepTimer' = TRUE
      /\ UNCHANGED <<msgq, nodes, classed, recent, online, requests>>
  BY DEF RunCommand
<1>2. eid \in Commands /\ cmdq' \in Seq(Commands)
  BY <1>1, HeadTailProperties DEF TypeOK
<1>3. machine \in Machines
  BY <1>2
<1>4. /\ subcmdq' \in Seq(SubEvents) /\ listed' \subseteq Nodes
      /\ eid # "E_CLASS" /\ NoClassEvent(subcmdq) => NoClassEvent(subcmdq')
  BY <1>1, <1>2, CommandActionType
<1>5. /\ subState' \in {"S_IDLEING", appState'}
      /\ appState' \in AppStates \ {"S_IDLEING"} /\ subState' \in AppStates
      /\ subsm' # "NULL"
  BY <1>1, <1>3
<1>6. TypeOK'
  BY <1>1, <1>2, <1>3, <1>4, <1>5 DEF TypeOK
<1>7. WorkHasTimer' /\ MachinesAgree'
  BY <1>1, <1>5 DEF WorkHasTimer, MachinesAgree
<1>8. ClassEventsHaveMachine'
  <2>1. CASE eid = "E_CLASS"
    BY <1>1, <2>1 DEF ClassEventsHaveMachine
  <2>2. CASE eid # "E_CLASS"
    <3>1. NoClassEvent(subcmdq)
      BY <1>1, ClassEvents
    <3> QED
      BY <1>4, <2>2, <3>1 DEF ClassEventsHaveMachine, NoClassEvent
  <2> QED
    BY <2>1, <2>2
<1> QED
  BY <1>6, <1>7, <1>8

LEMMA RunNothingKeepsIInv ==
  ASSUME IInv, RunNothing
  PROVE  IInv'
<1> USE Tables DEF IInv, RunNothing
<1>1. TypeOK'
  BY DEF TypeOK, queuevars, machinevars, devvars
<1>2. WorkHasTimer' /\ MachinesAgree' /\ ClassEventsHaveMachine'
  BY DEF WorkHasTimer, MachinesAgree, ClassEventsHaveMachine, queuevars, machinevars
<1> QED
  BY <1>1, <1>2

LEMMA AppRunKeepsIInv ==
  ASSUME IInv, app_run
  PROVE  IInv'
  BY RunMessageKeepsIInv, RunWaitsKeepsIInv, RunSubEventKeepsIInv,
     RunOverKeepsIInv, RunCommandKeepsIInv, RunNothingKeepsIInv DEF app_run

-----------------------------------------------------------------------------
(* What comes from outside: requests, messages and the clock.              *)
LEMMA RequestKeepsIInv ==
  ASSUME IInv, NEW cmds \in Seq(Commands), NEW events \in Seq(SubEvents),
         NoClassEvent(events), Request(cmds, events)
  PROVE  IInv'
<1> USE Tables, NodesAssumption DEF IInv, Request
<1>1. cmdq' \in Seq(Commands) /\ subcmdq' \in Seq(SubEvents)
  BY ConcatProperties DEF TypeOK
<1>2. requests' \in 0..MaxRequests
  BY DEF TypeOK
<1>3. TypeOK'
  BY <1>1, <1>2 DEF TypeOK, machinevars, devvars
<1>4. WorkHasTimer' /\ MachinesAgree'
  BY DEF WorkHasTimer, MachinesAgree, machinevars
<1>5. ClassEventsHaveMachine'
  <2>1. CASE subsm = "smClass"
    BY <2>1 DEF ClassEventsHaveMachine, machinevars
  <2>2. CASE subsm # "smClass"
    <3>1. NoClassEvent(subcmdq)
      BY <2>2, ClassEvents
    <3>2. NoClassEvent(subcmdq')
      BY <3>1, NoClassEventConcat DEF TypeOK
    <3> QED
      BY <3>2 DEF ClassEventsHaveMachine, NoClassEvent
  <2> QED
    BY <2>1, <2>2
<1> QED
  BY <1>3, <1>4, <1>5

LEMMA CallersKeepIInv ==
  ASSUME IInv, Callers
  PROVE  IInv'
<1> USE Tables, NodesAssumption
<1>1. CASE do_cmd_init
  <2>1. <<"E_INIT", "E_CLASS", "E_ATTR">> \in Seq(Commands) /\ <<>> \in Seq(SubEvents)
    OBVIOUS
  <2>2. NoClassEvent(<<>>)
    BY DEF NoClassEvent
  <2> QED
    BY <1>1, <2>1, <2>2, RequestKeepsIInv DEF do_cmd_init
<1>2. CASE DeviceCommand
  <2>1. PICK node \in Nodes :
          LET e == Event("E_SUB_ATTR", node) IN
          \E events \in {<<>>, <<e>>, <<e, e>>} : Request(<<"E_COMMAND">>, events)
    BY <1>2 DEF DeviceCommand
  <2> DEFINE e == Event("E_SUB_ATTR", node)
  <2>2. PICK events \in {<<>>, <<e>>, <<e, e>>} : Request(<<"E_COMMAND">>, events)
    BY <2>1
  <2>3. e \in SubEvents /\ e.eid = "E_SUB_ATTR"
    BY DEF Event, SubEvents
  <2> HIDE DEF e
  <2>4. events \in Seq(SubEvents) /\ NoClassEvent(events)
    <3>1. CASE events = <<>>
      BY <3>1 DEF NoClassEvent
    <3>2. CASE events = <<e>>
      BY <2>3, <3>2 DEF NoClassEvent
    <3>3. CASE events = <<e, e>>
      BY <2>3, <3>3 DEF NoClassEvent
    <3> QED
      BY <2>2, <3>1, <3>2, <3>3
  <2>5. <<"E_COMMAND">> \in Seq(Commands)
    OBVIOUS
  <2> QED
    BY <2>2, <2>4, <2>5, RequestKeepsIInv
<1>3. CASE DeviceList
  <2>1. PICK unknown \in SUBSET (listed \cap classed), n \in 1..Attrs :
          \E q \in ForEach("E_SUB_ATTR", unknown, n) : Request(<<>>, q)
    BY <1>3 DEF DeviceList
  <2>2. PICK q \in ForEach("E_SUB_ATTR", unknown, n) : Request(<<>>, q)
    BY <2>1
  <2>3. unknown \subseteq Nodes /\ IsFiniteSet(unknown) /\ n \in Nat
    BY FS_Subset DEF IInv, TypeOK
  <2> DEFINE E == [eid : {"E_SUB_ATTR"}, node : unknown]
  <2>4. q \in Seq(E)
    BY <2>3, ForEachType
  <2>5. q \in Seq(SubEvents)
    <3>1. E \subseteq SubEvents
      BY <2>3 DEF SubEvents
    <3> QED
      BY <2>4, <3>1, SeqMonotonic
  <2>6. NoClassEvent(q)
    BY <2>4, OthersAreNoClassEvents
  <2>7. <<>> \in Seq(Commands)
    OBVIOUS
  <2> QED
    BY <2>2, <2>5, <2>6, <2>7, RequestKeepsIInv
<1> QED
  BY <1>1, <1>2, <1>3 DEF Callers

LEMMA MessageKeepsIInv ==
  ASSUME IInv, NEW e \in Messages, app_util_push_msg(e)
  PROVE  IInv'
<1> USE Tables DEF IInv, app_util_push_msg
<1>1. msgq' \in Seq(Messages)
  BY DEF TypeOK
<1>2. TypeOK'
  BY <1>1 DEF TypeOK, machinevars, devvars
<1>3. WorkHasTimer' /\ MachinesAgree' /\ ClassEventsHaveMachine'
  BY DEF WorkHasTimer, MachinesAgree, ClassEventsHaveMachine, machinevars
<1> QED
  BY <1>2, <1>3

LEMMA ClockKeepsIInv ==
  ASSUME IInv, Clock
  PROVE  IInv'
<1> USE Tables DEF IInv
<1>1. /\ UNCHANGED <<queuevars, machinevars, nodes, listed, classed, stepTimer, requests>>
      /\ recent' \subseteq recent /\ online' \subseteq online
  BY DEF Clock, app_online_check, TimePasses
<1>2. TypeOK'
  BY <1>1 DEF TypeOK, queuevars, machinevars
<1>3. WorkHasTimer' /\ MachinesAgree' /\ ClassEventsHaveMachine'
  BY <1>1 DEF WorkHasTimer, MachinesAgree, ClassEventsHaveMachine, queuevars, machinevars
<1> QED
  BY <1>2, <1>3

LEMMA StutterKeepsIInv ==
  ASSUME IInv, UNCHANGED avars
  PROVE  IInv'
  BY DEF IInv, avars, queuevars, machinevars, devvars, TypeOK, WorkHasTimer,
         MachinesAgree, ClassEventsHaveMachine

LEMMA NextKeepsIInv == IInv /\ [AppNext]_avars => IInv'
  BY AppRunKeepsIInv, CallersKeepIInv, ClockKeepsIInv, MessageKeepsIInv,
     StutterKeepsIInv DEF AppNext

-----------------------------------------------------------------------------
(* The inductive invariant holds in every state of the app layer (app.c),  *)
(* whatever the api layer tells it and whoever makes requests.             *)
THEOREM AppInvariant == AppSpec => []IInv
  BY InitIInv, NextKeepsIInv, PTL DEF AppSpec

(* Every variable of app.c keeps its type; no event reaches subcmdq for    *)
(* the controller or for a device that is not in the network.              *)
THEOREM AppTypes == AppSpec => []TypeOK
  BY AppInvariant, PTL DEF IInv

(* app_run's timer is set whenever app_run has something to do.            *)
THEOREM NoWakeUpIsLost == AppSpec => []WorkHasTimer
  BY AppInvariant, PTL DEF IInv

(* smApp is in S_IDLEING exactly while no submachine is installed.         *)
THEOREM MachinesKeepStep == AppSpec => []MachinesAgree
  BY AppInvariant, PTL DEF IInv

(* While events for the classes of devices wait, smClass is installed.     *)
THEOREM ClassEventsAreForSmClass == AppSpec => []ClassEventsHaveMachine
  BY AppInvariant, PTL DEF IInv

-----------------------------------------------------------------------------
Told == {"none", "E_INIT_OVER", "E_CLASS_OVER", "E_COMMAND_OVER", "E_ATTR_OVER"}

(* What one state_machine_step of the api layer tells.                     *)
LEMMA StepTells ==
  ASSUME NEW e, NEW qs, NEW l, Api!state_machine_step(e, qs, l)
  PROVE  said' \in Told
<1>1. ASSUME Api!AsyncData(e) PROVE said' \in Told
  BY <1>1 DEF Api!AsyncData, Told
<1>2. ASSUME Api!running_action_data(qs) PROVE said' \in Told
  <2>1. \A s \in DOMAIN Api!Message : Api!Message[s] \in Told
    BY DEF Api!Message, Told
  <2> QED
    BY <1>2, <2>1 DEF Api!running_action_data, Told
<1>3. CASE Api!IdleStep(e, qs, l)
  BY <1>1, <1>3 DEF Api!IdleStep, Told
<1>4. CASE Api!RunningStep(e, qs, l)
  BY <1>1, <1>2, <1>4 DEF Api!RunningStep, Told
<1> QED
  BY <1>3, <1>4 DEF Api!state_machine_step

LEMMA EventTells ==
  ASSUME NEW qr, NEW qs, NEW l, Api!handlerOneEvent(qr, qs, l)
  PROVE  said' \in Told
  BY StepTells DEF Api!handlerOneEvent, Told

LEMMA BytesTell ==
  ASSUME \/ Api!AckByte \/ Api!Reply \/ Api!Stray
         \/ Api!NextByte \/ Api!LastByte \/ Api!api_beat_timer_callback
  PROVE  said' \in Told
  BY EventTells DEF Api!AckByte, Api!Reply, Api!Stray, Api!FirstByte,
     Api!NextByte, Api!LastByte, Api!api_step, Api!api_beat_timer_callback

(* Telling is a step of the app layer, or none.                            *)
LEMMA TellIsAppStep ==
  ASSUME said' \in Told, Tell
  PROVE  [AppNext]_avars
<1>1. CASE said' = "none"
  BY <1>1 DEF Tell
<1>2. CASE said' # "none"
  <2>1. PICK node \in About : app_util_push_msg(Event(said', node))
    BY <1>2 DEF Tell
  <2>2. Event(said', node) \in Messages
    BY <1>2, <2>1 DEF Told, About, Event, Messages
  <2> QED
    BY <2>1, <2>2 DEF AppNext
<1> QED
  BY <1>1, <1>2

LEMMA GatewayStepIsAppStep == [Next]_vars => [AppNext]_avars
<1> SUFFICES ASSUME [Next]_vars PROVE [AppNext]_avars
  OBVIOUS
<1>1. CASE UNCHANGED vars
  BY <1>1 DEF vars
<1>2. CASE Run
  BY <1>2 DEF Run, AppNext
<1>3. CASE Others
  BY <1>3 DEF Others, AppNext
<1>4. CASE AckByte \/ Reply \/ Report \/ NextByte \/ LastByte \/ api_beat_timer_callback
  BY <1>4, BytesTell, TellIsAppStep
     DEF AckByte, Reply, Report, NextByte, LastByte, api_beat_timer_callback
<1>5. CASE api_send_timer_callback
  <2>1. Event("E_ATTR_OVER", NoNode) \in Messages
    BY DEF Event, Messages
  <2> QED
    BY <1>5, <2>1 DEF api_send_timer_callback, AppNext
<1>6. CASE ReplyMissing
  BY <1>6 DEF ReplyMissing
<1> QED
  BY <1>1, <1>2, <1>3, <1>4, <1>5, <1>6 DEF Next

-----------------------------------------------------------------------------
(* The gateway's app layer behaves as App says, whatever the api layer     *)
(* (api.c) and the devices do.                                             *)
THEOREM GatewayImplementsApp == Spec => AppSpec
<1>1. Init => AppInit
  BY DEF Init
<1> QED
  BY <1>1, GatewayStepIsAppStep, PTL DEF Spec, AppSpec

(* The types of app.c's variables, over the api layer.                     *)
THEOREM GatewayTypes == Spec => []TypeOK
  BY GatewayImplementsApp, AppTypes, PTL

(* No wake-up of app_run is lost, over the api layer.                      *)
THEOREM GatewayWakesUp == Spec => []WorkHasTimer
  BY GatewayImplementsApp, NoWakeUpIsLost, PTL

(* smApp and its submachine agree, over the api layer.                     *)
THEOREM GatewayMachinesAgree == Spec => []MachinesAgree
  BY GatewayImplementsApp, MachinesKeepStep, PTL

(* The events for devices' classes are smClass's, over the api layer.      *)
THEOREM GatewayClassEvents == Spec => []ClassEventsHaveMachine
  BY GatewayImplementsApp, ClassEventsAreForSmClass, PTL
=============================================================================
