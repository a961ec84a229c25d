----------------------------- MODULE ApiProofs -----------------------------
(***************************************************************************)
(* Proofs about module Api.                                                *)
(*                                                                         *)
(* IInv is inductive whatever fails below.  Its last conjunct counts the   *)
(* places of a call in qSend and qSendBack (Tally): a handler moves a call *)
(* from one to the other or out of both, so the lemmas about a handler say *)
(* what its Append and Tail do to the count.                               *)
(*                                                                         *)
(* WInv, for a reliable link and module, adds that a call put back has one *)
(* in qSend to restore it.  FInv adds that what was handed to the session  *)
(* and not yet answered is the one frame that smApi waits for: it is in    *)
(* the session, or its E_ACK is in qSend, or it is the call of the api     *)
(* layer's own that qSend still holds.                                     *)
(***************************************************************************)
EXTENDS Api, SequenceTheorems, FiniteSetTheorems, FunctionTheorems, TLAPS

Remove == "CmdZWaveRemoveNodeFromNetwork"

(* Which command's machine has a state; the states of the commands that    *)
(* one frame answers are left to their commands but for one.               *)
Fits(m) ==
  /\ m.state \in {"S_WAIT_REMOVE_RESPONSE", "S_WAIT_LEAVE_OR_CANCLE",
                  "S_WAIT_LEAVED_NODE_S1", "S_WAIT_LEAVED_NODE_S2",
                  "S_WAIT_LEAVE_COMP"} => m.api = Remove
  /\ m.state \in {"S_WAIT_CTR_STATUS", "S_WAIT_ADDED_OR_CANCLE",
                  "S_WAIT_ADDED_NODE", "S_WAIT_ADD_COMP",
                  "S_WAIT_CANCLE_CONFIRM", "S_WAIT_CANCLE_COMP"}
       => m.api = "CmdZWaveAddNodeToNetwork"
  /\ m.state \in {"S_WAIT_NODE_INFO_ACK", "S_WAIT_NODE_INFO"}
       => m.api = "CmdZWaveRequestNodeInfo"
  /\ m.state \in {"S_WAIT_SENDDATA_RESPONSE", "S_WAIT_TX_STATUS"}
       => m.api = "CmdZWaveSendData"
  /\ m.state = "S_WAIT_SUC_NODE_ID" => m.api = "CmdZWaveGetSucNodeId"

Machines == {m \in [api : Asked, state : SubStates] : Fits(m)}

OneReplyStates == {
  "S_WAIT_VERSION_DATA", "S_WAIT_INIT_DATA", "S_WAIT_NODE_PROTOINFO",
  "S_WAIT_CAPABILITIES", "S_WAIT_CONTROLLER_CAPABILITIES", "S_WAIT_ID",
  "S_WAIT_SUC_NODE_ID", "S_WAIT_APPL_NODE_INFORMATION",
  "S_WAIT_SETSUC_RESPONSE", "S_WAIT_ISFAILED_RESPONSE",
  "S_WAIT_REMOVE_FAILED_RESPONSE", "S_WAIT_PROTOCOL_VERSION",
  "S_WAIT_API_STARTED", "S_WAIT_RFPOWER_LEVEL", "S_WAIT_NEIGHBOR_COUNT",
  "S_WAIT_ARE_NEIGHBORS", "S_WAIT_TYPE_LIBRARY", "S_WAIT_PORT_STATUS",
  "S_WAIT_IO_PORT"}

LEMMA OneReplyRange == Range(OneReply) = OneReplyStates
  BY DEF OneReply, Range, OneReplyStates

LEMMA DataTable ==
  /\ DOMAIN DataNext = OneReplyStates \cup {
       "S_WAIT_CTR_STATUS", "S_WAIT_ADDED_OR_CANCLE", "S_WAIT_ADDED_NODE",
       "S_WAIT_ADD_COMP", "S_WAIT_NODE_INFO_ACK", "S_WAIT_NODE_INFO",
       "S_WAIT_REMOVE_RESPONSE", "S_WAIT_LEAVE_OR_CANCLE",
       "S_WAIT_LEAVED_NODE_S1", "S_WAIT_LEAVED_NODE_S2",
       "S_WAIT_SENDDATA_RESPONSE", "S_WAIT_TX_STATUS"}
  /\ \A s \in OneReplyStates : DataNext[s] = "S_END"
  /\ DataNext["S_WAIT_CTR_STATUS"] = "S_WAIT_ADDED_OR_CANCLE"
  /\ DataNext["S_WAIT_ADDED_OR_CANCLE"] = "S_WAIT_ADDED_NODE"
  /\ DataNext["S_WAIT_ADDED_NODE"] = "S_WAIT_ADD_COMP"
  /\ DataNext["S_WAIT_ADD_COMP"] = "S_END"
  /\ DataNext["S_WAIT_NODE_INFO_ACK"] = "S_WAIT_NODE_INFO"
  /\ DataNext["S_WAIT_NODE_INFO"] = "S_END"
  /\ DataNext["S_WAIT_REMOVE_RESPONSE"] = "S_WAIT_LEAVE_OR_CANCLE"
  /\ DataNext["S_WAIT_LEAVE_OR_CANCLE"] = "S_WAIT_LEAVED_NODE_S1"
  /\ DataNext["S_WAIT_LEAVED_NODE_S1"] = "S_WAIT_LEAVED_NODE_S2"
  /\ DataNext["S_WAIT_LEAVED_NODE_S2"] = "S_WAIT_LEAVE_COMP"
  /\ DataNext["S_WAIT_SENDDATA_RESPONSE"] = "S_WAIT_TX_STATUS"
  /\ DataNext["S_WAIT_TX_STATUS"] = "S_END"
<1>1. /\ DOMAIN OneReplyNext = OneReplyStates
      /\ \A s \in OneReplyStates : OneReplyNext[s] = "S_END"
  BY OneReplyRange DEF OneReplyNext
<1> USE DEF OneReplyStates, AddNext, NodeInfoNext, RemoveNext, SendDataNext
<1>2. /\ DOMAIN AddNext = {"S_WAIT_CTR_STATUS", "S_WAIT_ADDED_OR_CANCLE",
                           "S_WAIT_ADDED_NODE", "S_WAIT_ADD_COMP"}
      /\ DOMAIN NodeInfoNext = {"S_WAIT_NODE_INFO_ACK", "S_WAIT_NODE_INFO"}
      /\ DOMAIN RemoveNext = {"S_WAIT_REMOVE_RESPONSE", "S_WAIT_LEAVE_OR_CANCLE",
                              "S_WAIT_LEAVED_NODE_S1", "S_WAIT_LEAVED_NODE_S2"}
      /\ DOMAIN SendDataNext = {"S_WAIT_SENDDATA_RESPONSE", "S_WAIT_TX_STATUS"}
  OBVIOUS
<1>3. ASSUME NEW s \in OneReplyStates PROVE DataNext[s] = "S_END"
  BY <1>1, <1>3 DEF DataNext
<1> QED
  BY <1>1, <1>2, <1>3 DEF DataNext

LEMMA AckTable ==
  /\ DOMAIN AckNext = {"S_WAIT_ADDED_OR_CANCLE", "S_WAIT_CANCLE_CONFIRM",
                       "S_WAIT_CANCLE_COMP", "S_WAIT_LEAVE_COMP"}
  /\ AckNext["S_WAIT_ADDED_OR_CANCLE"] = "S_WAIT_CANCLE_CONFIRM"
  /\ AckNext["S_WAIT_CANCLE_CONFIRM"] = "S_WAIT_CANCLE_COMP"
  /\ AckNext["S_WAIT_CANCLE_COMP"] = "S_END"
  /\ AckNext["S_WAIT_LEAVE_COMP"] = "S_END"
  BY DEF AckNext

(* A reply or an acknowledgement leaves a machine in a state of its own.   *)
LEMMA MachinesMove ==
  ASSUME NEW m \in Machines, NEW table \in {AckNext, DataNext},
         NextState(table, m.state) # "S_END"
  PROVE  /\ [m EXCEPT !.state = NextState(table, m.state)] \in Machines
         /\ NextState(table, m.state) = "S_WAIT_LEAVE_COMP" => m.api = Remove
<1> DEFINE s == NextState(table, m.state)
<1>1. /\ m \in [api : Asked, state : SubStates]
      /\ Fits(m)
  BY DEF Machines
<1>2. /\ [m EXCEPT !.state = s].api = m.api
      /\ [m EXCEPT !.state = s].state = s
  BY <1>1
<1>3. /\ s \in SubStates
      /\ s = m.state \/ Fits([api |-> m.api, state |-> s])
      /\ s = "S_WAIT_LEAVE_COMP" => m.api = Remove
  <2> DEFINE st == m.state
  <2>1. st \in SubStates /\ Fits([api |-> m.api, state |-> st])
    BY <1>1 DEF Fits
  <2> HIDE DEF st
  <2>2. CASE table = AckNext
    BY <2>1, <2>2, AckTable DEF Fits, NextState, SubStates, st
  <2>3. CASE table = DataNext
    <3>1. CASE st \notin DOMAIN DataNext
      BY <2>1, <2>3, <3>1 DEF NextState, Fits, st
    <3>2. CASE st \in DOMAIN DataNext
      <4>1. s = DataNext[st]
        BY <2>3, <3>2 DEF NextState, st
      <4>2. st \notin OneReplyStates
        BY <4>1, DataTable
      <4> QED
        BY <2>1, <3>2, <4>1, <4>2, DataTable, AckTable
        DEF Fits, SubStates, Remove
    <3> QED
      BY <3>1, <3>2
  <2> QED
    BY <2>2, <2>3
<1> HIDE DEF s
<1>4. Fits([m EXCEPT !.state = s])
  BY <1>1, <1>2, <1>3 DEF Fits
<1> QED
  BY <1>1, <1>3, <1>4 DEF Machines, s

LEMMA MachinesStart ==
  ASSUME NEW api \in Asked
  PROVE  [api |-> api, state |-> InitState[api]] \in Machines
<1>1. api \in Apis
  BY CallsAssumption DEF Asked
<1>2. /\ InitState[api] \in SubStates
      /\ Fits([api |-> api, state |-> InitState[api]])
  BY <1>1, DataTable DEF InitState, Apis, OneReply, OtherInit, Fits, SubStates, OneReplyStates, Remove
<1> QED
  BY <1>2 DEF Machines

(* The frames a command is served with. *)
LEMMA RepliesType ==
  ASSUME NEW api \in Apis
  PROVE  Replies(api) \in Seq(Frames)
<1>1. api \in Frames /\ ControllerUpdate \in Frames
  BY DEF Frames
<1>2. /\ <<>> \in Seq(Frames) /\ <<api>> \in Seq(Frames) /\ <<api, api>> \in Seq(Frames)
      /\ <<api, ControllerUpdate>> \in Seq(Frames)
      /\ <<api, api, api, api>> \in Seq(Frames)
  BY <1>1
<1> QED
  BY <1>2 DEF Replies, ControllerUpdate

-----------------------------------------------------------------------------
(* How many elements of a sequence are in a set. *)
Tally(q, S) == Cardinality({i \in DOMAIN q : q[i] \in S})

LEMMA TallyType ==
  ASSUME NEW T, NEW q \in Seq(T), NEW S
  PROVE  /\ IsFiniteSet({i \in DOMAIN q : q[i] \in S})
         /\ Tally(q, S) \in Nat
<1>1. IsFiniteSet(DOMAIN q)
  BY LenProperties, FS_Interval
<1>2. {i \in DOMAIN q : q[i] \in S} \in SUBSET DOMAIN q
  OBVIOUS
<1>3. IsFiniteSet({i \in DOMAIN q : q[i] \in S})
  BY <1>1, <1>2, FS_Subset
<1> QED
  BY <1>3, FS_CardinalityType DEF Tally

LEMMA TallyEmpty ==
  ASSUME NEW S
  PROVE  Tally(<<>>, S) = 0
<1>1. {i \in DOMAIN <<>> : <<>>[i] \in S} = {}
  OBVIOUS
<1> QED
  BY <1>1, FS_EmptySet DEF Tally

LEMMA TallyAppend ==
  ASSUME NEW T, NEW q \in Seq(T), NEW e \in T, NEW S
  PROVE  Tally(Append(q, e), S) = Tally(q, S) + (IF e \in S THEN 1 ELSE 0)
<1> DEFINE n == Len(q)
           A == {i \in DOMAIN q : q[i] \in S}
           B == {i \in DOMAIN Append(q, e) : Append(q, e)[i] \in S}
<1>1. /\ n \in Nat /\ DOMAIN q = 1..n /\ DOMAIN Append(q, e) = 1..(n + 1)
      /\ \A i \in 1..n : Append(q, e)[i] = q[i]
      /\ Append(q, e)[n + 1] = e
  BY LenProperties, AppendProperties
<1>2. IsFiniteSet(A) /\ Cardinality(A) \in Nat
  BY TallyType DEF Tally
<1>5. Tally(q, S) = Cardinality(A) /\ Tally(Append(q, e), S) = Cardinality(B)
  BY DEF Tally
<1>3. CASE e \in S
  <2>1. B = A \cup {n + 1} /\ n + 1 \notin A
    BY <1>1, <1>3
  <2> QED
    BY <1>2, <1>3, <2>1, FS_AddElement DEF Tally
<1>4. CASE e \notin S
  <2>1. B = A
    BY <1>1, <1>4
  <2> HIDE DEF A, B
  <2> QED
    BY <1>2, <1>4, <1>5, <2>1
<1> QED
  BY <1>3, <1>4

LEMMA TallyTail ==
  ASSUME NEW T, NEW q \in Seq(T), q # <<>>, NEW S
  PROVE  Tally(q, S) = Tally(Tail(q), S) + (IF Head(q) \in S THEN 1 ELSE 0)
<1> DEFINE n == Len(q)
           A == {i \in DOMAIN Tail(q) : Tail(q)[i] \in S}
           B == {i \in 2..n : q[i] \in S}
           C == {i \in DOMAIN q : q[i] \in S}
           f == [i \in A |-> i + 1]
<1>1. /\ n \in Nat \ {0} /\ DOMAIN q = 1..n /\ DOMAIN Tail(q) = 1..(n - 1)
      /\ \A i \in 1..(n - 1) : Tail(q)[i] = q[i + 1]
      /\ Head(q) = q[1]
      /\ Tail(q) \in Seq(T)
  <2>1. n \in Nat \ {0}
    BY EmptySeq
  <2> QED
    BY <2>1, LenProperties, HeadTailProperties
<1>2. IsFiniteSet(A) /\ Cardinality(A) \in Nat
  BY <1>1, TallyType DEF Tally
<1>3. f \in Bijection(A, B)
  <2>1. f \in [A -> B]
    BY <1>1
  <2>2. \A i, j \in A : f[i] = f[j] => i = j
    BY <1>1
  <2>3. ASSUME NEW j \in B PROVE \E i \in A : f[i] = j
    <3>1. j - 1 \in A /\ f[j - 1] = j
      BY <1>1
    <3> QED
      BY <3>1
  <2> QED
    BY <2>1, <2>2, <2>3, Fun_IsBij
<1>4. IsFiniteSet(B) /\ Cardinality(B) = Cardinality(A)
  BY <1>2, <1>3, FS_Bijection DEF ExistsBijection
<1>7. Tally(q, S) = Cardinality(C) /\ Tally(Tail(q), S) = Cardinality(A)
  BY DEF Tally
<1>5. CASE Head(q) \in S
  <2>1. C = B \cup {1} /\ 1 \notin B
    BY <1>1, <1>5
  <2> QED
    BY <1>2, <1>4, <1>5, <2>1, FS_AddElement DEF Tally
<1>6. CASE Head(q) \notin S
  <2>1. C = B
    BY <1>1, <1>6
  <2> HIDE DEF A, B, C
  <2> QED
    BY <1>2, <1>4, <1>6, <1>7, <2>1
<1> QED
  BY <1>5, <1>6

-----------------------------------------------------------------------------
Links == [queue : Seq(Calls), flying : Calls \cup {NoCall}]
Told  == Range(Message) \cup {"E_ATTR_OVER", "none"}

(* A call that the app layer made is in one place at most, and in no queue *)
(* while it runs.                                                          *)
Waiting(c) == Tally(qSend, {Call(c)}) + Tally(qSendBack, {Call(c)})
Once(c) ==
  /\ Waiting(c) <= 1
  /\ smState = "S_RUNNING" /\ cur = c => Waiting(c) = 0

IInv ==
  /\ TypeOK
  /\ param \in Machines \cup {NoMachine}
  /\ nested => smState = "S_RUNNING"
  /\ ReceivedAtOnce
  /\ QueuedHasBeat
  /\ \A c \in Calls \ {LeaveCall} : Once(c)

Events == SendEvents \cup RecvEvents

LEMMA EventKinds ==
  ASSUME NEW e \in Events
  PROVE  /\ e.eid = "E_CALL_API" => e.arg \in Calls /\ e = Call(e.arg)
         /\ e.eid \in {"E_ACK", "E_ERROR"} => e.arg \in Asked /\ e \in SendEvents
         /\ e.eid \in {"E_DATA", "E_ASYNC_DATA"} => e \in RecvEvents
         /\ e.eid \in {"E_CALL_API", "E_BEAT"} => e \in SendEvents
         /\ e.eid \in {"E_BEAT", "E_CALL_API", "E_ACK", "E_ERROR", "E_DATA", "E_ASYNC_DATA"}
  BY DEF Events, SendEvents, RecvEvents, CallEvents, Call, Beat, Event

LEMMA EventTypes ==
  /\ Beat \in SendEvents
  /\ \A c \in Calls : Call(c) \in CallEvents
  /\ CallEvents \subseteq SendEvents
  /\ \A c \in Calls : ApiOf[c] \in Asked /\ ApiOf[c] \in Apis
  /\ \A api \in Asked : Event("E_ACK", api) \in SendEvents /\ Event("E_ERROR", api) \in SendEvents
  /\ \A f \in Frames : Event("E_DATA", f) \in RecvEvents /\ Event("E_ASYNC_DATA", f) \in RecvEvents
  BY CallsAssumption DEF SendEvents, CallEvents, RecvEvents, Asked

LEMMA InitIInv == Init => IInv
<1> SUFFICES ASSUME Init PROVE IInv
  OBVIOUS
<1> USE DEF Init
<1>1. TypeOK
  <2>1. link \in Links
    BY DEF Links
  <2>2. qSend \in Seq(SendEvents) /\ qSendBack \in Seq(CallEvents)
        /\ qRecv \in Seq(RecvEvents) /\ owed \in Seq(Frames)
    OBVIOUS
  <2> QED
    BY <2>1, <2>2 DEF TypeOK, Links
<1>2. ASSUME NEW c \in Calls PROVE Once(c)
  BY TallyEmpty DEF Once, Waiting
<1>3. QueuedHasBeat
  BY DEF QueuedHasBeat, InSeq
<1> QED
  BY <1>1, <1>2, <1>3 DEF IInv, ReceivedAtOnce

(* What the handlers of smApi leave: the state of the machine and of what  *)
(* they touch besides.                                                     *)
Stepped ==
  /\ smState' \in {"S_IDLE", "S_RUNNING"}
  /\ param' \in Machines \cup {NoMachine}
  /\ nested' \in BOOLEAN
  /\ nested' => smState' = "S_RUNNING"
  /\ qSend' \in Seq(SendEvents)
  /\ qSendBack' \in Seq(CallEvents)
  /\ timerSend' \in BOOLEAN
  /\ said' \in Told
  /\ cur' \in Calls \cup {NoCall}
  /\ link' \in Links

LEMMA RestoreTypes ==
  ASSUME qSendBack \in Seq(CallEvents), NEW qs \in Seq(SendEvents), RestoreAndBeat(qs)
  PROVE  qSend' \in Seq(SendEvents) /\ qSendBack' \in Seq(CallEvents)
<1>1. CASE qSendBack = <<>>
  BY <1>1, EventTypes, AppendProperties DEF RestoreAndBeat
<1>2. CASE qSendBack # <<>>
  <2>1. Head(qSendBack) \in SendEvents /\ Tail(qSendBack) \in Seq(CallEvents)
    BY <1>2, EventTypes, HeadTailProperties
  <2>2. <<Head(qSendBack), Beat>> \in Seq(SendEvents)
    BY <2>1, EventTypes
  <2> QED
    BY <1>2, <2>1, <2>2, ConcatProperties DEF RestoreAndBeat
<1> QED
  BY <1>1, <1>2

LEMMA SessionTypes ==
  ASSUME NEW l \in Links
  PROVE  /\ \A c \in Calls : session_send(l, c) \in Links
         /\ session_send_over(l) \in Links
<1>1. l.queue \in Seq(Calls) /\ l.flying \in Calls \cup {NoCall}
  BY DEF Links
<1>2. ASSUME NEW q \in Seq(Calls) PROVE Pop(q) \in Seq(Calls)
  BY HeadTailProperties DEF Pop
<1>3. ASSUME NEW c \in Calls PROVE session_send(l, c) \in Links
  BY <1>1, AppendProperties DEF session_send, Links
<1>4. session_send_over(l) \in Links
  <2> DEFINE rest == Pop(l.queue)
  <2>1. rest \in Seq(Calls) /\ Pop(rest) \in Seq(Calls)
    BY <1>1, <1>2
  <2>2. rest # <<>> => Head(rest) \in Calls
    BY <2>1, HeadTailProperties
  <2> HIDE DEF rest
  <2>3. [queue  |-> Pop(rest), flying |-> IF rest = <<>> THEN NoCall ELSE Head(rest)] \in Links
    BY <2>1, <2>2 DEF Links
  <2> QED
    BY <2>3 DEF session_send_over, rest
<1> QED
  BY <1>3, <1>4

LEMMA BecomeTypes ==
  ASSUME NEW s \in {"S_IDLE", "S_RUNNING"}, Become(s)
  PROVE  smState' \in {"S_IDLE", "S_RUNNING"} /\ nested' = FALSE
  BY DEF Become

LEMMA CompleteTypes ==
  ASSUME qSendBack \in Seq(CallEvents), NEW qs \in Seq(SendEvents), Complete(qs)
  PROVE  /\ smState' \in {"S_IDLE", "S_RUNNING"} /\ nested' = FALSE
         /\ param' \in Machines \cup {NoMachine}
         /\ qSend' \in Seq(SendEvents) /\ qSendBack' \in Seq(CallEvents)
  BY RestoreTypes, BecomeTypes DEF Complete

LEMMA MoveTypes ==
  ASSUME qSendBack \in Seq(CallEvents), NEW qs \in Seq(SendEvents),
         param \in Machines, NEW table \in {AckNext, DataNext},
         MoveMachine(NextState(table, param.state), qs)
  PROVE  /\ smState' \in {"S_IDLE", "S_RUNNING"} /\ nested' = FALSE
         /\ param' \in Machines \cup {NoMachine}
         /\ qSend' \in Seq(SendEvents) /\ qSendBack' \in Seq(CallEvents)
<1> DEFINE s == NextState(table, param.state)
<1>1. CASE s = "S_END"
  BY <1>1, CompleteTypes DEF MoveMachine
<1>2. CASE s # "S_END"
  <2>1. /\ param' = [param EXCEPT !.state = s]
        /\ qSend' = IF s = "S_WAIT_LEAVE_COMP" /\ param.state # s
                    THEN Append(qs, Call(LeaveCall)) ELSE qs
        /\ Become("S_RUNNING")
        /\ qSendBack' = qSendBack
    BY <1>2 DEF MoveMachine
  <2>2. param' \in Machines
    BY <1>2, <2>1, MachinesMove
  <2>3. s = "S_WAIT_LEAVE_COMP" => Call(LeaveCall) \in SendEvents
    <3>1. s = "S_WAIT_LEAVE_COMP" => param.api = Remove /\ param.api \in Asked
      BY <1>2, MachinesMove DEF Machines
    <3>2. Remove \in Asked => LeaveCall \in Calls
      BY LeaveAssumption DEF Asked, Remove
    <3> QED
      BY <3>1, <3>2, EventTypes
  <2>4. qSend' \in Seq(SendEvents)
    BY <2>1, <2>3, AppendProperties
  <2> QED
    BY <2>1, <2>2, <2>4, BecomeTypes
<1> QED
  BY <1>1, <1>2

LEMMA StepTypes ==
  ASSUME IInv, NEW e \in Events, NEW qs \in Seq(SendEvents), NEW l \in Links,
         state_machine_step(e, qs, l)
  PROVE  Stepped
<1> USE EventKinds DEF Stepped
<1>1. /\ smState \in {"S_IDLE", "S_RUNNING"} /\ nested \in BOOLEAN
      /\ nested => smState = "S_RUNNING"
      /\ param \in Machines \cup {NoMachine}
      /\ qSendBack \in Seq(CallEvents)
      /\ timerSend \in BOOLEAN /\ said \in Told /\ cur \in Calls \cup {NoCall}
  BY DEF IInv, TypeOK, Told
<1>2. "none" \in Told /\ "E_ATTR_OVER" \in Told
      /\ \A s \in DOMAIN Message : Message[s] \in Told
  BY DEF Told, Range
<1>3. CASE IdleStep(e, qs, l)
  <2>1. qSend' \in Seq(SendEvents) /\ qSendBack' \in Seq(CallEvents)
    BY <1>1, <1>3 DEF IdleStep
  <2>2. CASE e.eid = "E_CALL_API"
    <3>1. /\ link' = session_send(l, e.arg) /\ cur' = e.arg /\ said' = "none"
          /\ timerSend' = (ApiOf[e.arg] = "CmdZWaveSendData")
          /\ Become("S_RUNNING") /\ param' = param
      BY <1>3, <2>2 DEF IdleStep
    <3> QED
      BY <1>1, <1>2, <2>1, <2>2, <3>1, BecomeTypes, SessionTypes
  <2>3. CASE e.eid # "E_CALL_API"
    <3>1. /\ link' = l /\ said' \in Told /\ cur' = cur /\ timerSend' = timerSend
          /\ Become("S_IDLE") /\ param' = param
      BY <1>2, <1>3, <2>3 DEF IdleStep, AsyncData, Keep
    <3> QED
      BY <1>1, <1>2, <2>1, <3>1, BecomeTypes
  <2> QED
    BY <2>2, <2>3
<1>4. CASE RunningStep(e, qs, l) /\ smState = "S_RUNNING"
  <2>1. CASE e.eid = "E_ERROR"
    <3>1. /\ RestoreAndBeat(qs) /\ nested' = TRUE /\ said' = "none" /\ link' = l
          /\ param' = param /\ timerSend' = timerSend /\ cur' = cur
          /\ smState' = smState
      BY <1>4, <2>1 DEF RunningStep, Keep
    <3> QED
      BY <1>1, <1>2, <1>4, <3>1, RestoreTypes
  <2>2. CASE e.eid = "E_ACK"
    <3>1. /\ running_action_ack(e, qs) /\ said' = "none" /\ link' = l
          /\ timerSend' = timerSend /\ cur' = cur
      BY <1>4, <2>2 DEF RunningStep
    <3>2. /\ smState' \in {"S_IDLE", "S_RUNNING"} /\ nested' = FALSE
          /\ param' \in Machines \cup {NoMachine}
          /\ qSend' \in Seq(SendEvents) /\ qSendBack' \in Seq(CallEvents)
      <4>1. CASE param = NoMachine
        BY <1>1, <2>2, <3>1, <4>1, MachinesStart, BecomeTypes DEF running_action_ack
      <4>2. CASE param # NoMachine
        BY <1>1, <3>1, <4>2, MoveTypes DEF running_action_ack
      <4> QED
        BY <4>1, <4>2
    <3> QED
      BY <1>1, <1>2, <3>1, <3>2
  <2>3. CASE e.eid = "E_ASYNC_DATA"
    <3>1. /\ AsyncData(e) /\ Become("S_RUNNING") /\ qSend' = qs /\ link' = l
          /\ qSendBack' = qSendBack
      BY <1>4, <2>3 DEF RunningStep
    <3>2. said' \in Told /\ param' = param /\ timerSend' = timerSend /\ cur' = cur
      BY <1>2, <3>1 DEF AsyncData, Keep
    <3> QED
      BY <1>1, <3>1, <3>2, BecomeTypes
  <2>4. CASE e.eid = "E_DATA"
    <3>1. running_action_data(qs) /\ link' = l /\ cur' = cur
      BY <1>4, <2>4 DEF RunningStep
    <3>2. said' \in Told /\ timerSend' \in BOOLEAN
      BY <1>1, <1>2, <3>1 DEF running_action_data
    <3>3. /\ smState' \in {"S_IDLE", "S_RUNNING"} /\ nested' = FALSE
          /\ param' \in Machines \cup {NoMachine}
          /\ qSend' \in Seq(SendEvents) /\ qSendBack' \in Seq(CallEvents)
      <4>1. CASE param = NoMachine
        BY <1>1, <3>1, <4>1, CompleteTypes DEF running_action_data
      <4>2. CASE param # NoMachine
        BY <1>1, <3>1, <4>2, MoveTypes DEF running_action_data
      <4> QED
        BY <4>1, <4>2
    <3> QED
      BY <1>1, <3>1, <3>2, <3>3
  <2>5. CASE e.eid = "E_CALL_API"
    <3>1. /\ \/ link' = session_send(l, e.arg) /\ qSendBack' = qSendBack
             \/ link' = l /\ qSendBack' = Append(qSendBack, e)
          /\ Become("S_RUNNING") /\ qSend' = qs /\ said' = "none"
          /\ param' = param /\ timerSend' = timerSend /\ cur' = cur
      BY <1>4, <2>5 DEF RunningStep, Keep
    <3>2. link' \in Links /\ qSendBack' \in Seq(CallEvents)
      <4>1. e.arg \in Calls /\ e \in CallEvents
        BY <2>5, EventKinds, EventTypes
      <4>2. session_send(l, e.arg) \in Links
        BY <4>1, SessionTypes
      <4>3. Append(qSendBack, e) \in Seq(CallEvents)
        BY <1>1, <4>1, AppendProperties
      <4> QED
        BY <1>1, <3>1, <4>2, <4>3
    <3> QED
      BY <1>1, <1>2, <3>1, <3>2, BecomeTypes
  <2>6. CASE e.eid = "E_BEAT"
    <3>1. /\ Become("S_RUNNING") /\ qSend' = qs /\ said' = "none" /\ link' = l
          /\ param' = param /\ timerSend' = timerSend /\ cur' = cur
          /\ qSendBack' = qSendBack
      BY <1>4, <2>6 DEF RunningStep, Keep
    <3> QED
      BY <1>1, <1>2, <3>1, BecomeTypes
  <2>7. CASE e.eid \in {"E_DATA", "E_CALL_API", "E_BEAT"}
    BY <2>4, <2>5, <2>6, <2>7
  <2> QED
    BY <2>1, <2>2, <2>3, <2>7
<1> QED
  BY <1>3, <1>4 DEF state_machine_step

-----------------------------------------------------------------------------
(* Where a call is after a step: Left is what the step finds of it, in the *)
(* event it takes, in what is left of qSend and in qSendBack.              *)
Left(c, e, qs) ==
  (IF e = Call(c) THEN 1 ELSE 0)
    + Tally(qs, {Call(c)}) + Tally(qSendBack, {Call(c)})

LEMMA RestoreKeepsCalls ==
  ASSUME qSendBack \in Seq(CallEvents), NEW qs \in Seq(SendEvents),
         RestoreAndBeat(qs), NEW c
  PROVE  Waiting(c)' = Tally(qs, {Call(c)}) + Tally(qSendBack, {Call(c)})
<1> DEFINE S == {Call(c)}
<1>1. Beat \notin S
  BY DEF Beat, Call, Event
<1>2. /\ Tally(qs, S) \in Nat /\ Tally(qSendBack, S) \in Nat
      /\ Waiting(c)' = Tally(qSend', S) + Tally(qSendBack', S)
  BY TallyType DEF Waiting, Tally
<1> HIDE DEF S
<1>3. CASE qSendBack = <<>>
  <2>1. Tally(Append(qs, Beat), S) = Tally(qs, S)
    BY <1>1, <1>2, EventTypes, TallyAppend
  <2> QED
    BY <1>2, <1>3, <2>1 DEF RestoreAndBeat, S
<1>4. CASE qSendBack # <<>>
  <2> DEFINE h == Head(qSendBack)
             one == Append(qs, h)
  <2>1. h \in SendEvents /\ Tail(qSendBack) \in Seq(CallEvents)
    BY <1>4, EventTypes, HeadTailProperties
  <2>2. one \in Seq(SendEvents)
    BY <2>1, AppendProperties
  <2>3. qs \o <<h, Beat>> = Append(one, Beat)
    BY <2>1, <2>2, EventTypes
  <2>4. Tally(one, S) = Tally(qs, S) + (IF h \in S THEN 1 ELSE 0)
    BY <2>1, TallyAppend
  <2>5. Tally(Append(one, Beat), S) = Tally(one, S)
    <3>1. Tally(one, S) \in Nat
      BY <2>2, TallyType
    <3>2. Tally(Append(one, Beat), S) = Tally(one, S) + (IF Beat \in S THEN 1 ELSE 0)
      BY <2>2, EventTypes, TallyAppend
    <3> QED
      BY <1>1, <3>1, <3>2
  <2>6. /\ Tally(qSendBack, S) = Tally(Tail(qSendBack), S) + (IF h \in S THEN 1 ELSE 0)
        /\ Tally(Tail(qSendBack), S) \in Nat
    BY <1>4, <2>1, TallyTail, TallyType
  <2>7. qSend' = qs \o <<h, Beat>> /\ qSendBack' = Tail(qSendBack)
    BY <1>4 DEF RestoreAndBeat
  <2> HIDE DEF h, one
  <2>8. Waiting(c)' = Tally(one, S) + Tally(Tail(qSendBack), S)
    BY <1>2, <2>3, <2>5, <2>7
  <2> QED
    BY <1>2, <2>4, <2>6, <2>8 DEF S
<1> QED
  BY <1>3, <1>4

LEMMA MoveKeepsCalls ==
  ASSUME qSendBack \in Seq(CallEvents), NEW qs \in Seq(SendEvents),
         param \in Machines, NEW table \in {AckNext, DataNext},
         MoveMachine(NextState(table, param.state), qs),
         NEW c \in Calls \ {LeaveCall}
  PROVE  Waiting(c)' = Tally(qs, {Call(c)}) + Tally(qSendBack, {Call(c)})
<1> DEFINE s == NextState(table, param.state)
<1>1. CASE s = "S_END"
  BY <1>1, RestoreKeepsCalls DEF MoveMachine, Complete
<1>2. CASE s # "S_END"
  <2>1. /\ qSend' = IF s = "S_WAIT_LEAVE_COMP" /\ param.state # s
                    THEN Append(qs, Call(LeaveCall)) ELSE qs
        /\ qSendBack' = qSendBack
    BY <1>2 DEF MoveMachine
  <2>2. CASE qSend' = qs
    BY <2>1, <2>2 DEF Waiting, Tally
  <2>3. CASE s = "S_WAIT_LEAVE_COMP" /\ qSend' = Append(qs, Call(LeaveCall))
    <3>1. Call(LeaveCall) \in SendEvents
      <4>1. param.api = Remove /\ param.api \in Asked
        BY <1>2, <2>3, MachinesMove DEF Machines
      <4>2. Remove \in Asked => LeaveCall \in Calls
        BY LeaveAssumption DEF Asked, Remove
      <4> QED
        BY <4>1, <4>2, EventTypes
    <3>2. Call(LeaveCall) \notin {Call(c)}
      BY DEF Call, Event
    <3>3. Tally(Append(qs, Call(LeaveCall)), {Call(c)}) = Tally(qs, {Call(c)})
      <4>1. Tally(Append(qs, Call(LeaveCall)), {Call(c)}) =
              Tally(qs, {Call(c)})
                + (IF Call(LeaveCall) \in {Call(c)} THEN 1 ELSE 0)
        BY <3>1, TallyAppend
      <4>2. Tally(qs, {Call(c)}) \in Nat
        BY TallyType
      <4> QED
        BY <3>2, <4>1, <4>2
    <3> QED
      BY <2>1, <2>3, <3>3 DEF Waiting, Tally
  <2> QED
    BY <2>1, <2>2, <2>3
<1> QED
  BY <1>1, <1>2

LEMMA RunningKeepsCalls ==
  ASSUME IInv, NEW e \in Events, NEW qs \in Seq(SendEvents), NEW l \in Links,
         RunningStep(e, qs, l), NEW c \in Calls \ {LeaveCall}
  PROVE  /\ Waiting(c)' <= Left(c, e, qs) /\ Waiting(c)' \in Nat
         /\ cur' = cur
<1> DEFINE S == {Call(c)}
           W == Tally(qs, S) + Tally(qSendBack, S)
<1>1. /\ qSendBack \in Seq(CallEvents) /\ param \in Machines \cup {NoMachine}
  BY DEF IInv, TypeOK
<1>2. Tally(qs, S) \in Nat /\ Tally(qSendBack, S) \in Nat
  BY <1>1, TallyType
<1>3. /\ W \in Nat /\ W <= Left(c, e, qs)
      /\ e = Call(c) => Left(c, e, qs) = W + 1
      /\ Left(c, e, qs) \in Nat
  BY <1>2 DEF Left
<1>4. qSend' = qs /\ qSendBack' = qSendBack => Waiting(c)' = W
  BY DEF Waiting, Tally
<1>5. CASE e.eid = "E_ERROR"
  BY <1>1, <1>3, <1>5, RestoreKeepsCalls DEF RunningStep, Keep
<1>6. CASE e.eid = "E_ACK"
  <2>1. running_action_ack(e, qs) /\ cur' = cur
    BY <1>6 DEF RunningStep
  <2>2. Waiting(c)' = W
    <3>1. CASE param = NoMachine
      BY <1>4, <2>1, <3>1 DEF running_action_ack
    <3>2. CASE param # NoMachine
      BY <1>1, <2>1, <3>2, MoveKeepsCalls DEF running_action_ack
    <3> QED
      BY <3>1, <3>2
  <2> QED
    BY <1>3, <2>1, <2>2
<1>7. CASE e.eid = "E_ASYNC_DATA"
  BY <1>3, <1>4, <1>7 DEF RunningStep, AsyncData, Keep
<1>8. CASE e.eid = "E_DATA"
  <2>1. running_action_data(qs) /\ cur' = cur
    BY <1>8 DEF RunningStep
  <2>2. Waiting(c)' = W
    <3>1. CASE param = NoMachine
      BY <1>1, <2>1, <3>1, RestoreKeepsCalls DEF running_action_data, Complete
    <3>2. CASE param # NoMachine
      BY <1>1, <2>1, <3>2, MoveKeepsCalls DEF running_action_data
    <3> QED
      BY <3>1, <3>2
  <2> QED
    BY <1>3, <2>1, <2>2
<1>9. CASE e.eid = "E_CALL_API"
  <2>1. /\ qSendBack' = qSendBack \/ qSendBack' = Append(qSendBack, e)
        /\ qSend' = qs /\ cur' = cur
    BY <1>9 DEF RunningStep, Keep
  <2>2. CASE qSendBack' = qSendBack
    BY <1>3, <1>4, <2>1, <2>2
  <2>3. CASE qSendBack' = Append(qSendBack, e)
    <3>1. e \in CallEvents
      BY <1>9, EventKinds, EventTypes
    <3>2. Tally(Append(qSendBack, e), S) =
            Tally(qSendBack, S) + (IF e \in S THEN 1 ELSE 0)
      BY <1>1, <3>1, TallyAppend
    <3>3. Waiting(c)' = Tally(qs, S) + Tally(Append(qSendBack, e), S)
      BY <2>1, <2>3 DEF Waiting, Tally
    <3>4. Left(c, e, qs) =
            (IF e \in S THEN 1 ELSE 0) + Tally(qs, S) + Tally(qSendBack, S)
      BY DEF Left
    <3> HIDE DEF S
    <3> QED
      BY <1>2, <2>1, <3>2, <3>3, <3>4
  <2> QED
    BY <2>1, <2>2, <2>3
<1>10. CASE e.eid = "E_BEAT"
  BY <1>3, <1>4, <1>10 DEF RunningStep, Keep
<1> QED
  BY <1>5, <1>6, <1>7, <1>8, <1>9, <1>10, EventKinds

LEMMA StepKeepsOnce ==
  ASSUME IInv, NEW e \in Events, NEW qs \in Seq(SendEvents), NEW l \in Links,
         state_machine_step(e, qs, l), NEW c \in Calls \ {LeaveCall},
         Left(c, e, qs) <= 1,
         smState = "S_RUNNING" /\ cur = c => Left(c, e, qs) = 0
  PROVE  Once(c)'
<1>1. CASE RunningStep(e, qs, l) /\ smState = "S_RUNNING"
  <2>1. /\ Waiting(c)' <= Left(c, e, qs) /\ Waiting(c)' \in Nat
        /\ cur' = cur
    BY <1>1, RunningKeepsCalls
  <2>2. Left(c, e, qs) \in Nat
    <3>1. /\ Tally(qs, {Call(c)}) \in Nat
          /\ Tally(qSendBack, {Call(c)}) \in Nat
      BY TallyType DEF IInv, TypeOK
    <3> QED
      BY <3>1 DEF Left
  <2> QED
    BY <1>1, <2>1, <2>2 DEF Once
<1>2. CASE IdleStep(e, qs, l)
  <2>1. Waiting(c)' = Tally(qs, {Call(c)}) + Tally(qSendBack, {Call(c)})
    BY <1>2 DEF IdleStep, Waiting, Tally
  <2>2. Tally(qs, {Call(c)}) \in Nat /\ Tally(qSendBack, {Call(c)}) \in Nat
    BY TallyType DEF IInv, TypeOK
  <2>3. Waiting(c)' <= 1
    BY <2>1, <2>2 DEF Left
  <2>4. ASSUME smState' = "S_RUNNING", cur' = c PROVE Waiting(c)' = 0
    <3>1. e.eid = "E_CALL_API" /\ cur' = e.arg
      BY <1>2, <2>4 DEF IdleStep, Become
    <3>2. e = Call(c)
      BY <2>4, <3>1, EventKinds
    <3> QED
      BY <2>1, <2>2, <3>2 DEF Left
  <2> QED
    BY <2>3, <2>4 DEF Once
<1> QED
  BY <1>1, <1>2 DEF state_machine_step

-----------------------------------------------------------------------------
(* The part of IInv that the handlers do not touch. *)
Around ==
  /\ timerBeat' \in BOOLEAN
  /\ used' \subseteq Calls
  /\ rx' \in [cmd : Frames, left : 0..(Lead - 1)] \cup {NoRx}
  /\ owed' \in Seq(Frames)

LEMMA Assemble ==
  ASSUME Stepped, Around, qRecv' = <<>>, QueuedHasBeat',
         \A c \in Calls \ {LeaveCall} : Once(c)'
  PROVE  IInv'
<1>1. qRecv' \in Seq(RecvEvents)
  OBVIOUS
<1>2. param' \in [api : Asked, state : SubStates] \cup {NoMachine}
  BY DEF Stepped, Machines
<1>3. TypeOK'
  BY <1>1, <1>2 DEF TypeOK, Stepped, Around, Links, Told
<1> QED
  BY <1>3 DEF IInv, ReceivedAtOnce, Stepped

(* The calls in qSend are as many in qs. *)
SameCalls(qs) == \A c \in Calls : Tally(qs, {Call(c)}) = Tally(qSend, {Call(c)})

LEMMA AppendKeepsCalls ==
  ASSUME qSend \in Seq(SendEvents), NEW e \in SendEvents, e.eid # "E_CALL_API"
  PROVE  SameCalls(Append(qSend, e))
<1> SUFFICES ASSUME NEW c \in Calls
             PROVE  Tally(Append(qSend, e), {Call(c)}) = Tally(qSend, {Call(c)})
  BY DEF SameCalls
<1>1. e \notin {Call(c)}
  BY DEF Call, Event
<1>2. Tally(Append(qSend, e), {Call(c)}) =
        Tally(qSend, {Call(c)}) + (IF e \in {Call(c)} THEN 1 ELSE 0)
  BY TallyAppend
<1>3. Tally(qSend, {Call(c)}) \in Nat
  BY TallyType
<1> QED
  BY <1>1, <1>2, <1>3

LEMMA EventSteps ==
  ASSUME IInv, NEW qr, qr = <<>> \/ \E e \in RecvEvents : qr = <<e>>,
         NEW qs \in Seq(SendEvents), SameCalls(qs), NEW l \in Links,
         handlerOneEvent(qr, qs, l)
  PROVE  /\ Stepped
         /\ qRecv' = <<>>
         /\ \A c \in Calls \ {LeaveCall} : Once(c)'
<1>0. \A c \in Calls \ {LeaveCall} :
        /\ Once(c)
        /\ Waiting(c) = Tally(qs, {Call(c)}) + Tally(qSendBack, {Call(c)})
        /\ Tally(qs, {Call(c)}) \in Nat /\ Tally(qSendBack, {Call(c)}) \in Nat
  BY TallyType DEF IInv, TypeOK, SameCalls, Waiting
<1>1. CASE qr # <<>>
  <2>1. PICK e \in RecvEvents : qr = <<e>>
    BY <1>1
  <2>2. qRecv' = <<>> /\ state_machine_step(e, qs, l)
    BY <1>1, <2>1 DEF handlerOneEvent
  <2>3. e \in Events
    BY DEF Events
  <2>4. ASSUME NEW c \in Calls \ {LeaveCall} PROVE Once(c)'
    <3>1. e # Call(c)
      BY DEF RecvEvents, Call, Event
    <3>2. Left(c, e, qs) = Waiting(c)
      BY <1>0, <3>1 DEF Left
    <3> QED
      BY <1>0, <2>2, <2>3, <3>2, StepKeepsOnce DEF Once
  <2> QED
    BY <2>2, <2>3, <2>4, StepTypes
<1>2. CASE qr = <<>> /\ qs # <<>>
  <2>1. Head(qs) \in Events /\ Tail(qs) \in Seq(SendEvents)
    BY <1>2, HeadTailProperties DEF Events
  <2>2. qRecv' = <<>> /\ state_machine_step(Head(qs), Tail(qs), l)
    BY <1>2 DEF handlerOneEvent
  <2>3. ASSUME NEW c \in Calls \ {LeaveCall} PROVE Once(c)'
    <3>1. Tally(qs, {Call(c)}) = Tally(Tail(qs), {Call(c)})
                                   + (IF Head(qs) \in {Call(c)} THEN 1 ELSE 0)
      BY <1>2, TallyTail
    <3>2. Tally(Tail(qs), {Call(c)}) \in Nat
      BY <2>1, TallyType
    <3>3. Left(c, Head(qs), Tail(qs)) = Waiting(c)
      BY <1>0, <3>1, <3>2 DEF Left
    <3> QED
      BY <1>0, <2>1, <2>2, <3>3, StepKeepsOnce DEF Once
  <2> QED
    BY <2>1, <2>2, <2>3, StepTypes
<1>3. CASE qr = <<>> /\ qs = <<>>
  <2>1. /\ qRecv' = <<>> /\ qSend' = <<>> /\ link' = l /\ said' = "none"
        /\ smState' = smState /\ param' = param /\ nested' = nested
        /\ qSendBack' = qSendBack /\ timerSend' = timerSend /\ cur' = cur
    BY <1>3 DEF handlerOneEvent, machine
  <2>2. Stepped
    <3>1. qSend' \in Seq(SendEvents) /\ said' \in Told
      BY <2>1 DEF Told
    <3> QED
      BY <2>1, <3>1 DEF Stepped, IInv, TypeOK
  <2>3. ASSUME NEW c \in Calls \ {LeaveCall} PROVE Once(c)'
    <3>1. Waiting(c)' = Waiting(c)
      BY <1>0, <1>3, <2>1 DEF Waiting, Tally
    <3> QED
      BY <1>0, <2>1, <3>1 DEF Once
  <2> QED
    BY <2>1, <2>2, <2>3
<1> QED
  BY <1>1, <1>2, <1>3

(* Whatever comes by a byte: api_step sets the beat timer.                 *)
LEMMA ByteKeepsIInv ==
  ASSUME IInv, NEW qr, qr = <<>> \/ \E e \in RecvEvents : qr = <<e>>,
         NEW qs \in Seq(SendEvents), SameCalls(qs), NEW l \in Links,
         api_step(qr, qs, l),
         rx' \in [cmd : Frames, left : 0..(Lead - 1)] \cup {NoRx},
         owed' \in Seq(Frames)
  PROVE  IInv'
<1>1. handlerOneEvent(qr, qs, l) /\ timerBeat' = TRUE /\ used' = used
  BY DEF api_step
<1>2. Around
  BY <1>1 DEF Around, IInv, TypeOK
<1>3. QueuedHasBeat'
  BY <1>1 DEF QueuedHasBeat
<1> QED
  BY <1>1, <1>2, <1>3, EventSteps, Assemble

LEMMA AckOrRefusedKeepsIInv ==
  ASSUME IInv, AckByte \/ RefusedByte
  PROVE  IInv'
<1>1. /\ link \in Links /\ link.flying \in Calls
      /\ qSend \in Seq(SendEvents) /\ qRecv = <<>>
      /\ owed \in Seq(Frames) /\ owed' \in {owed, Served(link.flying)}
      /\ rx' = rx /\ rx = NoRx
  BY DEF IInv, ReceivedAtOnce, TypeOK, Links, AckByte, RefusedByte
<1>2. PICK eid \in {"E_ACK", "E_ERROR"} :
        api_step(qRecv, Append(qSend, Event(eid, ApiOf[link.flying])),
                 session_send_over(link))
  BY DEF AckByte, RefusedByte
<1> DEFINE e == Event(eid, ApiOf[link.flying])
<1>3. e \in SendEvents /\ e.eid # "E_CALL_API"
  BY <1>1, EventTypes DEF Event
<1>4. Append(qSend, e) \in Seq(SendEvents) /\ SameCalls(Append(qSend, e))
  BY <1>1, <1>3, AppendProperties, AppendKeepsCalls
<1>5. session_send_over(link) \in Links
  BY <1>1, SessionTypes
<1>6. owed' \in Seq(Frames)
  <2>1. Replies(ApiOf[link.flying]) \in Seq(Frames)
    BY <1>1, EventTypes, RepliesType
  <2>2. Served(link.flying) \in Seq(Frames)
    BY <1>1, <2>1, ConcatProperties DEF Served
  <2> QED
    BY <1>1, <2>2
<1> QED
  BY <1>1, <1>2, <1>4, <1>5, <1>6, ByteKeepsIInv

LEMMA ReceiveKeepsIInv ==
  ASSUME IInv, Reply \/ Stray \/ NextByte \/ LastByte
  PROVE  IInv'
<1>1. /\ qRecv = <<>> /\ qSend \in Seq(SendEvents) /\ link \in Links
      /\ owed \in Seq(Frames)
      /\ rx \in [cmd : Frames, left : 0..(Lead - 1)] \cup {NoRx}
      /\ SameCalls(qSend)
  BY DEF IInv, ReceivedAtOnce, TypeOK, Links, SameCalls
<1>2. ASSUME NEW cmd \in Frames, NEW rest \in Seq(Frames), FirstByte(cmd, rest)
      PROVE  IInv'
  <2>1. /\ rx' = [cmd |-> cmd, left |-> Lead - 1] /\ owed' = rest
        /\ api_step(qRecv, qSend, link)
    BY <1>2 DEF FirstByte
  <2>2. rx' \in [cmd : Frames, left : 0..(Lead - 1)]
    BY <2>1, BytesAssumption
  <2> QED
    BY <1>1, <1>2, <2>1, <2>2, ByteKeepsIInv
<1>3. CASE Reply
  <2>1. Head(owed) \in Frames /\ Tail(owed) \in Seq(Frames)
    BY <1>1, <1>3, HeadTailProperties DEF Reply
  <2> QED
    BY <1>2, <1>3, <2>1 DEF Reply
<1>4. CASE Stray
  <2>1. Strays \subseteq Frames
    BY EnvAssumption DEF Frames
  <2> QED
    BY <1>1, <1>2, <1>4, <2>1 DEF Stray
<1>5. CASE NextByte
  <2>1. /\ rx # NoRx /\ rx.left > 0 /\ rx' = [rx EXCEPT !.left = @ - 1]
        /\ api_step(qRecv, qSend, link) /\ owed' = owed
    BY <1>5 DEF NextByte
  <2>2. rx \in [cmd : Frames, left : 0..(Lead - 1)]
    BY <1>1, <2>1
  <2>3. rx' \in [cmd : Frames, left : 0..(Lead - 1)]
    BY <2>1, <2>2, BytesAssumption
  <2> QED
    BY <1>1, <2>1, <2>3, ByteKeepsIInv
<1>6. CASE LastByte
  <2> DEFINE e == Event(IF IsReply(rx.cmd) THEN "E_DATA" ELSE "E_ASYNC_DATA", rx.cmd)
  <2>1. /\ rx # NoRx /\ rx' = NoRx /\ owed' = owed
        /\ api_step(Append(qRecv, e), qSend, link)
    BY <1>6 DEF LastByte
  <2>2. e \in RecvEvents
    BY <1>1, <2>1, EventTypes
  <2>3. Append(qRecv, e) = <<e>>
    BY <1>1
  <2> HIDE DEF e
  <2> QED
    BY <1>1, <2>1, <2>2, <2>3, ByteKeepsIInv
<1> QED
  BY <1>3, <1>4, <1>5, <1>6

LEMMA BeatKeepsIInv ==
  ASSUME IInv, api_beat_timer_callback \/ NestedBeat
  PROVE  IInv'
<1>1. /\ qRecv = <<>> /\ qSend \in Seq(SendEvents) /\ link \in Links
      /\ SameCalls(qSend)
  BY DEF IInv, ReceivedAtOnce, TypeOK, Links, SameCalls
<1>2. /\ handlerOneEvent(<<>>, qSend, link)
      /\ used' = used /\ rx' = rx /\ owed' = owed
      /\ timerBeat' = TRUE \/ timerBeat' = (qSend # <<>>)
  BY <1>1 DEF api_beat_timer_callback, NestedBeat
<1>3. Around
  BY <1>2 DEF Around, IInv, TypeOK
<1>4. /\ Stepped /\ qRecv' = <<>>
      /\ \A c \in Calls \ {LeaveCall} : Once(c)'
  BY <1>1, <1>2, EventSteps
<1>5. QueuedHasBeat'
  <2>1. CASE qSend = <<>>
    <3>1. qSend' = <<>>
      BY <1>2, <2>1 DEF handlerOneEvent
    <3> QED
      BY <1>4, <3>1 DEF QueuedHasBeat, InSeq
  <2>2. CASE qSend # <<>>
    BY <1>2, <2>2 DEF QueuedHasBeat
  <2> QED
    BY <2>1, <2>2
<1> QED
  BY <1>3, <1>4, <1>5, Assemble

(* A call that is nowhere is in no queue. *)
LEMMA GoneIsNowhere ==
  ASSUME NEW q \in Seq(SendEvents), NEW x, NoneOf(q, x)
  PROVE  Tally(q, {x}) = 0
<1>1. {i \in DOMAIN q : q[i] \in {x}} = {}
  BY DEF NoneOf, InSeq
<1> QED
  BY <1>1, FS_EmptySet DEF Tally

(* What stays as it is outside the handlers. *)
LEMMA StayStepped ==
  ASSUME IInv, UNCHANGED <<machine, qSendBack, timerSend, cur>>,
         said' = "none", qSend' \in Seq(SendEvents), link' \in Links
  PROVE  Stepped
<1>1. said' \in Told
  BY DEF Told
<1> QED
  BY <1>1 DEF Stepped, IInv, TypeOK, machine

LEMMA CallKeepsIInv ==
  ASSUME IInv, NEW c \in Calls \ {LeaveCall}, api_call(c)
  PROVE  IInv'
<1>1. /\ ~nested /\ Gone(c) /\ timerBeat' = TRUE /\ said' = "none"
      /\ used' = IF Reissue THEN used ELSE used \cup {c}
      /\ qSend' = qSend \o [i \in DOMAIN <<c>> |-> Call(<<c>>[i])]
      /\ UNCHANGED <<machine, qSendBack, qRecv, timerSend, cur, link, rx, owed>>
  <2>1. InSeq(<<c>>) = {c}
    BY DEF InSeq
  <2> QED
    BY <2>1 DEF api_call, api_calls
<1>2. Call(c) \in SendEvents /\ qSend \in Seq(SendEvents)
      /\ qSendBack \in Seq(SendEvents) /\ qSendBack \in Seq(CallEvents)
  <2>1. qSendBack \in Seq(CallEvents)
    BY DEF IInv, TypeOK
  <2> QED
    BY <2>1, EventTypes, SeqMonotonic DEF IInv, TypeOK
<1>3. qSend' = Append(qSend, Call(c))
  <2>1. [i \in DOMAIN <<c>> |-> Call(<<c>>[i])] = <<Call(c)>>
    OBVIOUS
  <2> QED
    BY <1>1, <1>2, <2>1, AppendIsConcat
<1>4. Stepped
  <2>1. qSend' \in Seq(SendEvents)
    BY <1>2, <1>3, AppendProperties
  <2>2. link' \in Links
    BY <1>1 DEF IInv, TypeOK, Links
  <2> QED
    BY <1>1, <2>1, <2>2, StayStepped
<1>5. Around
  BY <1>1 DEF Around, IInv, TypeOK
<1>6. QueuedHasBeat' /\ qRecv' = <<>>
  BY <1>1 DEF QueuedHasBeat, IInv, ReceivedAtOnce
<1>7. ASSUME NEW d \in Calls \ {LeaveCall} PROVE Once(d)'
  <2>1. Tally(Append(qSend, Call(c)), {Call(d)}) =
          Tally(qSend, {Call(d)}) + (IF Call(c) \in {Call(d)} THEN 1 ELSE 0)
    BY <1>2, TallyAppend
  <2>2. /\ Tally(qSend, {Call(d)}) \in Nat
        /\ Tally(qSendBack, {Call(d)}) \in Nat
    BY <1>2, TallyType
  <2>3. Waiting(d)' = Tally(Append(qSend, Call(c)), {Call(d)})
                        + Tally(qSendBack, {Call(d)})
    BY <1>1, <1>3 DEF Waiting, Tally
  <2>4. CASE d = c
    <3>1. Tally(qSend, {Call(c)}) = 0 /\ Tally(qSendBack, {Call(c)}) = 0
      BY <1>1, <1>2, GoneIsNowhere DEF Gone
    <3>2. Waiting(d)' = 1
      BY <2>1, <2>2, <2>3, <2>4, <3>1
    <3>3. cur' = c => smState' = "S_IDLE"
      BY <1>1 DEF Gone, machine
    <3> QED
      BY <2>4, <3>2, <3>3 DEF Once
  <2>5. CASE d # c
    <3>1. Call(c) # Call(d)
      BY <2>5 DEF Call, Event
    <3>2. Waiting(d)' = Waiting(d)
      BY <2>1, <2>2, <2>3, <3>1 DEF Waiting
    <3> QED
      BY <1>1, <3>2 DEF Once, IInv, machine
  <2> QED
    BY <2>4, <2>5
<1> QED
  BY <1>4, <1>5, <1>6, <1>7, Assemble

(* Other steps that leave the calls where they are. *)
LEMMA StayOnce ==
  ASSUME IInv, SameCalls(qSend'), UNCHANGED <<qSendBack, cur>>,
         smState' \in {smState, "S_IDLE"}
  PROVE  \A c \in Calls \ {LeaveCall} : Once(c)'
<1> TAKE c \in Calls \ {LeaveCall}
<1>1. Waiting(c)' = Waiting(c)
  BY DEF SameCalls, Waiting, Tally
<1> QED
  BY <1>1 DEF Once, IInv

LEMMA SendTimeoutKeepsIInv ==
  ASSUME IInv, SendTimeout
  PROVE  IInv'
<1> DEFINE e == Event("E_ERROR", ApiOf[link.flying])
           one == Append(qSend, e)
<1>1. /\ link.flying # NoCall /\ qSend' = qSend \o <<e, e>>
      /\ link' = session_send_over(link)
      /\ owed' \in {owed, Served(link.flying)} /\ said' = "none"
      /\ UNCHANGED <<machine, qSendBack, qRecv, timerBeat, timerSend, cur, used, rx>>
  BY DEF SendTimeout
<1>2. /\ link \in Links /\ link.flying \in Calls
      /\ qSend \in Seq(SendEvents) /\ owed \in Seq(Frames)
  BY <1>1 DEF IInv, TypeOK, Links
<1>3. e \in SendEvents /\ e.eid = "E_ERROR"
  BY <1>2, EventTypes DEF Event
<1> HIDE DEF e
<1>4. one \in Seq(SendEvents) /\ qSend' = Append(one, e)
      /\ Append(one, e) \in Seq(SendEvents)
  BY <1>1, <1>2, <1>3, AppendProperties
<1>5. Stepped
  BY <1>1, <1>2, <1>4, SessionTypes, StayStepped
<1>6. Around
  <2>1. Replies(ApiOf[link.flying]) \in Seq(Frames)
    BY <1>2, EventTypes, RepliesType
  <2>2. Served(link.flying) \in Seq(Frames)
    BY <1>2, <2>1, ConcatProperties DEF Served
  <2> QED
    BY <1>1, <1>2, <2>2 DEF Around, IInv, TypeOK
<1>7. QueuedHasBeat' /\ qRecv' = <<>>
  <2>1. qRecv' = <<>>
    BY <1>1 DEF IInv, ReceivedAtOnce
  <2>2. ASSUME ~timerBeat', NEW x \in InSeq(qSend') PROVE x.eid = "E_ERROR"
    <3>1. \A y \in InSeq(qSend) : y.eid = "E_ERROR"
      BY <1>1, <2>2 DEF IInv, QueuedHasBeat
    <3>2. x \in InSeq(qSend) \/ x = e
      <4>1. x \in InSeq(one) \/ x = e
        BY <1>3, <1>4, <2>2, AppendProperties, LenProperties DEF InSeq
      <4>2. x \in InSeq(one) => x \in InSeq(qSend) \/ x = e
        BY <1>2, <1>3, AppendProperties, LenProperties DEF InSeq
      <4> QED
        BY <4>1, <4>2
    <3> QED
      BY <1>3, <3>1, <3>2
  <2> QED
    BY <2>1, <2>2 DEF QueuedHasBeat
<1>8. SameCalls(qSend')
  <2>1. \A c \in Calls : /\ e \notin {Call(c)}
                         /\ Tally(qSend, {Call(c)}) \in Nat
                         /\ Tally(one, {Call(c)}) \in Nat
    <3> HIDE DEF one
    <3>1. \A c \in Calls : e \notin {Call(c)}
      BY <1>3 DEF Call, Event
    <3> QED
      BY <1>2, <1>4, <3>1, TallyType
  <2>2. ASSUME NEW c \in Calls
        PROVE  Tally(Append(one, e), {Call(c)}) = Tally(qSend, {Call(c)})
    <3>1. Tally(one, {Call(c)}) =
            Tally(qSend, {Call(c)}) + (IF e \in {Call(c)} THEN 1 ELSE 0)
      BY <1>2, <1>3, TallyAppend
    <3> HIDE DEF one
    <3>2. Tally(Append(one, e), {Call(c)}) =
            Tally(one, {Call(c)}) + (IF e \in {Call(c)} THEN 1 ELSE 0)
      BY <1>3, <1>4, TallyAppend
    <3> QED
      BY <2>1, <3>1, <3>2
  <2> QED
    BY <1>4, <2>2 DEF SameCalls
<1>9. \A c \in Calls \ {LeaveCall} : Once(c)'
  BY <1>1, <1>8, StayOnce DEF machine
<1> QED
  BY <1>5, <1>6, <1>7, <1>9, Assemble

LEMMA SendTimerKeepsIInv ==
  ASSUME IInv, api_send_timer_callback
  PROVE  IInv'
<1>1. /\ timerSend' = FALSE /\ smState' = "S_IDLE" /\ param' = NoMachine
      /\ qSend' = Append(qSend, Beat) /\ timerBeat' = TRUE
      /\ said' = "E_ATTR_OVER" /\ ~nested
      /\ UNCHANGED <<nested, qSendBack, qRecv, cur, used, link, rx, owed>>
  BY DEF api_send_timer_callback
<1>2. qSend \in Seq(SendEvents) /\ Beat \in SendEvents /\ Beat.eid # "E_CALL_API"
  BY EventTypes DEF IInv, TypeOK, Beat, Event
<1>3. qSend' \in Seq(SendEvents) /\ SameCalls(qSend')
  BY <1>1, <1>2, AppendProperties, AppendKeepsCalls
<1>4. Stepped
  BY <1>1, <1>3 DEF Stepped, IInv, TypeOK, Told, Links
<1>5. Around
  BY <1>1 DEF Around, IInv, TypeOK
<1>6. QueuedHasBeat' /\ qRecv' = <<>>
  BY <1>1 DEF QueuedHasBeat, IInv, ReceivedAtOnce
<1>7. \A c \in Calls \ {LeaveCall} : Once(c)'
  BY <1>1, <1>3, StayOnce
<1> QED
  BY <1>4, <1>5, <1>6, <1>7, Assemble

LEMMA NextKeepsIInv == IInv /\ [Next]_vars => IInv'
<1> SUFFICES ASSUME IInv, [Next]_vars PROVE IInv'
  OBVIOUS
<1>1. CASE \E c \in Calls \ {LeaveCall} : api_call(c)
  BY <1>1, CallKeepsIInv
<1>2. CASE AckByte \/ RefusedByte
  BY <1>2, AckOrRefusedKeepsIInv
<1>3. CASE SendTimeout
  BY <1>3, SendTimeoutKeepsIInv
<1>4. CASE Reply \/ Stray \/ NextByte \/ LastByte
  BY <1>4, ReceiveKeepsIInv
<1>5. CASE api_beat_timer_callback \/ NestedBeat
  BY <1>5, BeatKeepsIInv
<1>6. CASE api_send_timer_callback
  BY <1>6, SendTimerKeepsIInv
<1>7. CASE ReplyMissing
  <2>1. /\ owed # <<>> /\ owed' = Tail(owed)
        /\ UNCHANGED <<machine, queues, timerBeat, timerSend, said, cur, used, link, rx>>
    BY <1>7 DEF ReplyMissing
  <2>2. owed' \in Seq(Frames)
    BY <2>1, HeadTailProperties DEF IInv, TypeOK
  <2>3. TypeOK'
    BY <2>1, <2>2 DEF IInv, TypeOK, machine, queues
  <2>4. \A c \in Calls \ {LeaveCall} : Once(c)'
    BY <2>1 DEF IInv, Once, Waiting, Tally, machine, queues
  <2> QED
    BY <2>1, <2>3, <2>4 DEF IInv, ReceivedAtOnce, QueuedHasBeat, machine, queues
<1>8. CASE UNCHANGED vars
  BY <1>8 DEF vars, IInv, TypeOK, ReceivedAtOnce, QueuedHasBeat, Once,
     Waiting, Tally, machine, queues
<1> QED
  BY <1>1, <1>2, <1>3, <1>4, <1>5, <1>6, <1>7, <1>8 DEF Next

(* The inductive invariant of api.c holds in every state, for every set of *)
(* calls, whatever the session below and the module do.                    *)
THEOREM ApiInvariant == Spec => []IInv
  BY InitIInv, NextKeepsIInv, PTL DEF Spec

(* Api!TypeOK, for every set of calls and every link and module.           *)
THEOREM ApiTypes == Spec => []TypeOK
<1>1. IInv => TypeOK
  BY DEF IInv
<1> QED
  BY <1>1, ApiInvariant, PTL

(* api_step handles the frame that it just queued: qRecv is empty between  *)
(* two steps (api_receive_step, handlerOneEvent).                          *)
THEOREM FramesAreTakenAtOnce == Spec => []ReceivedAtOnce
<1>1. IInv => ReceivedAtOnce
  BY DEF IInv
<1> QED
  BY <1>1, ApiInvariant, PTL

(* No event is left in the queues of api.c without a beat to come, but for *)
(* the errors of a send timeout (api_beat, api_send_over).                 *)
THEOREM QueuesHaveBeat == Spec => []QueuedHasBeat
<1>1. IInv => QueuedHasBeat
  BY DEF IInv
<1> QED
  BY <1>1, ApiInvariant, PTL

LEMMA PlacesAreWaiting == \A c : Places(c) = Waiting(c)
<1>1. \A q, x : {i \in DOMAIN q : q[i] = x} = {i \in DOMAIN q : q[i] \in {x}}
  OBVIOUS
<1> QED
  BY <1>1 DEF Places, Waiting, Tally

(* What CallOnce says of the calls that the app layer makes. *)
AppCallsOnce ==
  \A c \in Calls \ {LeaveCall} :
    /\ Places(c) <= 1
    /\ smState = "S_RUNNING" /\ cur = c => Places(c) = 0

(* A call that api_call queued is in one of qSend and qSendBack, once, and *)
(* in none while it runs, however often running_action_call_api puts it    *)
(* back and api_restore_api_call_event restores it.                        *)
THEOREM AppCallsAreOnce == Spec => []AppCallsOnce
<1>1. IInv => AppCallsOnce
  BY PlacesAreWaiting DEF IInv, AppCallsOnce, Once
<1> QED
  BY <1>1, ApiInvariant, PTL

(* The same of every call, where none is the api layer's own.              *)
THEOREM CallsAreOnce ==
  ASSUME LeaveCall \notin Calls
  PROVE  Spec => []CallOnce
<1>1. IInv => CallOnce
  BY PlacesAreWaiting DEF IInv, CallOnce, Once
<1> QED
  BY <1>1, ApiInvariant, PTL

-----------------------------------------------------------------------------
(***************************************************************************)
(* With a link and a module that do not fail, and no soft reset, which the *)
(* product never asks for.                                                 *)
(***************************************************************************)
Reliable ==
  /\ ~LinkFails /\ ~Silent
  /\ \A c \in Calls : ApiOf[c] \notin NumstateZero

NoError(q) == \A e \in InSeq(q) : e.eid # "E_ERROR"
HasCall(q) == \E c \in Calls : Call(c) \in InSeq(q)

WInv ==
  /\ ~nested
  /\ NoError(qSend)
  /\ smState = "S_IDLE" /\ qSendBack # <<>> => HasCall(qSend)

LEMMA InSeqAppend ==
  ASSUME NEW T, NEW q \in Seq(T), NEW e \in T
  PROVE  InSeq(Append(q, e)) = InSeq(q) \cup {e}
<1>1. /\ Len(q) \in Nat /\ DOMAIN q = 1..Len(q)
      /\ DOMAIN Append(q, e) = 1..(Len(q) + 1)
      /\ \A i \in 1..Len(q) : Append(q, e)[i] = q[i]
      /\ Append(q, e)[Len(q) + 1] = e
  BY AppendProperties, LenProperties
<1> QED
  BY <1>1 DEF InSeq

LEMMA InSeqTail ==
  ASSUME NEW T, NEW q \in Seq(T), q # <<>>
  PROVE  InSeq(q) = {Head(q)} \cup InSeq(Tail(q))
<1>1. /\ Len(q) \in Nat \ {0} /\ DOMAIN q = 1..Len(q)
      /\ DOMAIN Tail(q) = 1..(Len(q) - 1)
      /\ \A i \in 1..(Len(q) - 1) : Tail(q)[i] = q[i + 1]
      /\ Head(q) = q[1]
  <2>1. Len(q) \in Nat \ {0}
    BY EmptySeq
  <2> QED
    BY <2>1, HeadTailProperties, LenProperties
<1>2. \A i \in DOMAIN q : i = 1 \/ (i - 1 \in DOMAIN Tail(q) /\ q[i] = Tail(q)[i - 1])
  BY <1>1
<1>3. InSeq(q) \subseteq {Head(q)} \cup InSeq(Tail(q))
  BY <1>1, <1>2 DEF InSeq
<1>4. {Head(q)} \cup InSeq(Tail(q)) \subseteq InSeq(q)
  BY <1>1 DEF InSeq
<1> QED
  BY <1>3, <1>4

LEMMA RestoreFindsCall ==
  ASSUME qSendBack \in Seq(CallEvents), NEW qs \in Seq(SendEvents), RestoreAndBeat(qs)
  PROVE  /\ InSeq(qs) \subseteq InSeq(qSend')
         /\ InSeq(qSend') \subseteq InSeq(qs) \cup CallEvents \cup {Beat}
         /\ qSendBack # <<>> => HasCall(qSend')
<1>1. CASE qSendBack = <<>>
  <2>1. qSend' = Append(qs, Beat)
    BY <1>1 DEF RestoreAndBeat
  <2>2. InSeq(Append(qs, Beat)) = InSeq(qs) \cup {Beat}
    BY EventTypes, InSeqAppend
  <2> QED
    BY <1>1, <2>1, <2>2
<1>2. CASE qSendBack # <<>>
  <2> DEFINE h == Head(qSendBack)
             one == Append(qs, h)
  <2>1. h \in CallEvents /\ h \in SendEvents
    BY <1>2, HeadTailProperties, EventTypes
  <2>2. one \in Seq(SendEvents)
    BY <2>1, AppendProperties
  <2>3. qSend' = Append(one, Beat)
    BY <1>2, <2>1, <2>2, EventTypes DEF RestoreAndBeat
  <2>4. InSeq(one) = InSeq(qs) \cup {h}
    BY <2>1, InSeqAppend
  <2> HIDE DEF h, one
  <2>5. InSeq(qSend') = InSeq(qs) \cup {h, Beat}
    BY <2>2, <2>3, <2>4, EventTypes, InSeqAppend
  <2> QED
    BY <2>1, <2>5 DEF HasCall, CallEvents
<1> QED
  BY <1>1, <1>2

LEMMA MoveFindsCall ==
  ASSUME IInv, ~nested, NEW qs \in Seq(SendEvents),
         param \in Machines, NEW table \in {AckNext, DataNext},
         MoveMachine(NextState(table, param.state), qs)
  PROVE  /\ InSeq(qSend') \subseteq InSeq(qs) \cup CallEvents \cup {Beat}
         /\ smState' = "S_IDLE" /\ qSendBack' # <<>> => HasCall(qSend')
<1>0. qSendBack \in Seq(CallEvents)
  BY DEF IInv, TypeOK
<1> DEFINE s == NextState(table, param.state)
<1>1. CASE s = "S_END"
  <2>1. RestoreAndBeat(qs)
    BY <1>1 DEF MoveMachine, Complete
  <2>2. qSendBack = <<>> => qSendBack' = <<>>
    BY <2>1 DEF RestoreAndBeat
  <2> QED
    BY <1>0, <2>1, <2>2, RestoreFindsCall
<1>2. CASE s # "S_END"
  <2>1. /\ qSend' = IF s = "S_WAIT_LEAVE_COMP" /\ param.state # s
                    THEN Append(qs, Call(LeaveCall)) ELSE qs
        /\ Become("S_RUNNING")
    BY <1>2 DEF MoveMachine
  <2>2. s = "S_WAIT_LEAVE_COMP" => LeaveCall \in Calls
    <3>1. s = "S_WAIT_LEAVE_COMP" => param.api = Remove /\ param.api \in Asked
      BY <1>2, MachinesMove DEF Machines
    <3> QED
      BY <3>1, LeaveAssumption DEF Asked, Remove
  <2>3. s = "S_WAIT_LEAVE_COMP" =>
          InSeq(Append(qs, Call(LeaveCall))) = InSeq(qs) \cup {Call(LeaveCall)}
    BY <2>2, EventTypes, InSeqAppend
  <2>4. smState' = "S_RUNNING"
    BY <2>1 DEF Become
  <2> QED
    BY <2>1, <2>2, <2>3, <2>4, EventTypes
<1> QED
  BY <1>1, <1>2

LEMMA StepFindsCall ==
  ASSUME Reliable, IInv, ~nested,
         NEW e \in Events, NEW qs \in Seq(SendEvents), NEW l \in Links,
         e.eid # "E_ERROR", NoError(qs),
         smState = "S_IDLE" /\ qSendBack # <<>> /\ e.eid # "E_CALL_API" => HasCall(qs),
         state_machine_step(e, qs, l)
  PROVE  WInv'
<1>0. /\ qSendBack \in Seq(CallEvents) /\ param \in Machines \cup {NoMachine}
  BY DEF IInv, TypeOK
<1> SUFFICES /\ nested' = FALSE
             /\ InSeq(qSend') \subseteq InSeq(qs) \cup CallEvents \cup {Beat}
             /\ smState' = "S_IDLE" /\ qSendBack' # <<>> => HasCall(qSend')
  <2>1. \A x \in CallEvents \cup {Beat} : x.eid # "E_ERROR"
    BY DEF CallEvents, Call, Beat, Event
  <2> QED
    BY <2>1 DEF WInv, NoError
<1>1. CASE IdleStep(e, qs, l) /\ smState = "S_IDLE"
  <2>1. qSend' = qs /\ qSendBack' = qSendBack /\ nested' = FALSE
    BY <1>1 DEF IdleStep, Become
  <2>2. CASE e.eid = "E_CALL_API"
    <3>1. smState' = "S_RUNNING"
      BY <1>1, <2>2 DEF IdleStep, Become
    <3> QED
      BY <2>1, <3>1
  <2>3. CASE e.eid # "E_CALL_API"
    BY <1>1, <2>1, <2>3
  <2> QED
    BY <2>2, <2>3
<1>2. CASE RunningStep(e, qs, l) /\ smState = "S_RUNNING"
  <2>1. CASE e.eid = "E_ACK"
    <3>1. running_action_ack(e, qs) /\ e.arg \in Asked
      BY <1>2, <2>1, EventKinds DEF RunningStep
    <3>2. CASE param = NoMachine
      <4>1. e.arg \notin NumstateZero
        BY <3>1 DEF Reliable, Asked
      <4>2. qSend' = qs /\ smState' = "S_RUNNING" /\ nested' = FALSE
        BY <3>1, <3>2, <4>1 DEF running_action_ack, Become
      <4> QED
        BY <4>2
    <3>3. CASE param # NoMachine
      <4>1. MoveMachine(NextState(AckNext, param.state), qs)
        BY <3>1, <3>3 DEF running_action_ack
      <4> QED
        BY <1>0, <3>3, <4>1, MoveFindsCall, MoveTypes
    <3> QED
      BY <3>2, <3>3
  <2>2. CASE e.eid = "E_DATA"
    <3>1. running_action_data(qs)
      BY <1>2, <2>2 DEF RunningStep
    <3>2. CASE param = NoMachine
      <4>1. Complete(qs) /\ RestoreAndBeat(qs) /\ nested' = FALSE
        BY <3>1, <3>2 DEF running_action_data, Complete, Become
      <4>2. qSendBack = <<>> => qSendBack' = <<>>
        BY <4>1 DEF RestoreAndBeat
      <4> QED
        BY <1>0, <4>1, <4>2, RestoreFindsCall
    <3>3. CASE param # NoMachine
      <4>1. MoveMachine(NextState(DataNext, param.state), qs)
        BY <3>1, <3>3 DEF running_action_data
      <4> QED
        BY <1>0, <3>3, <4>1, MoveFindsCall, MoveTypes
    <3> QED
      BY <3>2, <3>3
  <2>3. CASE e.eid \notin {"E_ACK", "E_DATA"}
    <3>1. Become("S_RUNNING") /\ qSend' = qs
      BY <1>2, <2>3, EventKinds DEF RunningStep
    <3> QED
      BY <3>1 DEF Become
  <2> QED
    BY <2>1, <2>2, <2>3
<1> QED
  BY <1>1, <1>2 DEF state_machine_step

LEMMA EventFindsCall ==
  ASSUME Reliable, IInv, WInv, NEW qr, qr = <<>> \/ \E e \in RecvEvents : qr = <<e>>,
         NEW qs \in Seq(SendEvents), InSeq(qSend) \subseteq InSeq(qs), NoError(qs),
         NEW l \in Links, handlerOneEvent(qr, qs, l)
  PROVE  WInv'
<1>0. ~nested /\ (smState = "S_IDLE" /\ qSendBack # <<>> => HasCall(qs))
  BY DEF WInv, HasCall
<1>1. CASE qr # <<>>
  <2>1. PICK e \in RecvEvents : qr = <<e>>
    BY <1>1
  <2>2. state_machine_step(e, qs, l)
    BY <1>1, <2>1 DEF handlerOneEvent
  <2>3. e \in Events /\ e.eid # "E_ERROR"
    BY DEF Events, RecvEvents, Event
  <2> QED
    BY <1>0, <2>2, <2>3, StepFindsCall
<1>2. CASE qr = <<>> /\ qs # <<>>
  <2>1. Head(qs) \in Events /\ Tail(qs) \in Seq(SendEvents)
    BY <1>2, HeadTailProperties DEF Events
  <2>2. state_machine_step(Head(qs), Tail(qs), l)
    BY <1>2 DEF handlerOneEvent
  <2>3. InSeq(qs) = {Head(qs)} \cup InSeq(Tail(qs))
    BY <1>2, InSeqTail
  <2>4. Head(qs).eid # "E_ERROR" /\ NoError(Tail(qs))
    BY <2>3 DEF NoError
  <2>5. HasCall(qs) /\ Head(qs).eid # "E_CALL_API" => HasCall(Tail(qs))
    BY <2>3 DEF HasCall, Call, Event
  <2> QED
    BY <1>0, <2>1, <2>2, <2>4, <2>5, StepFindsCall
<1>3. CASE qr = <<>> /\ qs = <<>>
  <2>1. /\ qSend' = <<>> /\ qSendBack' = qSendBack
        /\ smState' = smState /\ nested' = nested
    BY <1>3 DEF handlerOneEvent, machine
  <2> QED
    BY <1>0, <1>3, <2>1 DEF WInv, NoError, HasCall
<1> QED
  BY <1>1, <1>2, <1>3

LEMMA ReliableSteps ==
  ASSUME Reliable, IInv, ~nested, Next
  PROVE  \/ \E c \in Calls \ {LeaveCall} : api_call(c)
         \/ AckByte \/ Reply \/ Stray \/ NextByte \/ LastByte
         \/ api_beat_timer_callback
  BY DEF Reliable, Next, RefusedByte, SendTimeout, NestedBeat,
     api_send_timer_callback, ReplyMissing

(* What each of these finds when it comes to handlerOneEvent.              *)
LEMMA ReliableEvent ==
  ASSUME Reliable, IInv,
         \/ AckByte \/ Reply \/ Stray \/ NextByte \/ LastByte
         \/ api_beat_timer_callback
  PROVE  \/ /\ link.flying \in Calls /\ AckByte
            /\ handlerOneEvent(<<>>, Append(qSend, Event("E_ACK", ApiOf[link.flying])),
                               session_send_over(link))
         \/ handlerOneEvent(<<>>, qSend, link)
         \/ \E e \in RecvEvents :
              /\ e.eid = "E_DATA" => smState = "S_RUNNING" /\ param # NoMachine
              /\ handlerOneEvent(<<e>>, qSend, link)
<1>1. qRecv = <<>> /\ rx \in [cmd : Frames, left : 0..(Lead - 1)] \cup {NoRx}
  BY DEF IInv, ReceivedAtOnce, TypeOK
<1>2. CASE AckByte
  <2>1. link.flying \in Calls
    BY <1>2 DEF AckByte, IInv, TypeOK
  <2> QED
    BY <1>1, <1>2, <2>1 DEF AckByte, api_step
<1>3. CASE Reply \/ Stray
  BY <1>1, <1>3 DEF Reply, Stray, FirstByte, api_step
<1>4. CASE NextByte
  BY <1>1, <1>4 DEF NextByte, api_step
<1>5. CASE LastByte
  <2> DEFINE e == Event(IF IsReply(rx.cmd) THEN "E_DATA" ELSE "E_ASYNC_DATA", rx.cmd)
  <2>1. rx # NoRx /\ handlerOneEvent(Append(qRecv, e), qSend, link)
    BY <1>5 DEF LastByte, api_step
  <2>2. e \in RecvEvents
    BY <1>1, <2>1, EventTypes
  <2>3. e.eid = "E_DATA" => smState = "S_RUNNING" /\ param # NoMachine
    BY DEF IsReply, Event
  <2> HIDE DEF e
  <2>4. Append(qRecv, e) = <<e>>
    BY <1>1
  <2> QED
    BY <2>1, <2>2, <2>3, <2>4
<1>6. CASE api_beat_timer_callback
  BY <1>1, <1>6 DEF api_beat_timer_callback
<1> QED
  BY <1>2, <1>3, <1>4, <1>5, <1>6

LEMMA NextKeepsWInv ==
  ASSUME Reliable
  PROVE  IInv /\ WInv /\ [Next]_vars => WInv'
<1> SUFFICES ASSUME IInv, WInv, [Next]_vars PROVE WInv'
  OBVIOUS
<1>0. /\ qSend \in Seq(SendEvents) /\ link \in Links
  BY DEF IInv, TypeOK, Links
<1>1. CASE UNCHANGED vars
  BY <1>1 DEF vars, WInv, NoError, HasCall, machine, queues
<1>2. ASSUME NEW c \in Calls \ {LeaveCall}, api_call(c) PROVE WInv'
  <2>1. /\ ~nested /\ UNCHANGED <<machine, qSendBack>>
        /\ qSend' = qSend \o [i \in DOMAIN <<c>> |-> Call(<<c>>[i])]
    BY <1>2 DEF api_call, api_calls
  <2>2. Call(c) \in SendEvents
    BY EventTypes
  <2>3. qSend' = Append(qSend, Call(c))
    <3>1. [i \in DOMAIN <<c>> |-> Call(<<c>>[i])] = <<Call(c)>>
      OBVIOUS
    <3> QED
      BY <1>0, <2>1, <2>2, <3>1, AppendIsConcat
  <2>4. InSeq(qSend') = InSeq(qSend) \cup {Call(c)}
    BY <1>0, <2>2, <2>3, InSeqAppend
  <2>5. Call(c).eid # "E_ERROR"
    BY DEF Call, Event
  <2> QED
    BY <2>1, <2>4, <2>5 DEF WInv, NoError, HasCall, machine
<1>3. CASE \/ AckByte \/ Reply \/ Stray \/ NextByte \/ LastByte
           \/ api_beat_timer_callback
  <2>1. CASE \/ handlerOneEvent(<<>>, qSend, link)
             \/ \E e \in RecvEvents : handlerOneEvent(<<e>>, qSend, link)
    <3>1. NoError(qSend)
      BY DEF WInv
    <3> QED
      BY <1>0, <2>1, <3>1, EventFindsCall
  <2>2. CASE /\ link.flying \in Calls
             /\ handlerOneEvent(<<>>, Append(qSend, Event("E_ACK", ApiOf[link.flying])),
                                session_send_over(link))
    <3> DEFINE e == Event("E_ACK", ApiOf[link.flying])
    <3>1. e \in SendEvents /\ e.eid # "E_ERROR"
      BY <2>2, EventTypes DEF Event
    <3> HIDE DEF e
    <3>2. Append(qSend, e) \in Seq(SendEvents) /\ InSeq(Append(qSend, e)) = InSeq(qSend) \cup {e}
      BY <1>0, <3>1, AppendProperties, InSeqAppend
    <3>3. NoError(Append(qSend, e))
      BY <3>1, <3>2 DEF WInv, NoError
    <3>4. session_send_over(link) \in Links
      BY <1>0, SessionTypes
    <3>5. handlerOneEvent(<<>>, Append(qSend, e), session_send_over(link))
      BY <2>2 DEF e
    <3> QED
      BY <3>2, <3>3, <3>4, <3>5, EventFindsCall
  <2> QED
    BY <1>3, <2>1, <2>2, ReliableEvent
<1> QED
  BY <1>1, <1>2, <1>3, ReliableSteps DEF WInv

(* A call that running_action_call_api put back is not forgotten: while    *)
(* nothing runs, a call is on its way that restores it when it ends.       *)
THEOREM WaitingCallsAreRestored ==
  ASSUME Reliable
  PROVE  Spec => []WaitingIsRestored
<1>1. Init => WInv
  BY DEF Init, WInv, NoError, InSeq
<1>2. IInv /\ WInv /\ [Next]_vars => WInv'
  BY NextKeepsWInv
<1>3. WInv => WaitingIsRestored
  BY DEF WInv, WaitingIsRestored, HasCall
<1> QED
  BY <1>1, <1>2, <1>3, ApiInvariant, PTL DEF Spec

-----------------------------------------------------------------------------
(***************************************************************************)
(* One frame at a time.  On top of Reliable, of the commands that let a    *)
(* second call through (adding and removing a node) the app layer has one  *)
(* call each: it asks for no stop.  The calls put into the session and not *)
(* yet answered to smApi are counted where they can be: in the session, as *)
(* an E_ACK in qSend, or, for the one call that the api layer makes while  *)
(* a machine runs, still as that call in qSend.                            *)
(***************************************************************************)
NoStops ==
  \A c, d \in Calls \ {LeaveCall} :
    ApiOf[c] \in DOMAIN Async /\ ApiOf[c] = ApiOf[d] => c = d

AckEvents == {Event("E_ACK", api) : api \in Asked}
Acks(q)   == Tally(q, AckEvents)
Leaves(q) == Tally(q, {Call(LeaveCall)})

(* What smApi waits for: the answer to the call that it started, while the *)
(* command has no machine, and to the call that ends the removal.          *)
Awaits ==
  IF smState = "S_RUNNING" /\ (param = NoMachine \/ param.state = "S_WAIT_LEAVE_COMP")
  THEN 1 ELSE 0

LinkOk(l) ==
  \/ l.queue = <<>> /\ l.flying = NoCall
  \/ l.queue = <<l.flying>> /\ l.flying \in Calls /\ ApiOf[l.flying] = ApiOf[cur]

AcksOfCurrent(q) == \A e \in InSeq(q) : e.eid = "E_ACK" => e.arg = ApiOf[cur]

CurIsRunning ==
  /\ smState = "S_IDLE" => param = NoMachine
  /\ smState = "S_RUNNING" => cur \in Calls \ {LeaveCall}
  /\ param # NoMachine => param.api = ApiOf[cur]

FInv ==
  /\ CurIsRunning
  /\ LinkOk(link)
  /\ AcksOfCurrent(qSend)
  /\ Leaves(qSendBack) = 0
  /\ Len(link.queue) + Acks(qSend) + Leaves(qSend) = Awaits
  /\ param = NoMachine => Leaves(qSend) = 0

LEMMA TallySkip ==
  ASSUME NEW T, NEW q \in Seq(T), NEW e \in T, NEW S
  PROVE  /\ e \notin S => Tally(Append(q, e), S) = Tally(q, S)
         /\ e \in S => Tally(Append(q, e), S) = Tally(q, S) + 1
<1>1. Tally(Append(q, e), S) = Tally(q, S) + (IF e \in S THEN 1 ELSE 0)
  BY TallyAppend
<1>2. Tally(q, S) \in Nat
  BY TallyType
<1> QED
  BY <1>1, <1>2

LEMMA TallyZero ==
  ASSUME NEW T, NEW q \in Seq(T), NEW S, Tally(q, S) = 0
  PROVE  \A e \in InSeq(q) : e \notin S
<1>1. IsFiniteSet({i \in DOMAIN q : q[i] \in S})
  BY TallyType
<1>2. {i \in DOMAIN q : q[i] \in S} = {}
  BY <1>1, FS_EmptySet DEF Tally
<1> QED
  BY <1>2 DEF InSeq

LEMMA InSeqType ==
  ASSUME NEW T, NEW q \in Seq(T)
  PROVE  InSeq(q) \subseteq T
  BY LenProperties DEF InSeq

LEMMA KindsCounted ==
  /\ \A e \in Events : e \in AckEvents <=> e.eid = "E_ACK"
  /\ \A c : Call(c) \notin AckEvents
  /\ Beat \notin AckEvents /\ Beat # Call(LeaveCall)
  /\ \A e : e.eid # "E_CALL_API" => e # Call(LeaveCall)
<1>1. \A e \in AckEvents : e.eid = "E_ACK"
  BY DEF AckEvents, Event
<1>2. ASSUME NEW e \in Events, e.eid = "E_ACK" PROVE e \in AckEvents
  <2>1. \A x \in CallEvents \cup {Beat} \cup RecvEvents : x.eid # "E_ACK"
    BY DEF CallEvents, Call, Beat, RecvEvents, Event
  <2>2. PICK eid \in {"E_ACK", "E_ERROR"}, api \in Asked : e = Event(eid, api)
    BY <1>2, <2>1 DEF Events, SendEvents
  <2>3. eid = "E_ACK"
    BY <1>2, <2>2 DEF Event
  <2> QED
    BY <2>2, <2>3 DEF AckEvents
<1>3. (\A c : Call(c).eid = "E_CALL_API") /\ Beat.eid = "E_BEAT"
  BY DEF Call, Beat, Event
<1> QED
  BY <1>1, <1>2, <1>3

LEMMA RestoreCounts ==
  ASSUME qSendBack \in Seq(CallEvents), NEW qs \in Seq(SendEvents),
         RestoreAndBeat(qs), Leaves(qSendBack) = 0
  PROVE  /\ Acks(qSend') = Acks(qs) /\ Leaves(qSend') = Leaves(qs)
         /\ Leaves(qSendBack') = 0
<1>1. Leaves(qSend') + Leaves(qSendBack') = Leaves(qs)
  <2>1. Waiting(LeaveCall)' = Leaves(qs) + Leaves(qSendBack)
    BY RestoreKeepsCalls DEF Leaves
  <2>2. Waiting(LeaveCall)' = Leaves(qSend') + Leaves(qSendBack')
    BY DEF Waiting, Leaves, Tally
  <2>3. Leaves(qs) \in Nat
    BY TallyType DEF Leaves
  <2> QED
    BY <2>1, <2>2, <2>3
<1>2. Leaves(qSendBack') = 0
  <2>1. CASE qSendBack = <<>>
    BY <2>1 DEF RestoreAndBeat
  <2>2. CASE qSendBack # <<>>
    <3>1. qSendBack' = Tail(qSendBack) /\ Tail(qSendBack) \in Seq(CallEvents)
      BY <2>2, HeadTailProperties DEF RestoreAndBeat
    <3>2. Tally(qSendBack, {Call(LeaveCall)}) =
            Tally(Tail(qSendBack), {Call(LeaveCall)})
              + (IF Head(qSendBack) \in {Call(LeaveCall)} THEN 1 ELSE 0)
      BY <2>2, TallyTail
    <3>3. Tally(Tail(qSendBack), {Call(LeaveCall)}) \in Nat
      BY <3>1, TallyType
    <3>4. Tally(Tail(qSendBack), {Call(LeaveCall)}) = 0
      BY <3>2, <3>3 DEF Leaves
    <3> QED
      BY <3>1, <3>4 DEF Leaves
  <2> QED
    BY <2>1, <2>2
<1>3. Leaves(qSend') = Leaves(qs)
  <2>1. Leaves(qSend') \in Nat
    BY RestoreTypes, TallyType DEF Leaves
  <2> QED
    BY <1>1, <1>2, <2>1
<1>4. Acks(qSend') = Acks(qs)
  <2>1. CASE qSendBack = <<>>
    <3>1. qSend' = Append(qs, Beat)
      BY <2>1 DEF RestoreAndBeat
    <3>2. Tally(Append(qs, Beat), AckEvents) = Tally(qs, AckEvents)
      BY EventTypes, KindsCounted, TallySkip
    <3> QED
      BY <3>1, <3>2 DEF Acks
  <2>2. CASE qSendBack # <<>>
    <3> DEFINE h == Head(qSendBack)
               one == Append(qs, h)
    <3>1. h \in CallEvents /\ h \in SendEvents /\ h \notin AckEvents
      <4>1. h \in CallEvents
        BY <2>2, HeadTailProperties
      <4> QED
        BY <4>1, EventTypes, KindsCounted DEF CallEvents
    <3>2. one \in Seq(SendEvents)
      BY <3>1, AppendProperties
    <3>3. qSend' = Append(one, Beat)
      BY <2>2, <3>1, <3>2, EventTypes DEF RestoreAndBeat
    <3>4. Tally(one, AckEvents) = Tally(qs, AckEvents)
      BY <3>1, TallySkip
    <3> HIDE DEF one
    <3>5. Tally(Append(one, Beat), AckEvents) = Tally(one, AckEvents)
      BY <3>2, EventTypes, KindsCounted, TallySkip
    <3> QED
      BY <3>3, <3>4, <3>5 DEF Acks
  <2> QED
    BY <2>1, <2>2
<1> QED
  BY <1>2, <1>3, <1>4

(* What a step of smApi finds, where it is known what it waits for.        *)
Expected(e, qs, l) ==
  /\ CurIsRunning
  /\ LinkOk(l)
  /\ AcksOfCurrent(qs) /\ (e.eid = "E_ACK" => e.arg = ApiOf[cur])
  /\ Leaves(qSendBack) = 0
  /\ Len(l.queue) + Acks(qs) + Leaves(qs)
       + (IF e.eid = "E_ACK" THEN 1 ELSE 0)
       + (IF e = Call(LeaveCall) THEN 1 ELSE 0) = Awaits
  /\ param = NoMachine => Leaves(qs) = 0 /\ e # Call(LeaveCall)
  /\ e.eid = "E_DATA" => smState = "S_RUNNING" /\ param # NoMachine
  /\ e.eid # "E_ERROR"
  /\ smState = "S_RUNNING" => e # Call(cur)

LEMMA FInvAfter ==
  ASSUME CurIsRunning', LinkOk(link)', AcksOfCurrent(qSend)',
         Leaves(qSendBack') = 0,
         Len(link'.queue) + Acks(qSend') + Leaves(qSend') = Awaits',
         param' = NoMachine => Leaves(qSend') = 0
  PROVE  FInv'
  BY DEF FInv, Acks, Leaves, Tally

LEMMA LinkCounts ==
  ASSUME NEW l \in Links, LinkOk(l)
  PROVE  /\ Len(l.queue) \in {0, 1}
         /\ Len(l.queue) = 0 <=> l.queue = <<>>
         /\ \A c \in Calls : l.queue = <<>> =>
              session_send(l, c) = [queue |-> <<c>>, flying |-> c]
<1>1. CASE l.queue = <<>> /\ l.flying = NoCall
  BY <1>1 DEF session_send
<1>2. CASE l.queue = <<l.flying>>
  BY <1>2
<1> QED
  BY <1>1, <1>2 DEF LinkOk

LEMMA IdleCounts ==
  ASSUME IInv, ~nested, NEW e \in Events, NEW qs \in Seq(SendEvents), NEW l \in Links,
         Expected(e, qs, l), smState = "S_IDLE", IdleStep(e, qs, l)
  PROVE  FInv'
<1>1. Len(l.queue) \in {0, 1} /\ Acks(qs) \in Nat /\ Leaves(qs) \in Nat
  BY LinkCounts, TallyType DEF Acks, Leaves, Expected
<1>2. /\ Awaits = 0 /\ Len(l.queue) = 0 /\ Acks(qs) = 0 /\ Leaves(qs) = 0
      /\ e.eid # "E_ACK" /\ e # Call(LeaveCall)
  <2> DEFINE a == IF e.eid = "E_ACK" THEN 1 ELSE 0
             b == IF e = Call(LeaveCall) THEN 1 ELSE 0
  <2>1. a \in Nat /\ b \in Nat
    OBVIOUS
  <2>2. (a = 0 => e.eid # "E_ACK") /\ (b = 0 => e # Call(LeaveCall))
    OBVIOUS
  <2>3. Awaits = 0
    BY DEF Awaits
  <2>4. Len(l.queue) + Acks(qs) + Leaves(qs) + a + b = 0
    BY <2>3 DEF Expected
  <2> HIDE DEF a, b
  <2> QED
    BY <1>1, <2>1, <2>2, <2>3, <2>4
<1>3. l.queue = <<>> /\ l.flying = NoCall
  BY <1>2, LinkCounts DEF Expected, LinkOk
<1>4. \A x \in InSeq(qs) : x.eid # "E_ACK"
  <2>1. \A x \in InSeq(qs) : x \notin AckEvents /\ x \in Events
    BY <1>2, TallyZero, InSeqType DEF Acks, Events
  <2> QED
    BY <2>1, KindsCounted
<1>5. qSend' = qs /\ qSendBack' = qSendBack /\ param' = param /\ param = NoMachine
  BY DEF IdleStep, AsyncData, Keep, Expected, CurIsRunning
<1>6. AcksOfCurrent(qSend)'
  BY <1>4, <1>5 DEF AcksOfCurrent, InSeq
<1>7. Leaves(qSendBack') = 0 /\ Acks(qSend') = 0 /\ Leaves(qSend') = 0
  BY <1>2, <1>5 DEF Expected
<1>8. CASE e.eid = "E_CALL_API"
  <2>1. e.arg \in Calls \ {LeaveCall}
    BY <1>2, <1>8, EventKinds
  <2>2. /\ smState' = "S_RUNNING" /\ cur' = e.arg
        /\ link' = [queue |-> <<e.arg>>, flying |-> e.arg]
    BY <1>3, <1>8, <2>1, LinkCounts DEF IdleStep, Become, Expected
  <2>3. CurIsRunning' /\ LinkOk(link)' /\ Awaits' = 1 /\ Len(link'.queue) = 1
    BY <1>5, <2>1, <2>2 DEF CurIsRunning, LinkOk, Awaits
  <2> QED
    BY <1>5, <1>6, <1>7, <2>3, FInvAfter
<1>9. CASE e.eid # "E_CALL_API"
  <2>1. smState' = "S_IDLE" /\ cur' = cur /\ link' = l
    BY <1>9 DEF IdleStep, Become, AsyncData, Keep
  <2>2. CurIsRunning' /\ LinkOk(link)' /\ Awaits' = 0
    BY <1>5, <2>1 DEF CurIsRunning, LinkOk, Awaits, Expected
  <2> QED
    BY <1>2, <1>5, <1>6, <1>7, <2>1, <2>2, FInvAfter
<1> QED
  BY <1>8, <1>9

(* The machine is where it was, and so are the events. *)
LEMMA StayCounts ==
  ASSUME NEW e \in Events, NEW qs \in Seq(SendEvents), NEW l \in Links,
         Expected(e, qs, l), e.eid # "E_ACK", e # Call(LeaveCall),
         qSend' = qs, link' = l, UNCHANGED <<smState, param, cur>>,
         Leaves(qSendBack') = 0
  PROVE  FInv'
<1>1. CurIsRunning' /\ LinkOk(link)' /\ AcksOfCurrent(qSend)' /\ Awaits' = Awaits
  BY DEF Expected, CurIsRunning, LinkOk, AcksOfCurrent, InSeq, Awaits
<1>2. Len(l.queue) \in {0, 1} /\ Acks(qs) \in Nat /\ Leaves(qs) \in Nat
  BY LinkCounts, TallyType DEF Acks, Leaves, Expected
<1>3. Len(l.queue) + Acks(qs) + Leaves(qs) = Awaits
  BY <1>2 DEF Expected
<1> QED
  BY <1>1, <1>3, FInvAfter DEF Expected

(* The machine ends: what restores the waiting calls adds nothing counted. *)
LEMMA CompleteCounts ==
  ASSUME IInv, NEW qs \in Seq(SendEvents), NEW l \in Links,
         CurIsRunning, LinkOk(l), AcksOfCurrent(qs), Leaves(qSendBack) = 0,
         l.queue = <<>>, Acks(qs) = 0, Leaves(qs) = 0,
         Complete(qs), link' = l, cur' = cur
  PROVE  FInv'
<1>0. qSendBack \in Seq(CallEvents)
  BY DEF IInv, TypeOK
<1>1. /\ RestoreAndBeat(qs) /\ param' = NoMachine /\ smState' = "S_IDLE"
  BY DEF Complete, Become
<1>2. /\ Acks(qSend') = 0 /\ Leaves(qSend') = 0 /\ Leaves(qSendBack') = 0
  BY <1>0, <1>1, RestoreCounts
<1>3. AcksOfCurrent(qSend)'
  <2>1. InSeq(qSend') \subseteq InSeq(qs) \cup CallEvents \cup {Beat}
    BY <1>0, <1>1, RestoreFindsCall
  <2>2. \A x \in CallEvents \cup {Beat} : x.eid # "E_ACK"
    BY DEF CallEvents, Call, Beat, Event
  <2> QED
    BY <2>1, <2>2 DEF AcksOfCurrent, InSeq
<1>4. CurIsRunning' /\ LinkOk(link)' /\ Awaits' = 0 /\ Len(link'.queue) = 0
  BY <1>1 DEF CurIsRunning, LinkOk, Awaits
<1> QED
  BY <1>2, <1>3, <1>4, FInvAfter

LEMMA AckCounts ==
  ASSUME Reliable, IInv, ~nested,
         NEW e \in Events, NEW qs \in Seq(SendEvents), NEW l \in Links,
         Expected(e, qs, l), smState = "S_RUNNING", e.eid = "E_ACK",
         RunningStep(e, qs, l)
  PROVE  FInv'
<1>1. running_action_ack(e, qs) /\ link' = l /\ cur' = cur
  BY DEF RunningStep
<1>2. Len(l.queue) \in {0, 1} /\ Acks(qs) \in Nat /\ Leaves(qs) \in Nat
  BY LinkCounts, TallyType DEF Acks, Leaves, Expected
<1>3. e # Call(LeaveCall) /\ e.arg \in Asked
  BY EventKinds DEF Call, Event
<1>4. /\ Len(l.queue) = 0 /\ Acks(qs) = 0 /\ Leaves(qs) = 0
      /\ param = NoMachine \/ param.state = "S_WAIT_LEAVE_COMP"
  BY <1>2, <1>3 DEF Expected, Awaits
<1>5. l.queue = <<>>
  BY <1>4, LinkCounts DEF Expected
<1>6. CASE param = NoMachine
  <2>1. /\ param' = [api |-> e.arg, state |-> InitState[e.arg]]
        /\ qSend' = qs /\ qSendBack' = qSendBack
        /\ smState' = "S_RUNNING"
    BY <1>1, <1>3, <1>6 DEF running_action_ack, Become, Reliable, Asked
  <2>2. /\ param'.api = ApiOf[cur'] /\ param' # NoMachine
        /\ param'.state # "S_WAIT_LEAVE_COMP"
    <3>1. InitState[e.arg] # "S_WAIT_LEAVE_COMP"
      <4>1. e.arg \in Apis
        BY <1>3, CallsAssumption DEF Asked
      <4> QED
        BY <4>1 DEF InitState, Apis, OneReply, OtherInit
    <3>2. e.arg = ApiOf[cur]
      BY DEF Expected
    <3>3. e.arg # "none"
      BY <1>3, CallsAssumption DEF Asked, Apis, OneReply, OtherInit
    <3> QED
      BY <1>1, <2>1, <3>1, <3>2, <3>3 DEF NoMachine
  <2>3. CurIsRunning' /\ LinkOk(link)' /\ AcksOfCurrent(qSend)' /\ Awaits' = 0
    BY <1>1, <2>1, <2>2 DEF CurIsRunning, LinkOk, AcksOfCurrent, InSeq, Awaits,
       Expected
  <2> QED
    BY <1>1, <1>4, <2>1, <2>3, FInvAfter DEF Expected
<1>7. CASE param # NoMachine
  <2>1. NextState(AckNext, param.state) = "S_END"
    BY <1>4, <1>7, AckTable DEF NextState
  <2>2. Complete(qs)
    BY <1>1, <1>7, <2>1 DEF running_action_ack, MoveMachine
  <2> QED
    BY <1>1, <1>4, <1>5, <2>2, CompleteCounts DEF Expected
<1> QED
  BY <1>6, <1>7

LEMMA DataCounts ==
  ASSUME IInv, ~nested,
         NEW e \in Events, NEW qs \in Seq(SendEvents), NEW l \in Links,
         Expected(e, qs, l), e.eid = "E_DATA", RunningStep(e, qs, l)
  PROVE  FInv'
<1> DEFINE s == NextState(DataNext, param.state)
<1>1. /\ smState = "S_RUNNING" /\ param \in Machines /\ param # NoMachine
      /\ MoveMachine(s, qs) /\ link' = l /\ cur' = cur
  BY DEF Expected, RunningStep, running_action_data, IInv
<1>2. Len(l.queue) \in {0, 1} /\ Acks(qs) \in Nat /\ Leaves(qs) \in Nat
  BY LinkCounts, TallyType DEF Acks, Leaves, Expected
<1>3. Len(l.queue) + Acks(qs) + Leaves(qs) = Awaits
  <2>1. e # Call(LeaveCall)
    BY DEF Call, Event
  <2> QED
    BY <1>2, <2>1 DEF Expected
<1>4. CASE s = "S_END"
  <2>1. param.state # "S_WAIT_LEAVE_COMP"
    BY <1>4, DataTable DEF NextState, OneReplyStates
  <2>2. Len(l.queue) = 0 /\ Acks(qs) = 0 /\ Leaves(qs) = 0
    BY <1>1, <1>2, <1>3, <2>1 DEF Awaits
  <2>3. l.queue = <<>> /\ Complete(qs)
    BY <1>1, <1>4, <2>2, LinkCounts DEF Expected, MoveMachine
  <2> QED
    BY <1>1, <2>2, <2>3, CompleteCounts DEF Expected
<1>5. CASE s # "S_END"
  <2>1. /\ param' = [param EXCEPT !.state = s] /\ smState' = "S_RUNNING"
        /\ qSend' = IF s = "S_WAIT_LEAVE_COMP" /\ param.state # s
                    THEN Append(qs, Call(LeaveCall)) ELSE qs
        /\ qSendBack' = qSendBack
    BY <1>1, <1>5 DEF MoveMachine, Become
  <2>2. /\ param \in [api : Asked, state : SubStates]
        /\ param' \in Machines /\ param'.api = param.api /\ param'.state = s
        /\ s = "S_WAIT_LEAVE_COMP" => param.api = Remove
    BY <1>1, <1>5, <2>1, MachinesMove DEF Machines
  <2>3. param' # NoMachine
    <3>1. "none" \notin Asked
      BY CallsAssumption DEF Asked, Apis, OneReply, OtherInit
    <3> QED
      BY <2>2, <3>1 DEF Machines, NoMachine
  <2>4. CurIsRunning' /\ LinkOk(link)' /\ Leaves(qSendBack') = 0
    BY <1>1, <2>1, <2>2, <2>3 DEF CurIsRunning, LinkOk, Expected
  <2>5. CASE s = "S_WAIT_LEAVE_COMP" /\ param.state # s
    <3>1. Call(LeaveCall) \in SendEvents
      <4>1. param.api = Remove /\ param.api \in Asked
        BY <2>2, <2>5
      <4> QED
        BY <4>1, LeaveAssumption, EventTypes DEF Asked, Remove
    <3>2. qSend' = Append(qs, Call(LeaveCall))
      BY <2>1, <2>5
    <3>3. Acks(qSend') = Acks(qs) /\ Leaves(qSend') = Leaves(qs) + 1
      BY <3>1, <3>2, KindsCounted, TallySkip DEF Acks, Leaves
    <3>4. InSeq(qSend') = InSeq(qs) \cup {Call(LeaveCall)}
      BY <3>1, <3>2, InSeqAppend
    <3>5. AcksOfCurrent(qSend)'
      <4>1. Call(LeaveCall).eid # "E_ACK"
        BY DEF Call, Event
      <4> QED
        BY <1>1, <3>4, <4>1 DEF AcksOfCurrent, InSeq, Expected
    <3>6. Awaits = 0 /\ Awaits' = 1
      BY <1>1, <2>1, <2>2, <2>3, <2>5 DEF Awaits
    <3>7. Len(link'.queue) + Acks(qSend') + Leaves(qSend') = Awaits'
      BY <1>1, <1>2, <1>3, <3>3, <3>6
    <3> QED
      BY <2>3, <2>4, <3>5, <3>7, FInvAfter
  <2>6. CASE ~(s = "S_WAIT_LEAVE_COMP" /\ param.state # s)
    <3>1. qSend' = qs
      BY <2>1, <2>6
    <3>2. AcksOfCurrent(qSend)'
      BY <1>1, <3>1 DEF AcksOfCurrent, InSeq, Expected
    <3>3. s = "S_WAIT_LEAVE_COMP" <=> param.state = "S_WAIT_LEAVE_COMP"
      BY <2>6, DataTable DEF NextState, OneReplyStates
    <3>4. Awaits' = Awaits
      BY <1>1, <2>1, <2>2, <2>3, <3>3 DEF Awaits
    <3> QED
      BY <1>1, <1>3, <2>3, <2>4, <3>1, <3>2, <3>4, FInvAfter
  <2> QED
    BY <2>5, <2>6
<1> QED
  BY <1>4, <1>5

LEMMA CallCounts ==
  ASSUME Reliable, NoStops, IInv, ~nested,
         NEW e \in Events, NEW qs \in Seq(SendEvents), NEW l \in Links,
         Expected(e, qs, l), smState = "S_RUNNING", e.eid = "E_CALL_API",
         RunningStep(e, qs, l)
  PROVE  FInv'
<1> DEFINE c == e.arg
<1>1. /\ c \in Calls /\ e = Call(c)
      /\ cur \in Calls \ {LeaveCall} /\ c # cur
      /\ param \in Machines \cup {NoMachine}
  BY EventKinds DEF Expected, CurIsRunning, IInv
<1>2. /\ qSend' = qs /\ UNCHANGED <<smState, param, cur>>
      /\ \/ /\ GoesThrough(param, ApiOf[c])
            /\ link' = session_send(l, c)
            /\ qSendBack' = qSendBack
         \/ /\ ~GoesThrough(param, ApiOf[c])
            /\ qSendBack' = Append(qSendBack, e)
            /\ link' = l
  BY DEF RunningStep, Become, Keep
<1>3. Len(l.queue) \in {0, 1} /\ Acks(qs) \in Nat /\ Leaves(qs) \in Nat
  BY LinkCounts, TallyType DEF Acks, Leaves, Expected
<1>4. CASE c = LeaveCall
  <2>1. /\ Len(l.queue) = 0 /\ Acks(qs) = 0 /\ Leaves(qs) = 0
        /\ Awaits = 1
        /\ param # NoMachine /\ param.state = "S_WAIT_LEAVE_COMP"
    BY <1>1, <1>3, <1>4 DEF Expected, Awaits
  <2>2. /\ ApiOf[LeaveCall] = Remove /\ param.api = Remove
        /\ ApiOf[cur] = Remove
    BY <1>1, <1>4, <2>1, LeaveAssumption
    DEF Machines, Fits, Remove, Expected, CurIsRunning
  <2>3. GoesThrough(param, ApiOf[c])
    BY <1>4, <2>1, <2>2 DEF GoesThrough, Async, Remove
  <2>4. link' = [queue |-> <<LeaveCall>>, flying |-> LeaveCall] /\ qSendBack' = qSendBack
    BY <1>1, <1>2, <1>4, <2>1, <2>3, LinkCounts DEF Expected
  <2>5. /\ CurIsRunning' /\ LinkOk(link)' /\ AcksOfCurrent(qSend)'
        /\ Awaits' = 1 /\ Len(link'.queue) = 1
    BY <1>1, <1>2, <1>4, <2>1, <2>2, <2>4
    DEF CurIsRunning, LinkOk, AcksOfCurrent, InSeq, Awaits, Expected
  <2> QED
    BY <1>2, <2>1, <2>4, <2>5, FInvAfter DEF Expected
<1>5. CASE c # LeaveCall
  <2>1. e # Call(LeaveCall) /\ e \in CallEvents
    BY <1>1, <1>5, EventTypes DEF Call, Event
  <2>2. ~GoesThrough(param, ApiOf[c])
    <3>1. SUFFICES ASSUME GoesThrough(param, ApiOf[c]) PROVE FALSE
      OBVIOUS
    <3>2. ApiOf[c] = param.api /\ ApiOf[c] \in DOMAIN Async
      BY <3>1 DEF GoesThrough
    <3>3. param # NoMachine
      BY <3>2 DEF NoMachine, Async
    <3>4. ApiOf[c] = ApiOf[cur]
      BY <3>2, <3>3 DEF Expected, CurIsRunning
    <3> QED
      BY <1>1, <1>5, <3>2, <3>4 DEF NoStops
  <2>3. qSendBack' = Append(qSendBack, e) /\ link' = l
    BY <1>2, <2>2
  <2>4. Leaves(qSendBack') = 0
    <3>1. qSendBack \in Seq(CallEvents) /\ e \notin {Call(LeaveCall)}
      BY <2>1 DEF IInv, TypeOK
    <3>2. Tally(Append(qSendBack, e), {Call(LeaveCall)}) =
            Tally(qSendBack, {Call(LeaveCall)})
      BY <2>1, <3>1, TallySkip
    <3> QED
      BY <2>3, <3>2 DEF Leaves, Expected
  <2> QED
    BY <1>2, <2>1, <2>3, <2>4, StayCounts
<1> QED
  BY <1>4, <1>5

LEMMA StepCounts ==
  ASSUME Reliable, NoStops, IInv, ~nested,
         NEW e \in Events, NEW qs \in Seq(SendEvents), NEW l \in Links,
         Expected(e, qs, l), state_machine_step(e, qs, l)
  PROVE  FInv'
<1>1. CASE IdleStep(e, qs, l) /\ smState = "S_IDLE"
  BY <1>1, IdleCounts
<1>2. CASE RunningStep(e, qs, l) /\ smState = "S_RUNNING"
  <2>1. CASE e.eid \in {"E_ASYNC_DATA", "E_BEAT"}
    <3>1. /\ qSend' = qs /\ link' = l /\ qSendBack' = qSendBack
          /\ UNCHANGED <<smState, param, cur>>
      BY <1>2, <2>1 DEF RunningStep, AsyncData, Keep, Become
    <3>2. e.eid # "E_ACK" /\ e # Call(LeaveCall)
      BY <2>1 DEF Call, Event
    <3> QED
      BY <3>1, <3>2, StayCounts DEF Expected
  <2>2. CASE e.eid = "E_ERROR"
    BY <2>2 DEF Expected
  <2> QED
    BY <1>2, <2>1, <2>2, AckCounts, DataCounts, CallCounts, EventKinds
<1> QED
  BY <1>1, <1>2 DEF state_machine_step

(* FInv of the queue qs and the session l. *)
Ready(qs, l) ==
  /\ CurIsRunning
  /\ LinkOk(l)
  /\ AcksOfCurrent(qs)
  /\ Leaves(qSendBack) = 0
  /\ Len(l.queue) + Acks(qs) + Leaves(qs) = Awaits
  /\ param = NoMachine => Leaves(qs) = 0

(* The event at the head of qSend, counted out of it. *)
LEMMA HeadExpected ==
  ASSUME IInv, NEW qs \in Seq(SendEvents), qs # <<>>, SameCalls(qs), NoError(qs),
         NEW l \in Links, Ready(qs, l)
  PROVE  Expected(Head(qs), Tail(qs), l)
<1> DEFINE e == Head(qs)
           rest == Tail(qs)
<1>1. /\ e \in SendEvents /\ rest \in Seq(SendEvents) /\ e \in Events
      /\ e \in InSeq(qs) /\ InSeq(rest) \subseteq InSeq(qs)
  BY HeadTailProperties, InSeqTail DEF Events
<1>2. Len(l.queue) \in {0, 1}
  BY LinkCounts DEF Ready
<1>3. Acks(rest) \in Nat /\ Leaves(rest) \in Nat
  BY <1>1, TallyType DEF Acks, Leaves
<1>4. Acks(qs) = Acks(rest) + (IF e.eid = "E_ACK" THEN 1 ELSE 0)
  <2>1. Acks(qs) = Acks(rest) + (IF e \in AckEvents THEN 1 ELSE 0)
    BY TallyTail DEF Acks
  <2>2. e \in AckEvents <=> e.eid = "E_ACK"
    BY <1>1, KindsCounted
  <2> QED
    BY <2>1, <2>2
<1>5. Leaves(qs) = Leaves(rest) + (IF e = Call(LeaveCall) THEN 1 ELSE 0)
  <2>1. Leaves(qs) = Leaves(rest) + (IF e \in {Call(LeaveCall)} THEN 1 ELSE 0)
    BY TallyTail DEF Leaves
  <2> QED
    BY <2>1
<1>6. Len(l.queue) + Acks(rest) + Leaves(rest)
        + (IF e.eid = "E_ACK" THEN 1 ELSE 0)
        + (IF e = Call(LeaveCall) THEN 1 ELSE 0) = Awaits
  <2> DEFINE a == IF e.eid = "E_ACK" THEN 1 ELSE 0
             b == IF e = Call(LeaveCall) THEN 1 ELSE 0
  <2>1. a \in Nat /\ b \in Nat
    OBVIOUS
  <2>2. Acks(qs) = Acks(rest) + a /\ Leaves(qs) = Leaves(rest) + b
    BY <1>4, <1>5
  <2>3. Len(l.queue) + Acks(qs) + Leaves(qs) = Awaits
    BY DEF Ready
  <2> HIDE DEF a, b, rest, e
  <2>4. Len(l.queue) + Acks(rest) + Leaves(rest) + a + b = Awaits
    BY <1>2, <1>3, <2>1, <2>2, <2>3
  <2> QED
    BY <2>4 DEF a, b
<1>7. param = NoMachine => Leaves(rest) = 0 /\ e # Call(LeaveCall)
  BY <1>3, <1>5 DEF Ready
<1>8. AcksOfCurrent(rest) /\ (e.eid = "E_ACK" => e.arg = ApiOf[cur])
  BY <1>1 DEF Ready, AcksOfCurrent
<1>9. e.eid # "E_ERROR" /\ e.eid # "E_DATA"
  <2>1. e.eid # "E_ERROR"
    BY <1>1 DEF NoError
  <2>2. e.eid # "E_DATA"
    BY <1>1 DEF SendEvents, CallEvents, Call, Beat, Event
  <2> QED
    BY <2>1, <2>2
<1>10. smState = "S_RUNNING" => e # Call(cur)
  <2> SUFFICES ASSUME smState = "S_RUNNING" PROVE e # Call(cur)
    OBVIOUS
  <2>1. cur \in Calls \ {LeaveCall} /\ Waiting(cur) = 0
    BY DEF Ready, CurIsRunning, IInv, Once
  <2>2. /\ Tally(qSend, {Call(cur)}) \in Nat /\ Tally(qSendBack, {Call(cur)}) \in Nat
    BY TallyType DEF IInv, TypeOK
  <2>3. Tally(qs, {Call(cur)}) = 0
    BY <2>1, <2>2 DEF Waiting, SameCalls
  <2> QED
    BY <1>1, <2>3, TallyZero
<1> QED
  BY <1>6, <1>7, <1>8, <1>9, <1>10 DEF Expected, Ready

LEMMA EventCounts ==
  ASSUME Reliable, NoStops, IInv, ~nested,
         NEW qr, NEW qs \in Seq(SendEvents), SameCalls(qs), NoError(qs),
         NEW l \in Links, Ready(qs, l), handlerOneEvent(qr, qs, l),
         \/ qr = <<>>
         \/ \E e \in RecvEvents :
              /\ e.eid = "E_DATA" => smState = "S_RUNNING" /\ param # NoMachine
              /\ qr = <<e>>
  PROVE  FInv'
<1>1. CASE qr # <<>>
  <2>1. PICK e \in RecvEvents :
          /\ e.eid = "E_DATA" => smState = "S_RUNNING" /\ param # NoMachine
          /\ qr = <<e>>
    BY <1>1
  <2>2. state_machine_step(e, qs, l)
    BY <1>1, <2>1 DEF handlerOneEvent
  <2>3. e \in Events /\ e.eid \in {"E_DATA", "E_ASYNC_DATA"} /\ \A c : e # Call(c)
    BY DEF Events, RecvEvents, Call, Event
  <2>4. Len(l.queue) \in {0, 1} /\ Acks(qs) \in Nat /\ Leaves(qs) \in Nat
    BY LinkCounts, TallyType DEF Acks, Leaves, Ready
  <2>5. Expected(e, qs, l)
    BY <2>1, <2>3, <2>4 DEF Expected, Ready
  <2> QED
    BY <2>2, <2>3, <2>5, StepCounts
<1>2. CASE qr = <<>> /\ qs # <<>>
  <2>1. /\ Head(qs) \in Events /\ Tail(qs) \in Seq(SendEvents)
        /\ state_machine_step(Head(qs), Tail(qs), l)
    BY <1>2, HeadTailProperties DEF handlerOneEvent, Events
  <2> QED
    BY <1>2, <2>1, HeadExpected, StepCounts
<1>3. CASE qr = <<>> /\ qs = <<>>
  <2>1. /\ qSend' = qs /\ link' = l
        /\ qSendBack' = qSendBack /\ UNCHANGED <<smState, param, cur>>
    BY <1>3 DEF handlerOneEvent, machine
  <2>2. CurIsRunning' /\ LinkOk(link)' /\ AcksOfCurrent(qSend)' /\ Awaits' = Awaits
    BY <2>1 DEF Ready, CurIsRunning, LinkOk, AcksOfCurrent, InSeq, Awaits
  <2> QED
    BY <2>1, <2>2, FInvAfter DEF Ready
<1> QED
  BY <1>1, <1>2, <1>3

(* The acknowledgement takes the one frame out of the session. *)
LEMMA AckReady ==
  ASSUME IInv, FInv, WInv, link.flying \in Calls,
         NEW e, e = Event("E_ACK", ApiOf[link.flying])
  PROVE  /\ Append(qSend, e) \in Seq(SendEvents)
         /\ SameCalls(Append(qSend, e)) /\ NoError(Append(qSend, e))
         /\ session_send_over(link) \in Links
         /\ Ready(Append(qSend, e), session_send_over(link))
<1>1. qSend \in Seq(SendEvents) /\ link \in Links
  BY DEF IInv, TypeOK, Links
<1>2. e \in SendEvents /\ e.eid = "E_ACK" /\ e.arg = ApiOf[link.flying]
      /\ e # Call(LeaveCall) /\ e \in AckEvents
  <2>1. e \in SendEvents /\ e.eid = "E_ACK" /\ e.arg = ApiOf[link.flying]
    BY EventTypes DEF Event
  <2>2. e \in Events
    BY <2>1 DEF Events
  <2> QED
    BY <2>1, <2>2, KindsCounted DEF Call, Event
<1>3. /\ Append(qSend, e) \in Seq(SendEvents)
      /\ InSeq(Append(qSend, e)) = InSeq(qSend) \cup {e}
  BY <1>1, <1>2, AppendProperties, InSeqAppend
<1>4. SameCalls(Append(qSend, e))
  BY <1>1, <1>2, AppendKeepsCalls
<1>5. NoError(Append(qSend, e))
  BY <1>2, <1>3 DEF WInv, NoError
<1>6. session_send_over(link) \in Links
  BY <1>1, SessionTypes
<1>7. link.queue = <<link.flying>> /\ ApiOf[link.flying] = ApiOf[cur]
  BY CallsAssumption DEF FInv, LinkOk
<1>8. session_send_over(link) = [queue |-> <<>>, flying |-> NoCall]
  BY <1>7 DEF session_send_over, Pop
<1>9. AcksOfCurrent(Append(qSend, e))
  BY <1>2, <1>3, <1>7 DEF FInv, AcksOfCurrent
<1>10. Acks(Append(qSend, e)) = Acks(qSend) + 1
       /\ Leaves(Append(qSend, e)) = Leaves(qSend)
  <2>1. Tally(Append(qSend, e), AckEvents) = Tally(qSend, AckEvents) + 1
    BY <1>1, <1>2, TallySkip
  <2>2. Tally(Append(qSend, e), {Call(LeaveCall)}) = Tally(qSend, {Call(LeaveCall)})
    BY <1>1, <1>2, TallySkip
  <2> QED
    BY <2>1, <2>2 DEF Acks, Leaves
<1>11. Acks(qSend) \in Nat /\ Leaves(qSend) \in Nat
  BY <1>1, TallyType DEF Acks, Leaves
<1>12. Len(session_send_over(link).queue) + Acks(Append(qSend, e))
         + Leaves(Append(qSend, e)) = Awaits
  <2>1. Len(link.queue) = 1 /\ Len(session_send_over(link).queue) = 0
    BY <1>7, <1>8
  <2>2. Len(link.queue) + Acks(qSend) + Leaves(qSend) = Awaits
    BY DEF FInv
  <2> QED
    BY <1>10, <1>11, <2>1, <2>2
<1>13. LinkOk(session_send_over(link))
  BY <1>8 DEF LinkOk
<1> QED
  BY <1>3, <1>4, <1>5, <1>6, <1>9, <1>10, <1>12, <1>13 DEF Ready, FInv

LEMMA CallKeepsFInv ==
  ASSUME IInv, FInv, NEW c \in Calls \ {LeaveCall}, api_call(c)
  PROVE  FInv'
<1>1. /\ qSend' = qSend \o [i \in DOMAIN <<c>> |-> Call(<<c>>[i])]
      /\ UNCHANGED <<smState, param, cur, qSendBack, link>>
  BY DEF api_call, api_calls, machine
<1>2. qSend \in Seq(SendEvents)
  BY DEF IInv, TypeOK
<1>3. Call(c) \in SendEvents /\ Call(c).eid # "E_ACK" /\ Call(c) # Call(LeaveCall)
      /\ Call(c) \notin AckEvents
  BY EventTypes, KindsCounted DEF Call, Event
<1>4. qSend' = Append(qSend, Call(c))
  <2>1. [i \in DOMAIN <<c>> |-> Call(<<c>>[i])] = <<Call(c)>>
    OBVIOUS
  <2> QED
    BY <1>1, <1>2, <1>3, <2>1, AppendIsConcat
<1>5. InSeq(qSend') = InSeq(qSend) \cup {Call(c)}
  BY <1>2, <1>3, <1>4, InSeqAppend
<1>6. Acks(qSend') = Acks(qSend) /\ Leaves(qSend') = Leaves(qSend)
  <2>1. Tally(Append(qSend, Call(c)), AckEvents) = Tally(qSend, AckEvents)
    BY <1>2, <1>3, TallySkip
  <2>2. Tally(Append(qSend, Call(c)), {Call(LeaveCall)}) = Tally(qSend, {Call(LeaveCall)})
    BY <1>2, <1>3, TallySkip
  <2> QED
    BY <1>4, <2>1, <2>2 DEF Acks, Leaves
<1>7. CurIsRunning' /\ LinkOk(link)' /\ AcksOfCurrent(qSend)' /\ Awaits' = Awaits
  BY <1>1, <1>3, <1>5 DEF FInv, CurIsRunning, LinkOk, AcksOfCurrent, InSeq, Awaits
<1> QED
  BY <1>1, <1>6, <1>7, FInvAfter DEF FInv

LEMMA NextKeepsFInv ==
  ASSUME Reliable, NoStops
  PROVE  IInv /\ WInv /\ FInv /\ [Next]_vars => FInv'
<1> SUFFICES ASSUME IInv, WInv, FInv, [Next]_vars PROVE FInv'
  OBVIOUS
<1>0. /\ qSend \in Seq(SendEvents) /\ link \in Links
      /\ SameCalls(qSend) /\ NoError(qSend) /\ ~nested /\ Ready(qSend, link)
  BY DEF IInv, TypeOK, Links, WInv, SameCalls, FInv, Ready
<1>1. CASE UNCHANGED vars
  <2>1. UNCHANGED <<smState, param, cur, qSend, qSendBack, link>>
    BY <1>1 DEF vars, machine, queues
  <2>2. CurIsRunning' /\ LinkOk(link)' /\ AcksOfCurrent(qSend)' /\ Awaits' = Awaits
    BY <2>1 DEF FInv, CurIsRunning, LinkOk, AcksOfCurrent, InSeq, Awaits
  <2> QED
    BY <2>1, <2>2, FInvAfter DEF FInv
<1>2. CASE \E c \in Calls \ {LeaveCall} : api_call(c)
  BY <1>2, CallKeepsFInv
<1>3. CASE \/ AckByte \/ Reply \/ Stray \/ NextByte \/ LastByte
           \/ api_beat_timer_callback
  <2>1. CASE link.flying \in Calls
             /\ handlerOneEvent(<<>>, Append(qSend, Event("E_ACK", ApiOf[link.flying])),
                                session_send_over(link))
    <3> DEFINE e == Event("E_ACK", ApiOf[link.flying])
    <3>1. link.flying \in Calls
          /\ handlerOneEvent(<<>>, Append(qSend, e), session_send_over(link))
      BY <2>1
    <3>2. /\ Append(qSend, e) \in Seq(SendEvents)
          /\ SameCalls(Append(qSend, e)) /\ NoError(Append(qSend, e))
          /\ session_send_over(link) \in Links
          /\ Ready(Append(qSend, e), session_send_over(link))
      BY <3>1, AckReady
    <3> HIDE DEF e
    <3> QED
      BY <1>0, <3>1, <3>2, EventCounts
  <2>2. CASE handlerOneEvent(<<>>, qSend, link)
    BY <1>0, <2>2, EventCounts
  <2>3. CASE \E e \in RecvEvents :
               /\ e.eid = "E_DATA" => smState = "S_RUNNING" /\ param # NoMachine
               /\ handlerOneEvent(<<e>>, qSend, link)
    <3>1. PICK e \in RecvEvents :
            /\ e.eid = "E_DATA" => smState = "S_RUNNING" /\ param # NoMachine
            /\ handlerOneEvent(<<e>>, qSend, link)
      BY <2>3
    <3> QED
      BY <1>0, <3>1, EventCounts
  <2> QED
    BY <1>3, <2>1, <2>2, <2>3, ReliableEvent
<1> QED
  BY <1>0, <1>1, <1>2, <1>3, ReliableSteps

(* The same facts as one invariant of the reliable system. *)
THEOREM ReliableInvariant ==
  ASSUME Reliable, NoStops
  PROVE  Spec => [](IInv /\ WInv /\ FInv)
<1>1. Init => IInv /\ WInv /\ FInv
  <2> SUFFICES ASSUME Init PROVE WInv /\ FInv
    BY InitIInv
  <2> USE DEF Init
  <2>1. WInv
    BY DEF WInv, NoError, InSeq
  <2>2. Acks(<<>>) = 0 /\ Leaves(<<>>) = 0
    BY TallyEmpty DEF Acks, Leaves
  <2>3. Leaves(qSendBack) = 0 /\ Len(link.queue) + Acks(qSend) + Leaves(qSend) = 0
    BY <2>2
  <2>4. CurIsRunning /\ LinkOk(link) /\ AcksOfCurrent(qSend) /\ Awaits = 0
    BY DEF CurIsRunning, LinkOk, AcksOfCurrent, InSeq, Awaits
  <2> QED
    BY <2>1, <2>2, <2>3, <2>4 DEF FInv
<1>2. IInv /\ WInv /\ FInv /\ [Next]_vars => (IInv /\ WInv /\ FInv)'
  BY NextKeepsIInv, NextKeepsWInv, NextKeepsFInv
<1> QED
  BY <1>1, <1>2, PTL DEF Spec

(* With no failure below, the api layer never hands the session a second   *)
(* frame while one is in its queue: that queue loses frames from the third *)
(* on.                                                                     *)
THEOREM FramesGoOneByOne ==
  ASSUME Reliable, NoStops
  PROVE  Spec => []OneFrameAtATime
<1>1. IInv /\ FInv => OneFrameAtATime
  <2> SUFFICES ASSUME IInv, FInv PROVE OneFrameAtATime
    OBVIOUS
  <2>1. link \in Links /\ LinkOk(link)
    BY DEF IInv, TypeOK, Links, FInv
  <2> DEFINE n == Len(link.queue)
  <2>2. n \in {0, 1}
    BY <2>1, LinkCounts
  <2> HIDE DEF n
  <2>3. n <= 1
    BY <2>2
  <2> QED
    BY <2>3 DEF n, OneFrameAtATime
<1> QED
  BY <1>1, ReliableInvariant, PTL

(* With no failure below, every call, the one that ends the removal of a   *)
(* node included, is in one place at most, and one that the app layer made *)
(* is in no queue while it runs.                                           *)
THEOREM CallsAreOnceWhenReliable ==
  ASSUME Reliable, NoStops
  PROVE  Spec => []CallOnce
<1>1. IInv /\ FInv => CallOnce
  <2> SUFFICES ASSUME IInv, FInv, NEW c \in Calls
               PROVE  /\ Places(c) <= 1
                      /\ Places(c) = 1 => ~(smState = "S_RUNNING" /\ cur = c) \/ c = LeaveCall
    BY DEF CallOnce
  <2>1. CASE c = LeaveCall
    <3>1. Acks(qSend) \in Nat /\ Leaves(qSend) \in Nat /\ Leaves(qSendBack) = 0
      BY TallyType DEF Acks, Leaves, IInv, TypeOK, FInv
    <3>2. Len(link.queue) \in {0, 1} /\ Awaits \in {0, 1}
      <4>1. link \in Links /\ LinkOk(link)
        BY DEF IInv, TypeOK, Links, FInv
      <4> QED
        BY <4>1, LinkCounts DEF Awaits
    <3>3. Leaves(qSend) <= 1
      BY <3>1, <3>2 DEF FInv
    <3>4. Places(c) = Leaves(qSend) + Leaves(qSendBack)
      BY <2>1, PlacesAreWaiting DEF Waiting, Leaves
    <3> QED
      BY <2>1, <3>1, <3>3, <3>4
  <2>2. CASE c # LeaveCall
    <3>1. Once(c) /\ Places(c) = Waiting(c)
      BY <2>2, PlacesAreWaiting DEF IInv
    <3> QED
      BY <3>1 DEF Once
  <2> QED
    BY <2>1, <2>2
<1> QED
  BY <1>1, ReliableInvariant, PTL

-----------------------------------------------------------------------------
(* What the app layer is told. *)

LEMMA StepSays ==
  ASSUME IInv, CurIsRunning, NEW e, NEW qs, NEW l,
         e.eid = "E_DATA" => smState = "S_RUNNING" /\ param # NoMachine,
         state_machine_step(e, qs, l), said' \in DOMAIN ReportOf
  PROVE  cur # NoCall /\ ApiOf[cur] = ReportOf[said']
<1>1. said' # "none" /\ said' # "E_ATTR_OVER"
  BY DEF ReportOf
<1>2. e.eid = "E_DATA" /\ RunningStep(e, qs, l)
  <2>1. ~IdleStep(e, qs, l)
    BY <1>1 DEF IdleStep, AsyncData
  <2>2. RunningStep(e, qs, l)
    BY <2>1 DEF state_machine_step
  <2> QED
    BY <1>1, <2>2 DEF RunningStep, AsyncData
<1>3. /\ smState = "S_RUNNING" /\ param # NoMachine
      /\ param.state \in DOMAIN Message /\ said' = Message[param.state]
  BY <1>1, <1>2 DEF RunningStep, running_action_data
<1>4. Fits(param) /\ param.api = ApiOf[cur] /\ cur \in Calls
  BY <1>3 DEF IInv, Machines, CurIsRunning
<1>5. ReportOf[Message[param.state]] = param.api
  BY <1>3, <1>4 DEF Fits, Message, ReportOf
<1> QED
  BY <1>3, <1>4, <1>5, CallsAssumption

LEMMA EventSays ==
  ASSUME IInv, CurIsRunning, NEW qr, NEW qs \in Seq(SendEvents), NEW l,
         \/ qr = <<>>
         \/ \E e \in RecvEvents :
              /\ e.eid = "E_DATA" => smState = "S_RUNNING" /\ param # NoMachine
              /\ qr = <<e>>,
         handlerOneEvent(qr, qs, l), said' \in DOMAIN ReportOf
  PROVE  cur # NoCall /\ ApiOf[cur] = ReportOf[said']
<1>1. CASE qr # <<>>
  <2>1. PICK e \in RecvEvents :
          /\ e.eid = "E_DATA" => smState = "S_RUNNING" /\ param # NoMachine
          /\ qr = <<e>>
    BY <1>1
  <2>2. state_machine_step(e, qs, l)
    BY <1>1, <2>1 DEF handlerOneEvent
  <2> QED
    BY <2>1, <2>2, StepSays
<1>2. CASE qr = <<>> /\ qs # <<>>
  <2>1. Head(qs) \in SendEvents /\ state_machine_step(Head(qs), Tail(qs), l)
    BY <1>2, HeadTailProperties DEF handlerOneEvent
  <2>2. Head(qs).eid # "E_DATA"
    BY <2>1 DEF SendEvents, CallEvents, Call, Beat, Event
  <2> QED
    BY <2>1, <2>2, StepSays
<1>3. CASE qr = <<>> /\ qs = <<>>
  BY <1>3 DEF handlerOneEvent, ReportOf
<1> QED
  BY <1>1, <1>2, <1>3

(* With no failure below, the end of a command is reported to the app      *)
(* layer only while that command is the one started last: the answer to    *)
(* one command is never taken for the end of another.                      *)
THEOREM ReportsAreOfCurrent ==
  ASSUME Reliable, NoStops
  PROVE  Spec => MessageOfCurrent
<1>1. IInv /\ WInv /\ FInv /\ [Next]_vars =>
        [said' \in DOMAIN ReportOf => cur # NoCall /\ ApiOf[cur] = ReportOf[said']]_vars
  <2> SUFFICES ASSUME IInv, WInv, FInv, Next, said' \in DOMAIN ReportOf
               PROVE  cur # NoCall /\ ApiOf[cur] = ReportOf[said']
    BY DEF vars
  <2>0. /\ qSend \in Seq(SendEvents) /\ link \in Links /\ CurIsRunning /\ ~nested
    BY DEF IInv, TypeOK, Links, FInv, WInv
  <2>1. CASE \E c \in Calls \ {LeaveCall} : api_call(c)
    BY <2>1 DEF api_call, api_calls, ReportOf
  <2>2. CASE \/ AckByte \/ Reply \/ Stray \/ NextByte \/ LastByte
             \/ api_beat_timer_callback
    <3>1. CASE link.flying \in Calls
               /\ handlerOneEvent(<<>>, Append(qSend, Event("E_ACK", ApiOf[link.flying])),
                                  session_send_over(link))
      <4> DEFINE e == Event("E_ACK", ApiOf[link.flying])
      <4>1. link.flying \in Calls
            /\ handlerOneEvent(<<>>, Append(qSend, e), session_send_over(link))
        BY <3>1
      <4>2. Append(qSend, e) \in Seq(SendEvents)
        BY <4>1, AckReady
      <4> HIDE DEF e
      <4> QED
        BY <2>0, <4>1, <4>2, EventSays
    <3>2. CASE handlerOneEvent(<<>>, qSend, link)
      BY <2>0, <3>2, EventSays
    <3>3. CASE \E e \in RecvEvents :
                 /\ e.eid = "E_DATA" => smState = "S_RUNNING" /\ param # NoMachine
                 /\ handlerOneEvent(<<e>>, qSend, link)
      <4>1. PICK e \in RecvEvents :
              /\ e.eid = "E_DATA" => smState = "S_RUNNING" /\ param # NoMachine
              /\ handlerOneEvent(<<e>>, qSend, link)
        BY <3>3
      <4> QED
        BY <2>0, <4>1, EventSays
    <3> QED
      BY <2>2, <3>1, <3>2, <3>3, ReliableEvent
  <2> QED
    BY <2>0, <2>1, <2>2, ReliableSteps
<1> QED
  BY <1>1, ReliableInvariant, PTL DEF Spec, MessageOfCurrent
=============================================================================
