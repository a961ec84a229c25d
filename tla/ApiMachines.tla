---------------------------- MODULE ApiMachines ----------------------------
(***************************************************************************)
(* The tables of api.c: for each serial api command the little state       *)
(* machine that waits for its replies, and what moves that machine.  The   *)
(* tables of the code are keyed by event ids that api_data_event_id_step   *)
(* and api_ack_event_id_step choose from the machine's state; here the two *)
(* are one table, from a state to the next.                                *)
(***************************************************************************)
EXTENDS FiniteSets, Functions

(* Commands answered by one data frame: command and the state it waits in. *)
OneReply == [
  CmdZWaveGetVersion               |-> "S_WAIT_VERSION_DATA",
  CmdSerialApiGetInitData          |-> "S_WAIT_INIT_DATA",
  CmdZWaveGetNodeProtoInfo         |-> "S_WAIT_NODE_PROTOINFO",
  CmdSerialApiGetCapabilities      |-> "S_WAIT_CAPABILITIES",
  CmdZWaveGetControllerCapabilities |-> "S_WAIT_CONTROLLER_CAPABILITIES",
  CmdMemoryGetId                   |-> "S_WAIT_ID",
  CmdZWaveGetSucNodeId             |-> "S_WAIT_SUC_NODE_ID",
  CmdSerialApiApplNodeInformation  |-> "S_WAIT_APPL_NODE_INFORMATION",
  CmdZWaveSetSucNodeId             |-> "S_WAIT_SETSUC_RESPONSE",
  CmdZWaveIsFailedNode             |-> "S_WAIT_ISFAILED_RESPONSE",
  CmdZWaveRemoveFailedNodeId       |-> "S_WAIT_REMOVE_FAILED_RESPONSE",
  CmdZWaveGetProtocolVersion       |-> "S_WAIT_PROTOCOL_VERSION",
  CmdSerialApiStarted              |-> "S_WAIT_API_STARTED",
  CmdZWaveRfPowerLevelGet          |-> "S_WAIT_RFPOWER_LEVEL",
  CmdZWaveGetNeighborCount         |-> "S_WAIT_NEIGHBOR_COUNT",
  CmdZWaveAreNodesNeighbours       |-> "S_WAIT_ARE_NEIGHBORS",
  CmdZWaveTypeLibrary              |-> "S_WAIT_TYPE_LIBRARY",
  CmdIoPortStatus                  |-> "S_WAIT_PORT_STATUS",
  CmdIoPort                        |-> "S_WAIT_IO_PORT"]

(* amps[], and the initstate of each machine.                              *)
OtherInit == [
  CmdZWaveAddNodeToNetwork      |-> "S_WAIT_CTR_STATUS",
  CmdZWaveRequestNodeInfo       |-> "S_WAIT_NODE_INFO_ACK",
  CmdZWaveRemoveNodeFromNetwork |-> "S_WAIT_REMOVE_RESPONSE",
  CmdZWaveSendData              |-> "S_WAIT_SENDDATA_RESPONSE",
  CmdSerialApiSoftReset         |-> "S_WAIT_SOFTRESET_RESPONSE",
  CmdZWaveGetProtocolStatus     |-> "S_WAIT_PROTOCOL_STATUS"]

Apis == DOMAIN OneReply \cup DOMAIN OtherInit
InitState ==
  [api \in Apis |-> IF api \in DOMAIN OneReply THEN OneReply[api]
                                               ELSE OtherInit[api]]

(* The machine of CmdSerialApiSoftReset has no state (numstate = 0).       *)
NumstateZero == {"CmdSerialApiSoftReset"}

(* What the reply that a state waits for does: the transitions.            *)
OneReplyNext == [s \in Range(OneReply) |-> "S_END"]
AddNext == [
  S_WAIT_CTR_STATUS      |-> "S_WAIT_ADDED_OR_CANCLE",
  S_WAIT_ADDED_OR_CANCLE |-> "S_WAIT_ADDED_NODE",
  S_WAIT_ADDED_NODE      |-> "S_WAIT_ADD_COMP",
  S_WAIT_ADD_COMP        |-> "S_END"]
NodeInfoNext == [
  S_WAIT_NODE_INFO_ACK |-> "S_WAIT_NODE_INFO",
  S_WAIT_NODE_INFO     |-> "S_END"]
RemoveNext == [
  S_WAIT_REMOVE_RESPONSE |-> "S_WAIT_LEAVE_OR_CANCLE",
  S_WAIT_LEAVE_OR_CANCLE |-> "S_WAIT_LEAVED_NODE_S1",
  S_WAIT_LEAVED_NODE_S1  |-> "S_WAIT_LEAVED_NODE_S2",
  S_WAIT_LEAVED_NODE_S2  |-> "S_WAIT_LEAVE_COMP"]
SendDataNext == [
  S_WAIT_SENDDATA_RESPONSE |-> "S_WAIT_TX_STATUS",
  S_WAIT_TX_STATUS         |-> "S_END"]

(* What an E_DATA does.  CmdZWaveGetProtocolStatus is not moved by it: the *)
(* step function asks for S_WAIT_TYPE_LIBRARY.                             *)
DataNext ==
  [s \in DOMAIN OneReplyNext \cup DOMAIN AddNext \cup DOMAIN NodeInfoNext
         \cup DOMAIN RemoveNext \cup DOMAIN SendDataNext |->
     IF s \in DOMAIN AddNext THEN AddNext[s]
     ELSE IF s \in DOMAIN NodeInfoNext THEN NodeInfoNext[s]
     ELSE IF s \in DOMAIN RemoveNext THEN RemoveNext[s]
     ELSE IF s \in DOMAIN SendDataNext THEN SendDataNext[s]
     ELSE OneReplyNext[s]]

NoAckAfterLeave == [                                 \* mutant of AckNext
  S_WAIT_ADDED_OR_CANCLE |-> "S_WAIT_CANCLE_CONFIRM",
  S_WAIT_CANCLE_CONFIRM  |-> "S_WAIT_CANCLE_COMP",
  S_WAIT_CANCLE_COMP     |-> "S_END"]

(* What an E_ACK does to a machine that already runs.                      *)
AckNext == [
  S_WAIT_ADDED_OR_CANCLE |-> "S_WAIT_CANCLE_CONFIRM",
  S_WAIT_CANCLE_CONFIRM  |-> "S_WAIT_CANCLE_COMP",
  S_WAIT_CANCLE_COMP     |-> "S_END",
  S_WAIT_LEAVE_COMP      |-> "S_END"]

SubStates ==
  {"S_WAIT_SOFTRESET_RESPONSE", "S_WAIT_PROTOCOL_STATUS"}
    \cup DOMAIN DataNext \cup DOMAIN AckNext

NextState(table, s) == IF s \in DOMAIN table THEN table[s] ELSE s

(* api_async_call_api: the commands a running machine lets through at once. *)
Async == [
  CmdZWaveAddNodeToNetwork |->
    {"S_WAIT_ADDED_OR_CANCLE", "S_WAIT_CANCLE_CONFIRM", "S_WAIT_CANCLE_COMP"},
  CmdZWaveRemoveNodeFromNetwork |->
    {"S_WAIT_LEAVE_OR_CANCLE", "S_WAIT_LEAVE_COMP"}]

EveryCallGoesThrough(machine, api) == TRUE           \* mutant of GoesThrough

GoesThrough(machine, api) ==
  /\ api = machine.api
  /\ api \in DOMAIN Async
  /\ machine.state \in Async[api]

(* What a transition pushes to the app layer's message queue.              *)
Message == [
  S_WAIT_SUC_NODE_ID |-> "E_INIT_OVER",
  S_WAIT_NODE_INFO   |-> "E_CLASS_OVER",
  S_WAIT_TX_STATUS   |-> "E_COMMAND_OVER"]

(* The frames by which the Z-Wave module serves a command, by the command  *)
(* byte they carry; it only tells CmdZWaveRequestNodeInfo's second one.    *)
Replies(api) ==
  CASE api \in DOMAIN OneReply \cup {"CmdZWaveGetProtocolStatus"} -> <<api>>
    [] api = "CmdZWaveSendData" -> <<api, api>>
    [] api = "CmdZWaveRequestNodeInfo" -> <<api, "CmdApplicationControllerUpdate">>
    [] api \in DOMAIN Async -> <<api, api, api, api>>
    [] OTHER -> <<>>
=============================================================================
