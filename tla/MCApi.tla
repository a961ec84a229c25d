------------------------------- MODULE MCApi -------------------------------
(* Instances of Api: the commands that the calls of a run carry.           *)
EXTENDS Api, TLC

CONSTANTS c1, c2, c3, c4, c5

(* What the app layer calls: the end of its initialisation, the classes of *)
(* a node, a command to a node, the removal of a node (c5 ends that: the   *)
(* call of the api layer itself).                                          *)
AppApis == c1 :> "CmdZWaveGetSucNodeId" @@ c2 :> "CmdZWaveRequestNodeInfo"
             @@ c3 :> "CmdZWaveSendData"
             @@ c4 :> "CmdZWaveRemoveNodeFromNetwork"
             @@ c5 :> "CmdZWaveRemoveNodeFromNetwork"

(* One stop, a command with a timer, a reset: whatever can end badly.      *)
HostileApis == c1 :> "CmdZWaveAddNodeToNetwork" @@ c2 :> "CmdZWaveAddNodeToNetwork"
                 @@ c3 :> "CmdZWaveSendData" @@ c4 :> "CmdSerialApiSoftReset"
=============================================================================
