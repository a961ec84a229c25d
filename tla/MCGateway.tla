----------------------------- MODULE MCGateway -----------------------------
(***************************************************************************)
(* Gateway with one device: the calls of the initialisation, a call for    *)
(* its classes, and as many for its attributes as can be under way at a    *)
(* time.                                                                   *)
(***************************************************************************)
EXTENDS Gateway, TLC

CONSTANTS n1, v, i, p, m, s, k1, d1, d2, d3

Apis ==
  v :> "CmdZWaveGetVersion" @@ i :> "CmdSerialApiGetInitData"
    @@ p :> "CmdSerialApiGetCapabilities" @@ m :> "CmdMemoryGetId"
    @@ s :> "CmdZWaveGetSucNodeId" @@ k1 :> "CmdZWaveRequestNodeInfo"
    @@ [c \in {d1, d2, d3} |-> "CmdZWaveSendData"]

DeviceOf == k1 :> n1 @@ [c \in {v, i, p, m, s, d1, d2, d3} |-> NoNode]
=============================================================================
