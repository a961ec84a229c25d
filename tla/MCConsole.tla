------------------------------ MODULE MCConsole ------------------------------
(* The attribute store, the bus and the console on a small instance: two   *)
(* devices, one of them with a node id of 128 or more.                     *)
EXTENDS Console

CONSTANTS v1, v2

MCClassesOf == 5 :> <<"basic", "battery">> @@ 200 :> <<"switch", "version">>

(* All devices collide, and so do the attributes of each at the end of the *)
(* table.                                                                  *)
MCDevHash == [d \in Dids |-> 7]
MCAttrHash ==
  [n \in Names |-> CASE n \in {"basic", "switch_binary"} -> 7
                     [] n \in {"battery", "version"} -> 15 [] OTHER -> 8]

MCFiles ==
  {[p \in Devices \X Names |-> IF p = <<200, "version">> THEN v2 ELSE NULL]}

MCRequests == <<
  Message("CLOUD", "NXP", "getAttribute", "status", "none", 5),
  Message("CLOUD", "ZWAVE", "getAttribute", "device_list", "none", 5),
  Message("CLOUD", "ZWAVE", "setAttribute", "onoff", v2, 200),
  Message("CLOUD", "ZWAVE", "getAttribute", "volume", "none", 5),
  Message("CLOUD", "ZWAVE", "setAttribute", "status", v2, 5)>>

MCChanging == {<<5, "battery">>, <<200, "switch_binary">>}

MCLines == {
  <<"set", " ", "0xc8", " ", "switch", " ", "switch_binary", " ", "'", "0x01", "'">>,
  <<"get", " ", "0x05", " ", "basic", " ", "basic">>,
  <<"list">>, <<"init">>, <<" ", "help">>, <<" ">>}

MCIds == <<"0x05">> :> 5 @@ <<"0xc8">> :> 200
=============================================================================
