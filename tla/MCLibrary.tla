------------------------------ MODULE MCLibrary ------------------------------
(***************************************************************************)
(* The parts of the library that share no state with one another, side by  *)
(* side: a behaviour is one of one part, with the others at their start.   *)
(***************************************************************************)
EXTENDS Async, LockQueue, HashmapUse, ConfIo, FileMonitor, Buffer, TLC

CONSTANTS k1, k2, k3, k4

(* Two keys that collide at the last slot of every table, one whose chain  *)
(* they cross at the first, and one apart.                                 *)
MCHashes == {k1 :> 7 @@ k2 :> 0 @@ k3 :> 7 @@ k4 :> 4}

MCPaths == {<<"a", "x">>, <<"b">>}
MCSets == {<<<<"a", "x">>, 2>>, <<<<"b">>, 1>>}
MCParts == {Value(1), <<>> :> Object @@ <<"x">> :> 1}
MCType == 1 :> "int" @@ 2 :> "int" @@ Object :> "object"
MCFactory == <<>> :> Object @@ <<"a">> :> 1

MCChunks == {<<1>>, <<2, 3, 4>>}

VARIABLE library  \* the part

libraryvars ==
  <<library, asyncvars, queuevars, mapvars, confvars, monitorvars,
    buffervars>>

LibraryInit ==
  /\ library \in {"async", "queue", "map", "conf", "monitor", "buffer"}
  /\ AsyncInit /\ QueueInit /\ MapInit /\ ConfInit /\ MonitorInit
  /\ BufferInit /\ (library # "buffer" => qbuf.pre_alloc)

OfAsync ==
  library = "async" /\ AsyncNext
    /\ UNCHANGED <<library, queuevars, mapvars, confvars, monitorvars, buffervars>>
OfQueue ==
  library = "queue" /\ QueueNext
    /\ UNCHANGED <<library, asyncvars, mapvars, confvars, monitorvars, buffervars>>
OfMap ==
  library = "map" /\ MapNext
    /\ UNCHANGED <<library, asyncvars, queuevars, confvars, monitorvars, buffervars>>
OfConf ==
  library = "conf" /\ ConfNext
    /\ UNCHANGED <<library, asyncvars, queuevars, mapvars, monitorvars, buffervars>>
OfMonitor ==
  library = "monitor" /\ MonitorNext
    /\ UNCHANGED <<library, asyncvars, queuevars, mapvars, confvars, buffervars>>
OfBuffer ==
  library = "buffer" /\ BufferNext
    /\ UNCHANGED <<library, asyncvars, queuevars, mapvars, confvars, monitorvars>>

LibraryNext == OfAsync \/ OfQueue \/ OfMap \/ OfConf \/ OfMonitor \/ OfBuffer

(* Of the parts only the queue's threads have a fairness.                  *)
LibraryFairness ==
  /\ WF_libraryvars(OfQueue /\ cond_wake)
  /\ WF_libraryvars(OfQueue /\ Consumer)

LibrarySpec == LibraryInit /\ [][LibraryNext]_libraryvars /\ LibraryFairness
=============================================================================
