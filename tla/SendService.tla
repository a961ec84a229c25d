---------------------------- MODULE SendService ----------------------------
(***************************************************************************)
(* What the session layer promises the api layer, without a queue, a line, *)
(* a timer or a retry: a frame handed in is given back once, as            *)
(* acknowledged only if the module received it.                            *)
(***************************************************************************)
CONSTANT Frames

VARIABLES
  status,   \* each frame: with the caller, accepted, or at the module
  outcome   \* what each frame was last given back with

svars == <<status, outcome>>

SInit ==
  /\ status = [f \in Frames |-> "idle"]
  /\ outcome = [f \in Frames |-> "NONE"]

Move(f, from, to) ==
  /\ status[f] \in from
  /\ status' = [status EXCEPT ![f] = to]

Accept(f) ==
  /\ Move(f, {"idle"}, "accepted")
  /\ outcome' = [outcome EXCEPT ![f] = "NONE"]

Deliver(f) ==
  /\ Move(f, {"accepted"}, "delivered")
  /\ UNCHANGED outcome

Acknowledge(f) ==
  /\ Move(f, {"delivered"}, "idle")
  /\ outcome' = [outcome EXCEPT ![f] = "ACK"]

(* The caller cannot tell a frame that never arrived from one whose answer *)
(* was lost.                                                               *)
GiveUp(f) ==
  /\ Move(f, {"accepted", "delivered"}, "idle")
  /\ \E e \in {"TIMEOUT", "NAK", "CAN"} : outcome' = [outcome EXCEPT ![f] = e]

SNext ==
  \E f \in Frames : Accept(f) \/ Deliver(f) \/ Acknowledge(f) \/ GiveUp(f)

SSpec == SInit /\ [][SNext]_svars

SFairSpec ==
  /\ SSpec
  /\ \A f \in Frames : WF_svars(Acknowledge(f) \/ GiveUp(f))
=============================================================================
