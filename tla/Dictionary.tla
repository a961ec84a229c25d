------------------------------ MODULE Dictionary ------------------------------
(***************************************************************************)
(* What a hash map promises: each key has at most one datum, which a put   *)
(* does not replace and only a removal takes away, and the number of       *)
(* entries is known.                                                       *)
(***************************************************************************)
EXTENDS FiniteSets

CONSTANTS Keys, Data, NULL

VARIABLES dict, size

Init == dict = [k \in Keys |-> NULL] /\ size = 0

Counted == size' = Cardinality({k \in Keys : dict'[k] # NULL})

(* A get, a put of a key that is there, a removal of one that is not.      *)
Keep == UNCHANGED <<dict, size>>

Put(k, d) ==
  /\ dict[k] = NULL
  /\ dict' = [dict EXCEPT ![k] = d]
  /\ Counted

Remove(k) ==
  /\ dict[k] # NULL
  /\ dict' = [dict EXCEPT ![k] = NULL]
  /\ Counted

Clear == dict' = [k \in Keys |-> NULL] /\ Counted

Next ==
  \/ Keep
  \/ \E k \in Keys : Remove(k) \/ \E d \in Data : Put(k, d)
  \/ Clear

Spec == Init /\ [][Next]_<<dict, size>>
=============================================================================
