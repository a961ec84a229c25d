----------------------------- MODULE LinkedList -----------------------------
(***************************************************************************)
(* The linked list of the queues (list.c), item by item.  Its peeks, which *)
(* change nothing, are left out, and its destruction is.                   *)
(***************************************************************************)
EXTENDS Null, Naturals, Sequences, SequencesExt, FiniteSets

CONSTANT Items  \* the stListItem_t that malloc can give

ASSUME ItemsAssumption == IsFiniteSet(Items) /\ NULL \notin Items

VARIABLES
  head, tail, size,  \* of the stList_t
  links,             \* prev and next of the items
  free,              \* the items that are not allocated
  content            \* history: the items of the list, from the front

itemvars == <<head, tail, size, links, free, content>>

ListInit ==
  /\ head = NULL /\ tail = NULL /\ size = 0
  /\ links = [i \in Items |-> [prev |-> NULL, next |-> NULL]]
  /\ free = Items
  /\ content = <<>>

(* An assignment through an item that is there.                            *)
Linked(l, i, field, to) ==
  IF i = NULL THEN l ELSE [l EXCEPT ![i] = [@ EXCEPT ![field] = to]]

list_push_front(i) ==
  /\ i \in free
  /\ links' = Linked([links EXCEPT ![i] = [prev |-> NULL, next |-> head]],
                     head, "prev", i)
  /\ head' = i
  /\ tail' = IF tail = NULL THEN i ELSE tail
  /\ size' = size + 1 /\ free' = free \ {i}
  /\ content' = <<i>> \o content

list_push_back(i) ==
  /\ i \in free
  /\ links' = Linked([links EXCEPT ![i] = [prev |-> tail, next |-> NULL]],
                     tail, "next", i)
  /\ head' = IF head = NULL THEN i ELSE head
  /\ tail' = i
  /\ size' = size + 1 /\ free' = free \ {i}
  /\ content' = Append(content, i)

KeptTail == tail                                     \* mutant of TailAfterPop
TailAfterPop == IF size = 1 THEN NULL ELSE tail

list_pop_front ==
  /\ size > 0
  /\ head' = links[head].next
  /\ links' = Linked(links, head', "prev", NULL)
  /\ tail' = TailAfterPop
  /\ size' = size - 1 /\ free' = free \cup {head}
  /\ content' = Tail(content)

list_pop_back ==
  /\ size > 0
  /\ tail' = links[tail].prev
  /\ links' = Linked(links, tail', "next", NULL)
  /\ head' = IF size = 1 THEN NULL ELSE head
  /\ size' = size - 1 /\ free' = free \cup {tail}
  /\ content' = Front(content)

(* The walk along one of the links, from one end.                          *)
Walk(l, from, field) ==
  LET at[n \in 0..Cardinality(Items)] ==
        IF n = 0 THEN from
        ELSE IF at[n - 1] = NULL THEN NULL ELSE l[at[n - 1]][field]
      len == Cardinality({n \in 0..Cardinality(Items) : at[n] # NULL})
  IN  [n \in 1..len |-> at[n - 1]]

-----------------------------------------------------------------------------
(* Properties. *)

(* From either end the list holds what was put in and not yet taken out,   *)
(* in order and no item twice, though an item is freed by one end and used *)
(* again by the other.                                                     *)
ListIsDeque ==
  /\ Walk(links, head, "next") = content
  /\ Walk(links, tail, "prev") = Reverse(content)
  /\ size = Len(content)
=============================================================================
