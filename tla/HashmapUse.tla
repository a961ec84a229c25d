----------------------------- MODULE HashmapUse -----------------------------
(***************************************************************************)
(* A hash map in use (hashmap.c): any sequence of calls, with walks over   *)
(* the entries by hashmap_foreach and by an iterator, during which entries *)
(* are removed.                                                            *)
(***************************************************************************)
EXTENDS Hashmap

CONSTANTS
  Keys,
  Data,
  Hashes,  \* the hash functions considered
  Initial  \* the initial_size given to hashmap_init

ASSUME UseAssumption ==
  /\ IsFiniteSet(Keys) /\ NULL \notin Keys \cup Data \cup Nat
  /\ \A hash \in Hashes : \A key \in Keys : hash[key] \in Nat
  /\ Initial \in 1..256

VARIABLES
  map,
  walk,  \* "none", "foreach" or "iter"
  at,    \* the slot the walk is at, NULL when it is over
  due    \* the keys the walk has still to come to

mapvars == <<map, walk, at, due>>

MapInit ==
  /\ \E hash \in Hashes : map = hashmap_init(hash, Initial)
  /\ walk = "none" /\ at = NULL /\ due = {}

Call ==
  /\ walk = "none"
  /\ \/ \E k \in Keys : \/ \E d \in Data : map' = hashmap_put(map, k, d)
                        \/ map' = hashmap_remove(map, k)
     \/ map' = hashmap_clear(map)
     \/ map' = hashmap_reset(map)
  /\ UNCHANGED <<walk, at, due>>

Present == {k \in Keys : hashmap_get(map, k) # NULL}

WalkStarts ==
  /\ walk = "none"
  /\ \/ walk' = "foreach" /\ at' = 0
     \/ walk' = "iter" /\ at' = hashmap_iter(map)
  /\ due' = Present
  /\ UNCHANGED map

(* A removal of another entry may move one past the walk: then none is due. *)
Comes(key, removed) ==
  due' = IF removed \in {NULL, key} THEN due \ {key} ELSE {}

GoOn(slot, key) == slot + 1                          \* mutant of NextSlot

(* A slot whose entry func removed is looked at again.                     *)
NextSlot(slot, key) ==
  IF map'.table[slot].key # key THEN slot ELSE slot + 1

(* func may remove the entry it is given, or another.                      *)
hashmap_foreach ==
  /\ walk = "foreach" /\ at < Size(map)
  /\ LET key == map.table[at].key IN
     IF key = NULL THEN at' = at + 1 /\ UNCHANGED <<map, due>>
     ELSE \E removed \in Keys \cup {NULL} :
            /\ map' = IF removed = NULL THEN map ELSE hashmap_remove(map, removed)
            /\ at' = NextSlot(at, key)
            /\ Comes(key, removed)
  /\ UNCHANGED walk

IterStep ==
  /\ walk = "iter" /\ at # NULL
  /\ LET key == map.table[at].key IN
     \/ /\ at' = hashmap_iter_next(map, at) /\ UNCHANGED map
        /\ Comes(key, NULL)
     \/ /\ map' = IterRemoved(map, at)
        /\ at' = GetPopulated(map', at)
        /\ Comes(key, key)
  /\ UNCHANGED walk

WalkEnds ==
  /\ \/ walk = "foreach" /\ at = Size(map)
     \/ walk = "iter" /\ at = NULL
  /\ walk' = "none" /\ at' = NULL /\ due' = {}
  /\ UNCHANGED map

MapNext == Call \/ WalkStarts \/ hashmap_foreach \/ IterStep \/ WalkEnds

MapSpec == MapInit /\ [][MapNext]_mapvars

-----------------------------------------------------------------------------
(* Properties. *)

(* Through collisions, removals that close up a chain, also around the end *)
(* of the table, and rehashing, the map is a dictionary: each key has the  *)
(* datum put first since it was last removed, and num_entries is right.    *)
D == INSTANCE Dictionary
       WITH dict <- [k \in Keys |-> hashmap_get(map, k)],
            size <- map.num_entries

ImplementsDictionary == D!Spec

(* A walk comes to every entry that was there when it started, though the  *)
(* removals of the entry it is at move others under it.  (If func removes  *)
(* an entry it was not given, hashmap_foreach can miss one.)               *)
WalkSeesAll == [][walk # "none" /\ walk' = "none" => due = {}]_mapvars
=============================================================================
