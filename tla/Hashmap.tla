------------------------------- MODULE Hashmap -------------------------------
(***************************************************************************)
(* The hash map (hashmap.c): open addressing with linear probing over a    *)
(* table whose size is a power of two.  A removal moves entries back along *)
(* their chain, so that no chain has a hole; a put doubles a table that is *)
(* three quarters full, or that has no slot within half the table.         *)
(* Allocation succeeds.                                                    *)
(***************************************************************************)
EXTENDS Null, Naturals, FiniteSets, FiniteSetsExt

CONSTANT HASHMAP_SIZE_MIN  \* the smallest table; a power of two

Doublings == {1, 2, 4, 8, 16, 32, 64, 128, 256}

ASSUME HashmapAssumption == HASHMAP_SIZE_MIN \in Doublings \ {1}

Empty == [key |-> NULL, data |-> NULL]

(* A struct hashmap: the hash function, the slots from 0 on, the number of *)
(* entries and the size it was made with.                                  *)
hashmap_table_min_size_calc(n) == n + (n \div 3)

hashmap_table_size_calc(n) ==
  HASHMAP_SIZE_MIN * Min({by \in Doublings : HASHMAP_SIZE_MIN * by
                                               >= hashmap_table_min_size_calc(n)})

Cleared(size) == [i \in 0..(size - 1) |-> Empty]

hashmap_init(hash, initial_size) ==
  LET size == hashmap_table_size_calc(initial_size)
  IN  [hash |-> hash, table |-> Cleared(size), num_entries |-> 0,
       table_size_init |-> size]

Size(map) == Cardinality(DOMAIN map.table)
SizeMod(map, i) == i % Size(map)
Home(map, key) == SizeMod(map, map.hash[key])

(* The slot of a key, or the empty one where it belongs; NULL if neither   *)
(* is found in half the table.                                             *)
Find(map, key) ==
  LET size  == Size(map)
      at(i) == SizeMod(map, Home(map, key) + i)
      stops == {i \in 0..((size \div 2) - 1) :
                  map.table[at(i)].key \in {NULL, key}}
  IN  IF stops = {} THEN NULL ELSE at(Min(stops))

Finds(map, key) ==
  LET s == Find(map, key) IN s # NULL /\ map.table[s].key = key

(* HASHMAP_INDEX_LE: a bit test of the difference, modulo the size.        *)
IndexLE(map, a, b) ==
  \/ a = b
  \/ SizeMod(map, b + Size(map) - a) >= Size(map) \div 2

NoShift(map, removed) ==                     \* mutant of hashmap_entry_remove
  [map EXCEPT !.num_entries = @ - 1, !.table[removed] = Empty]

(* The entry of the slot goes to the hole if it belongs there or before.   *)
Shifted(map, before, slot) ==
  LET entry == before.table[slot]
  IN  IF IndexLE(map, before.hole, Home(map, entry.key))
      THEN [table |-> [before.table EXCEPT ![before.hole] = entry],
            hole  |-> slot]
      ELSE before

Emptied(map, table, hole) ==
  [map EXCEPT !.num_entries = @ - 1, !.table = [table EXCEPT ![hole] = Empty]]

(* shift[i]: i slots of the chain were looked at.                          *)
hashmap_entry_remove(map, removed) ==
  LET at(i) == SizeMod(map, removed + i)
      ends  == {i \in 1..(Size(map) - 1) : map.table[at(i)].key = NULL}
      last  == IF ends = {} THEN Size(map) - 1 ELSE Min(ends) - 1
      shift[i \in 0..last] ==
        IF i = 0 THEN [table |-> map.table, hole |-> removed]
        ELSE Shifted(map, shift[i - 1], at(i))
  IN  Emptied(map, shift[last].table, shift[last].hole)

(* The entries go into the new table in the order of their slots; without  *)
(* room for one of them the old table stays.                               *)
hashmap_rehash(map, new_size) ==
  LET new == [map EXCEPT !.table = Cleared(new_size)]
      done[i \in 0..Size(map)] ==
        IF i = 0 THEN new
        ELSE LET entry == map.table[i - 1] IN
             IF entry.data = NULL \/ done[i - 1] = NULL THEN done[i - 1]
             ELSE LET s == Find(done[i - 1], entry.key) IN
                  IF s = NULL THEN NULL
                  ELSE [done[i - 1] EXCEPT !.table[s] = entry]
  IN  IF done[Size(map)] = NULL THEN map ELSE done[Size(map)]

MakeRoom(map) ==
  IF Size(map) <= hashmap_table_min_size_calc(map.num_entries)
  THEN hashmap_rehash(map, 2 * Size(map)) ELSE map

(* The datum goes into the slot, with the key if the slot was free.        *)
PutInto(map, s, key, data) ==
  [map EXCEPT
    !.num_entries = IF map.table[s].key = NULL THEN @ + 1 ELSE @,
    !.table[s] = [key |-> key, data |-> data]]

(* What the map is after a put; an entry with data keeps it.               *)
hashmap_put(map, key, data) ==
  LET room  == MakeRoom(map)
      again == IF Find(room, key) = NULL
               THEN hashmap_rehash(room, 2 * Size(room)) ELSE room
      s     == Find(again, key)
  IN  IF s = NULL \/ (again.table[s].key = key /\ again.table[s].data # NULL)
      THEN again
      ELSE PutInto(again, s, key, data)

hashmap_get(map, key) ==
  LET s == Find(map, key)
  IN  IF s # NULL /\ map.table[s].key = key THEN map.table[s].data ELSE NULL

hashmap_remove(map, key) ==
  IF Finds(map, key) THEN hashmap_entry_remove(map, Find(map, key)) ELSE map

hashmap_clear(map) ==
  [map EXCEPT !.num_entries = 0, !.table = Cleared(Size(map))]

hashmap_reset(map) ==
  [hashmap_clear(map) EXCEPT !.table = Cleared(map.table_size_init)]

(* An iterator is the slot of an entry; NULL is past the last one.         *)
GetPopulated(map, from) ==
  LET after == {s \in DOMAIN map.table : s >= from /\ map.table[s].key # NULL}
  IN  IF after = {} THEN NULL ELSE Min(after)

hashmap_iter(map) ==
  IF map.num_entries = 0 THEN NULL ELSE GetPopulated(map, 0)

hashmap_iter_next(map, iter) ==
  IF iter = NULL THEN NULL ELSE GetPopulated(map, iter + 1)

(* A removal by the iterator stays on the slot, which may be filled again. *)
IterRemoved(map, iter) ==
  IF map.table[iter].key = NULL THEN map ELSE hashmap_entry_remove(map, iter)
=============================================================================
