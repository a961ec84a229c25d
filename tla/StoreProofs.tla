----------------------------- MODULE StoreProofs -----------------------------
(***************************************************************************)
(* Proofs about the hash map (modules Hashmap and HashmapUse), for any     *)
(* hash function and a table of at least twice as many slots as there are  *)
(* keys (Roomy): then no probe gives up, no chain is longer than the bit   *)
(* test of HASHMAP_INDEX_LE can tell, and nothing is ever rehashed.        *)
(*                                                                         *)
(* A table is Good if each key is in one slot and no slot from its home to *)
(* it is free, so that Find comes to it.  A put keeps that because it      *)
(* takes the first free slot.  A removal keeps it by LoopInv, which says   *)
(* of the table with the hole that each entry can still be found, but for  *)
(* the ones of the chain that are yet to be looked at.                     *)
(***************************************************************************)
EXTENDS HashmapUse, SequenceFacts

(* The slots of a table of n are in a circle; from a on, b is the slot     *)
(* number Dist(a, b, n).                                                   *)
Dist(a, b, n) == IF a <= b THEN b - a ELSE b - a + n

(* at(i), as Find and hashmap_entry_remove count the slots.                *)
LEMMA AtIs ==
  ASSUME NEW n \in Nat \ {0}, NEW a \in 0..(n - 1), NEW i \in 0..(n - 1)
  PROVE  (a + i) % n \in 0..(n - 1) /\ Dist(a, (a + i) % n, n) = i
<1>1. CASE a + i < n
  BY <1>1 DEF Dist
<1>2. CASE a + i >= n
  <2>1. (a + i) % n = a + i - n
    BY <1>2
  <2> QED
    BY <1>2, <2>1 DEF Dist
<1> QED
  BY <1>1, <1>2

LEMMA HalfIs == ASSUME NEW h \in Nat PROVE (2 * h) \div 2 = h
  OBVIOUS

(* IndexLE says that b is at most half the table behind a.                 *)
LEMMA BehindIs ==
  ASSUME NEW n \in Nat \ {0}, NEW a \in 0..(n - 1), NEW b \in 0..(n - 1),
         a # b
  PROVE  (b + n - a) % n = Dist(a, b, n)
<1>1. CASE a <= b
  <2>1. (b + n - a) % n = b - a
    BY <1>1
  <2> QED
    BY <1>1, <2>1 DEF Dist
<1>2. CASE a > b
  <2>1. (b + n - a) % n = b + n - a
    BY <1>2
  <2> QED
    BY <1>2, <2>1 DEF Dist
<1> QED
  BY <1>1, <1>2

-----------------------------------------------------------------------------
(* The tables of a map, and what hashmap.c keeps true of one: no key is    *)
(* there twice, and between the home of an entry and the entry, which are  *)
(* less than half the table apart, every slot is taken.                    *)
Sizes == {HASHMAP_SIZE_MIN * by : by \in Doublings}

Entries == [key : Keys, data : Data] \cup {Empty}

Tables(n) == [0..(n - 1) -> Entries]

Maps(n) == [hash : Hashes, table : Tables(n), num_entries : Nat,
            table_size_init : Sizes]

OnceEach(T, n) ==
  \A s \in 0..(n - 1) : \A t \in 0..(n - 1) :
    T[s].key # NULL /\ T[s].key = T[t].key => s = t

(* From hm to s no slot is free, and s is less than half the table away.   *)
Reached(T, n, hm, s) ==
  /\ 2 * Dist(hm, s, n) < n
  /\ \A t \in 0..(n - 1) : Dist(hm, t, n) <= Dist(hm, s, n) => T[t].key # NULL

Chained(T, n, hash) ==
  \A s \in 0..(n - 1) :
    T[s].key # NULL => Reached(T, n, hash[T[s].key] % n, s)

Good(m, n) == OnceEach(m.table, n) /\ Chained(m.table, n, m.hash)

KeysIn(T, n) == {k \in Keys : \E s \in 0..(n - 1) : T[s].key = k}

(* There are at most half as many keys as a table of n has slots.          *)
Roomy(n) == 2 * Cardinality(Keys) <= n

(* The size of a table is even.                                            *)
LEMMA SizesAre ==
  ASSUME NEW n \in Sizes
  PROVE  /\ n \in Nat \ {0}
         /\ \E h \in Nat \ {0} : n = 2 * h
<1>1. PICK by \in Doublings : n = HASHMAP_SIZE_MIN * by
  BY DEF Sizes
<1>2. PICK g \in Nat \ {0} : HASHMAP_SIZE_MIN = 2 * g
  <2>1. HASHMAP_SIZE_MIN \in {2, 4, 8, 16, 32, 64, 128, 256}
    BY HashmapAssumption DEF Doublings
  <2>2. /\ 2 = 2 * 1 /\ 4 = 2 * 2 /\ 8 = 2 * 4 /\ 16 = 2 * 8 /\ 32 = 2 * 16
        /\ 64 = 2 * 32 /\ 128 = 2 * 64 /\ 256 = 2 * 128
    OBVIOUS
  <2> QED
    BY <2>1, <2>2
<1>3. by \in {1, 2, 4, 8, 16, 32, 64, 128, 256}
  BY DEF Doublings
<1>4. HASHMAP_SIZE_MIN \in Nat \ {0}
  BY <1>2
<1>5. g * by \in Nat \ {0} /\ n = 2 * (g * by)
  BY <1>1, <1>2, <1>3
<1>6. n \in Nat \ {0}
  BY <1>1, <1>3, <1>4
<1> QED
  BY <1>5, <1>6

(* Size counts the slots.                                                  *)
LEMMA SizeIs ==
  ASSUME NEW n \in Nat \ {0}, NEW m \in Maps(n)
  PROVE  Size(m) = n
<1>1. DOMAIN m.table = 0..(n - 1)
  BY DEF Maps, Tables
<1>2. Cardinality(0..(n - 1)) = IF 0 > n - 1 THEN 0 ELSE n - 1 - 0 + 1
  BY FS_Interval
<1>3. Cardinality(0..(n - 1)) = n
  BY <1>2
<1> QED
  BY <1>1, <1>3 DEF Size

(* As many slots in a row as have an entry, so many keys are there.        *)
LEMMA RowIsShort ==
  ASSUME NEW n \in Nat \ {0}, NEW T \in Tables(n), OnceEach(T, n),
         NEW a \in 0..(n - 1), NEW w \in 0..n, NEW K \in SUBSET Keys,
         \A i \in 0..(w - 1) : T[(a + i) % n].key \in K
  PROVE  w <= Cardinality(K)
<1> DEFINE f == [i \in 0..(w - 1) |-> T[(a + i) % n].key]
<1>1. f \in [0..(w - 1) -> K]
  OBVIOUS
<1>2. ASSUME NEW i \in 0..(w - 1), NEW j \in 0..(w - 1), f[i] = f[j]
      PROVE  i = j
  <2>1. i \in 0..(n - 1) /\ j \in 0..(n - 1)
    OBVIOUS
  <2>2. /\ (a + i) % n \in 0..(n - 1) /\ Dist(a, (a + i) % n, n) = i
        /\ (a + j) % n \in 0..(n - 1) /\ Dist(a, (a + j) % n, n) = j
    BY <2>1, AtIs
  <2>3. T[(a + i) % n].key # NULL
    BY UseAssumption
  <2>4. T[(a + i) % n].key = T[(a + j) % n].key
    BY <1>2
  <2>5. (a + i) % n = (a + j) % n
    BY <2>2, <2>3, <2>4 DEF OnceEach
  <2> QED
    BY <2>2, <2>5
<1> HIDE DEF f
<1>3. f \in Injection(0..(w - 1), K)
  BY <1>1, <1>2 DEF Injection, IsInjective
<1>4. IsFiniteSet(K)
  BY UseAssumption, FS_Subset
<1>5. Cardinality(0..(w - 1)) <= Cardinality(K)
  BY <1>3, <1>4, FS_Injection, Zenon
<1>6. Cardinality(0..(w - 1)) = IF 0 > w - 1 THEN 0 ELSE w - 1 - 0 + 1
  <2>1. 0 \in Int /\ w - 1 \in Int
    OBVIOUS
  <2> QED
    BY <2>1, FS_Interval
<1>7. Cardinality(0..(w - 1)) = w
  BY <1>6
<1> QED
  BY <1>5, <1>7

-----------------------------------------------------------------------------
(* What Find does: it comes to the key if it is there, and to the free     *)
(* slot that ends the chain if it is not.                                  *)
HomeOf(m, n, k) == m.hash[k] % n

Stops(m, n, k) ==
  {i \in 0..((n \div 2) - 1) :
     m.table[(HomeOf(m, n, k) + i) % n].key \in {NULL, k}}

(* Find takes the first of the slots where it stops.                       *)
LEMMA FindIs ==
  ASSUME NEW n \in Nat \ {0}, NEW m \in Maps(n), NEW k \in Keys
  PROVE  Find(m, k) = IF Stops(m, n, k) = {} THEN NULL
                      ELSE (HomeOf(m, n, k) + Min(Stops(m, n, k))) % n
<1>1. Size(m) = n
  BY SizeIs
<1> QED
  BY <1>1 DEF Find, Stops, SizeMod, Home, HomeOf

LEMMA HomeIsSlot ==
  ASSUME NEW n \in Nat \ {0}, NEW m \in Maps(n), NEW k \in Keys
  PROVE  HomeOf(m, n, k) \in 0..(n - 1)
<1>1. m.hash[k] \in Nat
  BY UseAssumption DEF Maps
<1> QED
  BY <1>1 DEF HomeOf

(* A slot has an entry, or is free.                                        *)
LEMMA EntryIs ==
  ASSUME NEW n \in Nat \ {0}, NEW m \in Maps(n), NEW s \in 0..(n - 1)
  PROVE  /\ m.table[s] \in Entries
         /\ m.table[s].key = NULL => m.table[s] = Empty
         /\ m.table[s].key # NULL => /\ m.table[s].key \in Keys
                                     /\ m.table[s].data \in Data
<1>1. m.table[s] \in Entries
  BY DEF Maps, Tables
<1>2. CASE m.table[s] = Empty
  BY <1>1, <1>2 DEF Empty
<1>3. CASE m.table[s] \in [key : Keys, data : Data]
  BY <1>1, <1>3, UseAssumption
<1> QED
  BY <1>1, <1>2, <1>3 DEF Entries

(* Find comes to a key that is there.                                      *)
LEMMA FindPresent ==
  ASSUME NEW n \in Sizes, NEW m \in Maps(n), Good(m, n), NEW k \in Keys,
         NEW s \in 0..(n - 1), m.table[s].key = k
  PROVE  Find(m, k) = s
<1>1. n \in Nat \ {0}
  BY SizesAre
<1>2. PICK h \in Nat \ {0} : n = 2 * h
  BY SizesAre
<1>3. n \div 2 = h
  BY <1>2, HalfIs
<1> DEFINE hm == HomeOf(m, n, k)
           d  == Dist(hm, s, n)
           S  == Stops(m, n, k)
<1>4. hm \in 0..(n - 1)
  BY <1>1, HomeIsSlot
<1>5. k # NULL
  BY UseAssumption
<1>6. 2 * d < n /\ \A t \in 0..(n - 1) : Dist(hm, t, n) <= d => m.table[t].key # NULL
  BY <1>5 DEF Good, Chained, Reached, HomeOf
<1>7. d \in 0..(h - 1) /\ d \in 0..(n - 1)
  BY <1>1, <1>2, <1>4, <1>6 DEF Dist
<1>8. (hm + d) % n = s
  <2>1. (hm + d) % n \in 0..(n - 1) /\ Dist(hm, (hm + d) % n, n) = d
    BY <1>1, <1>4, <1>7, AtIs
  <2> DEFINE t == (hm + d) % n
  <2>2. t \in 0..(n - 1) /\ Dist(hm, t, n) = Dist(hm, s, n)
    BY <2>1
  <2> HIDE DEF t, hm
  <2>3. t = s
    BY <1>1, <1>4, <2>2 DEF Dist
  <2> QED
    BY <2>3 DEF t
<1>9. d \in S
  BY <1>3, <1>7, <1>8 DEF Stops
<1>10. S \in SUBSET Nat /\ S \subseteq 0..(h - 1)
  BY <1>2, <1>3 DEF Stops
<1> DEFINE i == Min(S)
<1>11. i \in S /\ i <= d
  <2> HIDE DEF S, d
  <2> QED
    BY <1>9, <1>10, MinIs
<1>12. i \in 0..(n - 1) /\ i \in 0..d
  <2> HIDE DEF S, i, d
  <2> QED
    BY <1>2, <1>7, <1>10, <1>11
<1> DEFINE t == (hm + i) % n
<1>13. t \in 0..(n - 1) /\ Dist(hm, t, n) = i
  <2> HIDE DEF hm, i
  <2> QED
    BY <1>1, <1>4, <1>12, AtIs
<1>14. m.table[t].key \in {NULL, k}
  <2>1. i \in Stops(m, n, k)
    BY <1>11
  <2> HIDE DEF i
  <2> QED
    BY <2>1 DEF Stops
<1>15. m.table[t].key = k
  <2> HIDE DEF t, i, d, hm
  <2> QED
    BY <1>6, <1>12, <1>13, <1>14
<1>16. t = s
  <2> HIDE DEF t
  <2> QED
    BY <1>5, <1>13, <1>15 DEF Good, OnceEach
<1>17. Find(m, k) = t
  BY <1>1, <1>9, FindIs
<1> QED
  BY <1>16, <1>17

(* For one that is not, it comes to the first free slot of the chain.      *)
LEMMA FindAbsent ==
  ASSUME NEW n \in Sizes, Roomy(n), NEW m \in Maps(n), Good(m, n), NEW k \in Keys,
         \A s \in 0..(n - 1) : m.table[s].key # k
  PROVE  /\ Find(m, k) \in 0..(n - 1)
         /\ m.table[Find(m, k)].key = NULL
         /\ 2 * Dist(HomeOf(m, n, k), Find(m, k), n) < n
         /\ \A t \in 0..(n - 1) :
              Dist(HomeOf(m, n, k), t, n) < Dist(HomeOf(m, n, k), Find(m, k), n)
                => m.table[t].key # NULL
<1>1. n \in Nat \ {0}
  BY SizesAre
<1>2. PICK h \in Nat \ {0} : n = 2 * h
  BY SizesAre
<1>3. n \div 2 = h
  BY <1>2, HalfIs
<1> DEFINE hm == HomeOf(m, n, k)
           S  == Stops(m, n, k)
<1>4. hm \in 0..(n - 1)
  BY <1>1, HomeIsSlot
<1>5. S # {}
  <2> SUFFICES ASSUME S = {} PROVE FALSE
    OBVIOUS
  <2>1. m.table \in Tables(n) /\ OnceEach(m.table, n)
    BY DEF Maps, Good
  <2>2. h \in 0..n
    BY <1>2
  <2>3. ASSUME NEW i \in 0..(h - 1)
        PROVE  m.table[(hm + i) % n].key \in Keys \ {k}
    <3>1. m.table[(hm + i) % n].key \notin {NULL, k}
      BY <1>3 DEF Stops
    <3>2. i \in 0..(n - 1)
      BY <1>2
    <3>3. (hm + i) % n \in 0..(n - 1)
      <4> HIDE DEF hm
      <4> QED
        BY <1>1, <1>4, <3>2, AtIs
    <3> QED
      BY <1>1, <3>1, <3>3, EntryIs
  <2>4. h <= Cardinality(Keys \ {k})
    <3> HIDE DEF hm
    <3> QED
      BY <1>1, <1>4, <2>1, <2>2, <2>3, RowIsShort
  <2>5. Cardinality(Keys \ {k}) = Cardinality(Keys) - 1 /\ Cardinality(Keys) \in Nat
    BY UseAssumption, FS_RemoveElement, FS_CardinalityType
  <2> QED
    BY <1>1, <1>2, <2>4, <2>5 DEF Roomy
<1>6. S \in SUBSET Nat /\ S \subseteq 0..(h - 1)
  BY <1>2, <1>3 DEF Stops
<1> DEFINE i == Min(S)
           t == (hm + i) % n
<1>7. i \in S /\ \A j \in S : i <= j
  <2> HIDE DEF S
  <2> QED
    BY <1>5, <1>6, MinIs
<1>8. i \in 0..(h - 1) /\ i \in 0..(n - 1)
  <2> HIDE DEF S, i
  <2> QED
    BY <1>2, <1>6, <1>7
<1>9. t \in 0..(n - 1) /\ Dist(hm, t, n) = i
  <2> HIDE DEF hm, i
  <2> QED
    BY <1>1, <1>4, <1>8, AtIs
<1>10. m.table[t].key = NULL
  <2>1. i \in Stops(m, n, k)
    BY <1>7
  <2>2. m.table[t].key \in {NULL, k}
    <3> HIDE DEF i
    <3> QED
      BY <2>1 DEF Stops
  <2> HIDE DEF t
  <2> QED
    BY <1>9, <2>2
<1>11. ASSUME NEW u \in 0..(n - 1), Dist(hm, u, n) < i
       PROVE  m.table[u].key # NULL
  <2> DEFINE j == Dist(hm, u, n)
  <2>1. j \in 0..(h - 1) /\ j \in 0..(n - 1)
    <3> HIDE DEF hm, i
    <3> QED
      BY <1>1, <1>2, <1>4, <1>8, <1>11 DEF Dist
  <2>2. (hm + j) % n = u
    <3> DEFINE v == (hm + j) % n
    <3>1. v \in 0..(n - 1) /\ Dist(hm, v, n) = j
      <4> HIDE DEF hm, j
      <4> QED
        BY <1>1, <1>4, <2>1, AtIs
    <3> HIDE DEF v, hm
    <3>2. v = u
      BY <1>1, <1>4, <3>1 DEF Dist
    <3> QED
      BY <3>2 DEF v
  <2>3. j \notin S
    <3> HIDE DEF S, i
    <3> QED
      BY <1>7, <1>8, <1>11, <2>1
  <2>4. m.table[(hm + j) % n].key \notin {NULL, k}
    <3> HIDE DEF j
    <3> QED
      BY <1>3, <2>1, <2>3 DEF Stops
  <2> QED
    BY <2>2, <2>4
<1>12. Find(m, k) = t
  BY <1>1, <1>5, FindIs
<1>13. 2 * i < n
  <2> HIDE DEF i
  <2> QED
    BY <1>2, <1>8
<1> HIDE DEF t, i
<1> QED
  BY <1>9, <1>10, <1>11, <1>12, <1>13

-----------------------------------------------------------------------------
(* What the calls do to a map that is in order, as a dictionary.           *)
MapOk(m, n) ==
  /\ Good(m, n)
  /\ m.num_entries = Cardinality(KeysIn(m.table, n))
  /\ m.table_size_init = n

Dict(m) == [k \in Keys |-> hashmap_get(m, k)]

(* hashmap_get returns the datum of the entry, or NULL.                    *)
LEMMA GetIs ==
  ASSUME NEW n \in Sizes, Roomy(n), NEW m \in Maps(n), Good(m, n), NEW k \in Keys
  PROVE  /\ \A s \in 0..(n - 1) : m.table[s].key = k
              => hashmap_get(m, k) = m.table[s].data
         /\ k \notin KeysIn(m.table, n) => hashmap_get(m, k) = NULL
         /\ k \in KeysIn(m.table, n) => hashmap_get(m, k) \in Data
<1>1. n \in Nat \ {0}
  BY SizesAre
<1>2. ASSUME NEW s \in 0..(n - 1), m.table[s].key = k
      PROVE  hashmap_get(m, k) = m.table[s].data /\ hashmap_get(m, k) \in Data
  <2>1. Find(m, k) = s
    BY <1>2, FindPresent
  <2>2. s # NULL /\ k # NULL
    BY <1>1, UseAssumption
  <2>3. m.table[s].data \in Data
    BY <1>1, <1>2, <2>2, EntryIs
  <2> QED
    BY <1>2, <2>1, <2>2, <2>3 DEF hashmap_get
<1>3. ASSUME k \notin KeysIn(m.table, n) PROVE hashmap_get(m, k) = NULL
  <2>1. \A s \in 0..(n - 1) : m.table[s].key # k
    BY <1>3 DEF KeysIn
  <2>2. Find(m, k) \in 0..(n - 1) /\ m.table[Find(m, k)].key = NULL
    BY <2>1, FindAbsent
  <2> QED
    BY <2>1, <2>2 DEF hashmap_get
<1> QED
  BY <1>2, <1>3 DEF KeysIn

(* The map as a dictionary has the keys of its table.                      *)
LEMMA DictIs ==
  ASSUME NEW n \in Sizes, Roomy(n), NEW m \in Maps(n), Good(m, n)
  PROVE  /\ Dict(m) \in [Keys -> Data \cup {NULL}]
         /\ {k \in Keys : Dict(m)[k] # NULL} = KeysIn(m.table, n)
<1>1. ASSUME NEW k \in Keys
      PROVE  /\ Dict(m)[k] \in Data \cup {NULL}
             /\ Dict(m)[k] # NULL <=> k \in KeysIn(m.table, n)
  BY GetIs, UseAssumption DEF Dict
<1>2. Dict(m) \in [Keys -> Data \cup {NULL}]
  BY <1>1 DEF Dict
<1>3. KeysIn(m.table, n) \subseteq Keys
  BY DEF KeysIn
<1> QED
  BY <1>1, <1>2, <1>3

(* hashmap_put does not rehash a map that has room for every key.          *)
LEMMA NoRehash ==
  ASSUME NEW n \in Sizes, Roomy(n), NEW m \in Maps(n), MapOk(m, n)
  PROVE  MakeRoom(m) = m
<1>1. n \in Nat \ {0}
  BY SizesAre
<1>2. Size(m) = n
  BY <1>1, SizeIs
<1>3. KeysIn(m.table, n) \in SUBSET Keys
  BY DEF KeysIn
<1>4. m.num_entries \in Nat /\ m.num_entries <= Cardinality(Keys) /\ Cardinality(Keys) \in Nat
  BY <1>3, UseAssumption, FS_Subset, FS_CardinalityType DEF MapOk, Maps
<1> DEFINE e == m.num_entries
<1>5. 2 * e <= n
  BY <1>1, <1>4 DEF Roomy
<1> HIDE DEF e
<1>6. e \in Nat
  BY <1>4 DEF e
<1>7. ~(n <= e + (e \div 3))
  BY <1>1, <1>5, <1>6
<1> QED
  BY <1>2, <1>7 DEF MakeRoom, hashmap_table_min_size_calc, e

(* hashmap_put leaves the entry of a key that is there.                    *)
LEMMA PutPresent ==
  ASSUME NEW n \in Sizes, Roomy(n), NEW m \in Maps(n), MapOk(m, n),
         NEW k \in KeysIn(m.table, n), NEW d
  PROVE  hashmap_put(m, k, d) = m
<1>1. n \in Nat \ {0} /\ k \in Keys
  BY SizesAre DEF KeysIn
<1>2. PICK s \in 0..(n - 1) : m.table[s].key = k
  BY DEF KeysIn
<1>3. Find(m, k) = s
  BY <1>1, <1>2, FindPresent DEF MapOk
<1>4. s # NULL /\ k # NULL
  BY <1>1, UseAssumption
<1>5. m.table[s].data # NULL
  BY <1>1, <1>2, <1>4, EntryIs, UseAssumption
<1> QED
  BY <1>2, <1>3, <1>4, <1>5, NoRehash DEF hashmap_put

LEMMA PutIntoIs ==
  ASSUME NEW n \in Sizes, NEW m \in Maps(n), NEW s \in 0..(n - 1),
         m.table[s].key = NULL, NEW k \in Keys, NEW d \in Data
  PROVE  /\ PutInto(m, s, k, d) \in Maps(n)
         /\ PutInto(m, s, k, d).hash = m.hash
         /\ PutInto(m, s, k, d).num_entries = m.num_entries + 1
         /\ PutInto(m, s, k, d).table_size_init = m.table_size_init
         /\ \A t \in 0..(n - 1) : PutInto(m, s, k, d).table[t] =
              IF t = s THEN [key |-> k, data |-> d] ELSE m.table[t]
<1> DEFINE e == [key |-> k, data |-> d]
           m2 == [m EXCEPT !.num_entries = m.num_entries + 1, !.table[s] = e]
<1>1. PutInto(m, s, k, d) = m2
  BY DEF PutInto, Maps, Tables
<1>2. e \in Entries
  BY DEF Entries
<1> HIDE DEF e
<1>3. /\ m2.hash = m.hash /\ m2.num_entries = m.num_entries + 1
      /\ m2.table_size_init = m.table_size_init
      /\ m2.table = [m.table EXCEPT ![s] = e]
  BY DEF Maps
<1>5. [m.table EXCEPT ![s] = e] \in Tables(n)
  BY <1>2 DEF Maps, Tables
<1>6. m2 \in Maps(n)
  <2> DEFINE T2 == [m.table EXCEPT ![s] = e]
             c2 == m.num_entries + 1
  <2>1. T2 \in Tables(n) /\ c2 \in Nat
    BY <1>5 DEF Maps
  <2>2. m2 = [m EXCEPT !.num_entries = c2, !.table = T2]
    BY DEF Maps
  <2> HIDE DEF T2, c2, m2
  <2>3. [m EXCEPT !.num_entries = c2, !.table = T2] \in Maps(n)
    BY <2>1 DEF Maps
  <2> QED
    BY <2>2, <2>3
<1>7. \A t \in 0..(n - 1) : m2.table[t] = IF t = s THEN e ELSE m.table[t]
  BY <1>3 DEF Maps, Tables
<1> QED
  BY <1>1, <1>3, <1>6, <1>7 DEF e

(* An entry at the end of its chain keeps the table in order.              *)
LEMMA FilledIsGood ==
  ASSUME NEW n \in Sizes, NEW m \in Maps(n), Good(m, n), NEW k \in Keys,
         \A t \in 0..(n - 1) : m.table[t].key # k,
         NEW s \in 0..(n - 1), m.table[s].key = NULL,
         2 * Dist(HomeOf(m, n, k), s, n) < n,
         \A t \in 0..(n - 1) :
           Dist(HomeOf(m, n, k), t, n) < Dist(HomeOf(m, n, k), s, n)
             => m.table[t].key # NULL,
         NEW w \in Maps(n), w.hash = m.hash, w.table[s].key = k,
         \A t \in (0..(n - 1)) \ {s} : w.table[t] = m.table[t]
  PROVE  Good(w, n)
<1>1. n \in Nat \ {0}
  BY SizesAre
<1>2. k # NULL
  BY UseAssumption
<1>3. OnceEach(w.table, n)
  BY DEF Good, OnceEach
<1>4. ASSUME NEW t \in 0..(n - 1), w.table[t].key # NULL
      PROVE  Reached(w.table, n, w.hash[w.table[t].key] % n, t)
  <2>1. CASE t = s
    <3> DEFINE hm == HomeOf(m, n, k)
    <3>1. hm \in 0..(n - 1)
      BY <1>1, HomeIsSlot
    <3>2. hm = w.hash[w.table[t].key] % n
      BY <2>1 DEF HomeOf
    <3> HIDE DEF hm
    <3>3. ASSUME NEW u \in 0..(n - 1), Dist(hm, u, n) <= Dist(hm, s, n)
          PROVE  w.table[u].key # NULL
      <4>1. CASE u = s
        BY <1>2, <4>1
      <4>2. CASE u # s
        <5>1. Dist(hm, u, n) < Dist(hm, s, n)
          BY <1>1, <3>1, <3>3, <4>2 DEF Dist
        <5> QED
          BY <4>2, <5>1 DEF hm
      <4> QED
        BY <4>1, <4>2
    <3>4. 2 * Dist(hm, s, n) < n
      BY DEF hm
    <3> QED
      BY <2>1, <3>2, <3>3, <3>4 DEF Reached
  <2>2. CASE t # s
    <3> DEFINE hm == m.hash[m.table[t].key] % n
    <3>1. w.table[t] = m.table[t]
      BY <2>2
    <3>2. Reached(m.table, n, hm, t)
      BY <1>4, <3>1 DEF Good, Chained
    <3>3. hm = w.hash[w.table[t].key] % n
      BY <3>1
    <3> HIDE DEF hm
    <3>4. \A u \in 0..(n - 1) : m.table[u].key # NULL => w.table[u].key # NULL
      BY <1>2
    <3> QED
      BY <3>2, <3>3, <3>4 DEF Reached
  <2> QED
    BY <2>1, <2>2
<1> QED
  BY <1>3, <1>4 DEF Good, Chained

(* It gives a key that is not there the datum.                             *)
LEMMA PutAbsent ==
  ASSUME NEW n \in Sizes, Roomy(n), NEW m \in Maps(n), MapOk(m, n),
         NEW k \in Keys, k \notin KeysIn(m.table, n), NEW d \in Data
  PROVE  /\ hashmap_put(m, k, d) \in Maps(n) /\ MapOk(hashmap_put(m, k, d), n)
         /\ Dict(m)[k] = NULL
         /\ Dict(hashmap_put(m, k, d)) = [Dict(m) EXCEPT ![k] = d]
<1>1. n \in Nat \ {0}
  BY SizesAre
<1>2. \A s \in 0..(n - 1) : m.table[s].key # k
  BY DEF KeysIn
<1>3. Good(m, n)
  BY DEF MapOk
<1> DEFINE s == Find(m, k)
           w == PutInto(m, s, k, d)
<1>4. /\ s \in 0..(n - 1) /\ m.table[s].key = NULL
      /\ 2 * Dist(HomeOf(m, n, k), s, n) < n
      /\ \A t \in 0..(n - 1) :
           Dist(HomeOf(m, n, k), t, n) < Dist(HomeOf(m, n, k), s, n)
             => m.table[t].key # NULL
  BY <1>2, <1>3, FindAbsent
<1>5. s # NULL /\ k # NULL
  BY <1>4, UseAssumption
<1>6. hashmap_put(m, k, d) = w
  BY <1>2, <1>4, <1>5, NoRehash DEF hashmap_put
<1> HIDE DEF s
<1>7. /\ w \in Maps(n) /\ w.hash = m.hash /\ w.num_entries = m.num_entries + 1
      /\ w.table_size_init = m.table_size_init
      /\ \A t \in 0..(n - 1) : w.table[t] =
           IF t = s THEN [key |-> k, data |-> d] ELSE m.table[t]
  BY <1>4, PutIntoIs
<1> HIDE DEF w
<1>8. w.table[s].key = k /\ w.table[s].data = d
  BY <1>4, <1>7
<1>9. \A t \in (0..(n - 1)) \ {s} : w.table[t] = m.table[t]
  BY <1>7
<1>10. Good(w, n)
  BY <1>2, <1>3, <1>4, <1>7, <1>8, <1>9, FilledIsGood
<1>11. KeysIn(w.table, n) = KeysIn(m.table, n) \cup {k}
  <2>1. ASSUME NEW x \in Keys
        PROVE  x \in KeysIn(w.table, n) <=> x \in KeysIn(m.table, n) \cup {k}
    <3>1. CASE x = k
      BY <1>4, <1>8, <3>1 DEF KeysIn
    <3>2. CASE x # k
      <4>1. m.table[s].key # x
        BY <1>4, UseAssumption
      <4>2. \A t \in 0..(n - 1) : w.table[t].key = x <=> m.table[t].key = x
        BY <1>8, <1>9, <3>2, <4>1
      <4> QED
        BY <3>2, <4>2 DEF KeysIn
    <3> QED
      BY <3>1, <3>2
  <2>2. KeysIn(w.table, n) \subseteq Keys /\ KeysIn(m.table, n) \subseteq Keys
    BY DEF KeysIn
  <2> QED
    BY <2>1, <2>2
<1>12. w.num_entries = Cardinality(KeysIn(w.table, n))
  <2> DEFINE S == KeysIn(m.table, n)
  <2>1. S \in SUBSET Keys
    BY DEF KeysIn
  <2>2. IsFiniteSet(S)
    BY <2>1, UseAssumption, FS_Subset
  <2>3. Cardinality(S \cup {k}) = Cardinality(S) + 1
    <3> HIDE DEF S
    <3>1. Cardinality(S \cup {k}) =
            IF k \in S THEN Cardinality(S) ELSE Cardinality(S) + 1
      BY <2>2, FS_AddElement
    <3> QED
      BY <3>1 DEF S
  <2> QED
    BY <1>7, <1>11, <2>3 DEF MapOk
<1>13. Dict(m)[k] = NULL
  BY <1>3, GetIs DEF Dict
<1>14. ASSUME NEW x \in Keys
       PROVE  Dict(w)[x] = IF x = k THEN d ELSE Dict(m)[x]
  <2>1. CASE x = k
    <3>1. hashmap_get(w, k) = d
      BY <1>4, <1>7, <1>8, <1>10, GetIs
    <3> QED
      BY <2>1, <3>1 DEF Dict
  <2>2. CASE x # k /\ x \in KeysIn(m.table, n)
    <3>1. PICK t \in 0..(n - 1) : m.table[t].key = x
      BY <2>2 DEF KeysIn
    <3>2. t # s
      BY <1>4, <3>1, UseAssumption
    <3>3. w.table[t] = m.table[t]
      BY <1>9, <3>2
    <3>4. hashmap_get(w, x) = w.table[t].data
      BY <1>7, <1>10, <3>1, <3>3, GetIs
    <3>5. hashmap_get(m, x) = m.table[t].data
      BY <1>3, <3>1, GetIs
    <3> QED
      BY <2>2, <3>3, <3>4, <3>5 DEF Dict
  <2>3. CASE x # k /\ x \notin KeysIn(m.table, n)
    <3>1. x \notin KeysIn(w.table, n)
      BY <1>11, <2>3
    <3>2. hashmap_get(w, x) = NULL
      BY <1>7, <1>10, <3>1, GetIs
    <3>3. hashmap_get(m, x) = NULL
      BY <1>3, <2>3, GetIs
    <3> QED
      BY <2>3, <3>2, <3>3 DEF Dict
  <2> QED
    BY <2>1, <2>2, <2>3
<1>15. Dict(w) = [Dict(m) EXCEPT ![k] = d]
  <2>1. /\ Dict(m) \in [Keys -> Data \cup {NULL}]
        /\ Dict(w) \in [Keys -> Data \cup {NULL}]
    BY <1>3, <1>7, <1>10, DictIs
  <2> QED
    BY <1>14, <2>1
<1> QED
  BY <1>6, <1>7, <1>10, <1>12, <1>13, <1>15 DEF MapOk

-----------------------------------------------------------------------------
(* A removal.  Between the table the loop has come to, but for its hole,   *)
(* and the one the call found there is this invariant: an entry is never   *)
(* lost, and the hole is on no entry's way from its home.                  *)
Holes(n) == [table : Tables(n), hole : 0..(n - 1)]

LEMMA ShiftedIs ==
  ASSUME NEW n \in Nat \ {0}, NEW m, NEW x \in Holes(n), NEW s \in 0..(n - 1)
  PROVE  Shifted(m, x, s) \in Holes(n)
<1> DEFINE e  == x.table[s]
           T2 == [x.table EXCEPT ![x.hole] = e]
<1>1. x.table \in Tables(n) /\ x.hole \in 0..(n - 1)
  BY DEF Holes
<1>2. e \in Entries
  BY <1>1 DEF Tables
<1>3. T2 \in Tables(n)
  <2> HIDE DEF e
  <2> QED
    BY <1>1, <1>2 DEF Tables
<1>4. [table |-> T2, hole |-> s] \in Holes(n)
  BY <1>3 DEF Holes
<1>5. Shifted(m, x, s) = [table |-> T2, hole |-> s] \/ Shifted(m, x, s) = x
  BY DEF Shifted
<1> QED
  BY <1>4, <1>5

(* f[i] is what the loop has after its first i slots. *)
IsLoop(m, n, r, last, f) ==
  /\ f \in [0..last -> Holes(n)]
  /\ f[0] = [table |-> m.table, hole |-> r]
  /\ \A i \in 1..last : f[i] = Shifted(m, f[i - 1], (r + i) % n)

(* The recursive function shift of hashmap_entry_remove is a loop.         *)
LEMMA LoopExists ==
  ASSUME NEW n \in Nat \ {0}, NEW m \in Maps(n), NEW r \in 0..(n - 1),
         NEW last \in Nat, last < n
  PROVE  \E f : IsLoop(m, n, r, last, f)
<1> DEFINE P == {i \in 0..last : \E f : IsLoop(m, n, r, i, f)}
<1>1. 0 \in P
  <2> DEFINE a == [table |-> m.table, hole |-> r]
             f == [i \in 0..0 |-> a]
  <2>1. a \in Holes(n)
    BY DEF Holes, Maps
  <2>2. f \in [0..0 -> Holes(n)] /\ f[0] = a /\ \A i \in 1..0 : FALSE
    <3> HIDE DEF a
    <3> QED
      BY <2>1
  <2> HIDE DEF f
  <2>3. IsLoop(m, n, r, 0, f)
    BY <2>2 DEF IsLoop
  <2> QED
    BY <2>3
<1>2. ASSUME NEW k \in 1..last, k - 1 \in P PROVE k \in P
  <2>1. PICK f : IsLoop(m, n, r, k - 1, f)
    BY <1>2
  <2>2. k \in Nat /\ k - 1 \in 0..(k - 1) /\ k \in 0..(n - 1)
    OBVIOUS
  <2>3. f \in [0..(k - 1) -> Holes(n)]
    BY <2>1 DEF IsLoop
  <2> DEFINE next == Shifted(m, f[k - 1], (r + k) % n)
  <2>4. next \in Holes(n)
    <3>1. (r + k) % n \in 0..(n - 1)
      BY <2>2, AtIs
    <3>2. f[k - 1] \in Holes(n)
      BY <2>2, <2>3
    <3> QED
      BY <3>1, <3>2, ShiftedIs
  <2> HIDE DEF next
  <2> DEFINE g == [i \in 0..k |-> IF i < k THEN f[i] ELSE next]
  <2>5. /\ g \in [0..k -> Holes(n)] /\ g[k] = next
        /\ \A i \in 0..(k - 1) : g[i] = f[i]
    BY <2>2, <2>3, <2>4
  <2> HIDE DEF g
  <2>6. g[0] = [table |-> m.table, hole |-> r]
    <3>1. 0 \in 0..(k - 1)
      BY <2>2
    <3> QED
      BY <2>1, <2>5, <3>1 DEF IsLoop
  <2>7. ASSUME NEW i \in 1..k PROVE g[i] = Shifted(m, g[i - 1], (r + i) % n)
    <3>1. g[i - 1] = f[i - 1]
      BY <2>2, <2>5
    <3>2. CASE i < k
      <4>1. i \in 1..(k - 1) /\ g[i] = f[i]
        BY <2>2, <2>5, <3>2
      <4> QED
        BY <2>1, <3>1, <4>1 DEF IsLoop
    <3>3. CASE i = k
      BY <2>5, <3>1, <3>3 DEF next
    <3> QED
      BY <2>2, <3>2, <3>3
  <2>8. IsLoop(m, n, r, k, g)
    BY <2>5, <2>6, <2>7 DEF IsLoop
  <2> QED
    BY <2>8
<1>3. 0..last \subseteq P
  <2> HIDE DEF P
  <2> QED
    BY <1>1, <1>2, UpTo
<1>4. last \in P
  <2> HIDE DEF P
  <2> QED
    BY <1>3
<1> QED
  BY <1>4

(* The loop of hashmap_entry_remove, up to the end of the chain, which is  *)
(* less than half the table behind the removed entry.                      *)
LEMMA RemoveIsLoop ==
  ASSUME NEW n \in Sizes, Roomy(n), NEW m \in Maps(n), Good(m, n),
         NEW r \in 0..(n - 1), m.table[r].key # NULL
  PROVE  \E last \in Nat : \E f :
           /\ IsLoop(m, n, r, last, f)
           /\ 2 * last < n
           /\ \A i \in 0..last : m.table[(r + i) % n].key # NULL
           /\ m.table[(r + (last + 1)) % n].key = NULL
           /\ hashmap_entry_remove(m, r) =
                Emptied(m, f[last].table, f[last].hole)
<1>1. n \in Nat \ {0}
  BY SizesAre
<1>2. PICK h \in Nat \ {0} : n = 2 * h
  BY SizesAre
<1>3. Size(m) = n
  BY <1>1, SizeIs
<1> DEFINE nth(i) == SizeMod(m, r + i)
           ends  == {i \in 1..(Size(m) - 1) : m.table[nth(i)].key = NULL}
           last  == IF ends = {} THEN Size(m) - 1 ELSE Min(ends) - 1
           init  == [table |-> m.table, hole |-> r]
           shift == CHOOSE shift : shift =
                      [i \in 0..last |-> IF i = 0 THEN init
                                         ELSE Shifted(m, shift[i - 1], nth(i))]
<1>4. hashmap_entry_remove(m, r) = Emptied(m, shift[last].table, shift[last].hole)
  BY DEF hashmap_entry_remove
<1> HIDE DEF shift, init
<1>5. \A i \in Nat : nth(i) = (r + i) % n
  BY <1>3 DEF SizeMod
<1>6. (r + 0) % n = r
  BY <1>1
<1>7. ASSUME NEW w \in 1..n, \A i \in 1..(w - 1) : m.table[(r + i) % n].key # NULL
      PROVE  w <= h
  <2>1. m.table \in Tables(n) /\ OnceEach(m.table, n)
    BY DEF Maps, Good
  <2>2. w \in 0..n
    OBVIOUS
  <2>3. ASSUME NEW i \in 0..(w - 1) PROVE m.table[(r + i) % n].key \in Keys
    <3>1. m.table[(r + i) % n].key # NULL
      BY <1>6, <1>7
    <3>2. (r + i) % n \in 0..(n - 1)
      <4>1. i \in 0..(n - 1)
        BY <1>1
      <4> QED
        BY <1>1, <4>1, AtIs
    <3> QED
      BY <1>1, <3>1, <3>2, EntryIs
  <2>4. w <= Cardinality(Keys)
    BY <1>1, <2>1, <2>2, <2>3, RowIsShort
  <2>5. Cardinality(Keys) \in Nat
    BY UseAssumption, FS_CardinalityType
  <2> QED
    BY <1>2, <2>4, <2>5 DEF Roomy
<1>8. ends # {}
  <2> SUFFICES ASSUME ends = {} PROVE FALSE
    OBVIOUS
  <2>1. \A i \in 1..(n - 1) : m.table[(r + i) % n].key # NULL
    BY <1>3, <1>5
  <2>2. n \in 1..n
    BY <1>1
  <2>3. n <= h
    <3> HIDE DEF nth, ends
    <3> QED
      BY <1>7, <2>1, <2>2
  <2> QED
    BY <1>2, <2>3
<1>9. ends \in SUBSET Nat
  BY <1>1, <1>3
<1>10. Min(ends) \in ends /\ \A i \in ends : Min(ends) <= i
  <2> HIDE DEF ends
  <2> QED
    BY <1>8, <1>9, MinIs
<1>11. PICK e \in 1..(n - 1) :
         /\ last = e - 1
         /\ m.table[(r + e) % n].key = NULL
         /\ \A i \in 1..(e - 1) : m.table[(r + i) % n].key # NULL
  <2>1. last = Min(ends) - 1
    BY <1>8
  <2>2. \A i \in 1..(n - 1) :
          i \in ends <=> m.table[(r + i) % n].key = NULL
    BY <1>3, <1>5
  <2>3. \A i \in ends : i \in 1..(n - 1)
    BY <1>3
  <2> HIDE DEF ends, last, nth
  <2>4. PICK e : e = Min(ends)
    OBVIOUS
  <2>5. e \in 1..(n - 1) /\ m.table[(r + e) % n].key = NULL
    BY <1>10, <2>2, <2>3, <2>4
  <2>6. ASSUME NEW i \in 1..(e - 1)
        PROVE  m.table[(r + i) % n].key # NULL
    <3>1. i \in 1..(n - 1) /\ ~(e <= i)
      BY <1>1, <2>5
    <3>2. i \notin ends
      BY <1>10, <2>4, <3>1
    <3> QED
      BY <2>2, <3>1, <3>2
  <2> QED
    BY <2>1, <2>4, <2>5, <2>6
<1> HIDE DEF ends, last
<1>12. last \in Nat /\ last + 1 = e /\ last < n
  BY <1>1, <1>11
<1>13. m.table[(r + (last + 1)) % n].key = NULL
  BY <1>11, <1>12
<1>14. \A i \in 0..last : m.table[(r + i) % n].key # NULL
  <2> TAKE i \in 0..last
  <2>1. CASE i = 0
    BY <1>6, <2>1
  <2>2. CASE i # 0
    <3>1. i \in 1..(e - 1)
      BY <1>11, <1>12, <2>2
    <3> QED
      BY <1>11, <3>1
  <2> QED
    BY <2>1, <2>2
<1>15. 2 * last < n
  <2>1. e \in 1..n
    BY <1>1, <1>11
  <2>2. e <= h
    BY <1>7, <1>11, <2>1
  <2> QED
    BY <1>2, <1>11, <1>12, <2>2
<1>18. PICK f : IsLoop(m, n, r, last, f)
  BY <1>1, <1>12, LoopExists
<1>19. /\ f \in [0..last -> Holes(n)] /\ f[0] = init
       /\ \A i \in 1..last : f[i] = Shifted(m, f[i - 1], (r + i) % n)
  BY <1>18 DEF IsLoop, init
<1>20. \A i \in 1..last : f[i] = Shifted(m, f[i - 1], nth(i))
  <2> HIDE DEF nth
  <2> TAKE i \in 1..last
  <2>1. i \in Nat
    BY <1>12
  <2> QED
    BY <1>5, <1>19, <2>1
<1> HIDE DEF nth
<1>21. f = [i \in 0..last |-> IF i = 0 THEN init
                              ELSE Shifted(m, f[i - 1], nth(i))]
  <2>1. \A i \in 0..last : f[i] = IF i = 0 THEN init
                                  ELSE Shifted(m, f[i - 1], nth(i))
    BY <1>12, <1>19, <1>20
  <2>2. f = [i \in 0..last |-> f[i]]
    BY <1>19
  <2>3. [i \in 0..last |-> f[i]] =
          [i \in 0..last |-> IF i = 0 THEN init
                             ELSE Shifted(m, f[i - 1], nth(i))]
    BY <2>1
  <2> QED
    BY <2>2, <2>3, Zenon
<1>22. shift = [i \in 0..last |-> IF i = 0 THEN init
                                  ELSE Shifted(m, shift[i - 1], nth(i))]
  BY <1>21 DEF shift
<1>23. shift = f
  <2>1. shift[0] = f[0]
    BY <1>12, <1>19, <1>22
  <2>2. \A i \in 1..last : shift[i - 1] = f[i - 1] => shift[i] = f[i]
    BY <1>12, <1>20, <1>22
  <2>3. shift = [i \in 0..last |-> shift[i]]
    BY <1>22
  <2>4. f = [i \in 0..last |-> f[i]]
    BY <1>19
  <2> DEFINE P == {i \in 0..last : shift[i] = f[i]}
  <2>5. 0 \in P /\ \A i \in 1..last : i - 1 \in P => i \in P
    BY <1>12, <2>1, <2>2
  <2>6. 0..last \subseteq P
    <3> HIDE DEF P
    <3> QED
      BY <1>12, <2>5, UpTo
  <2>7. [i \in 0..last |-> shift[i]] = [i \in 0..last |-> f[i]]
    BY <2>6
  <2> QED
    BY <2>3, <2>4, <2>7, Zenon
<1>24. hashmap_entry_remove(m, r) = Emptied(m, f[last].table, f[last].hole)
  BY <1>4, <1>23
<1> QED
  BY <1>12, <1>13, <1>14, <1>15, <1>18, <1>24

(* IndexLE tells whether b is half the table or more behind a.             *)
LEMMA IndexLEIs ==
  ASSUME NEW n \in Sizes, NEW m \in Maps(n),
         NEW a \in 0..(n - 1), NEW b \in 0..(n - 1)
  PROVE  IndexLE(m, a, b) <=> a = b \/ 2 * Dist(a, b, n) >= n
<1>1. n \in Nat \ {0}
  BY SizesAre
<1>2. PICK h \in Nat \ {0} : n = 2 * h
  BY SizesAre
<1>3. Size(m) = n /\ n \div 2 = h
  BY <1>1, <1>2, SizeIs, HalfIs
<1>4. CASE a # b
  <2>1. (b + n - a) % n = Dist(a, b, n)
    BY <1>1, <1>4, BehindIs
  <2>2. Dist(a, b, n) \in Nat
    BY <1>1 DEF Dist
  <2>3. IndexLE(m, a, b) <=> Dist(a, b, n) >= h
    BY <1>3, <1>4, <2>1 DEF IndexLE, SizeMod
  <2> QED
    BY <1>2, <1>4, <2>2, <2>3
<1> QED
  BY <1>4 DEF IndexLE

(* On the circle: the entry at c goes to the hole g only if its home is    *)
(* not behind g.                                                           *)
LEMMA MovedIsNearer ==
  ASSUME NEW n \in Nat \ {0}, NEW r \in 0..(n - 1), NEW g \in 0..(n - 1),
         NEW c \in 0..(n - 1), NEW hm \in 0..(n - 1),
         Dist(r, g, n) < Dist(r, c, n), 2 * Dist(r, c, n) < n,
         2 * Dist(hm, c, n) < n, g = hm \/ 2 * Dist(g, hm, n) >= n
  PROVE  Dist(hm, g, n) < Dist(hm, c, n)
BY DEF Dist

(* Where an entry is to the hole and to its home, around the circle.       *)
LEMMA OthersAreBefore ==
  ASSUME NEW n \in Nat \ {0}, NEW r \in 0..(n - 1), NEW s \in 0..(n - 1),
         NEW c \in 0..(n - 1), NEW hm \in 0..(n - 1),
         Dist(r, s, n) < Dist(r, c, n), 2 * Dist(r, c, n) < n,
         2 * Dist(hm, s, n) < n
  PROVE  Dist(hm, c, n) > Dist(hm, s, n)
BY DEF Dist

LEMMA StayedIsBehind ==
  ASSUME NEW n \in Nat \ {0}, NEW g \in 0..(n - 1),
         NEW c \in 0..(n - 1), NEW hm \in 0..(n - 1),
         2 * Dist(hm, c, n) < n, g # hm, 2 * Dist(g, hm, n) < n
  PROVE  Dist(hm, g, n) > Dist(hm, c, n)
BY DEF Dist

LEMMA EndIsBetween ==
  ASSUME NEW n \in Nat \ {0}, NEW r \in 0..(n - 1), NEW g \in 0..(n - 1),
         NEW e \in 0..(n - 1), NEW s \in 0..(n - 1), NEW hm \in 0..(n - 1),
         Dist(r, g, n) < Dist(r, e, n), Dist(r, e, n) <= Dist(r, s, n),
         Dist(hm, g, n) <= Dist(hm, s, n)
  PROVE  Dist(hm, e, n) <= Dist(hm, s, n)
BY DEF Dist

(* The loop's invariant after i slots.                                     *)
HoleIsNear(n, r, i, g) == g \in 0..(n - 1) /\ Dist(r, g, n) <= i

RestIsThere(T0, T, n, r, i) ==
  \A s \in 0..(n - 1) : Dist(r, s, n) > i => T[s] = T0[s]

SameAreTaken(T0, T, n, g) ==
  /\ T0[g].key # NULL
  /\ \A s \in (0..(n - 1)) \ {g} : T[s].key # NULL <=> T0[s].key # NULL

SameEntries(T0, T, n, r, g) ==
  /\ \A s \in (0..(n - 1)) \ {g} :
       T[s].key # NULL => \E u \in (0..(n - 1)) \ {r} : T[s] = T0[u]
  /\ \A u \in (0..(n - 1)) \ {r} :
       T0[u].key # NULL
         => \E s \in (0..(n - 1)) \ {g} :
              T[s] = T0[u] /\ Dist(r, s, n) <= Dist(r, u, n)

OnceBut(T, n, g) ==
  \A s \in (0..(n - 1)) \ {g} : \A t \in (0..(n - 1)) \ {g} :
    T[s].key # NULL /\ T[s].key = T[t].key => s = t

(* The way of an entry from its home, with no free slot and no hole.       *)
WayIsFree(T0, n, r, i, g, hm, s) ==
  /\ Reached(T0, n, hm, s)
  /\ Dist(r, s, n) <= i => Dist(hm, g, n) > Dist(hm, s, n)

WaysAreFree(T0, T, n, r, i, g, hash) ==
  \A s \in (0..(n - 1)) \ {g} :
    T[s].key # NULL => WayIsFree(T0, n, r, i, g, hash[T[s].key] % n, s)

LoopInv(m, n, r, i, x) ==
  /\ x \in Holes(n)
  /\ HoleIsNear(n, r, i, x.hole)
  /\ RestIsThere(m.table, x.table, n, r, i)
  /\ SameAreTaken(m.table, x.table, n, x.hole)
  /\ SameEntries(m.table, x.table, n, r, x.hole)
  /\ OnceBut(x.table, n, x.hole)
  /\ WaysAreFree(m.table, x.table, n, r, i, x.hole, m.hash)

(* The invariant holds before the loop.                                    *)
LEMMA LoopInvInit ==
  ASSUME NEW n \in Sizes, NEW m \in Maps(n), Good(m, n),
         NEW r \in 0..(n - 1), m.table[r].key # NULL
  PROVE  LoopInv(m, n, r, 0, [table |-> m.table, hole |-> r])
<1>1. n \in Nat \ {0}
  BY SizesAre
<1> DEFINE x == [table |-> m.table, hole |-> r]
<1>2. x \in Holes(n) /\ x.table = m.table /\ x.hole = r
  BY DEF Holes, Maps
<1> HIDE DEF x
<1>3. HoleIsNear(n, r, 0, r)
  BY <1>1 DEF HoleIsNear, Dist
<1>4. /\ RestIsThere(m.table, m.table, n, r, 0)
      /\ SameAreTaken(m.table, m.table, n, r)
      /\ SameEntries(m.table, m.table, n, r, r)
  <2>1. \A u \in 0..(n - 1) : Dist(r, u, n) <= Dist(r, u, n)
    BY <1>1 DEF Dist
  <2> QED
    BY <2>1 DEF RestIsThere, SameAreTaken, SameEntries
<1>5. OnceBut(m.table, n, r)
  BY DEF OnceBut, Good, OnceEach
<1>6. WaysAreFree(m.table, m.table, n, r, 0, r, m.hash)
  <2>1. ASSUME NEW s \in (0..(n - 1)) \ {r} PROVE ~(Dist(r, s, n) <= 0)
    BY <1>1 DEF Dist
  <2> QED
    BY <2>1 DEF WaysAreFree, WayIsFree, Good, Chained
<1> QED
  BY <1>2, <1>3, <1>4, <1>5, <1>6 DEF LoopInv, x

(* A step that moves an entry to the hole keeps it.                        *)
LEMMA LoopInvMoves ==
  ASSUME NEW n \in Sizes, NEW m \in Maps(n), NEW r \in 0..(n - 1),
         NEW i \in Nat \ {0}, 2 * i < n, NEW c \in 0..(n - 1),
         Dist(r, c, n) = i, m.table[c].key # NULL,
         NEW x, LoopInv(m, n, r, i - 1, x),
         IndexLE(m, x.hole, HomeOf(m, n, x.table[c].key))
  PROVE  LoopInv(m, n, r, i,
           [table |-> [x.table EXCEPT ![x.hole] = x.table[c]], hole |-> c])
<1> DEFINE T0 == m.table
           T  == x.table
           g  == x.hole
           T2 == [T EXCEPT ![g] = T[c]]
           y  == [table |-> T2, hole |-> c]
<1>1. n \in Nat \ {0}
  BY SizesAre
<1>2. /\ T \in Tables(n) /\ g \in 0..(n - 1) /\ Dist(r, g, n) <= i - 1
      /\ RestIsThere(T0, T, n, r, i - 1)
      /\ SameAreTaken(T0, T, n, g)
      /\ SameEntries(T0, T, n, r, g)
      /\ OnceBut(T, n, g)
      /\ WaysAreFree(T0, T, n, r, i - 1, g, m.hash)
  BY DEF LoopInv, HoleIsNear, Holes
<1>3. T[c] = T0[c]
  <2> HIDE DEF T0, T, g
  <2> QED
    BY <1>2 DEF RestIsThere
<1>4. c # g
  <2> HIDE DEF T0, T, g
  <2> QED
    BY <1>1, <1>2
<1>5. T[c] \in Entries /\ T[c].key # NULL
  <2> HIDE DEF T0, T, g
  <2>1. T[c] \in Entries
    BY <1>2 DEF Tables
  <2> QED
    BY <1>3, <2>1 DEF T0
<1>6. T[c].key \in Keys
  BY <1>1, <1>3, <1>5, EntryIs
<1> DEFINE hm == HomeOf(m, n, T[c].key)
<1>7. hm \in 0..(n - 1)
  <2> HIDE DEF T
  <2> QED
    BY <1>1, <1>6, HomeIsSlot
<1>8. g = hm \/ 2 * Dist(g, hm, n) >= n
  <2>1. IndexLE(m, g, hm)
    OBVIOUS
  <2> HIDE DEF g, hm
  <2> QED
    BY <1>2, <1>7, <2>1, IndexLEIs
<1>9. hm = m.hash[T[c].key] % n
  BY DEF HomeOf
<1>10. T2 \in Tables(n) /\ T2[g] = T[c] /\ \A s \in (0..(n - 1)) \ {g} : T2[s] = T[s]
  <2> HIDE DEF T, g
  <2> QED
    BY <1>2, <1>5 DEF Tables
<1> HIDE DEF T0, T, g, T2, hm
<1>11. y \in Holes(n)
  BY <1>10 DEF Holes
<1>12. HoleIsNear(n, r, i, c)
  BY DEF HoleIsNear
<1>13. RestIsThere(T0, T2, n, r, i)
  <2> SUFFICES ASSUME NEW s \in 0..(n - 1), Dist(r, s, n) > i
               PROVE  T2[s] = T0[s]
    BY DEF RestIsThere
  <2>1. Dist(r, s, n) > i - 1 /\ s # g
    BY <1>1, <1>2 DEF Dist
  <2> QED
    BY <1>2, <1>10, <2>1 DEF RestIsThere
<1>14. SameAreTaken(T0, T2, n, c)
  BY <1>2, <1>3, <1>5, <1>10 DEF SameAreTaken
<1>15. SameEntries(T0, T2, n, r, c)
  <2>1. ASSUME NEW s \in (0..(n - 1)) \ {c}, T2[s].key # NULL
        PROVE  \E u \in (0..(n - 1)) \ {r} : T2[s] = T0[u]
    <3>1. c # r
      BY <1>1 DEF Dist
    <3>2. CASE s = g
      BY <1>3, <1>10, <3>1, <3>2
    <3>3. CASE s # g
      BY <1>2, <1>10, <2>1, <3>3 DEF SameEntries
    <3> QED
      BY <3>2, <3>3
  <2>2. ASSUME NEW u \in (0..(n - 1)) \ {r}, T0[u].key # NULL
        PROVE  \E s \in (0..(n - 1)) \ {c} :
                 T2[s] = T0[u] /\ Dist(r, s, n) <= Dist(r, u, n)
    <3>1. PICK s \in (0..(n - 1)) \ {g} :
            T[s] = T0[u] /\ Dist(r, s, n) <= Dist(r, u, n)
      BY <1>2, <2>2 DEF SameEntries
    <3>2. CASE s = c
      <4>1. Dist(r, g, n) <= Dist(r, u, n)
        BY <1>1, <1>2, <3>1, <3>2 DEF Dist
      <4> QED
        BY <1>2, <1>4, <1>10, <3>1, <3>2, <4>1
    <3>3. CASE s # c
      BY <1>10, <3>1, <3>3
    <3> QED
      BY <3>2, <3>3
  <2> QED
    BY <2>1, <2>2 DEF SameEntries
<1>16. OnceBut(T2, n, c)
  <2> SUFFICES ASSUME NEW s \in (0..(n - 1)) \ {c}, NEW t \in (0..(n - 1)) \ {c},
                      T2[s].key # NULL, T2[s].key = T2[t].key
               PROVE  s = t
    BY DEF OnceBut
  <2>1. CASE s = g /\ t = g
    BY <2>1
  <2>2. CASE s = g /\ t # g
    <3>1. T[c].key = T[t].key
      BY <1>10, <2>2
    <3>2. c = t
      BY <1>2, <1>4, <1>5, <2>2, <3>1 DEF OnceBut
    <3> QED
      BY <3>2
  <2>3. CASE s # g /\ t = g
    <3>1. T[s].key = T[c].key /\ T[s].key # NULL
      BY <1>10, <2>3
    <3>2. s = c
      BY <1>2, <1>4, <2>3, <3>1 DEF OnceBut
    <3> QED
      BY <3>2
  <2>4. CASE s # g /\ t # g
    BY <1>2, <1>10, <2>4 DEF OnceBut
  <2> QED
    BY <2>1, <2>2, <2>3, <2>4
<1>17. WaysAreFree(T0, T2, n, r, i, c, m.hash)
  <2> SUFFICES ASSUME NEW s \in (0..(n - 1)) \ {c}, T2[s].key # NULL
               PROVE  WayIsFree(T0, n, r, i, c, m.hash[T2[s].key] % n, s)
    BY DEF WaysAreFree
  <2>1. CASE s = g
    <3>1. Reached(T0, n, hm, c)
      BY <1>2, <1>4, <1>5, <1>9 DEF WaysAreFree, WayIsFree
    <3>2. Dist(hm, g, n) < Dist(hm, c, n)
      <4>1. 2 * Dist(hm, c, n) < n
        BY <3>1 DEF Reached
      <4>2. Dist(r, g, n) < Dist(r, c, n)
        BY <1>1, <1>2 DEF Dist
      <4> QED
        BY <1>1, <1>2, <1>7, <1>8, <4>1, <4>2, MovedIsNearer
    <3>3. Reached(T0, n, hm, g)
      <4>1. 2 * Dist(hm, g, n) < n
        BY <1>1, <1>2, <1>7, <3>1, <3>2 DEF Reached, Dist
      <4>2. \A t \in 0..(n - 1) : Dist(hm, t, n) <= Dist(hm, g, n)
              => Dist(hm, t, n) <= Dist(hm, c, n)
        BY <1>1, <1>2, <1>7, <3>2 DEF Dist
      <4> QED
        BY <3>1, <4>1, <4>2 DEF Reached
    <3>4. m.hash[T2[s].key] % n = hm
      BY <1>9, <1>10, <2>1
    <3> QED
      BY <2>1, <3>2, <3>3, <3>4 DEF WayIsFree
  <2>2. CASE s # g
    <3> DEFINE hs == m.hash[T[s].key] % n
    <3>1. T2[s] = T[s] /\ T[s].key # NULL
      BY <1>10, <2>2
    <3>2. Reached(T0, n, hs, s)
      BY <1>2, <2>2, <3>1 DEF WaysAreFree, WayIsFree
    <3>3. hs \in 0..(n - 1)
      <4>1. T[s] \in Entries
        BY <1>2 DEF Tables
      <4>2. T[s].key \in Keys
        BY <3>1, <4>1 DEF Entries, Empty
      <4>3. m.hash[T[s].key] \in Nat
        BY <4>2, UseAssumption DEF Maps
      <4> QED
        BY <1>1, <4>3
    <3> HIDE DEF hs
    <3>4. Dist(r, s, n) <= i => Dist(hs, c, n) > Dist(hs, s, n)
      <4> SUFFICES ASSUME Dist(r, s, n) <= i
                   PROVE  Dist(hs, c, n) > Dist(hs, s, n)
        OBVIOUS
      <4>1. Dist(r, s, n) < Dist(r, c, n)
        BY <1>1 DEF Dist
      <4>2. 2 * Dist(hs, s, n) < n /\ 2 * Dist(r, c, n) < n
        BY <3>2 DEF Reached
      <4> QED
        BY <1>1, <3>3, <4>1, <4>2, OthersAreBefore
    <3> QED
      BY <3>1, <3>2, <3>4 DEF WayIsFree, hs
  <2> QED
    BY <2>1, <2>2
<1>18. y.table = T2 /\ y.hole = c
  OBVIOUS
<1>19. LoopInv(m, n, r, i, y)
  <2> HIDE DEF y
  <2> QED
    BY <1>11, <1>12, <1>13, <1>14, <1>15, <1>16, <1>17, <1>18 DEF LoopInv, T0
<1> QED
  BY <1>19 DEF T2, T, g

(* So does one that leaves an entry where it is.                           *)
LEMMA LoopInvStays ==
  ASSUME NEW n \in Sizes, NEW m \in Maps(n), NEW r \in 0..(n - 1),
         NEW i \in Nat \ {0}, 2 * i < n, NEW c \in 0..(n - 1),
         Dist(r, c, n) = i, m.table[c].key # NULL,
         NEW x, LoopInv(m, n, r, i - 1, x),
         ~IndexLE(m, x.hole, HomeOf(m, n, x.table[c].key))
  PROVE  LoopInv(m, n, r, i, x)
<1> DEFINE T0 == m.table
           T  == x.table
           g  == x.hole
<1>1. n \in Nat \ {0}
  BY SizesAre
<1>2. /\ T \in Tables(n) /\ g \in 0..(n - 1) /\ Dist(r, g, n) <= i - 1
      /\ RestIsThere(T0, T, n, r, i - 1)
      /\ SameAreTaken(T0, T, n, g)
      /\ SameEntries(T0, T, n, r, g)
      /\ OnceBut(T, n, g)
      /\ WaysAreFree(T0, T, n, r, i - 1, g, m.hash)
  BY DEF LoopInv, HoleIsNear, Holes
<1>3. T[c] = T0[c]
  <2> HIDE DEF T0, T, g
  <2> QED
    BY <1>2 DEF RestIsThere
<1>4. c # g
  <2> HIDE DEF T0, T, g
  <2> QED
    BY <1>1, <1>2
<1>5. T[c].key \in Keys
  BY <1>1, <1>3, EntryIs
<1> DEFINE hm == HomeOf(m, n, T[c].key)
<1>6. hm \in 0..(n - 1)
  <2> HIDE DEF T
  <2> QED
    BY <1>1, <1>5, HomeIsSlot
<1>7. g # hm /\ 2 * Dist(g, hm, n) < n
  <2>1. ~IndexLE(m, g, hm)
    OBVIOUS
  <2> HIDE DEF g, hm
  <2>2. Dist(g, hm, n) \in Nat
    BY <1>1, <1>2, <1>6 DEF Dist
  <2> QED
    BY <1>1, <1>2, <1>6, <2>1, <2>2, IndexLEIs
<1>8. hm = m.hash[T[c].key] % n
  BY DEF HomeOf
<1> HIDE DEF T0, T, g, hm
<1>9. HoleIsNear(n, r, i, g)
  BY <1>1, <1>2 DEF HoleIsNear, Dist
<1>10. RestIsThere(T0, T, n, r, i)
  <2>1. \A s \in 0..(n - 1) : Dist(r, s, n) > i => Dist(r, s, n) > i - 1
    BY <1>1 DEF Dist
  <2> QED
    BY <1>2, <2>1 DEF RestIsThere
<1>11. WaysAreFree(T0, T, n, r, i, g, m.hash)
  <2> SUFFICES ASSUME NEW s \in (0..(n - 1)) \ {g}, T[s].key # NULL
               PROVE  WayIsFree(T0, n, r, i, g, m.hash[T[s].key] % n, s)
    BY DEF WaysAreFree
  <2>1. WayIsFree(T0, n, r, i - 1, g, m.hash[T[s].key] % n, s)
    BY <1>2 DEF WaysAreFree
  <2>2. CASE s = c
    <3>1. 2 * Dist(hm, c, n) < n
      BY <1>8, <2>1, <2>2 DEF WayIsFree, Reached
    <3>2. Dist(hm, g, n) > Dist(hm, c, n)
      BY <1>1, <1>2, <1>6, <1>7, <3>1, StayedIsBehind
    <3> QED
      BY <1>8, <2>1, <2>2, <3>2 DEF WayIsFree
  <2>3. CASE s # c
    <3>1. Dist(r, s, n) <= i => Dist(r, s, n) <= i - 1
      BY <1>1, <2>3 DEF Dist
    <3> QED
      BY <2>1, <3>1 DEF WayIsFree
  <2> QED
    BY <2>2, <2>3
<1> QED
  BY <1>2, <1>9, <1>10, <1>11 DEF LoopInv, T0, T, g

LEMMA LoopInvStep ==
  ASSUME NEW n \in Sizes, NEW m \in Maps(n), NEW r \in 0..(n - 1),
         NEW i \in Nat \ {0}, 2 * i < n, NEW c \in 0..(n - 1),
         Dist(r, c, n) = i, m.table[c].key # NULL,
         NEW x, LoopInv(m, n, r, i - 1, x)
  PROVE  LoopInv(m, n, r, i, Shifted(m, x, c))
<1>1. n \in Nat \ {0}
  BY SizesAre
<1>2. Home(m, x.table[c].key) = HomeOf(m, n, x.table[c].key)
  BY <1>1, SizeIs DEF Home, SizeMod, HomeOf
<1>3. CASE IndexLE(m, x.hole, HomeOf(m, n, x.table[c].key))
  <2>1. Shifted(m, x, c) =
          [table |-> [x.table EXCEPT ![x.hole] = x.table[c]], hole |-> c]
    BY <1>2, <1>3 DEF Shifted
  <2> QED
    BY <1>3, <2>1, LoopInvMoves
<1>4. CASE ~IndexLE(m, x.hole, HomeOf(m, n, x.table[c].key))
  <2>1. Shifted(m, x, c) = x
    BY <1>2, <1>4 DEF Shifted
  <2> QED
    BY <1>4, <2>1, LoopInvStays
<1> QED
  BY <1>3, <1>4

(* It holds when the loop has come to the end of the chain.                *)
LEMMA LoopEnds ==
  ASSUME NEW n \in Sizes, NEW m \in Maps(n), Good(m, n),
         NEW r \in 0..(n - 1), m.table[r].key # NULL,
         NEW last \in Nat, 2 * last < n, NEW f, IsLoop(m, n, r, last, f),
         \A i \in 0..last : m.table[(r + i) % n].key # NULL
  PROVE  LoopInv(m, n, r, last, f[last])
<1>1. n \in Nat \ {0}
  BY SizesAre
<1> DEFINE P == {i \in 0..last : LoopInv(m, n, r, i, f[i])}
<1>2. 0 \in P
  BY LoopInvInit DEF IsLoop
<1>3. ASSUME NEW i \in 1..last, i - 1 \in P PROVE i \in P
  <2> DEFINE c == (r + i) % n
  <2>1. i \in Nat \ {0} /\ 2 * i < n /\ i \in 0..(n - 1) /\ i \in 0..last
    BY <1>1
  <2>2. c \in 0..(n - 1) /\ Dist(r, c, n) = i
    BY <1>1, <2>1, AtIs
  <2>3. m.table[c].key # NULL
    BY <2>1
  <2>4. f[i] = Shifted(m, f[i - 1], c)
    BY DEF IsLoop
  <2>5. LoopInv(m, n, r, i - 1, f[i - 1])
    BY <1>3
  <2> HIDE DEF c
  <2>6. LoopInv(m, n, r, i, Shifted(m, f[i - 1], c))
    BY <2>1, <2>2, <2>3, <2>5, LoopInvStep
  <2> QED
    BY <2>1, <2>4, <2>6
<1>4. 0..last \subseteq P
  <2> HIDE DEF P
  <2> QED
    BY <1>2, <1>3, UpTo
<1>5. last \in 0..last
  OBVIOUS
<1> QED
  BY <1>4, <1>5

(* At the end the hole is emptied and the entry not counted any more.      *)
LEMMA EmptiedIs ==
  ASSUME NEW n \in Nat \ {0}, NEW m \in Maps(n), m.num_entries # 0,
         NEW T \in Tables(n), NEW g \in 0..(n - 1)
  PROVE  /\ Emptied(m, T, g) \in Maps(n)
         /\ Emptied(m, T, g).hash = m.hash
         /\ Emptied(m, T, g).num_entries = m.num_entries - 1
         /\ Emptied(m, T, g).table_size_init = m.table_size_init
         /\ \A s \in 0..(n - 1) : Emptied(m, T, g).table[s] =
              IF s = g THEN Empty ELSE T[s]
<1> DEFINE T2 == [T EXCEPT ![g] = Empty]
           c2 == m.num_entries - 1
           m2 == [m EXCEPT !.num_entries = c2, !.table = T2]
<1>1. c2 \in Nat
  BY DEF Maps
<1>2. T2 \in Tables(n) /\ \A s \in 0..(n - 1) : T2[s] = IF s = g THEN Empty ELSE T[s]
  BY DEF Tables, Entries
<1>3. Emptied(m, T, g) = m2
  BY DEF Emptied, Maps
<1> HIDE DEF T2, c2
<1>4. /\ m2.hash = m.hash /\ m2.num_entries = c2 /\ m2.table = T2
      /\ m2.table_size_init = m.table_size_init
  BY DEF Maps
<1>5. m2 \in Maps(n)
  BY <1>1, <1>2 DEF Maps
<1> QED
  BY <1>2, <1>3, <1>4, <1>5 DEF c2

(* A removal takes out the entry, and brings none forward past the hole.   *)
LEMMA RemovedIs ==
  ASSUME NEW n \in Sizes, Roomy(n), NEW m \in Maps(n), MapOk(m, n),
         NEW r \in 0..(n - 1), m.table[r].key # NULL
  PROVE  LET w == hashmap_entry_remove(m, r)
             k == m.table[r].key
         IN  /\ w \in Maps(n) /\ MapOk(w, n)
             /\ k \in Keys /\ Dict(m)[k] # NULL
             /\ Dict(w) = [Dict(m) EXCEPT ![k] = NULL]
             /\ \A u \in (0..(n - 1)) \ {r} : m.table[u].key # NULL
                  => \E s \in 0..(n - 1) :
                       /\ w.table[s].key = m.table[u].key
                       /\ Dist(r, s, n) <= Dist(r, u, n)
<1>1. n \in Nat \ {0} /\ Good(m, n)
  BY SizesAre DEF MapOk
<1>2. PICK last \in Nat : \E f :
           /\ IsLoop(m, n, r, last, f)
           /\ 2 * last < n
           /\ \A i \in 0..last : m.table[(r + i) % n].key # NULL
           /\ m.table[(r + (last + 1)) % n].key = NULL
           /\ hashmap_entry_remove(m, r) =
                Emptied(m, f[last].table, f[last].hole)
  BY <1>1, RemoveIsLoop
<1>3. PICK f :
           /\ IsLoop(m, n, r, last, f)
           /\ 2 * last < n
           /\ \A i \in 0..last : m.table[(r + i) % n].key # NULL
           /\ m.table[(r + (last + 1)) % n].key = NULL
           /\ hashmap_entry_remove(m, r) =
                Emptied(m, f[last].table, f[last].hole)
  BY <1>2
<1> DEFINE T0 == m.table
           T  == f[last].table
           g  == f[last].hole
           k  == m.table[r].key
           w  == hashmap_entry_remove(m, r)
           K  == KeysIn(T0, n)
<1>4. /\ T \in Tables(n) /\ HoleIsNear(n, r, last, g)
      /\ SameAreTaken(T0, T, n, g)
      /\ SameEntries(T0, T, n, r, g)
      /\ OnceBut(T, n, g)
      /\ WaysAreFree(T0, T, n, r, last, g, m.hash)
  <2>1. LoopInv(m, n, r, last, f[last])
    BY <1>1, <1>3, LoopEnds
  <2> QED
    BY <2>1 DEF LoopInv, Holes
<1>5. g \in 0..(n - 1) /\ Dist(r, g, n) <= last
  BY <1>4 DEF HoleIsNear
<1>6. k \in Keys /\ k \in K
  <2>1. k \in Keys
    BY <1>1, EntryIs
  <2> QED
    BY <2>1 DEF KeysIn
<1>7. IsFiniteSet(K) /\ m.num_entries = Cardinality(K) /\ m.num_entries \in Nat
  <2>1. K \in SUBSET Keys
    BY DEF KeysIn
  <2> QED
    BY <2>1, UseAssumption, FS_Subset, FS_CardinalityType DEF MapOk
<1> HIDE DEF K
<1>8. m.num_entries # 0
  BY <1>6, <1>7, FS_EmptySet
<1> HIDE DEF T, g
<1>9. w = Emptied(m, T, g)
  BY <1>3 DEF T, g
<1> HIDE DEF w, T0, k
<1>10. /\ w \in Maps(n) /\ w.hash = m.hash
       /\ w.num_entries = m.num_entries - 1
       /\ w.table_size_init = m.table_size_init
       /\ \A s \in 0..(n - 1) : w.table[s] = IF s = g THEN Empty ELSE T[s]
  BY <1>1, <1>4, <1>5, <1>8, <1>9, EmptiedIs
<1>11. /\ w.table[g].key = NULL
       /\ \A s \in (0..(n - 1)) \ {g} : w.table[s] = T[s]
  BY <1>5, <1>10 DEF Empty
<1>12. OnceEach(w.table, n)
  BY <1>4, <1>11 DEF OnceEach, OnceBut
<1>13. Chained(w.table, n, w.hash)
  <2> SUFFICES ASSUME NEW s \in 0..(n - 1), w.table[s].key # NULL
               PROVE  Reached(w.table, n, w.hash[w.table[s].key] % n, s)
    BY DEF Chained
  <2> DEFINE hs == m.hash[T[s].key] % n
  <2>1. s # g /\ w.table[s] = T[s]
    BY <1>11
  <2>2. WayIsFree(T0, n, r, last, g, hs, s)
    BY <1>4, <2>1 DEF WaysAreFree
  <2>3. hs \in 0..(n - 1)
    <3>1. T[s] \in Entries
      BY <1>4 DEF Tables
    <3>2. T[s].key \in Keys
      BY <2>1, <3>1 DEF Entries, Empty
    <3>3. m.hash[T[s].key] \in Nat
      BY <3>2, UseAssumption DEF Maps
    <3> QED
      BY <1>1, <3>3
  <2>4. hs = w.hash[w.table[s].key] % n
    BY <1>10, <2>1
  <2> HIDE DEF hs
  <2>5. ~(Dist(hs, g, n) <= Dist(hs, s, n))
    <3>1. CASE Dist(r, s, n) <= last
      BY <1>1, <1>5, <2>2, <2>3, <3>1 DEF WayIsFree, Dist
    <3>2. CASE Dist(r, s, n) > last
      <4> DEFINE e == (r + (last + 1)) % n
      <4>1. e \in 0..(n - 1) /\ Dist(r, e, n) = last + 1
        <5>1. last + 1 \in 0..(n - 1)
          BY <1>1, <1>3
        <5> QED
          BY <1>1, <5>1, AtIs
      <4>2. T0[e].key = NULL
        BY <1>3 DEF T0
      <4> HIDE DEF e
      <4>3. ~(Dist(hs, e, n) <= Dist(hs, s, n))
        BY <2>2, <4>1, <4>2 DEF WayIsFree, Reached
      <4>4. Dist(r, g, n) < Dist(r, e, n) /\ Dist(r, e, n) <= Dist(r, s, n)
        BY <1>1, <1>5, <3>2, <4>1 DEF Dist
      <4> QED
        BY <1>1, <1>5, <2>3, <4>1, <4>3, <4>4, EndIsBetween
    <3> QED
      BY <1>1, <3>1, <3>2 DEF Dist
  <2>6. ASSUME NEW t \in 0..(n - 1), Dist(hs, t, n) <= Dist(hs, s, n)
        PROVE  w.table[t].key # NULL
    <3>1. t # g
      BY <2>5, <2>6
    <3>2. T0[t].key # NULL
      BY <2>2, <2>6 DEF WayIsFree, Reached
    <3> QED
      BY <1>4, <1>11, <3>1, <3>2 DEF SameAreTaken
  <2> QED
    BY <2>2, <2>4, <2>6 DEF WayIsFree, Reached
<1>14. Good(w, n)
  BY <1>12, <1>13 DEF Good
<1>15. \A u \in (0..(n - 1)) \ {r} : T0[u].key # k
  BY <1>1 DEF Good, OnceEach, T0, k
<1>16. k \notin KeysIn(w.table, n)
  <2> SUFFICES ASSUME NEW s \in 0..(n - 1), w.table[s].key = k
               PROVE  FALSE
    BY DEF KeysIn
  <2>1. k # NULL
    BY DEF k
  <2>2. s # g /\ T[s].key = k
    BY <1>11, <2>1
  <2> QED
    BY <1>4, <1>15, <2>1, <2>2 DEF SameEntries
<1>17. ASSUME NEW y \in Keys \ {k}
       PROVE  /\ y \in KeysIn(w.table, n) <=> y \in K
              /\ hashmap_get(w, y) = hashmap_get(m, y)
  <2>0. y # NULL
    BY UseAssumption
  <2>1. CASE y \in K
    <3>1. PICK u \in 0..(n - 1) : T0[u].key = y
      BY <2>1 DEF K, KeysIn
    <3>2. u # r
      BY <3>1 DEF T0, k
    <3>3. PICK s \in (0..(n - 1)) \ {g} : T[s] = T0[u]
      BY <1>4, <2>0, <3>1, <3>2 DEF SameEntries
    <3>4. w.table[s] = T0[u]
      BY <1>11, <3>3
    <3>5. y \in KeysIn(w.table, n)
      BY <3>1, <3>4 DEF KeysIn
    <3>6. hashmap_get(m, y) = T0[u].data
      BY <1>1, <3>1, GetIs DEF T0
    <3>7. hashmap_get(w, y) = w.table[s].data
      BY <1>10, <1>14, <3>1, <3>4, GetIs
    <3> QED
      BY <2>1, <3>4, <3>5, <3>6, <3>7
  <2>2. CASE y \notin K
    <3>1. y \notin KeysIn(w.table, n)
      <4> SUFFICES ASSUME NEW s \in 0..(n - 1), w.table[s].key = y
                   PROVE  FALSE
        BY DEF KeysIn
      <4>1. s # g /\ T[s].key = y
        BY <1>11, <2>0
      <4>2. PICK u \in (0..(n - 1)) \ {r} : T[s] = T0[u]
        BY <1>4, <2>0, <4>1 DEF SameEntries
      <4> QED
        BY <2>2, <4>1, <4>2 DEF K, KeysIn
    <3>2. hashmap_get(w, y) = NULL
      BY <1>10, <1>14, <3>1, GetIs
    <3>3. hashmap_get(m, y) = NULL
      BY <1>1, <2>2, GetIs DEF K, T0
    <3> QED
      BY <2>2, <3>1, <3>2, <3>3
  <2> QED
    BY <2>1, <2>2
<1>18. KeysIn(w.table, n) = K \ {k}
  <2>1. KeysIn(w.table, n) \subseteq Keys /\ K \subseteq Keys
    BY DEF KeysIn, K
  <2> QED
    BY <1>16, <1>17, <2>1
<1>19. MapOk(w, n)
  <2>1. Cardinality(K \ {k}) = IF k \in K THEN Cardinality(K) - 1 ELSE Cardinality(K)
    BY <1>7, FS_RemoveElement
  <2> QED
    BY <1>6, <1>7, <1>10, <1>14, <1>18, <2>1 DEF MapOk
<1>20. Dict(m)[k] # NULL
  BY <1>1, <1>6, GetIs, UseAssumption DEF Dict, K, T0
<1>21. Dict(w) = [Dict(m) EXCEPT ![k] = NULL]
  <2>1. /\ Dict(m) \in [Keys -> Data \cup {NULL}]
        /\ Dict(w) \in [Keys -> Data \cup {NULL}]
    BY <1>1, <1>10, <1>14, DictIs
  <2>2. hashmap_get(w, k) = NULL
    BY <1>6, <1>10, <1>14, <1>16, GetIs
  <2>3. ASSUME NEW y \in Keys
        PROVE  Dict(w)[y] = IF y = k THEN NULL ELSE Dict(m)[y]
    BY <1>17, <2>2 DEF Dict
  <2> QED
    BY <2>1, <2>3
<1>22. ASSUME NEW u \in (0..(n - 1)) \ {r}, T0[u].key # NULL
       PROVE  \E s \in 0..(n - 1) :
                w.table[s].key = T0[u].key /\ Dist(r, s, n) <= Dist(r, u, n)
  BY <1>4, <1>11, <1>22 DEF SameEntries
<1> QED
  BY <1>6, <1>10, <1>19, <1>20, <1>21, <1>22 DEF w, k, T0

-----------------------------------------------------------------------------
(* The dictionary: what each call does to it. *)
CountedIn(m) == m.num_entries = Cardinality({k \in Keys : Dict(m)[k] # NULL})

IsChange(m, w) ==
  \/ Dict(w) = Dict(m) /\ w.num_entries = m.num_entries
  \/ /\ CountedIn(w)
     /\ \/ \E k \in Keys : /\ Dict(m)[k] # NULL
                           /\ Dict(w) = [Dict(m) EXCEPT ![k] = NULL]
        \/ \E k \in Keys, d \in Data : /\ Dict(m)[k] = NULL
                                       /\ Dict(w) = [Dict(m) EXCEPT ![k] = d]
        \/ Dict(w) = [k \in Keys |-> NULL]

LEMMA CountedIs ==
  ASSUME NEW n \in Sizes, Roomy(n), NEW m \in Maps(n), MapOk(m, n)
  PROVE  CountedIn(m)
<1>1. {k \in Keys : Dict(m)[k] # NULL} = KeysIn(m.table, n)
  BY DictIs DEF MapOk
<1> QED
  BY <1>1 DEF MapOk, CountedIn

(* Each call is a step of the dictionary or changes nothing.               *)
LEMMA PutIs ==
  ASSUME NEW n \in Sizes, Roomy(n), NEW m \in Maps(n), MapOk(m, n),
         NEW k \in Keys, NEW d \in Data
  PROVE  /\ hashmap_put(m, k, d) \in Maps(n)
         /\ MapOk(hashmap_put(m, k, d), n)
         /\ IsChange(m, hashmap_put(m, k, d))
<1> DEFINE w == hashmap_put(m, k, d)
<1>1. CASE k \in KeysIn(m.table, n)
  <2>1. w = m
    BY <1>1, PutPresent
  <2> QED
    BY <2>1 DEF IsChange
<1>2. CASE k \notin KeysIn(m.table, n)
  <2>1. /\ w \in Maps(n) /\ MapOk(w, n) /\ Dict(m)[k] = NULL
        /\ Dict(w) = [Dict(m) EXCEPT ![k] = d]
    BY <1>2, PutAbsent
  <2> HIDE DEF w
  <2>2. CountedIn(w)
    BY <2>1, CountedIs
  <2> QED
    BY <2>1, <2>2 DEF IsChange, w
<1> QED
  BY <1>1, <1>2

LEMMA EntryRemovedIs ==
  ASSUME NEW n \in Sizes, Roomy(n), NEW m \in Maps(n), MapOk(m, n),
         NEW r \in 0..(n - 1), m.table[r].key # NULL
  PROVE  /\ hashmap_entry_remove(m, r) \in Maps(n)
         /\ MapOk(hashmap_entry_remove(m, r), n)
         /\ IsChange(m, hashmap_entry_remove(m, r))
<1> DEFINE w == hashmap_entry_remove(m, r)
           k == m.table[r].key
<1>1. /\ w \in Maps(n) /\ MapOk(w, n) /\ k \in Keys /\ Dict(m)[k] # NULL
      /\ Dict(w) = [Dict(m) EXCEPT ![k] = NULL]
  BY RemovedIs
<1> HIDE DEF w, k
<1>2. CountedIn(w)
  BY <1>1, CountedIs
<1> QED
  BY <1>1, <1>2 DEF IsChange, w

LEMMA RemoveIs ==
  ASSUME NEW n \in Sizes, Roomy(n), NEW m \in Maps(n), MapOk(m, n),
         NEW k \in Keys
  PROVE  /\ hashmap_remove(m, k) \in Maps(n)
         /\ MapOk(hashmap_remove(m, k), n)
         /\ IsChange(m, hashmap_remove(m, k))
<1>0. k # NULL /\ n \in Nat \ {0} /\ Good(m, n)
  BY UseAssumption, SizesAre DEF MapOk
<1>1. CASE k \in KeysIn(m.table, n)
  <2>1. PICK s \in 0..(n - 1) : m.table[s].key = k
    BY <1>1 DEF KeysIn
  <2>2. Find(m, k) = s
    BY <1>0, <2>1, FindPresent
  <2>3. s # NULL
    BY <1>0, UseAssumption
  <2>4. hashmap_remove(m, k) = hashmap_entry_remove(m, s)
    BY <2>1, <2>2, <2>3 DEF hashmap_remove, Finds
  <2> QED
    BY <1>0, <2>1, <2>4, EntryRemovedIs
<1>2. CASE k \notin KeysIn(m.table, n)
  <2>1. \A s \in 0..(n - 1) : m.table[s].key # k
    BY <1>2 DEF KeysIn
  <2>2. m.table[Find(m, k)].key = NULL
    BY <1>0, <2>1, FindAbsent
  <2>3. hashmap_remove(m, k) = m
    BY <1>0, <2>2 DEF hashmap_remove, Finds
  <2> QED
    BY <2>3 DEF IsChange
<1> QED
  BY <1>1, <1>2

(* A map that was just made, cleared or reset. *)
LEMMA ClearIs ==
  ASSUME NEW n \in Sizes, Roomy(n), NEW m \in Maps(n),
         m.table = Cleared(n), m.num_entries = 0, m.table_size_init = n
  PROVE  MapOk(m, n) /\ Dict(m) = [k \in Keys |-> NULL] /\ CountedIn(m)
<1>1. \A s \in 0..(n - 1) : m.table[s].key = NULL
  BY DEF Cleared, Empty
<1>2. Good(m, n)
  BY <1>1 DEF Good, OnceEach, Chained
<1>3. KeysIn(m.table, n) = {}
  BY <1>1, UseAssumption DEF KeysIn
<1>4. MapOk(m, n)
  BY <1>2, <1>3, FS_EmptySet DEF MapOk
<1>5. \A k \in Keys : hashmap_get(m, k) = NULL
  BY <1>2, <1>3, GetIs
<1> QED
  BY <1>4, <1>5, CountedIs DEF Dict

(* hashmap_clear and hashmap_reset leave no entry.                         *)
LEMMA ClearedIs == ASSUME NEW n \in Sizes PROVE Cleared(n) \in Tables(n)
  BY DEF Cleared, Tables, Entries

LEMMA ClearsAre ==
  ASSUME NEW n \in Sizes, Roomy(n), NEW m \in Maps(n), MapOk(m, n),
         NEW w, w = hashmap_clear(m) \/ w = hashmap_reset(m)
  PROVE  w \in Maps(n) /\ MapOk(w, n) /\ IsChange(m, w)
<1>1. Size(m) = n /\ m.table_size_init = n
  BY SizesAre, SizeIs DEF MapOk
<1> DEFINE C == Cleared(n)
           c == [m EXCEPT !.num_entries = 0, !.table = C]
<1>2. C \in Tables(n)
  BY ClearedIs
<1> HIDE DEF C
<1>3. /\ c \in Maps(n) /\ c.table = C /\ c.num_entries = 0
      /\ c.table_size_init = n /\ [c EXCEPT !.table = C] = c
  BY <1>1, <1>2 DEF Maps
<1>4. hashmap_clear(m) = c
  BY <1>1 DEF hashmap_clear, C
<1>5. hashmap_reset(m) = c
  BY <1>1, <1>3, <1>4 DEF hashmap_reset, C
<1> HIDE DEF c
<1>6. w = c
  BY <1>4, <1>5
<1>7. MapOk(c, n) /\ Dict(c) = [k \in Keys |-> NULL] /\ CountedIn(c)
  BY <1>3, ClearIs DEF C
<1> QED
  BY <1>3, <1>6, <1>7 DEF IsChange

(* The table that hashmap_init makes has one of the sizes.                 *)
LEMMA InitialSize == hashmap_table_size_calc(Initial) \in Sizes
<1> DEFINE S == {by \in Doublings : HASHMAP_SIZE_MIN * by
                                      >= hashmap_table_min_size_calc(Initial)}
<1>1. HASHMAP_SIZE_MIN \in {2, 4, 8, 16, 32, 64, 128, 256}
  BY HashmapAssumption DEF Doublings
<1>2. Initial \in 1..256
  BY UseAssumption
<1>3. hashmap_table_min_size_calc(Initial) <= 512
  BY <1>2 DEF hashmap_table_min_size_calc
<1>4. hashmap_table_min_size_calc(Initial) \in Nat
  BY <1>2 DEF hashmap_table_min_size_calc
<1>5. 256 \in S
  <2>1. HASHMAP_SIZE_MIN * 256 >= 512
    BY <1>1
  <2>2. HASHMAP_SIZE_MIN * 256 \in Nat
    BY <1>1
  <2> QED
    BY <1>3, <1>4, <2>1, <2>2 DEF Doublings
<1>6. S \in SUBSET Nat /\ S \subseteq Doublings
  BY DEF Doublings
<1>7. Min(S) \in S
  <2> HIDE DEF S
  <2> QED
    BY <1>5, <1>6, MinIs
<1>8. hashmap_table_size_calc(Initial) = HASHMAP_SIZE_MIN * Min(S)
  BY DEF hashmap_table_size_calc
<1> HIDE DEF S
<1> QED
  BY <1>6, <1>7, <1>8 DEF Sizes

TableSize == hashmap_table_size_calc(Initial)

-----------------------------------------------------------------------------
(* What a user of maps of one kind needs of them. *)
InOrder == {m \in Maps(TableSize) : MapOk(m, TableSize)}

LEMMA FreshIs ==
  ASSUME Roomy(TableSize), NEW hash \in Hashes
  PROVE  /\ hashmap_init(hash, Initial) \in InOrder
         /\ \A k \in Keys : hashmap_get(hashmap_init(hash, Initial), k) = NULL
<1> DEFINE n == TableSize
           m == hashmap_init(hash, Initial)
<1>1. n \in Sizes /\ n = hashmap_table_size_calc(Initial) /\ Roomy(n)
  BY InitialSize DEF TableSize
<1> HIDE DEF n
<1>2. m = [hash |-> hash, table |-> Cleared(n), num_entries |-> 0,
           table_size_init |-> n]
  BY <1>1 DEF hashmap_init
<1> HIDE DEF m
<1>3. Cleared(n) \in Tables(n)
  BY <1>1, ClearedIs
<1>4. m \in Maps(n)
  BY <1>1, <1>2, <1>3 DEF Maps
<1>5. MapOk(m, n) /\ Dict(m) = [k \in Keys |-> NULL]
  BY <1>1, <1>2, <1>4, ClearIs
<1>6. \A k \in Keys : hashmap_get(m, k) = Dict(m)[k]
  BY DEF Dict
<1> QED
  BY <1>4, <1>5, <1>6 DEF InOrder, n, m

LEMMA GotIs ==
  ASSUME Roomy(TableSize), NEW m \in InOrder, NEW k \in Keys
  PROVE  hashmap_get(m, k) \in Data \cup {NULL}
<1>1. TableSize \in Sizes
  BY InitialSize DEF TableSize
<1> QED
  BY <1>1, GetIs DEF InOrder, MapOk

(* A key that is not there is put, or one is removed and put again.        *)
LEMMA AddedIs ==
  ASSUME Roomy(TableSize), NEW m \in InOrder, NEW k \in Keys, NEW d \in Data,
         hashmap_get(m, k) = NULL
  PROVE  /\ hashmap_put(m, k, d) \in InOrder
         /\ \A j \in Keys : hashmap_get(hashmap_put(m, k, d), j) =
                             IF j = k THEN d ELSE hashmap_get(m, j)
<1> DEFINE n == TableSize
           w == hashmap_put(m, k, d)
<1>1. n \in Sizes /\ Roomy(n)
  BY InitialSize DEF TableSize
<1>2. m \in Maps(n) /\ MapOk(m, n) /\ Good(m, n)
  BY DEF InOrder, MapOk
<1> HIDE DEF n
<1>3. k \notin KeysIn(m.table, n)
  BY <1>1, <1>2, GetIs, UseAssumption
<1>4. w \in Maps(n) /\ MapOk(w, n) /\ Dict(w) = [Dict(m) EXCEPT ![k] = d]
  BY <1>1, <1>2, <1>3, PutAbsent
<1> HIDE DEF w
<1>5. \A j \in Keys : hashmap_get(w, j) = IF j = k THEN d ELSE hashmap_get(m, j)
  <2> TAKE j \in Keys
  <2>1. Dict(w)[j] = hashmap_get(w, j) /\ Dict(m)[j] = hashmap_get(m, j)
    BY DEF Dict
  <2>2. DOMAIN Dict(m) = Keys
    BY DEF Dict
  <2>3. Dict(w)[j] = IF j = k THEN d ELSE Dict(m)[j]
    BY <1>4, <2>2
  <2> QED
    BY <2>1, <2>3
<1> QED
  BY <1>4, <1>5 DEF InOrder, n, w

LEMMA ReplacedIs ==
  ASSUME Roomy(TableSize), NEW m \in InOrder, NEW k \in Keys, NEW d \in Data
  PROVE  LET w == hashmap_put(hashmap_remove(m, k), k, d)
         IN  /\ w \in InOrder
             /\ \A j \in Keys : hashmap_get(w, j) =
                                 IF j = k THEN d ELSE hashmap_get(m, j)
<1> DEFINE n == TableSize
           r == hashmap_remove(m, k)
<1>1. n \in Sizes /\ Roomy(n) /\ n \in Nat \ {0}
  BY InitialSize, SizesAre DEF TableSize
<1>2. m \in Maps(n) /\ MapOk(m, n) /\ Good(m, n)
  BY DEF InOrder, MapOk
<1> HIDE DEF n
<1>3. /\ r \in Maps(n) /\ MapOk(r, n)
      /\ \A j \in Keys : hashmap_get(r, j) = IF j = k THEN NULL ELSE hashmap_get(m, j)
  <2>1. CASE k \in KeysIn(m.table, n)
    <3>1. PICK s \in 0..(n - 1) : m.table[s].key = k
      BY <2>1 DEF KeysIn
    <3>2. Find(m, k) = s /\ k # NULL /\ s # NULL
      BY <1>1, <1>2, <3>1, FindPresent, UseAssumption
    <3>3. r = hashmap_entry_remove(m, s)
      BY <3>1, <3>2 DEF hashmap_remove, Finds
    <3>4. r \in Maps(n) /\ MapOk(r, n) /\ Dict(r) = [Dict(m) EXCEPT ![k] = NULL]
      BY <1>1, <1>2, <3>1, <3>2, <3>3, RemovedIs
    <3> HIDE DEF r
    <3>5. ASSUME NEW j \in Keys
          PROVE  hashmap_get(r, j) = IF j = k THEN NULL ELSE hashmap_get(m, j)
      <4>1. /\ Dict(r)[j] = hashmap_get(r, j) /\ Dict(m)[j] = hashmap_get(m, j)
            /\ DOMAIN Dict(m) = Keys
        BY DEF Dict
      <4>2. Dict(r)[j] = IF j = k THEN NULL ELSE Dict(m)[j]
        BY <3>4, <4>1
      <4> QED
        BY <4>1, <4>2
    <3> QED
      BY <3>4, <3>5
  <2>2. CASE k \notin KeysIn(m.table, n)
    <3>1. \A s \in 0..(n - 1) : m.table[s].key # k
      BY <2>2 DEF KeysIn
    <3>2. m.table[Find(m, k)].key = NULL /\ k # NULL
      BY <1>1, <1>2, <3>1, FindAbsent, UseAssumption
    <3>3. r = m
      BY <3>2 DEF hashmap_remove, Finds
    <3>4. hashmap_get(m, k) = NULL
      BY <1>1, <1>2, <2>2, GetIs
    <3> QED
      BY <1>2, <3>3, <3>4
  <2> QED
    BY <2>1, <2>2
<1> HIDE DEF r
<1>4. r \in InOrder /\ hashmap_get(r, k) = NULL
  BY <1>3 DEF InOrder, n
<1>5. /\ hashmap_put(r, k, d) \in InOrder
      /\ \A j \in Keys : hashmap_get(hashmap_put(r, k, d), j) =
                           IF j = k THEN d ELSE hashmap_get(r, j)
  BY <1>4, AddedIs
<1> QED
  BY <1>3, <1>5 DEF r

-----------------------------------------------------------------------------
(* The invariant of a map in use: it keeps the size it was made with, its  *)
(* table is in order, and an iterator is one of its slots.                 *)
MapInv ==
  /\ map \in Maps(TableSize)
  /\ MapOk(map, TableSize)
  /\ walk = "iter" => at \in (0..(TableSize - 1)) \cup {NULL}

LEMMA PopulatedIs ==
  ASSUME NEW n \in Nat \ {0}, NEW m \in Maps(n), NEW from
  PROVE  GetPopulated(m, from) \in (0..(n - 1)) \cup {NULL}
<1> DEFINE S == {s \in DOMAIN m.table : s >= from /\ m.table[s].key # NULL}
<1>1. S \in SUBSET Nat /\ S \subseteq 0..(n - 1)
  BY DEF Maps, Tables
<1>2. GetPopulated(m, from) = IF S = {} THEN NULL ELSE Min(S)
  BY DEF GetPopulated
<1> HIDE DEF S
<1>3. S # {} => Min(S) \in S
  BY <1>1, MinIs
<1> QED
  BY <1>1, <1>2, <1>3

(* MapInv is inductive.                                                    *)
LEMMA MapInvInit ==
  ASSUME Roomy(TableSize)
  PROVE  MapInit => MapInv /\ Dict(map) = [k \in Keys |-> NULL] /\ map.num_entries = 0
<1> SUFFICES ASSUME MapInit
             PROVE  MapInv /\ Dict(map) = [k \in Keys |-> NULL] /\ map.num_entries = 0
  OBVIOUS
<1> DEFINE n == TableSize
<1>1. n \in Sizes /\ n = hashmap_table_size_calc(Initial)
  BY InitialSize DEF TableSize
<1>2. PICK hash \in Hashes : map = hashmap_init(hash, Initial)
  BY DEF MapInit
<1> HIDE DEF n
<1>3. map = [hash |-> hash, table |-> Cleared(n), num_entries |-> 0,
             table_size_init |-> n]
  BY <1>1, <1>2 DEF hashmap_init
<1>4. hash \in Hashes /\ Cleared(n) \in Tables(n)
  BY <1>1, ClearedIs
<1>5. map \in Maps(n)
  BY <1>1, <1>3, <1>4 DEF Maps
<1>6. MapOk(map, n) /\ Dict(map) = [k \in Keys |-> NULL]
  BY <1>1, <1>3, <1>5, ClearIs DEF n
<1> QED
  BY <1>3, <1>5, <1>6 DEF MapInv, MapInit, n

LEMMA MapInvNext ==
  ASSUME Roomy(TableSize)
  PROVE  MapInv /\ [MapNext]_mapvars => MapInv' /\ IsChange(map, map')
<1> DEFINE n == TableSize
<1> SUFFICES ASSUME MapInv, [MapNext]_mapvars
             PROVE  /\ map' \in Maps(n) /\ MapOk(map', n) /\ IsChange(map, map')
                    /\ walk' = "iter" => at' \in (0..(n - 1)) \cup {NULL}
  BY DEF MapInv, TableSize
<1>1. n \in Sizes /\ n \in Nat \ {0} /\ Roomy(n)
  BY InitialSize, SizesAre DEF TableSize
<1>2. /\ map \in Maps(n) /\ MapOk(map, n)
      /\ walk = "iter" => at \in (0..(n - 1)) \cup {NULL}
  BY DEF MapInv
<1>3. IsChange(map, map)
  BY DEF IsChange
<1> HIDE DEF n
<1>4. CASE Call
  <2>1. walk' # "iter"
    BY <1>4 DEF Call
  <2>2. ASSUME NEW k \in Keys, NEW d \in Data, map' = hashmap_put(map, k, d)
        PROVE  map' \in Maps(n) /\ MapOk(map', n) /\ IsChange(map, map')
    BY <1>1, <1>2, <2>2, PutIs
  <2>3. ASSUME NEW k \in Keys, map' = hashmap_remove(map, k)
        PROVE  map' \in Maps(n) /\ MapOk(map', n) /\ IsChange(map, map')
    BY <1>1, <1>2, <2>3, RemoveIs
  <2>4. ASSUME map' = hashmap_clear(map) \/ map' = hashmap_reset(map)
        PROVE  map' \in Maps(n) /\ MapOk(map', n) /\ IsChange(map, map')
    BY <1>1, <1>2, <2>4, ClearsAre
  <2> QED
    BY <1>4, <2>1, <2>2, <2>3, <2>4 DEF Call
<1>5. CASE WalkStarts
  <2>1. map' = map /\ (walk' = "iter" => at' = hashmap_iter(map))
    BY <1>5 DEF WalkStarts
  <2>2. hashmap_iter(map) \in (0..(n - 1)) \cup {NULL}
    BY <1>1, <1>2, PopulatedIs DEF hashmap_iter
  <2> QED
    BY <1>2, <1>3, <2>1, <2>2
<1>6. CASE hashmap_foreach
  <2>1. walk' # "iter"
    BY <1>6 DEF hashmap_foreach
  <2>2. map' = map \/ \E k \in Keys : map' = hashmap_remove(map, k)
    BY <1>6 DEF hashmap_foreach
  <2>3. ASSUME NEW k \in Keys, map' = hashmap_remove(map, k)
        PROVE  map' \in Maps(n) /\ MapOk(map', n) /\ IsChange(map, map')
    BY <1>1, <1>2, <2>3, RemoveIs
  <2> QED
    BY <1>2, <1>3, <2>1, <2>2, <2>3
<1>7. CASE IterStep
  <2>1. at \in 0..(n - 1) /\ at # NULL
    BY <1>2, <1>7 DEF IterStep
  <2>2. CASE at' = hashmap_iter_next(map, at) /\ map' = map
    <3>1. at' = GetPopulated(map, at + 1)
      BY <2>1, <2>2 DEF hashmap_iter_next
    <3> QED
      BY <1>1, <1>2, <1>3, <2>2, <3>1, PopulatedIs
  <2>3. CASE map' = IterRemoved(map, at) /\ at' = GetPopulated(map', at)
    <3>1. map' \in Maps(n) /\ MapOk(map', n) /\ IsChange(map, map')
      <4>1. CASE map.table[at].key = NULL
        BY <1>2, <1>3, <2>3, <4>1 DEF IterRemoved
      <4>2. CASE map.table[at].key # NULL
        <5>1. map' = hashmap_entry_remove(map, at)
          BY <2>3, <4>2 DEF IterRemoved
        <5> QED
          BY <1>1, <1>2, <2>1, <4>2, <5>1, EntryRemovedIs
      <4> QED
        BY <4>1, <4>2
    <3> QED
      BY <1>1, <2>3, <3>1, PopulatedIs
  <2> QED
    BY <1>7, <2>2, <2>3 DEF IterStep
<1>8. CASE WalkEnds
  BY <1>2, <1>3, <1>8 DEF WalkEnds
<1>9. CASE UNCHANGED mapvars
  BY <1>2, <1>3, <1>9 DEF mapvars
<1> QED
  BY <1>4, <1>5, <1>6, <1>7, <1>8, <1>9 DEF MapNext

(* With at most half as many keys as the map was made with slots, whatever *)
(* the hash function, the hash map is a dictionary (hashmap_put,           *)
(* hashmap_get, hashmap_remove, hashmap_iter_remove, hashmap_foreach,      *)
(* hashmap_clear, hashmap_reset): a removal, which moves entries back      *)
(* along their chains and around the end of the table, loses no entry and  *)
(* hides none, and no call gives a key another datum than it was put with. *)
THEOREM MapIsDictionary ==
  ASSUME Roomy(TableSize)
  PROVE  MapSpec => ImplementsDictionary
<1>1. MapInit => MapInv
  BY MapInvInit
<1>2. MapInit => D!Init
  BY MapInvInit DEF D!Init, Dict
<1>3. MapInv /\ [MapNext]_mapvars => MapInv'
  BY MapInvNext
<1>4. MapInv /\ [MapNext]_mapvars
        => [D!Next]_<<[k \in Keys |-> hashmap_get(map, k)], map.num_entries>>
  <2> SUFFICES ASSUME MapInv, [MapNext]_mapvars
               PROVE  D!Next
    OBVIOUS
  <2>1. IsChange(map, map')
    BY MapInvNext
  <2>2. CASE Dict(map') = Dict(map) /\ map'.num_entries = map.num_entries
    BY <2>2 DEF D!Next, D!Keep, Dict
  <2>3. ASSUME CountedIn(map') PROVE D!Counted
    <3> DEFINE dict == [k \in Keys |-> hashmap_get(map', k)]
    <3>1. Dict(map') = dict
      BY DEF Dict
    <3> HIDE DEF dict
    <3>2. {k \in Keys : Dict(map')[k] # NULL} = {k \in Keys : dict[k] # NULL}
      BY <3>1
    <3>3. map'.num_entries = Cardinality({k \in Keys : dict[k] # NULL})
      BY <2>3, <3>2 DEF CountedIn
    <3> QED
      BY <3>3 DEF D!Counted, D!Cardinality, Cardinality, dict
  <2>4. ASSUME NEW k \in Keys, Dict(map)[k] # NULL, CountedIn(map'),
               Dict(map') = [Dict(map) EXCEPT ![k] = NULL]
        PROVE  D!Next
    <3>1. D!Remove(k)
      BY <2>3, <2>4 DEF D!Remove, Dict
    <3> QED
      BY <3>1 DEF D!Next
  <2>5. ASSUME NEW k \in Keys, NEW d \in Data, Dict(map)[k] = NULL,
               CountedIn(map'), Dict(map') = [Dict(map) EXCEPT ![k] = d]
        PROVE  D!Next
    <3>1. D!Put(k, d)
      BY <2>3, <2>5 DEF D!Put, Dict
    <3> QED
      BY <3>1 DEF D!Next
  <2>6. CASE Dict(map') = [k \in Keys |-> NULL] /\ CountedIn(map')
    BY <2>3, <2>6 DEF D!Next, D!Clear, Dict
  <2> QED
    BY <2>1, <2>2, <2>4, <2>5, <2>6 DEF IsChange
<1> QED
  BY <1>1, <1>2, <1>3, <1>4, PTL DEF MapSpec, ImplementsDictionary, D!Spec

-----------------------------------------------------------------------------
(* Walks: what is due is at the walk's slot or behind it. *)
DueFrom(m, n, keys, a) ==
  \A k \in keys : /\ k \in Keys
                  /\ \E s \in 0..(n - 1) : s >= a /\ m.table[s].key = k

WalkInv ==
  /\ walk = "foreach" => at \in 0..TableSize /\ DueFrom(map, TableSize, due, at)
  /\ walk = "iter" => IF at = NULL THEN due = {}
                      ELSE DueFrom(map, TableSize, due, at)

(* What is due at or after a slot still is when its entry is removed.      *)
LEMMA RemovalKeepsDue ==
  ASSUME NEW n \in Sizes, Roomy(n), NEW m \in Maps(n), MapOk(m, n),
         NEW r \in 0..(n - 1), m.table[r].key # NULL,
         NEW keys, DueFrom(m, n, keys, r)
  PROVE  DueFrom(hashmap_entry_remove(m, r), n, keys \ {m.table[r].key}, r)
<1> DEFINE w == hashmap_entry_remove(m, r)
<1>1. n \in Nat \ {0}
  BY SizesAre
<1>2. \A u \in (0..(n - 1)) \ {r} : m.table[u].key # NULL
        => \E s \in 0..(n - 1) : /\ w.table[s].key = m.table[u].key
                                 /\ Dist(r, s, n) <= Dist(r, u, n)
  BY RemovedIs
<1> HIDE DEF w
<1>3. ASSUME NEW k \in keys \ {m.table[r].key}
      PROVE  /\ k \in Keys
             /\ \E s \in 0..(n - 1) : s >= r /\ w.table[s].key = k
  <2>1. PICK u \in 0..(n - 1) : k \in Keys /\ u >= r /\ m.table[u].key = k
    BY DEF DueFrom
  <2>2. u # r /\ m.table[u].key # NULL
    BY <2>1, UseAssumption
  <2>3. PICK s \in 0..(n - 1) : /\ w.table[s].key = m.table[u].key
                                /\ Dist(r, s, n) <= Dist(r, u, n)
    BY <1>2, <2>2
  <2>4. s >= r
    BY <1>1, <2>1, <2>3 DEF Dist
  <2> QED
    BY <2>1, <2>3, <2>4
<1> QED
  BY <1>3 DEF DueFrom, w

(* GetPopulated skips free slots only.                                     *)
LEMMA PopulatedIsFirst ==
  ASSUME NEW n \in Nat \ {0}, NEW m \in Maps(n), NEW from \in Nat,
         NEW keys, DueFrom(m, n, keys, from)
  PROVE  IF GetPopulated(m, from) = NULL THEN keys = {}
         ELSE DueFrom(m, n, keys, GetPopulated(m, from))
<1> DEFINE S == {s \in DOMAIN m.table : s >= from /\ m.table[s].key # NULL}
<1>1. S \in SUBSET Nat /\ S \subseteq 0..(n - 1)
  BY DEF Maps, Tables
<1>2. GetPopulated(m, from) = IF S = {} THEN NULL ELSE Min(S)
  BY DEF GetPopulated
<1>3. ASSUME NEW k \in keys
      PROVE  k \in Keys /\ \E s \in S : s \in 0..(n - 1) /\ m.table[s].key = k
  BY UseAssumption DEF DueFrom, Maps, Tables
<1> HIDE DEF S
<1>4. CASE S = {}
  BY <1>2, <1>3, <1>4
<1>5. CASE S # {}
  <2>1. Min(S) \in S /\ \A s \in S : Min(S) <= s
    BY <1>1, <1>5, MinIs
  <2>2. Min(S) # NULL
    BY <1>1, <2>1, UseAssumption
  <2>3. PICK f : f = Min(S)
    OBVIOUS
  <2>4. \A s \in S : s >= f
    BY <1>1, <2>1, <2>3
  <2>5. DueFrom(m, n, keys, f)
    BY <1>3, <2>4 DEF DueFrom
  <2> QED
    BY <1>2, <1>5, <2>2, <2>3, <2>5
<1> QED
  BY <1>4, <1>5

LEMMA DueGoesOn ==
  ASSUME NEW n \in Nat \ {0}, NEW m, NEW keys, NEW a \in Nat,
         DueFrom(m, n, keys, a)
  PROVE  DueFrom(m, n, keys \ {m.table[a].key}, a + 1)
<1>1. ASSUME NEW k \in keys \ {m.table[a].key}
      PROVE  /\ k \in Keys
             /\ \E s \in 0..(n - 1) : s >= a + 1 /\ m.table[s].key = k
  <2>1. PICK s \in 0..(n - 1) : k \in Keys /\ s >= a /\ m.table[s].key = k
    BY DEF DueFrom
  <2>2. s # a
    BY <2>1
  <2> QED
    BY <2>1, <2>2
<1> QED
  BY <1>1 DEF DueFrom

(* Everything is due when a walk starts.                                   *)
LEMMA PresentIs ==
  ASSUME Roomy(TableSize), MapInv
  PROVE  /\ Present = KeysIn(map.table, TableSize)
         /\ DueFrom(map, TableSize, Present, 0)
<1> DEFINE n == TableSize
<1>1. n \in Sizes /\ n \in Nat \ {0} /\ Roomy(n)
  BY InitialSize, SizesAre DEF TableSize
<1>2. map \in Maps(n) /\ Good(map, n)
  BY DEF MapInv, MapOk
<1> HIDE DEF n
<1>3. Present = {k \in Keys : Dict(map)[k] # NULL}
  BY DEF Present, Dict
<1>4. Present = KeysIn(map.table, n)
  BY <1>1, <1>2, <1>3, DictIs
<1>5. DueFrom(map, n, KeysIn(map.table, n), 0)
  BY <1>1 DEF DueFrom, KeysIn
<1> QED
  BY <1>4, <1>5 DEF n

(* WalkInv is inductive, with MapInv.                                      *)
LEMMA WalkInvNext ==
  ASSUME Roomy(TableSize)
  PROVE  MapInv /\ WalkInv /\ [MapNext]_mapvars => WalkInv'
<1> DEFINE n == TableSize
<1> SUFFICES ASSUME MapInv, WalkInv, [MapNext]_mapvars
             PROVE  /\ walk' = "foreach" => at' \in 0..n /\ DueFrom(map', n, due', at')
                    /\ walk' = "iter" => IF at' = NULL THEN due' = {}
                                         ELSE DueFrom(map', n, due', at')
  BY DEF WalkInv, TableSize
<1>1. n \in Sizes /\ n \in Nat \ {0} /\ Roomy(n)
  BY InitialSize, SizesAre DEF TableSize
<1>2. /\ map \in Maps(n) /\ MapOk(map, n) /\ Good(map, n) /\ Size(map) = n
      /\ walk = "iter" => at \in (0..(n - 1)) \cup {NULL}
  BY <1>1, SizeIs DEF MapInv, MapOk
<1>3. /\ walk = "foreach" => at \in 0..n /\ DueFrom(map, n, due, at)
      /\ walk = "iter" => IF at = NULL THEN due = {} ELSE DueFrom(map, n, due, at)
  BY DEF WalkInv
<1>4. /\ Present = KeysIn(map.table, n)
      /\ DueFrom(map, n, Present, 0)
  BY PresentIs
<1> HIDE DEF n
<1>5. CASE Call
  BY <1>5 DEF Call
<1>6. CASE WalkStarts
  <2>1. CASE walk' = "foreach"
    BY <1>1, <1>4, <1>6, <2>1 DEF WalkStarts
  <2>2. CASE walk' = "iter"
    <3>1. /\ map' = map /\ due' = Present /\ at' = hashmap_iter(map)
      BY <1>6, <2>2 DEF WalkStarts
    <3>2. CASE map.num_entries = 0
      <4>1. KeysIn(map.table, n) \in SUBSET Keys
        BY DEF KeysIn
      <4>2. KeysIn(map.table, n) = {}
        BY <1>2, <3>2, <4>1, UseAssumption, FS_Subset, FS_EmptySet DEF MapOk
      <4> QED
        BY <1>4, <2>2, <3>1, <3>2, <4>2 DEF hashmap_iter
    <3>3. CASE map.num_entries # 0
      <4>1. at' = GetPopulated(map, 0)
        BY <3>1, <3>3 DEF hashmap_iter
      <4> QED
        BY <1>1, <1>2, <1>4, <2>2, <3>1, <4>1, PopulatedIsFirst
    <3> QED
      BY <3>2, <3>3
  <2> QED
    BY <2>1, <2>2
<1>7. CASE hashmap_foreach
  <2> DEFINE key == map.table[at].key
  <2>1. /\ walk = "foreach" /\ walk' = "foreach" /\ at \in 0..(n - 1)
        /\ DueFrom(map, n, due, at)
    BY <1>1, <1>2, <1>3, <1>7 DEF hashmap_foreach
  <2>2. CASE key = NULL
    <3>1. at' = at + 1 /\ map' = map /\ due' = due
      BY <1>7, <2>2 DEF hashmap_foreach
    <3>2. NULL \notin due
      BY <2>1, UseAssumption DEF DueFrom
    <3>3. due' = due \ {key}
      BY <2>2, <3>1, <3>2
    <3>4. DueFrom(map, n, due \ {key}, at + 1)
      BY <1>1, <2>1, DueGoesOn
    <3>5. at' \in 0..n
      BY <1>1, <2>1, <3>1
    <3>6. DueFrom(map', n, due', at')
      BY <3>1, <3>3, <3>4
    <3> QED
      BY <2>1, <3>5, <3>6
  <2>3. CASE key # NULL
    <3>1. PICK removed \in Keys \cup {NULL} :
            /\ map' = IF removed = NULL THEN map ELSE hashmap_remove(map, removed)
            /\ at' = NextSlot(at, key)
            /\ Comes(key, removed)
      BY <1>7, <2>3 DEF hashmap_foreach
    <3>2. at' = (IF map'.table[at].key # key THEN at ELSE at + 1) /\ at' \in 0..n
      BY <1>1, <2>1, <3>1 DEF NextSlot
    <3>3. CASE removed = NULL
      <4>1. map' = map /\ due' = due \ {key} /\ at' = at + 1
        BY <3>1, <3>2, <3>3 DEF Comes
      <4>2. DueFrom(map, n, due \ {key}, at + 1)
        BY <1>1, <2>1, DueGoesOn
      <4> QED
        BY <2>1, <3>2, <4>1, <4>2
    <3>4. CASE removed # NULL /\ removed = key
      <4>1. Find(map, key) = at
        BY <1>1, <1>2, <2>1, <3>4, FindPresent
      <4>2. at # NULL
        BY <2>1, <1>1, UseAssumption
      <4>3. map' = hashmap_entry_remove(map, at)
        BY <3>1, <3>4, <4>1, <4>2 DEF hashmap_remove, Finds
      <4>4. due' = due \ {key}
        BY <3>1, <3>4 DEF Comes
      <4>5. DueFrom(map', n, due', at)
        BY <1>1, <1>2, <2>1, <2>3, <4>3, <4>4, RemovalKeepsDue
      <4>6. map'.table[at].key # key
        <5>1. Dict(map') = [Dict(map) EXCEPT ![key] = NULL] /\ map' \in Maps(n) /\ MapOk(map', n)
          BY <1>1, <1>2, <2>1, <2>3, <4>3, RemovedIs
        <5>2. key \in Keys
          BY <3>4
        <5>3. hashmap_get(map', key) = NULL
          <6>1. Dict(map')[key] = NULL
            BY <5>1, <5>2 DEF Dict
          <6> QED
            BY <5>2, <6>1 DEF Dict
        <5>4. key \notin KeysIn(map'.table, n)
          BY <1>1, <5>1, <5>2, <5>3, GetIs, UseAssumption DEF MapOk
        <5> QED
          BY <2>1, <5>2, <5>4 DEF KeysIn
      <4>7. at' = at
        BY <3>2, <4>6
      <4> QED
        BY <2>1, <3>2, <4>5, <4>7
    <3>5. CASE removed # NULL /\ removed # key
      <4>1. due' = {}
        BY <3>1, <3>5 DEF Comes
      <4> QED
        BY <2>1, <3>2, <4>1 DEF DueFrom
    <3> QED
      BY <3>3, <3>4, <3>5
  <2> QED
    BY <2>2, <2>3
<1>8. CASE IterStep
  <2>1. /\ walk = "iter" /\ walk' = "iter" /\ at \in 0..(n - 1) /\ at # NULL
        /\ DueFrom(map, n, due, at)
    BY <1>2, <1>3, <1>8 DEF IterStep
  <2> DEFINE key == map.table[at].key
  <2>2. CASE /\ at' = hashmap_iter_next(map, at) /\ map' = map
             /\ Comes(key, NULL)
    <3>1. at' = GetPopulated(map, at + 1) /\ due' = due \ {key}
      BY <2>1, <2>2 DEF hashmap_iter_next, Comes
    <3>2. DueFrom(map, n, due \ {key}, at + 1)
      BY <1>1, <2>1, DueGoesOn
    <3>3. at + 1 \in Nat
      BY <1>1, <2>1
    <3> QED
      BY <1>1, <1>2, <2>1, <2>2, <3>1, <3>2, <3>3, PopulatedIsFirst
  <2>3. CASE /\ map' = IterRemoved(map, at) /\ at' = GetPopulated(map', at)
             /\ Comes(key, key)
    <3>1. due' = due \ {key}
      BY <2>3 DEF Comes
    <3>2. map' \in Maps(n) /\ DueFrom(map', n, due', at)
      <4>1. CASE key = NULL
        BY <1>2, <2>1, <2>3, <3>1, <4>1 DEF IterRemoved, DueFrom
      <4>2. CASE key # NULL
        <5>1. map' = hashmap_entry_remove(map, at)
          BY <2>3, <4>2 DEF IterRemoved
        <5> QED
          BY <1>1, <1>2, <2>1, <3>1, <4>2, <5>1, EntryRemovedIs, RemovalKeepsDue
      <4> QED
        BY <4>1, <4>2
    <3>3. at \in Nat
      BY <1>1, <2>1
    <3> QED
      BY <1>1, <2>1, <2>3, <3>2, <3>3, PopulatedIsFirst
  <2> QED
    BY <1>8, <2>2, <2>3 DEF IterStep
<1>9. CASE WalkEnds
  BY <1>9 DEF WalkEnds
<1>10. CASE UNCHANGED mapvars
  BY <1>3, <1>10 DEF mapvars
<1> QED
  BY <1>5, <1>6, <1>7, <1>8, <1>9, <1>10 DEF MapNext

(* A walk over the entries (hashmap_foreach; hashmap_iter and              *)
(* hashmap_iter_next) comes to every entry that was there when it started, *)
(* though the removals of the entry it is at (by func, or by               *)
(* hashmap_iter_remove) close up chains under it.                          *)
THEOREM WalksSeeAll ==
  ASSUME Roomy(TableSize)
  PROVE  MapSpec => WalkSeesAll
<1>1. MapInit => MapInv /\ WalkInv
  BY MapInvInit DEF WalkInv, MapInit
<1>2. MapInv /\ WalkInv /\ [MapNext]_mapvars => MapInv' /\ WalkInv'
  BY MapInvNext, WalkInvNext
<1>3. MapInv /\ WalkInv /\ [MapNext]_mapvars
        => [walk # "none" /\ walk' = "none" => due = {}]_mapvars
  <2> SUFFICES ASSUME MapInv, WalkInv, MapNext, walk # "none", walk' = "none"
               PROVE  due = {}
    BY DEF mapvars
  <2>1. WalkEnds
    BY DEF MapNext, Call, WalkStarts, hashmap_foreach, IterStep
  <2>2. CASE walk = "iter" /\ at = NULL
    BY <2>2 DEF WalkInv
  <2>3. CASE walk = "foreach" /\ at = Size(map)
    <3> DEFINE n == TableSize
    <3>1. n \in Nat \ {0} /\ map \in Maps(n)
      BY InitialSize, SizesAre DEF TableSize, MapInv
    <3>2. DueFrom(map, n, due, at)
      BY <2>3 DEF WalkInv
    <3> HIDE DEF n
    <3>3. at = n
      BY <2>3, <3>1, SizeIs
    <3>4. \A s \in 0..(n - 1) : ~(s >= n)
      BY <3>1
    <3> QED
      BY <3>2, <3>3, <3>4 DEF DueFrom
  <2> QED
    BY <2>1, <2>2, <2>3 DEF WalkEnds
<1> QED
  BY <1>1, <1>2, <1>3, PTL DEF MapSpec, WalkSeesAll
=============================================================================
