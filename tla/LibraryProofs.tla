---------------------------- MODULE LibraryProofs ----------------------------
(***************************************************************************)
(* Proofs about the parts of the library: list.c under the lock queue,     *)
(* module Timers in its two uses, the loop of the daemon and the           *)
(* asynchronous operations, the file monitor, the configuration store and  *)
(* the byte queue.                                                         *)
(*                                                                         *)
(* Both lists are proved to be, at any time, that of a sequence: of what   *)
(* was put in and not taken out, and of the active timers, each once and   *)
(* in the order of their deadlines.  Walk and Node follow the links and    *)
(* are recursive functions.  WalkIs and NodeIs say which by showing that   *)
(* the sequence solves their equation, and that two solutions would have a *)
(* least number where they differ.                                         *)
(*                                                                         *)
(* Of the file monitor it is proved that with no event waiting each        *)
(* watcher watches the file at its path.                                   *)
(*                                                                         *)
(* The configuration store: each change of the tree keeps its leaves what  *)
(* the change handler was told (ConfInv), and a save keeps the tree what   *)
(* the subsystems have until the rename (SaveInv).                         *)
(*                                                                         *)
(* The byte queue: the bytes of its buffers, one after the other, are what *)
(* was put in and not trimmed (BufferInv), and a copy finds them.          *)
(***************************************************************************)
EXTENDS Async, MainLoop, LockQueue, FileMonitor, ConfIo, Buffer, SequenceFacts

(* The item of the list at a place, NULL beyond its ends. *)
Item(q, k) == IF k \in DOMAIN q THEN q[k] ELSE NULL
Injective(q) == \A i, j \in DOMAIN q : q[i] = q[j] => i = j

-----------------------------------------------------------------------------
(* list.c: a walk along the links, in each direction, meets what was put   *)
(* in and not taken out, in order.                                         *)
LEMMA WalkIs ==
  ASSUME NEW q \in Seq(Items), Len(q) <= Cardinality(Items),
         NEW l, NEW field,
         \A k \in DOMAIN q : l[q[k]][field] = Item(q, k + 1)
  PROVE  Walk(l, Item(q, 1), field) = q
<1> DEFINE N    == Cardinality(Items)
           from == Item(q, 1)
           g    == [n \in 0..N |-> Item(q, n + 1)]
           at   == CHOOSE at : at = [n \in 0..N |-> IF n = 0 THEN from
                     ELSE IF at[n - 1] = NULL THEN NULL ELSE l[at[n - 1]][field]]
           len  == Cardinality({n \in 0..N : at[n] # NULL})
<1>0. N \in Nat /\ NULL \notin Items /\ Len(q) \in Nat /\ DOMAIN q = 1..Len(q)
  BY ItemsAssumption, FS_CardinalityType, LenProperties
<1>1. g = [n \in 0..N |-> IF n = 0 THEN from
             ELSE IF g[n - 1] = NULL THEN NULL ELSE l[g[n - 1]][field]]
  <2>1. ASSUME NEW n \in 0..N
        PROVE  Item(q, n + 1) = IF n = 0 THEN from
                 ELSE IF g[n - 1] = NULL THEN NULL ELSE l[g[n - 1]][field]
    <3>1. CASE n = 0
      BY <3>1
    <3>2. CASE n # 0
      <4>1. n - 1 \in 0..N /\ n \in Nat
        BY <1>0, <3>2
      <4>2. g[n - 1] = Item(q, n)
        BY <4>1
      <4>3. CASE n \in DOMAIN q
        <5>1. q[n] # NULL /\ l[q[n]][field] = Item(q, n + 1)
          BY <1>0, <4>3
        <5> QED
          BY <3>2, <4>2, <4>3, <5>1 DEF Item
      <4>4. CASE n \notin DOMAIN q
        <5>1. n + 1 \notin DOMAIN q
          BY <1>0, <3>2, <4>1, <4>4
        <5> QED
          BY <3>2, <4>2, <4>4, <5>1 DEF Item
      <4> QED
        BY <4>3, <4>4
    <3> QED
      BY <3>1, <3>2
  <2> QED
    BY <2>1
<1>2. at = g
  <2>1. at = [n \in 0..N |-> IF n = 0 THEN from
                ELSE IF at[n - 1] = NULL THEN NULL ELSE l[at[n - 1]][field]]
    BY <1>1
  <2>2. g = [n \in 0..N |-> g[n]]
    OBVIOUS
  <2> HIDE DEF at, g, from, N
  <2>3. at[0] = from /\ g[0] = from
    BY <1>0, <1>1, <2>1
  <2>4. \A n \in 1..N :
          at[n] = IF at[n - 1] = NULL THEN NULL ELSE l[at[n - 1]][field]
    BY <1>0, <2>1
  <2>5. \A n \in 1..N :
          g[n] = IF g[n - 1] = NULL THEN NULL ELSE l[g[n - 1]][field]
    BY <1>0, <1>1
  <2>6. at = [n \in 0..N |-> at[n]]
    BY <2>1
  <2>7. \A n \in 0..N : at[n] = g[n]
    <3>1. \A n \in 1..N : at[n - 1] = g[n - 1] => at[n] = g[n]
      BY <2>4, <2>5
    <3>2. at[0] = g[0] /\ N \in Nat
      BY <1>0, <2>3
    <3> QED
      BY <3>1, <3>2, SameUpTo, ZenonT(60)
  <2>8. [n \in 0..N |-> at[n]] = [n \in 0..N |-> g[n]]
    BY <2>7
  <2>9. at = [n \in 0..N |-> g[n]]
    BY <2>6, <2>8, Zenon
  <2> QED
    BY <2>2, <2>9, Zenon
<1>3. Walk(l, from, field) = [n \in 1..len |-> at[n - 1]]
  BY DEF Walk
<1>4. len = Len(q)
  <2>1. {n \in 0..N : g[n] # NULL} = 0..(Len(q) - 1)
    <3>1. ASSUME NEW n \in 0..N
          PROVE  g[n] # NULL <=> n \in 0..(Len(q) - 1)
      BY <1>0 DEF Item
    <3>2. 0..(Len(q) - 1) \subseteq 0..N
      BY <1>0
    <3> QED
      BY <3>1, <3>2
  <2>2. Cardinality(0..(Len(q) - 1)) = Len(q)
    <3>1. 0 \in Int /\ Len(q) - 1 \in Int
      BY <1>0
    <3>2. Cardinality(0..(Len(q) - 1)) =
            IF 0 > Len(q) - 1 THEN 0 ELSE (Len(q) - 1) - 0 + 1
      BY <3>1, FS_Interval
    <3> QED
      BY <1>0, <3>2
  <2> HIDE DEF at, g
  <2> QED
    BY <1>2, <2>1, <2>2 DEF len
<1> HIDE DEF len, at
<1>5. ASSUME NEW n \in 1..Len(q) PROVE at[n - 1] = q[n]
  <2>1. n \in DOMAIN q /\ n - 1 \in 0..N /\ (n - 1) + 1 = n
    BY <1>0
  <2>2. g[n - 1] = Item(q, n)
    BY <2>1
  <2> HIDE DEF g
  <2> QED
    BY <1>2, <2>1, <2>2 DEF Item
<1>6. q = [n \in 1..Len(q) |-> q[n]]
  BY <1>0
<1> HIDE DEF g, from
<1>7. Walk(l, from, field) = [n \in 1..Len(q) |-> at[n - 1]]
  BY <1>3, <1>4
<1>8. [n \in 1..Len(q) |-> at[n - 1]] = [n \in 1..Len(q) |-> q[n]]
  BY <1>5
<1>9. Walk(l, from, field) = q
  BY <1>6, <1>7, <1>8, Zenon
<1> QED
  BY <1>9 DEF from

-----------------------------------------------------------------------------
(***************************************************************************)
(* The inductive invariant: the items of content, and no others, are       *)
(* allocated, each once, and each is linked with those beside it.          *)
(***************************************************************************)
Nodes == [prev : Items \cup {NULL}, next : Items \cup {NULL}]
Linking(q, l) ==
  \A k \in DOMAIN q : /\ l[q[k]].next = Item(q, k + 1)
                      /\ l[q[k]].prev = Item(q, k - 1)

DequeInv ==
  /\ content \in Seq(Items) /\ Injective(content)
  /\ size = Len(content)
  /\ free = Items \ {content[k] : k \in DOMAIN content}
  /\ head = Item(content, 1) /\ tail = Item(content, Len(content))
  /\ links \in [Items -> Nodes]
  /\ Linking(content, links)

(* An assignment through a pointer changes one field of one item.          *)
LEMMA LinkedIs ==
  ASSUME NEW l \in [Items -> Nodes], NEW i \in Items \cup {NULL},
         NEW to \in Items \cup {NULL}
  PROVE  /\ \A field \in {"prev", "next"} :
              /\ Linked(l, i, field, to) \in [Items -> Nodes]
              /\ \A j \in Items \ {i} : Linked(l, i, field, to)[j] = l[j]
         /\ i # NULL => /\ Linked(l, i, "prev", to)[i].prev = to
                        /\ Linked(l, i, "prev", to)[i].next = l[i].next
                        /\ Linked(l, i, "next", to)[i].next = to
                        /\ Linked(l, i, "next", to)[i].prev = l[i].prev
<1>1. CASE i = NULL
  BY <1>1 DEF Linked
<1>2. CASE i # NULL
  <2>1. i \in Items /\ l[i] \in Nodes
    BY <1>2
  <2> DEFINE p == [l[i] EXCEPT !["prev"] = to]
             n == [l[i] EXCEPT !["next"] = to]
  <2>2. p \in Nodes /\ n \in Nodes
    BY <2>1 DEF Nodes
  <2>3. p.prev = to /\ p.next = l[i].next /\ n.next = to /\ n.prev = l[i].prev
    BY <2>1 DEF Nodes
  <2>4. /\ Linked(l, i, "prev", to) = [l EXCEPT ![i] = p]
        /\ Linked(l, i, "next", to) = [l EXCEPT ![i] = n]
    BY <1>2 DEF Linked
  <2> HIDE DEF p, n
  <2> QED
    BY <2>1, <2>2, <2>3, <2>4
<1> QED
  BY <1>1, <1>2

LEMMA PushFrontKeeps ==
  ASSUME DequeInv, NEW i \in Items, list_push_front(i)
  PROVE  DequeInv'
<1> DEFINE n  == Len(content)
           l  == [links EXCEPT ![i] = [prev |-> NULL, next |-> head]]
<1>1. /\ n \in Nat /\ DOMAIN content = 1..n /\ content \in Seq(Items)
      /\ \A k \in 1..n : content[k] \in Items /\ content[k] # i
      /\ NULL \notin Items
  BY LenProperties, ItemsAssumption DEF DequeInv, list_push_front
<1>2. /\ content' \in Seq(Items) /\ Len(content') = n + 1
      /\ DOMAIN content' = 1..(n + 1)
      /\ content'[1] = i /\ \A k \in 1..n : content'[k + 1] = content[k]
  <2>1. <<i>> \in Seq(Items) /\ content' = <<i>> \o content
    BY DEF list_push_front
  <2> QED
    BY <1>1, <2>1, ConcatProperties
<1>3. \A k \in 2..(n + 1) : k - 1 \in 1..n /\ content'[k] = content[k - 1]
  BY <1>1, <1>2
<1>4. Injective(content')
  BY <1>1, <1>2, <1>3 DEF DequeInv, Injective
<1>5. free' = Items \ {content'[k] : k \in DOMAIN content'}
  <2>1. {content'[k] : k \in DOMAIN content'} = {content[k] : k \in DOMAIN content} \cup {i}
    <3>1. ASSUME NEW k \in DOMAIN content'
          PROVE  content'[k] = i \/ \E m \in DOMAIN content : content'[k] = content[m]
      <4>1. k = 1 \/ k \in 2..(n + 1)
        BY <1>1, <1>2
      <4> QED
        BY <1>1, <1>2, <1>3, <4>1
    <3>2. 1 \in DOMAIN content' /\ \A k \in 1..n : k + 1 \in DOMAIN content'
      BY <1>1, <1>2
    <3>3. i \in {content'[k] : k \in DOMAIN content'}
      BY <1>2, <3>2
    <3>4. ASSUME NEW m \in DOMAIN content
          PROVE  content[m] \in {content'[k] : k \in DOMAIN content'}
      BY <1>1, <1>2, <3>2
    <3> QED
      BY <3>1, <3>3, <3>4
  <2> QED
    BY <2>1 DEF DequeInv, list_push_front
<1>6. head' = Item(content', 1) /\ tail' = Item(content', Len(content'))
  <2>1. head' = i /\ tail' = IF tail = NULL THEN i ELSE tail
    BY DEF list_push_front
  <2>2. CASE n = 0
    BY <1>1, <1>2, <2>1, <2>2 DEF DequeInv, Item
  <2>3. CASE n # 0
    <3>1. n \in 1..n /\ content'[n + 1] = content[n] /\ tail = content[n]
      BY <1>1, <1>2, <2>3 DEF DequeInv, Item
    <3> QED
      BY <1>1, <1>2, <2>1, <3>1 DEF Item
  <2> QED
    BY <2>2, <2>3
<1>7. /\ head \in Items \cup {NULL} /\ head # i
      /\ l \in [Items -> Nodes] /\ l[i] = [prev |-> NULL, next |-> head]
      /\ \A j \in Items \ {i} : l[j] = links[j]
      /\ links' = Linked(l, head, "prev", i)
  <2>1. head \in Items \cup {NULL} /\ head # i
    BY <1>1 DEF DequeInv, Item
  <2>2. [prev |-> NULL, next |-> head] \in Nodes
    BY <2>1 DEF Nodes
  <2> QED
    BY <2>1, <2>2 DEF DequeInv, list_push_front
<1> HIDE DEF l
<1>8. /\ links' \in [Items -> Nodes]
      /\ \A j \in Items \ {head} : links'[j] = l[j]
      /\ head # NULL => links'[head].prev = i /\ links'[head].next = l[head].next
  BY <1>7, LinkedIs
<1>9. Linking(content', links')
  <2>1. /\ links'[i].next = Item(content', 2) /\ links'[i].prev = Item(content', 0)
    <3>1. links'[i] = [prev |-> NULL, next |-> head]
      BY <1>7, <1>8
    <3>2. head = Item(content', 2)
      <4>1. CASE n = 0
        BY <1>1, <1>2, <4>1 DEF DequeInv, Item
      <4>2. CASE n # 0
        <5>1. 1 \in 1..n /\ 2 \in 1..(n + 1) /\ content'[2] = content[1]
          BY <1>1, <1>3, <4>2
        <5> QED
          BY <1>1, <1>2, <5>1 DEF DequeInv, Item
      <4> QED
        BY <4>1, <4>2
    <3>3. Item(content', 0) = NULL
      BY <1>2 DEF Item
    <3>4. links'[i].next = head /\ links'[i].prev = NULL
      BY <3>1
    <3> QED
      BY <3>2, <3>3, <3>4
  <2>2. ASSUME NEW k \in 1..n
        PROVE  /\ links'[content[k]].next = Item(content', k + 2)
               /\ links'[content[k]].prev = Item(content', k)
    <3>1. /\ links[content[k]].next = Item(content, k + 1)
          /\ links[content[k]].prev = Item(content, k - 1)
          /\ l[content[k]] = links[content[k]] /\ content[k] \in Items
      BY <1>1, <1>7 DEF DequeInv, Linking
    <3>2. Item(content', k + 2) = Item(content, k + 1)
      <4>1. /\ n \in Nat /\ DOMAIN content = 1..n /\ DOMAIN content' = 1..(n + 1)
            /\ \A m \in 1..n : content'[m + 1] = content[m]
        BY <1>1, <1>2
      <4> HIDE DEF n
      <4>2. /\ k + 1 \in 1..n <=> k + 2 \in 1..(n + 1)
            /\ k + 2 = (k + 1) + 1
        BY <4>1
      <4>3. CASE k + 1 \in 1..n
        <5>1. content'[k + 2] = content[k + 1]
          BY <4>1, <4>2, <4>3
        <5> QED
          BY <4>1, <4>2, <4>3, <5>1 DEF Item
      <4>4. CASE k + 1 \notin 1..n
        BY <4>1, <4>2, <4>4 DEF Item
      <4> QED
        BY <4>3, <4>4
    <3>3. CASE k = 1
      <4>1. head = content[1] /\ head # NULL
        BY <1>1, <3>3 DEF DequeInv, Item
      <4>2. Item(content', 1) = i
        BY <1>1, <1>2 DEF Item
      <4> QED
        BY <1>8, <3>1, <3>2, <3>3, <4>1, <4>2
    <3>4. CASE k # 1
      <4>1. content[k] # head
        BY <1>1, <3>4 DEF DequeInv, Item, Injective
      <4>2. Item(content', k) = Item(content, k - 1)
        BY <1>1, <1>2, <1>3, <3>4 DEF Item
      <4> QED
        BY <1>8, <3>1, <3>2, <4>1, <4>2
    <3> QED
      BY <3>3, <3>4
  <2>3. ASSUME NEW k \in DOMAIN content'
        PROVE  /\ links'[content'[k]].next = Item(content', k + 1)
               /\ links'[content'[k]].prev = Item(content', k - 1)
    <3>1. CASE k = 1
      BY <1>2, <2>1, <3>1
    <3>2. CASE k # 1
      <4>1. k \in 2..(n + 1) /\ k - 1 \in 1..n
        BY <1>1, <1>2, <3>2
      <4>2. (k - 1) + 2 = k + 1 /\ content'[k] = content[k - 1]
        BY <1>3, <4>1
      <4> QED
        BY <2>2, <4>1, <4>2
    <3> QED
      BY <3>1, <3>2
  <2> QED
    BY <2>3 DEF Linking
<1>10. size' = Len(content')
  BY <1>2 DEF DequeInv, list_push_front
<1> QED
  BY <1>2, <1>4, <1>5, <1>6, <1>8, <1>9, <1>10 DEF DequeInv

LEMMA PushBackKeeps ==
  ASSUME DequeInv, NEW i \in Items, list_push_back(i)
  PROVE  DequeInv'
<1> DEFINE n  == Len(content)
           l  == [links EXCEPT ![i] = [prev |-> tail, next |-> NULL]]
<1>1. /\ n \in Nat /\ DOMAIN content = 1..n /\ content \in Seq(Items)
      /\ \A k \in 1..n : content[k] \in Items /\ content[k] # i
      /\ NULL \notin Items
  BY LenProperties, ItemsAssumption DEF DequeInv, list_push_back
<1>2. /\ content' \in Seq(Items) /\ Len(content') = n + 1
      /\ DOMAIN content' = 1..(n + 1)
      /\ content'[n + 1] = i /\ \A k \in 1..n : content'[k] = content[k]
  <2>1. content' = Append(content, i)
    BY DEF list_push_back
  <2> QED
    BY <1>1, <2>1, AppendProperties
<1>3. Injective(content')
  BY <1>1, <1>2 DEF DequeInv, Injective
<1>4. free' = Items \ {content'[k] : k \in DOMAIN content'}
  <2>1. {content'[k] : k \in DOMAIN content'} = {content[k] : k \in DOMAIN content} \cup {i}
    <3>1. ASSUME NEW k \in DOMAIN content'
          PROVE  content'[k] = i \/ \E m \in DOMAIN content : content'[k] = content[m]
      <4>1. k = n + 1 \/ k \in 1..n
        BY <1>1, <1>2
      <4> QED
        BY <1>1, <1>2, <4>1
    <3>2. i \in {content'[k] : k \in DOMAIN content'}
      BY <1>1, <1>2
    <3>3. ASSUME NEW m \in DOMAIN content
          PROVE  content[m] \in {content'[k] : k \in DOMAIN content'}
      BY <1>1, <1>2
    <3> QED
      BY <3>1, <3>2, <3>3
  <2> QED
    BY <2>1 DEF DequeInv, list_push_back
<1>5. head' = Item(content', 1) /\ tail' = Item(content', Len(content'))
  <2>1. tail' = i /\ head' = IF head = NULL THEN i ELSE head
    BY DEF list_push_back
  <2>2. CASE n = 0
    BY <1>1, <1>2, <2>1, <2>2 DEF DequeInv, Item
  <2>3. CASE n # 0
    <3>1. 1 \in 1..n /\ content'[1] = content[1] /\ head = content[1]
      BY <1>1, <1>2, <2>3 DEF DequeInv, Item
    <3> QED
      BY <1>1, <1>2, <2>1, <3>1 DEF Item
  <2> QED
    BY <2>2, <2>3
<1>6. /\ tail \in Items \cup {NULL} /\ tail # i
      /\ l \in [Items -> Nodes] /\ l[i] = [prev |-> tail, next |-> NULL]
      /\ \A j \in Items \ {i} : l[j] = links[j]
      /\ links' = Linked(l, tail, "next", i)
  <2>1. tail \in Items \cup {NULL} /\ tail # i
    BY <1>1 DEF DequeInv, Item
  <2>2. [prev |-> tail, next |-> NULL] \in Nodes
    BY <2>1 DEF Nodes
  <2> QED
    BY <2>1, <2>2 DEF DequeInv, list_push_back
<1> HIDE DEF l
<1>7. /\ links' \in [Items -> Nodes]
      /\ \A j \in Items \ {tail} : links'[j] = l[j]
      /\ tail # NULL => links'[tail].next = i /\ links'[tail].prev = l[tail].prev
  BY <1>6, LinkedIs
<1>8. Linking(content', links')
  <2>1. links'[i].next = Item(content', n + 2) /\ links'[i].prev = Item(content', n)
    <3>1. links'[i] = [prev |-> tail, next |-> NULL]
      BY <1>6, <1>7
    <3>2. tail = Item(content', n)
      BY <1>1, <1>2 DEF DequeInv, Item
    <3>3. Item(content', n + 2) = NULL
      BY <1>1, <1>2 DEF Item
    <3> QED
      BY <3>1, <3>2, <3>3
  <2>2. ASSUME NEW k \in 1..n
        PROVE  /\ links'[content[k]].next = Item(content', k + 1)
               /\ links'[content[k]].prev = Item(content', k - 1)
    <3>1. /\ links[content[k]].next = Item(content, k + 1)
          /\ links[content[k]].prev = Item(content, k - 1)
          /\ l[content[k]] = links[content[k]] /\ content[k] \in Items
      BY <1>1, <1>6 DEF DequeInv, Linking
    <3>2. Item(content', k - 1) = Item(content, k - 1)
      BY <1>1, <1>2 DEF Item
    <3>3. CASE k = n
      <4>1. tail = content[k] /\ tail # NULL
        BY <1>1, <3>3 DEF DequeInv, Item
      <4>2. Item(content', k + 1) = i
        BY <1>1, <1>2, <3>3 DEF Item
      <4> QED
        BY <1>7, <3>1, <3>2, <4>1, <4>2
    <3>4. CASE k # n
      <4>1. content[k] # tail
        BY <1>1, <3>4 DEF DequeInv, Item, Injective
      <4>2. Item(content', k + 1) = Item(content, k + 1)
        BY <1>1, <1>2, <3>4 DEF Item
      <4> QED
        BY <1>7, <3>1, <3>2, <4>1, <4>2
    <3> QED
      BY <3>3, <3>4
  <2>3. ASSUME NEW k \in DOMAIN content'
        PROVE  /\ links'[content'[k]].next = Item(content', k + 1)
               /\ links'[content'[k]].prev = Item(content', k - 1)
    <3>1. CASE k = n + 1
      <4>1. k + 1 = n + 2 /\ k - 1 = n /\ content'[k] = i
        BY <1>1, <1>2, <3>1
      <4> QED
        BY <2>1, <4>1
    <3>2. CASE k # n + 1
      <4>1. k \in 1..n /\ content'[k] = content[k]
        BY <1>1, <1>2, <3>2
      <4> QED
        BY <2>2, <4>1
    <3> QED
      BY <3>1, <3>2
  <2> QED
    BY <2>3 DEF Linking
<1>9. size' = Len(content')
  BY <1>2 DEF DequeInv, list_push_back
<1> QED
  BY <1>2, <1>3, <1>4, <1>5, <1>7, <1>8, <1>9 DEF DequeInv

LEMMA PopFrontKeeps ==
  ASSUME DequeInv, list_pop_front
  PROVE  DequeInv'
<1> DEFINE n == Len(content)
<1>1. /\ n \in Nat /\ n > 0 /\ DOMAIN content = 1..n /\ content \in Seq(Items)
      /\ \A k \in 1..n : content[k] \in Items
      /\ NULL \notin Items
      /\ head = content[1] /\ tail = content[n]
  <2>1. n \in Nat /\ n > 0 /\ DOMAIN content = 1..n /\ content \in Seq(Items)
    BY LenProperties DEF DequeInv, list_pop_front
  <2> QED
    BY <2>1, ItemsAssumption DEF DequeInv, Item
<1>2. /\ content' \in Seq(Items) /\ Len(content') = n - 1
      /\ DOMAIN content' = 1..(n - 1)
      /\ \A k \in 1..(n - 1) : k + 1 \in 1..n /\ content'[k] = content[k + 1]
  <2>1. content' = Tail(content) /\ content # <<>>
    BY <1>1 DEF list_pop_front
  <2> QED
    BY <1>1, <2>1, HeadTailProperties
<1>3. Injective(content')
  <2> SUFFICES ASSUME NEW i \in 1..(n - 1), NEW j \in 1..(n - 1),
                      content'[i] = content'[j]
               PROVE  i = j
    BY <1>2 DEF Injective
  <2>1. content[i + 1] = content[j + 1] /\ i + 1 \in 1..n /\ j + 1 \in 1..n
    BY <1>2
  <2>2. i + 1 = j + 1
    BY <1>1, <2>1 DEF DequeInv, Injective
  <2> QED
    BY <2>2
<1>4. /\ head' = Item(content, 2) /\ links' = Linked(links, head', "prev", NULL)
      /\ free' = free \cup {content[1]} /\ size' = n - 1
      /\ tail' = IF n = 1 THEN NULL ELSE content[n]
  <2>1. links[head].next = Item(content, 2)
    BY <1>1 DEF DequeInv, Linking
  <2> QED
    BY <1>1, <2>1 DEF DequeInv, list_pop_front, TailAfterPop
<1>5. head' = Item(content', 1) /\ tail' = Item(content', Len(content'))
  <2>1. CASE n = 1
    BY <1>1, <1>2, <1>4, <2>1 DEF Item
  <2>2. CASE n # 1
    <3>1. 1 \in 1..(n - 1) /\ n - 1 \in 1..(n - 1) /\ 2 \in 1..n /\ (n - 1) + 1 = n
      BY <1>1, <2>2
    <3> QED
      BY <1>1, <1>2, <1>4, <2>2, <3>1 DEF Item
  <2> QED
    BY <2>1, <2>2
<1>6. free' = Items \ {content'[k] : k \in DOMAIN content'}
  <2> DEFINE C == {content[k] : k \in DOMAIN content}
             D == {content'[k] : k \in DOMAIN content'}
  <2>1. ASSUME NEW k \in 1..n, k # 1 PROVE content[k] \in D
    <3>1. k - 1 \in 1..(n - 1) /\ (k - 1) + 1 = k
      BY <1>1, <2>1
    <3> QED
      BY <1>2, <3>1
  <2>2. ASSUME NEW m \in 1..(n - 1)
        PROVE  content'[m] # content[1] /\ content'[m] \in C
    <3>1. m + 1 \in 1..n /\ 1 \in 1..n /\ m + 1 # 1 /\ content'[m] = content[m + 1]
      BY <1>1, <1>2
    <3> QED
      BY <1>1, <3>1 DEF DequeInv, Injective
  <2>3. D \subseteq C \ {content[1]}
    BY <1>2, <2>2
  <2>4. C \ {content[1]} \subseteq D
    BY <1>1, <2>1
  <2>5. free' = (Items \ C) \cup {content[1]} /\ content[1] \in Items
    BY <1>1, <1>4 DEF DequeInv
  <2>6. content[1] \in C
    BY <1>1
  <2> HIDE DEF C, D
  <2>7. free' = Items \ D
    BY <2>3, <2>4, <2>5, <2>6
  <2> QED
    BY <2>7 DEF D
<1>7. /\ links' \in [Items -> Nodes]
      /\ \A j \in Items \ {head'} : links'[j] = links[j]
      /\ head' # NULL => links'[head'].prev = NULL
                         /\ links'[head'].next = links[head'].next
  <2>1. head' \in Items \cup {NULL} /\ links \in [Items -> Nodes]
    BY <1>1, <1>4 DEF Item, DequeInv
  <2> QED
    BY <1>4, <2>1, LinkedIs
<1>8. Linking(content', links')
  <2> SUFFICES ASSUME NEW k \in 1..(n - 1)
               PROVE  /\ links'[content'[k]].next = Item(content', k + 1)
                      /\ links'[content'[k]].prev = Item(content', k - 1)
    BY <1>2 DEF Linking
  <2>1. /\ k + 1 \in 1..n /\ content'[k] = content[k + 1] /\ content'[k] \in Items
        /\ links[content'[k]].next = Item(content, (k + 1) + 1)
        /\ links[content'[k]].prev = Item(content, (k + 1) - 1)
    <3>1. k + 1 \in 1..n /\ content'[k] = content[k + 1]
      BY <1>2
    <3>2. \A m \in 1..n : /\ links[content[m]].next = Item(content, m + 1)
                          /\ links[content[m]].prev = Item(content, m - 1)
      BY <1>1 DEF DequeInv, Linking
    <3> QED
      BY <1>1, <3>1, <3>2
  <2>2. Item(content, (k + 1) + 1) = Item(content', k + 1)
    BY <1>1, <1>2 DEF Item
  <2>3. links'[content'[k]].next = Item(content', k + 1)
    BY <1>1, <1>7, <2>1, <2>2
  <2>4. CASE k = 1
    <3>1. content'[k] = head' /\ head' # NULL
      BY <1>1, <1>4, <2>1, <2>4 DEF Item
    <3>2. Item(content', k - 1) = NULL
      BY <1>2, <2>4 DEF Item
    <3> QED
      BY <1>7, <2>3, <3>1, <3>2
  <2>5. CASE k # 1
    <3>1. content'[k] # head'
      <4>1. 2 \in 1..n /\ k + 1 # 2
        BY <1>1, <2>5
      <4>2. head' = content[2] /\ content'[k] = content[k + 1]
        BY <1>1, <1>4, <2>1, <4>1 DEF Item
      <4> QED
        BY <1>1, <2>1, <4>1, <4>2 DEF DequeInv, Injective
    <3>2. Item(content, (k + 1) - 1) = Item(content', k - 1)
      <4>1. k \in 1..n /\ k - 1 \in 1..(n - 1) /\ (k - 1) + 1 = k /\ (k + 1) - 1 = k
        BY <1>1, <2>5
      <4> QED
        BY <1>1, <1>2, <4>1 DEF Item
    <3> QED
      BY <1>7, <2>1, <2>3, <3>1, <3>2
  <2> QED
    BY <2>4, <2>5
<1> QED
  BY <1>2, <1>3, <1>4, <1>5, <1>6, <1>7, <1>8 DEF DequeInv

LEMMA PopBackKeeps ==
  ASSUME DequeInv, list_pop_back
  PROVE  DequeInv'
<1> DEFINE n == Len(content)
<1>1. /\ n \in Nat /\ n > 0 /\ DOMAIN content = 1..n /\ content \in Seq(Items)
      /\ \A k \in 1..n : content[k] \in Items
      /\ NULL \notin Items
      /\ head = content[1] /\ tail = content[n]
  <2>1. n \in Nat /\ n > 0 /\ DOMAIN content = 1..n /\ content \in Seq(Items)
    BY LenProperties DEF DequeInv, list_pop_back
  <2> QED
    BY <2>1, ItemsAssumption DEF DequeInv, Item
<1>2. /\ content' \in Seq(Items) /\ Len(content') = n - 1
      /\ DOMAIN content' = 1..(n - 1)
      /\ \A k \in 1..(n - 1) : k \in 1..n /\ content'[k] = content[k]
  <2>1. content' = SubSeq(content, 1, n - 1)
    BY DEF list_pop_back, Front
  <2>2. \A k \in 1..(n - 1) : content[k] \in Items
    BY <1>1
  <2>3. SubSeq(content, 1, n - 1) = [k \in 1..(n - 1) |-> content[k]]
    BY <1>1
  <2>4. [k \in 1..(n - 1) |-> content[k]] \in Seq(Items)
    BY <1>1, <2>2
  <2> QED
    BY <1>1, <2>1, <2>3, <2>4
<1>3. Injective(content')
  <2> SUFFICES ASSUME NEW i \in 1..(n - 1), NEW j \in 1..(n - 1),
                      content'[i] = content'[j]
               PROVE  i = j
    BY <1>2 DEF Injective
  <2>1. content[i] = content[j] /\ i \in 1..n /\ j \in 1..n
    BY <1>2
  <2> QED
    BY <1>1, <2>1 DEF DequeInv, Injective
<1>4. /\ tail' = Item(content, n - 1) /\ links' = Linked(links, tail', "next", NULL)
      /\ free' = free \cup {content[n]} /\ size' = n - 1
      /\ head' = IF n = 1 THEN NULL ELSE content[1]
  <2>1. links[tail].prev = Item(content, n - 1)
    BY <1>1 DEF DequeInv, Linking
  <2> QED
    BY <1>1, <2>1 DEF DequeInv, list_pop_back
<1>5. head' = Item(content', 1) /\ tail' = Item(content', Len(content'))
  <2>1. CASE n = 1
    BY <1>1, <1>2, <1>4, <2>1 DEF Item
  <2>2. CASE n # 1
    <3>1. 1 \in 1..(n - 1) /\ n - 1 \in 1..(n - 1) /\ n - 1 \in 1..n
      BY <1>1, <2>2
    <3> QED
      BY <1>1, <1>2, <1>4, <2>2, <3>1 DEF Item
  <2> QED
    BY <2>1, <2>2
<1>6. free' = Items \ {content'[k] : k \in DOMAIN content'}
  <2> DEFINE C == {content[k] : k \in DOMAIN content}
             D == {content'[k] : k \in DOMAIN content'}
  <2>1. ASSUME NEW k \in 1..n, k # n PROVE content[k] \in D
    <3> HIDE DEF n
    <3>1. k \in 1..(n - 1)
      BY <1>1, <2>1
    <3> QED
      BY <1>2, <3>1
  <2>2. ASSUME NEW m \in 1..(n - 1)
        PROVE  content'[m] # content[n] /\ content'[m] \in C
    <3>1. m \in 1..n /\ n \in 1..n /\ m # n /\ content'[m] = content[m]
      <4> HIDE DEF n
      <4> QED
        BY <1>1, <1>2
    <3> QED
      BY <1>1, <3>1 DEF DequeInv, Injective
  <2>3. D \subseteq C \ {content[n]}
    BY <1>2, <2>2
  <2>4. C \ {content[n]} \subseteq D
    BY <1>1, <2>1
  <2>5. free' = (Items \ C) \cup {content[n]} /\ content[n] \in Items
    BY <1>1, <1>4 DEF DequeInv
  <2>6. content[n] \in C
    BY <1>1
  <2> HIDE DEF C, D
  <2>7. free' = Items \ D
    BY <2>3, <2>4, <2>5, <2>6
  <2> QED
    BY <2>7 DEF D
<1>7. /\ links' \in [Items -> Nodes]
      /\ \A j \in Items \ {tail'} : links'[j] = links[j]
      /\ tail' # NULL => links'[tail'].next = NULL
                         /\ links'[tail'].prev = links[tail'].prev
  <2>1. tail' \in Items \cup {NULL} /\ links \in [Items -> Nodes]
    BY <1>1, <1>4 DEF Item, DequeInv
  <2> QED
    BY <1>4, <2>1, LinkedIs
<1>8. Linking(content', links')
  <2> SUFFICES ASSUME NEW k \in 1..(n - 1)
               PROVE  /\ links'[content'[k]].next = Item(content', k + 1)
                      /\ links'[content'[k]].prev = Item(content', k - 1)
    BY <1>2 DEF Linking
  <2>1. /\ k \in 1..n /\ content'[k] = content[k] /\ content'[k] \in Items
        /\ links[content'[k]].next = Item(content, k + 1)
        /\ links[content'[k]].prev = Item(content, k - 1)
    BY <1>1, <1>2 DEF DequeInv, Linking
  <2>2. Item(content, k - 1) = Item(content', k - 1)
    BY <1>1, <1>2 DEF Item
  <2>3. links'[content'[k]].prev = Item(content', k - 1)
    BY <1>1, <1>7, <2>1, <2>2
  <2>4. CASE k = n - 1
    <3>1. content'[k] = tail' /\ tail' # NULL
      BY <1>1, <1>4, <2>1, <2>4 DEF Item
    <3>2. Item(content', k + 1) = NULL
      BY <1>1, <1>2, <2>4 DEF Item
    <3> QED
      BY <1>7, <2>3, <3>1, <3>2
  <2>5. CASE k # n - 1
    <3>1. n - 1 \in 1..n /\ k + 1 \in 1..n /\ k + 1 \in 1..(n - 1)
      <4> HIDE DEF n
      <4> QED
        BY <1>1, <2>5
    <3>2. content'[k] # tail'
      <4>1. tail' = content[n - 1]
        BY <1>1, <1>4, <3>1 DEF Item
      <4> QED
        BY <1>1, <2>1, <2>5, <3>1, <4>1 DEF DequeInv, Injective
    <3>3. Item(content, k + 1) = Item(content', k + 1)
      BY <1>1, <1>2, <3>1 DEF Item
    <3> QED
      BY <1>7, <2>1, <2>3, <3>2, <3>3
  <2> QED
    BY <2>4, <2>5
<1> QED
  BY <1>2, <1>3, <1>4, <1>5, <1>6, <1>7, <1>8 DEF DequeInv

LEMMA InitDeque == ListInit => DequeInv
<1> SUFFICES ASSUME ListInit PROVE DequeInv
  OBVIOUS
<1>1. content = <<>> /\ content \in Seq(Items) /\ DOMAIN content = {} /\ Len(content) = 0
  BY DEF ListInit
<1>2. links \in [Items -> Nodes]
  <2>1. [prev |-> NULL, next |-> NULL] \in Nodes
    BY DEF Nodes
  <2> QED
    BY <2>1 DEF ListInit
<1> QED
  BY <1>1, <1>2 DEF ListInit, DequeInv, Injective, Linking, Item

(* From either end, the links lead along the whole list and to its end.    *)
LEMMA DequeIsWalked == DequeInv => ListIsDeque
<1> SUFFICES ASSUME DequeInv PROVE ListIsDeque
  OBVIOUS
<1> DEFINE n    == Len(content)
           back == Reverse(content)
<1>1. /\ n \in Nat /\ DOMAIN content = 1..n /\ content \in Seq(Items)
      /\ \A k \in 1..n : content[k] \in Items
  BY LenProperties DEF DequeInv
<1>2. n <= Cardinality(Items)
  <2>1. content \in [1..n -> Items]
    BY <1>1
  <2>2. content \in Injection(1..n, Items)
    BY <1>1, <2>1 DEF Injection, IsInjective, DequeInv, Injective
  <2>3. Cardinality(1..n) <= Cardinality(Items)
    BY <2>2, FS_Injection, ItemsAssumption, Zenon
  <2> HIDE DEF n
  <2>4. Cardinality(1..n) = n
    <3>1. Cardinality(1..n) = IF 1 > n THEN 0 ELSE n - 1 + 1
      BY <1>1, FS_Interval
    <3> QED
      BY <1>1, <3>1
  <2> QED
    BY <2>3, <2>4
<1>3. Walk(links, head, "next") = content
  <2>1. \A k \in DOMAIN content : links[content[k]]["next"] = Item(content, k + 1)
    BY DEF DequeInv, Linking
  <2>2. Walk(links, Item(content, 1), "next") = content
    BY <1>1, <1>2, <2>1, WalkIs
  <2> QED
    BY <2>2 DEF DequeInv
<1>4. Walk(links, tail, "prev") = back
  <2>1. back = [k \in 1..n |-> content[(n - k) + 1]]
    BY DEF Reverse
  <2>2. \A k \in 1..n : (n - k) + 1 \in 1..n
    BY <1>1
  <2>3. back \in Seq(Items) /\ Len(back) = n /\ DOMAIN back = 1..n
    BY <1>1, <2>1, <2>2
  <2>4. \A k \in 1..n : back[k] = content[(n - k) + 1]
    BY <2>1
  <2>5. ASSUME NEW k \in 1..n
        PROVE  links[back[k]]["prev"] = Item(back, k + 1)
    <3>1. links[back[k]]["prev"] = Item(content, ((n - k) + 1) - 1)
      BY <1>1, <2>2, <2>4 DEF DequeInv, Linking
    <3>2. ((n - k) + 1) - 1 = n - k
      BY <1>1
    <3>3. Item(content, n - k) = Item(back, k + 1)
      <4>1. CASE k = n
        BY <1>1, <2>3, <4>1 DEF Item
      <4>2. CASE k # n
        <5>1. k + 1 \in 1..n /\ n - k \in 1..n /\ (n - (k + 1)) + 1 = n - k
          <6> HIDE DEF n
          <6> QED
            BY <1>1, <4>2
        <5> QED
          BY <1>1, <2>3, <2>4, <5>1 DEF Item
      <4> QED
        BY <4>1, <4>2
    <3> QED
      BY <3>1, <3>2, <3>3
  <2>6. tail = Item(back, 1)
    <3>1. CASE n = 0
      BY <1>1, <2>3, <3>1 DEF DequeInv, Item
    <3>2. CASE n # 0
      <4>1. 1 \in 1..n /\ n \in 1..n /\ (n - 1) + 1 = n
        BY <1>1, <3>2
      <4>2. back[1] = content[n]
        BY <2>4, <4>1
      <4> QED
        BY <1>1, <2>3, <4>1, <4>2 DEF DequeInv, Item
    <3> QED
      BY <3>1, <3>2
  <2> HIDE DEF back
  <2>7. Walk(links, Item(back, 1), "prev") = back
    BY <1>2, <2>3, <2>5, WalkIs
  <2> QED
    BY <2>6, <2>7
<1> QED
  BY <1>3, <1>4 DEF ListIsDeque, DequeInv

(* The queue of lockqueue.c, worked by two threads, is at any time the     *)
(* list that was put in and not taken out, from either end, and no item is *)
(* in it twice, though one is freed at one end and used again at the other.*)
THEOREM QueueIsDeque == QueueSpec => []ListIsDeque
<1>1. QueueInit => DequeInv
  BY InitDeque DEF QueueInit
<1>2. DequeInv /\ [QueueNext]_queuevars => DequeInv'
  <2> SUFFICES ASSUME DequeInv, [QueueNext]_queuevars PROVE DequeInv'
    OBVIOUS
  <2>1. CASE UNCHANGED itemvars
    BY <2>1 DEF DequeInv, itemvars, Injective, Linking, Item, Nodes
  <2>2. CASE lockqueue_push
    BY <2>2, PushFrontKeeps, PushBackKeeps DEF lockqueue_push
  <2>3. CASE lockqueue_pop_back
    BY <2>3, PopFrontKeeps DEF lockqueue_pop_back
  <2>4. CASE lockqueue_pop
    BY <2>1, <2>4, PopBackKeeps DEF lockqueue_pop
  <2>5. CASE cond_wake \/ cond_wait \/ lockqueue_empty \/ Spurious
    BY <2>1, <2>5 DEF cond_wake, cond_wait, lockqueue_empty, Spurious
  <2>6. CASE UNCHANGED queuevars
    BY <2>1, <2>6 DEF queuevars
  <2> QED
    BY <2>2, <2>3, <2>4, <2>5, <2>6 DEF QueueNext, Consumer
<1> QED
  BY <1>1, <1>2, DequeIsWalked, PTL DEF QueueSpec

-----------------------------------------------------------------------------
(* timer.c: the list of a sequence of timers.                              *)
Lists == [first  : Timers \cup {NULL},
          next   : [Timers -> Timers \cup {NULL}],
          timeMs : [Timers -> Nat]]

(* The links of l lead along q, which holds the active timers, sorted.     *)
IsList(l, q) ==
  /\ q \in Seq(Timers) /\ Injective(q)
  /\ l.first = Item(q, 1)
  /\ \A k \in DOMAIN q : l.next[q[k]] = Item(q, k + 1)
  /\ \A t \in Timers : l.timeMs[t] # 0 <=> \E k \in DOMAIN q : q[k] = t
  /\ \A i, j \in DOMAIN q : i <= j => l.timeMs[q[i]] <= l.timeMs[q[j]]

TimerCount == Cardinality(Timers)

LEMMA SeqFacts ==
  ASSUME NEW q \in Seq(Timers), Injective(q)
  PROVE  /\ TimerCount \in Nat /\ NULL \notin Timers
         /\ Len(q) \in Nat /\ DOMAIN q = 1..Len(q)
         /\ \A k \in 1..Len(q) : q[k] \in Timers
         /\ Len(q) <= TimerCount
<1> DEFINE n == Len(q)
<1>1. TimerCount \in Nat /\ NULL \notin Timers
  BY TimersAssumption, FS_CardinalityType DEF TimerCount
<1>2. n \in Nat /\ DOMAIN q = 1..n /\ \A k \in 1..n : q[k] \in Timers
  BY LenProperties
<1>3. q \in Injection(1..n, Timers)
  BY <1>2 DEF Injection, IsInjective, Injective
<1>4. Cardinality(1..n) <= Cardinality(Timers)
  BY <1>3, FS_Injection, TimersAssumption, Zenon
<1> HIDE DEF n
<1>5. Cardinality(1..n) = n
  <2>1. Cardinality(1..n) = IF 1 > n THEN 0 ELSE n - 1 + 1
    BY <1>2, FS_Interval
  <2> QED
    BY <1>2, <2>1
<1> QED
  BY <1>1, <1>2, <1>4, <1>5 DEF n, TimerCount

(* The walk of the code along the links. *)
LEMMA NodeIs ==
  ASSUME NEW l, NEW q, IsList(l, q)
  PROVE  Node(l) = [n \in 0..TimerCount |-> Item(q, n + 1)]
<1> DEFINE g    == [n \in 0..TimerCount |-> Item(q, n + 1)]
           node == CHOOSE node : node = [n \in 0..TimerCount |-> IF n = 0 THEN l.first
                     ELSE IF node[n - 1] = NULL THEN NULL ELSE l.next[node[n - 1]]]
<1>0. /\ TimerCount \in Nat /\ NULL \notin Timers /\ Len(q) \in Nat
      /\ DOMAIN q = 1..Len(q) /\ \A k \in 1..Len(q) : q[k] \in Timers
  BY SeqFacts DEF IsList
<1>1. g = [n \in 0..TimerCount |-> IF n = 0 THEN l.first
             ELSE IF g[n - 1] = NULL THEN NULL ELSE l.next[g[n - 1]]]
  <2>1. ASSUME NEW n \in 0..TimerCount
        PROVE  Item(q, n + 1) = IF n = 0 THEN l.first
                 ELSE IF g[n - 1] = NULL THEN NULL ELSE l.next[g[n - 1]]
    <3>1. CASE n = 0
      BY <3>1 DEF IsList
    <3>2. CASE n # 0
      <4>1. n - 1 \in 0..TimerCount /\ n \in Nat
        BY <1>0, <3>2
      <4>2. g[n - 1] = Item(q, n)
        BY <4>1
      <4>3. CASE n \in DOMAIN q
        <5>1. q[n] # NULL /\ l.next[q[n]] = Item(q, n + 1)
          BY <1>0, <4>3 DEF IsList
        <5> QED
          BY <3>2, <4>2, <4>3, <5>1 DEF Item
      <4>4. CASE n \notin DOMAIN q
        <5>1. n + 1 \notin DOMAIN q
          BY <1>0, <3>2, <4>1, <4>4
        <5> QED
          BY <3>2, <4>2, <4>4, <5>1 DEF Item
      <4> QED
        BY <4>3, <4>4
    <3> QED
      BY <3>1, <3>2
  <2> QED
    BY <2>1
<1>2. Node(l) = node
  BY DEF Node, TimerCount
<1>3. node = [n \in 0..TimerCount |-> IF n = 0 THEN l.first
                ELSE IF node[n - 1] = NULL THEN NULL ELSE l.next[node[n - 1]]]
  BY <1>1
<1>4. g = [n \in 0..TimerCount |-> g[n]]
  OBVIOUS
<1> HIDE DEF node, g
<1>5. node[0] = g[0]
  BY <1>0, <1>1, <1>3
<1>6. \A n \in 1..TimerCount : node[n] = IF node[n - 1] = NULL THEN NULL ELSE l.next[node[n - 1]]
  BY <1>0, <1>3
<1>7. \A n \in 1..TimerCount : g[n] = IF g[n - 1] = NULL THEN NULL ELSE l.next[g[n - 1]]
  BY <1>0, <1>1
<1>8. node = [n \in 0..TimerCount |-> node[n]]
  BY <1>3
<1>9. \A n \in 0..TimerCount : node[n] = g[n]
  <2>1. \A n \in 1..TimerCount : node[n - 1] = g[n - 1] => node[n] = g[n]
    BY <1>6, <1>7
  <2>2. node[0] = g[0] /\ TimerCount \in Nat
    BY <1>0, <1>5
  <2> HIDE DEF TimerCount
  <2> QED
    BY <2>1, <2>2, SameUpTo
<1>10. [n \in 0..TimerCount |-> node[n]] = [n \in 0..TimerCount |-> g[n]]
  BY <1>9
<1>11. node = [n \in 0..TimerCount |-> g[n]]
  BY <1>8, <1>10, Zenon
<1>12. Node(l) = g
  BY <1>2, <1>4, <1>11, Zenon
<1> QED
  BY <1>12 DEF g

-----------------------------------------------------------------------------
(* The sequence without its item m, and with t behind its first n items.   *)
Dropped(q, m) ==
  [k \in 1..(Len(q) - 1) |-> IF k < m THEN q[k] ELSE q[k + 1]]
Inserted(q, n, t) ==
  [k \in 1..(Len(q) + 1) |->
     IF k <= n THEN q[k] ELSE IF k = n + 1 THEN t ELSE q[k - 1]]

LEMMA DroppedIs ==
  ASSUME NEW q \in Seq(Timers), Injective(q), NEW m \in DOMAIN q
  PROVE  /\ Len(q) \in Nat \ {0} /\ m \in 1..Len(q) /\ DOMAIN q = 1..Len(q)
         /\ Dropped(q, m) \in Seq(Timers) /\ Injective(Dropped(q, m))
         /\ Len(Dropped(q, m)) = Len(q) - 1
         /\ DOMAIN Dropped(q, m) = 1..(Len(q) - 1)
         /\ \A k \in 1..(Len(q) - 1) :
              Dropped(q, m)[k] = IF k < m THEN q[k] ELSE q[k + 1]
         /\ \A t \in Timers : (\E k \in DOMAIN Dropped(q, m) : Dropped(q, m)[k] = t)
                                <=> t # q[m] /\ \E k \in DOMAIN q : q[k] = t
<1> DEFINE n == Len(q)
           p == Dropped(q, m)
<1>1. n \in Nat \ {0} /\ m \in 1..n /\ DOMAIN q = 1..n /\ \A k \in 1..n : q[k] \in Timers
  BY LenProperties
<1>2. /\ p = [k \in 1..(n - 1) |-> IF k < m THEN q[k] ELSE q[k + 1]]
      /\ DOMAIN p = 1..(n - 1)
      /\ \A k \in 1..(n - 1) : p[k] = IF k < m THEN q[k] ELSE q[k + 1]
  BY DEF Dropped
<1>3. \A i, j \in 1..n : q[i] = q[j] => i = j
  BY <1>1 DEF Injective
<1> HIDE DEF n, p
<1>4. n - 1 \in Nat /\ \A k \in 1..(n - 1) : k \in 1..n /\ k + 1 \in 1..n
  BY <1>1
<1>5. \A k \in 1..(n - 1) : p[k] \in Timers
  BY <1>1, <1>2, <1>4
<1>6. p \in Seq(Timers) /\ Len(p) = n - 1
  <2>1. p \in [1..(n - 1) -> Timers]
    BY <1>2, <1>5
  <2> QED
    BY <1>4, <2>1, LenProperties, SeqDef
<1>7. Injective(p)
  <2> SUFFICES ASSUME NEW i \in 1..(n - 1), NEW j \in 1..(n - 1), p[i] = p[j]
               PROVE  i = j
    BY <1>2 DEF Injective
  <2> QED
    BY <1>1, <1>2, <1>3, <1>4
<1>8. ASSUME NEW t \in Timers
      PROVE  (\E k \in DOMAIN p : p[k] = t) <=> t # q[m] /\ \E k \in DOMAIN q : q[k] = t
  <2>1. ASSUME NEW k \in 1..(n - 1), p[k] = t
        PROVE  t # q[m] /\ \E i \in 1..n : q[i] = t
    BY <1>1, <1>2, <1>3, <1>4, <2>1
  <2>2. ASSUME NEW i \in 1..n, q[i] = t, t # q[m]
        PROVE  \E k \in 1..(n - 1) : p[k] = t
    <3>1. CASE i < m
      <4>1. i \in 1..(n - 1)
        BY <1>1, <3>1
      <4> QED
        BY <1>2, <2>2, <3>1, <4>1
    <3>2. CASE i > m
      <4>1. i - 1 \in 1..(n - 1) /\ ~(i - 1 < m) /\ (i - 1) + 1 = i
        BY <1>1, <3>2
      <4> QED
        BY <1>2, <2>2, <4>1
    <3> QED
      BY <1>1, <2>2, <3>1, <3>2
  <2> QED
    BY <1>1, <1>2, <2>1, <2>2
<1> QED
  BY <1>1, <1>2, <1>6, <1>7, <1>8 DEF n, p

LEMMA InsertedIs ==
  ASSUME NEW q \in Seq(Timers), Injective(q), NEW n \in 0..Len(q),
         NEW t \in Timers, \A k \in DOMAIN q : q[k] # t
  PROVE  /\ Len(q) \in Nat /\ DOMAIN q = 1..Len(q)
         /\ Inserted(q, n, t) \in Seq(Timers) /\ Injective(Inserted(q, n, t))
         /\ Len(Inserted(q, n, t)) = Len(q) + 1
         /\ DOMAIN Inserted(q, n, t) = 1..(Len(q) + 1)
         /\ \A k \in 1..(Len(q) + 1) :
              Inserted(q, n, t)[k] =
                IF k <= n THEN q[k] ELSE IF k = n + 1 THEN t ELSE q[k - 1]
         /\ \A s \in Timers : (\E k \in DOMAIN Inserted(q, n, t) : Inserted(q, n, t)[k] = s)
                                <=> s = t \/ \E k \in DOMAIN q : q[k] = s
<1> DEFINE len == Len(q)
           p   == Inserted(q, n, t)
<1>1. len \in Nat /\ n \in 0..len /\ DOMAIN q = 1..len /\ \A k \in 1..len : q[k] \in Timers
  BY LenProperties
<1>2. /\ DOMAIN p = 1..(len + 1)
      /\ \A k \in 1..(len + 1) :
           p[k] = IF k <= n THEN q[k] ELSE IF k = n + 1 THEN t ELSE q[k - 1]
      /\ p = [k \in 1..(len + 1) |-> p[k]]
  BY DEF Inserted
<1>3. \A i, j \in 1..len : (q[i] = q[j] => i = j) /\ q[i] # t
  BY <1>1 DEF Injective
<1> HIDE DEF len, p
<1>4. \A k \in 1..(len + 1) : /\ k <= n => k \in 1..len
                              /\ k > n + 1 => k - 1 \in 1..len
                              /\ k \in Nat
  BY <1>1
<1>5. \A k \in 1..(len + 1) : p[k] \in Timers
  BY <1>1, <1>2, <1>4
<1>6. p \in Seq(Timers) /\ Len(p) = len + 1
  <2>1. p \in [1..(len + 1) -> Timers] /\ len + 1 \in Nat
    BY <1>1, <1>2, <1>5
  <2> QED
    BY <2>1, LenProperties, SeqDef
<1>7. Injective(p)
  <2> SUFFICES ASSUME NEW i \in 1..(len + 1), NEW j \in 1..(len + 1), p[i] = p[j]
               PROVE  i = j
    BY <1>2 DEF Injective
  <2> QED
    BY <1>1, <1>2, <1>3, <1>4
<1>8. ASSUME NEW s \in Timers
      PROVE  (\E k \in DOMAIN p : p[k] = s) <=> s = t \/ \E k \in DOMAIN q : q[k] = s
  <2>1. ASSUME NEW k \in 1..(len + 1), p[k] = s
        PROVE  s = t \/ \E i \in 1..len : q[i] = s
    BY <1>1, <1>2, <1>4, <2>1
  <2>2. ASSUME NEW i \in 1..len, q[i] = s
        PROVE  \E k \in 1..(len + 1) : p[k] = s
    <3>1. CASE i <= n
      <4>1. i \in 1..(len + 1)
        BY <1>1
      <4> QED
        BY <1>2, <2>2, <3>1, <4>1
    <3>2. CASE i > n
      <4>1. i + 1 \in 1..(len + 1) /\ ~(i + 1 <= n) /\ i + 1 # n + 1 /\ (i + 1) - 1 = i
        BY <1>1, <3>2
      <4> QED
        BY <1>2, <2>2, <4>1
    <3> QED
      BY <1>1, <3>1, <3>2
  <2>3. n + 1 \in 1..(len + 1) /\ p[n + 1] = t
    BY <1>1, <1>2
  <2> QED
    BY <1>1, <1>2, <2>1, <2>2, <2>3
<1> QED
  BY <1>1, <1>2, <1>6, <1>7, <1>8 DEF len, p

(* The links once the item m is taken out: the one before it, the head if  *)
(* it is the first, leads to the one behind it.                            *)
LEMMA Unlinked ==
  ASSUME NEW l \in Lists, NEW q, IsList(l, q), NEW m \in DOMAIN q,
         NEW l2 \in Lists,
         l2.first = IF m = 1 THEN l.next[q[1]] ELSE l.first,
         m # 1 => l2.next[q[m - 1]] = l.next[q[m]],
         \A k \in DOMAIN q : k # m /\ k # m - 1 => l2.next[q[k]] = l.next[q[k]],
         l2.timeMs = [l.timeMs EXCEPT ![q[m]] = 0]
  PROVE  IsList(l2, Dropped(q, m))
<1> DEFINE n == Len(q)
           p == Dropped(q, m)
<1>0. q \in Seq(Timers) /\ Injective(q) /\ \A k \in DOMAIN q : q[k] \in Timers
  BY LenProperties DEF IsList
<1>1. /\ n \in Nat \ {0} /\ m \in 1..n /\ DOMAIN q = 1..n
      /\ p \in Seq(Timers) /\ Injective(p) /\ DOMAIN p = 1..(n - 1)
      /\ \A k \in 1..(n - 1) : p[k] = IF k < m THEN q[k] ELSE q[k + 1]
      /\ \A t \in Timers : (\E k \in DOMAIN p : p[k] = t)
                             <=> t # q[m] /\ \E k \in DOMAIN q : q[k] = t
  BY <1>0, DroppedIs
<1> HIDE DEF n, p
<1>2. l2.first = Item(p, 1)
  <2>1. CASE m = 1
    <3>1. l2.first = Item(q, 2)
      BY <1>1, <2>1 DEF IsList
    <3>2. Item(q, 2) = Item(p, 1)
      BY <1>1, <2>1 DEF Item
    <3> QED
      BY <3>1, <3>2
  <2>2. CASE m # 1
    <3>1. 1 \in 1..n /\ 1 \in 1..(n - 1) /\ 1 < m
      BY <1>1, <2>2
    <3>2. Item(q, 1) = Item(p, 1)
      BY <1>1, <3>1 DEF Item
    <3> QED
      BY <2>2, <3>2 DEF IsList
  <2> QED
    BY <2>1, <2>2
<1>3. ASSUME NEW k \in DOMAIN p PROVE l2.next[p[k]] = Item(p, k + 1)
  <2>0. k \in 1..(n - 1) /\ k \in 1..n /\ k + 1 \in 1..n /\ k \in Nat /\ n \in Nat /\ m \in Nat
    BY <1>1
  <2>1. CASE k < m - 1
    <3>1. p[k] = q[k] /\ p[k + 1] = q[k + 1] /\ k + 1 \in 1..(n - 1)
      BY <1>1, <2>0, <2>1
    <3>2. l2.next[q[k]] = Item(q, k + 1)
      BY <1>1, <2>0, <2>1 DEF IsList
    <3> QED
      BY <1>1, <2>0, <3>1, <3>2 DEF Item
  <2>2. CASE k = m - 1
    <3>1. p[k] = q[m - 1] /\ m # 1 /\ k + 1 = m
      BY <1>1, <2>0, <2>2
    <3>2. l2.next[p[k]] = Item(q, m + 1)
      BY <1>1, <3>1 DEF IsList
    <3>3. Item(q, m + 1) = Item(p, k + 1)
      <4>1. CASE m = n
        BY <1>1, <2>0, <3>1, <4>1 DEF Item
      <4>2. CASE m # n
        <5>1. m \in 1..(n - 1) /\ m + 1 \in 1..n
          BY <1>1, <4>2
        <5> QED
          BY <1>1, <3>1, <5>1 DEF Item
      <4> QED
        BY <4>1, <4>2
    <3> QED
      BY <3>2, <3>3
  <2>3. CASE k >= m
    <3>1. p[k] = q[k + 1] /\ k + 1 # m /\ k + 1 # m - 1
      BY <1>1, <2>0, <2>3
    <3>2. l2.next[p[k]] = Item(q, (k + 1) + 1)
      BY <1>1, <2>0, <3>1 DEF IsList
    <3>3. Item(q, (k + 1) + 1) = Item(p, k + 1)
      <4>1. CASE k + 1 = n
        BY <1>1, <2>0, <4>1 DEF Item
      <4>2. CASE k + 1 # n
        <5>1. k + 1 \in 1..(n - 1) /\ (k + 1) + 1 \in 1..n /\ ~(k + 1 < m)
          BY <1>1, <2>0, <2>3, <4>2
        <5> QED
          BY <1>1, <5>1 DEF Item
      <4> QED
        BY <4>1, <4>2
    <3> QED
      BY <3>2, <3>3
  <2> QED
    BY <2>0, <2>1, <2>2, <2>3
<1>4. /\ l.timeMs \in [Timers -> Nat] /\ l2.timeMs[q[m]] = 0
      /\ \A t \in Timers : t # q[m] => l2.timeMs[t] = l.timeMs[t]
  <2>1. l.timeMs \in [Timers -> Nat] /\ q[m] \in Timers
    BY <1>0 DEF Lists
  <2> QED
    BY <2>1
<1>5. ASSUME NEW t \in Timers
      PROVE  l2.timeMs[t] # 0 <=> \E k \in DOMAIN p : p[k] = t
  BY <1>1, <1>4 DEF IsList
<1>6. ASSUME NEW i \in DOMAIN p, NEW j \in DOMAIN p, i <= j
      PROVE  l2.timeMs[p[i]] <= l2.timeMs[p[j]]
  <2>1. \A k \in 1..(n - 1) : k \in Nat /\ k \in 1..n /\ k + 1 \in 1..n
    BY <1>1
  <2>2. PICK a \in 1..n : p[i] = q[a] /\ a = IF i < m THEN i ELSE i + 1
    BY <1>1, <2>1
  <2>3. PICK b \in 1..n : p[j] = q[b] /\ b = IF j < m THEN j ELSE j + 1
    BY <1>1, <2>1
  <2>4. a <= b /\ a # m /\ b # m
    BY <1>1, <1>6, <2>1, <2>2, <2>3
  <2>5. q[a] # q[m] /\ q[b] # q[m] /\ q[a] \in Timers /\ q[b] \in Timers
    BY <1>0, <1>1, <2>4 DEF Injective
  <2>6. l.timeMs[q[a]] <= l.timeMs[q[b]]
    BY <1>1, <2>4 DEF IsList
  <2> QED
    BY <1>4, <2>2, <2>3, <2>5, <2>6
<1> QED
  BY <1>1, <1>2, <1>3, <1>5, <1>6 DEF IsList, p

(* The links once t is put in behind the first n items, none of which has  *)
(* a later deadline, before the others, none of which has an earlier one.  *)
LEMMA PutIn ==
  ASSUME NEW l \in Lists, NEW q, IsList(l, q), NEW n \in 0..Len(q),
         NEW t \in Timers, \A k \in DOMAIN q : q[k] # t,
         NEW time \in Nat \ {0},
         \A k \in DOMAIN q : IF k <= n THEN l.timeMs[q[k]] <= time
                                       ELSE time <= l.timeMs[q[k]],
         NEW l2 \in Lists,
         l2.first = IF n = 0 THEN t ELSE l.first,
         n # 0 => l2.next[q[n]] = t,
         l2.next[t] = Item(q, n + 1),
         \A k \in DOMAIN q : k # n => l2.next[q[k]] = l.next[q[k]],
         l2.timeMs = [l.timeMs EXCEPT ![t] = time]
  PROVE  IsList(l2, Inserted(q, n, t))
<1> DEFINE len == Len(q)
           p   == Inserted(q, n, t)
<1>0. q \in Seq(Timers) /\ Injective(q) /\ \A k \in DOMAIN q : q[k] \in Timers
  BY LenProperties DEF IsList
<1>1. /\ len \in Nat /\ n \in 0..len /\ DOMAIN q = 1..len
      /\ p \in Seq(Timers) /\ Injective(p) /\ DOMAIN p = 1..(len + 1)
      /\ \A k \in 1..(len + 1) :
           p[k] = IF k <= n THEN q[k] ELSE IF k = n + 1 THEN t ELSE q[k - 1]
      /\ \A s \in Timers : (\E k \in DOMAIN p : p[k] = s)
                             <=> s = t \/ \E k \in DOMAIN q : q[k] = s
  BY <1>0, InsertedIs
<1> HIDE DEF len, p
<1>2. l2.first = Item(p, 1)
  <2>1. 1 \in 1..(len + 1)
    BY <1>1
  <2>2. CASE n = 0
    BY <1>1, <2>1, <2>2 DEF Item
  <2>3. CASE n # 0
    <3>1. 1 \in 1..len /\ 1 <= n
      BY <1>1, <2>3
    <3> QED
      BY <1>1, <2>1, <2>3, <3>1 DEF IsList, Item
  <2> QED
    BY <2>2, <2>3
<1>3. ASSUME NEW k \in DOMAIN p PROVE l2.next[p[k]] = Item(p, k + 1)
  <2>0. k \in 1..(len + 1) /\ k \in Nat /\ n \in Nat /\ len \in Nat /\ n <= len
    BY <1>1
  <2>1. CASE k < n
    <3>1. k \in 1..len /\ k + 1 \in 1..len /\ k + 1 \in 1..(len + 1) /\ k # n /\ k + 1 <= n
      BY <2>0, <2>1
    <3>2. l2.next[q[k]] = Item(q, k + 1)
      BY <1>1, <3>1 DEF IsList
    <3> QED
      BY <1>1, <2>0, <3>1, <3>2 DEF Item
  <2>2. CASE k = n
    <3>1. k + 1 \in 1..(len + 1) /\ ~(k + 1 <= n) /\ k + 1 = n + 1 /\ n # 0
      BY <2>0, <2>2
    <3> QED
      BY <1>1, <2>0, <2>2, <3>1 DEF Item
  <2>3. CASE k = n + 1
    <3>1. p[k] = t
      BY <1>1, <2>0, <2>3
    <3>2. Item(p, k + 1) = Item(q, n + 1)
      <4>1. CASE n = len
        BY <1>1, <2>0, <2>3, <4>1 DEF Item
      <4>2. CASE n # len
        <5>1. n + 1 \in 1..len /\ k + 1 \in 1..(len + 1) /\ ~(k + 1 <= n)
              /\ k + 1 # n + 1 /\ (k + 1) - 1 = n + 1
          BY <2>0, <2>3, <4>2
        <5> QED
          BY <1>1, <5>1 DEF Item
      <4> QED
        BY <4>1, <4>2
    <3> QED
      BY <3>1, <3>2
  <2>4. CASE k > n + 1
    <3>1. k - 1 \in 1..len /\ k - 1 # n /\ ~(k <= n) /\ k # n + 1 /\ (k - 1) + 1 = k
      BY <2>0, <2>4
    <3>2. p[k] = q[k - 1] /\ l2.next[p[k]] = Item(q, k)
      BY <1>1, <2>0, <3>1 DEF IsList
    <3>3. Item(p, k + 1) = Item(q, k)
      <4>1. CASE k = len + 1
        BY <1>1, <2>0, <4>1 DEF Item
      <4>2. CASE k # len + 1
        <5>1. k \in 1..len /\ k + 1 \in 1..(len + 1) /\ ~(k + 1 <= n)
              /\ k + 1 # n + 1 /\ (k + 1) - 1 = k
          BY <2>0, <2>4, <4>2
        <5> QED
          BY <1>1, <5>1 DEF Item
      <4> QED
        BY <4>1, <4>2
    <3> QED
      BY <3>2, <3>3
  <2> QED
    BY <2>0, <2>1, <2>2, <2>3, <2>4
<1>4. /\ l.timeMs \in [Timers -> Nat] /\ l2.timeMs[t] = time
      /\ \A s \in Timers : s # t => l2.timeMs[s] = l.timeMs[s]
  <2>1. l.timeMs \in [Timers -> Nat]
    BY DEF Lists
  <2> QED
    BY <2>1
<1>5. ASSUME NEW s \in Timers
      PROVE  l2.timeMs[s] # 0 <=> \E k \in DOMAIN p : p[k] = s
  BY <1>1, <1>4 DEF IsList
<1>6. ASSUME NEW i \in DOMAIN p, NEW j \in DOMAIN p, i <= j
      PROVE  l2.timeMs[p[i]] <= l2.timeMs[p[j]]
  <2>0. i \in 1..(len + 1) /\ j \in 1..(len + 1) /\ i \in Nat /\ j \in Nat /\ n \in Nat /\ len \in Nat
    BY <1>1
  <2>1. \A k \in 1..len : q[k] \in Timers /\ q[k] # t /\ l2.timeMs[q[k]] = l.timeMs[q[k]]
    BY <1>0, <1>1, <1>4
  <2>2. CASE i = n + 1
    <3>1. CASE j = n + 1
      BY <1>1, <1>4, <2>0, <2>2, <3>1
    <3>2. CASE j # n + 1
      <4>1. j - 1 \in 1..len /\ ~(j <= n) /\ ~(j - 1 <= n)
        BY <1>6, <2>0, <2>2, <3>2
      <4> QED
        BY <1>1, <1>4, <2>0, <2>1, <2>2, <3>2, <4>1
    <3> QED
      BY <3>1, <3>2
  <2>3. CASE i # n + 1
    <3>1. PICK a \in 1..len : p[i] = q[a] /\ a = IF i <= n THEN i ELSE i - 1
      <4>1. (IF i <= n THEN i ELSE i - 1) \in 1..len
        BY <1>1, <2>0, <2>3
      <4> QED
        BY <1>1, <2>0, <2>3, <4>1
    <3>2. CASE j = n + 1
      <4>1. i <= n
        BY <1>6, <2>0, <2>3, <3>2
      <4> QED
        BY <1>1, <1>4, <2>0, <2>1, <3>1, <3>2, <4>1
    <3>3. CASE j # n + 1
      <4>1. PICK b \in 1..len : p[j] = q[b] /\ b = IF j <= n THEN j ELSE j - 1
        <5>1. (IF j <= n THEN j ELSE j - 1) \in 1..len
          BY <1>1, <2>0, <3>3
        <5> QED
          BY <1>1, <2>0, <3>3, <5>1
      <4>2. a <= b
        BY <1>6, <2>0, <2>3, <3>1, <3>3, <4>1
      <4>3. l.timeMs[q[a]] <= l.timeMs[q[b]]
        BY <1>1, <4>2 DEF IsList
      <4> QED
        BY <2>1, <3>1, <4>1, <4>3
    <3> QED
      BY <3>2, <3>3
  <2> QED
    BY <2>2, <2>3
<1> QED
  BY <1>1, <1>2, <1>3, <1>5, <1>6 DEF IsList, p

-----------------------------------------------------------------------------
(* What *prev = t does, prev pointing at the place behind the first n.     *)
LEMMA SetPrevIs ==
  ASSUME NEW l \in Lists, NEW q, IsList(l, q), NEW n \in 0..Len(q),
         NEW t \in Timers \cup {NULL}
  PROVE  /\ SetPrev(l, n, t) \in Lists
         /\ SetPrev(l, n, t).timeMs = l.timeMs
         /\ SetPrev(l, n, t).first = IF n = 0 THEN t ELSE l.first
         /\ SetPrev(l, n, t).next = IF n = 0 THEN l.next
                                    ELSE [l.next EXCEPT ![q[n]] = t]
<1>0. /\ TimerCount \in Nat /\ Len(q) \in Nat /\ Len(q) <= TimerCount
      /\ DOMAIN q = 1..Len(q) /\ \A k \in 1..Len(q) : q[k] \in Timers
  BY SeqFacts DEF IsList
<1>1. l.next \in [Timers -> Timers \cup {NULL}]
  BY DEF Lists
<1>2. CASE n = 0
  <2>1. SetPrev(l, n, t) = [l EXCEPT !.first = t]
    BY <1>2 DEF SetPrev
  <2> QED
    BY <1>2, <2>1 DEF Lists
<1>3. CASE n # 0
  <2>1. n - 1 \in 0..TimerCount /\ (n - 1) + 1 = n /\ n \in 1..Len(q)
    BY <1>0, <1>3
  <2>2. Node(l)[n - 1] = q[n]
    <3>1. Node(l) = [i \in 0..TimerCount |-> Item(q, i + 1)]
      BY NodeIs
    <3> HIDE DEF TimerCount
    <3> QED
      BY <1>0, <2>1, <3>1 DEF Item
  <2> DEFINE next2 == [l.next EXCEPT ![q[n]] = t]
  <2>3. SetPrev(l, n, t) = [l EXCEPT !.next = next2]
    BY <1>3, <2>2 DEF SetPrev
  <2>4. next2 \in [Timers -> Timers \cup {NULL}]
    BY <1>0, <1>1, <2>1
  <2> HIDE DEF next2
  <2>5. /\ SetPrev(l, n, t) \in Lists /\ SetPrev(l, n, t).timeMs = l.timeMs
        /\ SetPrev(l, n, t).first = l.first /\ SetPrev(l, n, t).next = next2
    BY <2>3, <2>4 DEF Lists
  <2> QED
    BY <1>3, <2>5 DEF next2
<1> QED
  BY <1>2, <1>3

(* An active timer is found at its place and taken out; of one that is not *)
(* active nothing changes.                                                 *)
LEMMA CancelIs ==
  ASSUME NEW l \in Lists, NEW q, IsList(l, q), NEW t \in Timers
  PROVE  /\ timer_cancel(l, t) \in Lists
         /\ timer_cancel(l, t).timeMs = [l.timeMs EXCEPT ![t] = 0]
         /\ \E p : IsList(timer_cancel(l, t), p)
<1>0. /\ TimerCount \in Nat /\ Len(q) \in Nat /\ Len(q) <= TimerCount /\ NULL \notin Timers
      /\ DOMAIN q = 1..Len(q) /\ \A k \in 1..Len(q) : q[k] \in Timers
  BY SeqFacts DEF IsList
<1>1. /\ l.timeMs \in [Timers -> Nat] /\ l.first \in Timers \cup {NULL}
      /\ l.next \in [Timers -> Timers \cup {NULL}]
  BY DEF Lists
<1>2. CASE l.timeMs[t] = 0
  <2>1. timer_cancel(l, t) = l
    BY <1>2 DEF timer_cancel
  <2>2. l.timeMs = [l.timeMs EXCEPT ![t] = 0]
    BY <1>1, <1>2
  <2> QED
    BY <2>1, <2>2
<1>3. CASE l.timeMs[t] # 0
  <2>1. PICK m \in 1..Len(q) : q[m] = t
    BY <1>0, <1>3 DEF IsList
  <2> DEFINE at   == {n \in DOMAIN Node(l) : Node(l)[n] = t}
             c    == timer_cancel(l, t)
             s    == SetPrev(l, m - 1, l.next[t])
             time == [l.timeMs EXCEPT ![t] = 0]
  <2>2. at = {m - 1}
    <3>1. Node(l) = [i \in 0..TimerCount |-> Item(q, i + 1)]
      BY NodeIs
    <3>2. \A i \in 0..TimerCount : Item(q, i + 1) = t <=> i = m - 1
      <4>1. \A i, j \in 1..Len(q) : q[i] = q[j] => i = j
        BY <1>0 DEF IsList, Injective
      <4> HIDE DEF TimerCount
      <4> QED
        BY <1>0, <2>1, <4>1 DEF Item
    <3>3. m - 1 \in 0..TimerCount
      BY <1>0
    <3> HIDE DEF TimerCount
    <3> QED
      BY <3>1, <3>2, <3>3
  <2>3. Min(at) = m - 1
    <3>1. at \in SUBSET Nat /\ at # {}
      BY <1>0, <2>2
    <3> HIDE DEF at
    <3> QED
      BY <2>2, <3>1, MinIs
  <2>4. c = [s EXCEPT !.timeMs = [@ EXCEPT ![t] = 0]]
    BY <1>3, <2>2, <2>3 DEF timer_cancel
  <2>5. /\ s \in Lists /\ s.timeMs = l.timeMs
        /\ s.first = IF m - 1 = 0 THEN l.next[t] ELSE l.first
        /\ s.next = IF m - 1 = 0 THEN l.next
                    ELSE [l.next EXCEPT ![q[m - 1]] = l.next[t]]
    <3>1. m - 1 \in 0..Len(q) /\ l.next[t] \in Timers \cup {NULL}
      BY <1>0, <1>1
    <3> QED
      BY <3>1, SetPrevIs
  <2>6. time \in [Timers -> Nat]
    BY <1>1
  <2> HIDE DEF c, s
  <2>7. c \in Lists /\ c.timeMs = time /\ c.first = s.first /\ c.next = s.next
    <3>1. c = [s EXCEPT !.timeMs = time]
      BY <2>4, <2>5
    <3> HIDE DEF time
    <3> QED
      BY <2>5, <2>6, <3>1 DEF Lists
  <2>8. IsList(c, Dropped(q, m))
    <3>1. c.first = IF m = 1 THEN l.next[q[1]] ELSE l.first
      BY <1>0, <2>1, <2>5, <2>7
    <3>2. m # 1 => c.next[q[m - 1]] = l.next[q[m]]
      <4>1. CASE m # 1
        <5>1. m - 1 \in 1..Len(q) /\ m - 1 # 0
          BY <1>0, <4>1
        <5> QED
          BY <1>0, <1>1, <2>1, <2>5, <2>7, <5>1
      <4> QED
        BY <4>1
    <3>3. \A k \in DOMAIN q : k # m /\ k # m - 1 => c.next[q[k]] = l.next[q[k]]
      <4>1. \A i, j \in 1..Len(q) : q[i] = q[j] => i = j
        BY <1>0 DEF IsList, Injective
      <4>2. CASE m # 1
        <5>1. m - 1 \in 1..Len(q) /\ m - 1 # 0
          BY <1>0, <4>2
        <5> QED
          BY <1>0, <1>1, <2>5, <2>7, <4>1, <5>1
      <4> QED
        BY <1>0, <2>5, <2>7, <4>2
    <3>4. c.timeMs = [l.timeMs EXCEPT ![q[m]] = 0]
      BY <2>1, <2>7
    <3>5. m \in DOMAIN q
      BY <1>0
    <3> QED
      BY <2>7, <3>1, <3>2, <3>3, <3>4, <3>5, Unlinked
  <2> QED
    BY <2>7, <2>8 DEF c
<1> QED
  BY <1>2, <1>3

(* With a timer that is not in it a sequence does not hold them all.       *)
LEMMA ShorterThanTimers ==
  ASSUME NEW q \in Seq(Timers), Injective(q), NEW t \in Timers,
         \A k \in DOMAIN q : q[k] # t
  PROVE  Len(q) + 1 <= TimerCount
<1> DEFINE p == Inserted(q, Len(q), t)
<1>1. Len(q) \in Nat /\ Len(q) \in 0..Len(q)
  BY LenProperties
<1>2. p \in Seq(Timers) /\ Injective(p) /\ Len(p) = Len(q) + 1
  BY <1>1, InsertedIs, Zenon
<1> HIDE DEF p
<1>3. Len(p) <= TimerCount
  BY <1>2, SeqFacts, Zenon
<1> QED
  BY <1>2, <1>3

(* A timer that is not active is put in where its deadline belongs.        *)
LEMMA InsertIs ==
  ASSUME NEW l \in Lists, NEW q, IsList(l, q), NEW t \in Timers,
         l.timeMs[t] = 0, NEW time \in Nat \ {0}
  PROVE  /\ Insert(l, t, time) \in Lists
         /\ Insert(l, t, time).timeMs = [l.timeMs EXCEPT ![t] = time]
         /\ \E p : IsList(Insert(l, t, time), p)
<1> DEFINE len   == Len(q)
           node  == [i \in 0..TimerCount |-> Item(q, i + 1)]
           place == {i \in DOMAIN node : node[i] = NULL \/ time < l.timeMs[node[i]]}
           n     == Min(place)
           s     == SetPrev(l, n, t)
           c     == Insert(l, t, time)
           next2 == [s.next EXCEPT ![t] = node[n]]
           time2 == [l.timeMs EXCEPT ![t] = time]
<1>0. /\ TimerCount \in Nat /\ len \in Nat /\ NULL \notin Timers
      /\ DOMAIN q = 1..len /\ \A k \in 1..len : q[k] \in Timers
  BY SeqFacts DEF IsList
<1>1. /\ l.timeMs \in [Timers -> Nat] /\ l.first \in Timers \cup {NULL}
      /\ l.next \in [Timers -> Timers \cup {NULL}]
  BY DEF Lists
<1>2. \A k \in DOMAIN q : q[k] # t
  BY DEF IsList
<1>3. len <= TimerCount - 1
  <2>1. Len(q) + 1 <= TimerCount
    BY <1>2, ShorterThanTimers DEF IsList
  <2> HIDE DEF TimerCount
  <2> QED
    BY <1>0, <2>1
<1>4. Node(l) = node
  BY NodeIs
<1>5. /\ DOMAIN node = 0..TimerCount
      /\ \A i \in 0..TimerCount : node[i] = IF i < len THEN q[i + 1] ELSE NULL
  <2> HIDE DEF TimerCount, len
  <2>1. \A i \in 0..TimerCount : i + 1 \in 1..len <=> i < len
    BY <1>0
  <2> QED
    BY <1>0, <2>1 DEF Item
<1> HIDE DEF TimerCount, len, node
<1>6. place \in SUBSET Nat /\ len \in place
  BY <1>0, <1>3, <1>5
<1>7. n \in place /\ \A i \in place : n <= i
  <2> HIDE DEF place
  <2> QED
    BY <1>6, MinIs
<1>8. n \in 0..len /\ n \in 0..TimerCount
  <2>1. place \subseteq 0..TimerCount /\ len \in Nat /\ TimerCount \in Nat
    BY <1>0, <1>5
  <2> HIDE DEF n, place
  <2> QED
    BY <1>6, <1>7, <2>1
<1>9. c = [s EXCEPT !.next   = [@ EXCEPT ![t] = node[n]],
                    !.timeMs = [@ EXCEPT ![t] = time]]
  BY <1>4 DEF Insert
<1> HIDE DEF n, place
<1>10. \A k \in 1..len : IF k <= n THEN l.timeMs[q[k]] <= time
                                   ELSE time <= l.timeMs[q[k]]
  <2>1. ASSUME NEW k \in 1..len, k <= n PROVE l.timeMs[q[k]] <= time
    <3>1. k - 1 \in 0..TimerCount /\ k - 1 < len /\ k - 1 < n /\ (k - 1) + 1 = k
      BY <1>0, <1>3, <1>8, <2>1
    <3>2. k - 1 \notin place /\ node[k - 1] = q[k]
      BY <1>0, <1>5, <1>7, <1>8, <3>1
    <3>3. ~(time < l.timeMs[q[k]])
      BY <1>5, <3>1, <3>2 DEF place
    <3>4. l.timeMs[q[k]] \in Nat
      BY <1>0, <1>1
    <3> QED
      BY <3>3, <3>4
  <2>2. ASSUME NEW k \in 1..len, ~(k <= n) PROVE time <= l.timeMs[q[k]]
    <3>1. n < len /\ n + 1 \in 1..len /\ n + 1 <= k
      BY <1>0, <1>8, <2>2
    <3>2. node[n] = q[n + 1] /\ q[n + 1] \in Timers /\ q[k] \in Timers
      BY <1>0, <1>5, <1>8, <3>1
    <3>3. time < l.timeMs[q[n + 1]]
      BY <1>0, <1>7, <3>2 DEF place
    <3>4. l.timeMs[q[n + 1]] <= l.timeMs[q[k]]
      BY <1>0, <3>1 DEF IsList
    <3>5. l.timeMs[q[k]] \in Nat /\ l.timeMs[q[n + 1]] \in Nat
      BY <1>1, <3>2
    <3> QED
      BY <3>3, <3>4, <3>5
  <2> QED
    BY <2>1, <2>2
<1>11. node[n] = Item(q, n + 1) /\ node[n] \in Timers \cup {NULL}
  BY <1>0, <1>5, <1>8 DEF Item
<1>12. /\ s \in Lists /\ s.timeMs = l.timeMs
       /\ s.first = IF n = 0 THEN t ELSE l.first
       /\ s.next = IF n = 0 THEN l.next ELSE [l.next EXCEPT ![q[n]] = t]
  BY <1>8, SetPrevIs DEF len
<1>13. next2 \in [Timers -> Timers \cup {NULL}] /\ time2 \in [Timers -> Nat]
  <2>1. s.next \in [Timers -> Timers \cup {NULL}]
    BY <1>12 DEF Lists
  <2> QED
    BY <1>1, <1>11, <2>1
<1> HIDE DEF s, c
<1>14. c \in Lists /\ c.timeMs = time2 /\ c.first = s.first /\ c.next = next2
  <2>1. c = [s EXCEPT !.next = next2, !.timeMs = time2]
    BY <1>9, <1>12
  <2> HIDE DEF next2, time2
  <2> QED
    BY <1>12, <1>13, <2>1 DEF Lists
<1>15. IsList(c, Inserted(q, n, t))
  <2>1. c.first = IF n = 0 THEN t ELSE l.first
    BY <1>12, <1>14
  <2>2. s.next \in [Timers -> Timers \cup {NULL}]
    BY <1>12 DEF Lists
  <2>3. \A i, j \in 1..len : q[i] = q[j] => i = j
    BY <1>0 DEF IsList, Injective
  <2>4. c.next[t] = Item(q, n + 1)
    BY <1>11, <1>14, <2>2
  <2>5. \A k \in 1..len : c.next[q[k]] = s.next[q[k]]
    BY <1>0, <1>2, <1>14, <2>2
  <2>6. n # 0 => c.next[q[n]] = t
    <3>1. CASE n # 0
      <4>1. n \in 1..len
        BY <1>0, <1>8, <3>1
      <4> QED
        BY <1>0, <1>1, <1>12, <2>5, <3>1, <4>1
    <3> QED
      BY <3>1
  <2>7. \A k \in DOMAIN q : k # n => c.next[q[k]] = l.next[q[k]]
    <3>1. CASE n # 0
      <4>1. n \in 1..len
        BY <1>0, <1>8, <3>1
      <4> QED
        BY <1>0, <1>1, <1>12, <2>3, <2>5, <3>1, <4>1
    <3> QED
      BY <1>0, <1>12, <2>5, <3>1
  <2>8. c.timeMs = [l.timeMs EXCEPT ![t] = time] /\ n \in 0..Len(q)
    BY <1>8, <1>14 DEF len
  <2>9. \A k \in DOMAIN q : IF k <= n THEN l.timeMs[q[k]] <= time
                                      ELSE time <= l.timeMs[q[k]]
    BY <1>0, <1>10
  <2> QED
    BY <1>2, <1>14, <2>1, <2>4, <2>6, <2>7, <2>8, <2>9, PutIn
<1> QED
  BY <1>14, <1>15 DEF c

-----------------------------------------------------------------------------
(* What every operation on the list keeps: it is the list of a sequence.   *)
IsInOrder(l) == l \in Lists /\ \E q : IsList(l, q)

LEMMA CancelKeepsSorted ==
  ASSUME NEW l, IsInOrder(l), NEW t \in Timers
  PROVE  /\ IsInOrder(timer_cancel(l, t))
         /\ timer_cancel(l, t).timeMs = [l.timeMs EXCEPT ![t] = 0]
<1>1. PICK q : IsList(l, q)
  BY DEF IsInOrder
<1> QED
  BY <1>1, CancelIs DEF IsInOrder

LEMMA SetKeepsSorted ==
  ASSUME NEW l, IsInOrder(l), NEW t \in Timers, NEW time \in Nat \ {0}
  PROVE  /\ IsInOrder(timer_set(l, t, time))
         /\ timer_set(l, t, time).timeMs = [l.timeMs EXCEPT ![t] = time]
<1> DEFINE c == timer_cancel(l, t)
<1>1. IsInOrder(c) /\ c.timeMs = [l.timeMs EXCEPT ![t] = 0]
  BY CancelKeepsSorted
<1>2. PICK q : IsList(c, q)
  BY <1>1 DEF IsInOrder
<1>3. l.timeMs \in [Timers -> Nat]
  BY DEF IsInOrder, Lists
<1>4. c \in Lists /\ c.timeMs[t] = 0
  BY <1>1, <1>3 DEF IsInOrder
<1>5. timer_set(l, t, time) = Insert(c, t, time)
  BY DEF timer_set
<1>6. [c.timeMs EXCEPT ![t] = time] = [l.timeMs EXCEPT ![t] = time]
  <2>1. c.timeMs = [s \in Timers |-> IF s = t THEN 0 ELSE l.timeMs[s]]
    BY <1>1, <1>3
  <2> HIDE DEF c
  <2> QED
    BY <1>3, <2>1
<1> HIDE DEF c
<1>7. /\ Insert(c, t, time) \in Lists /\ \E p : IsList(Insert(c, t, time), p)
      /\ Insert(c, t, time).timeMs = [c.timeMs EXCEPT ![t] = time]
  BY <1>2, <1>4, InsertIs
<1> QED
  BY <1>5, <1>6, <1>7 DEF IsInOrder

(* The first timer has the earliest deadline, and may be taken off.        *)
LEMMA FirstIsEarliest ==
  ASSUME NEW l, IsInOrder(l), l.first # NULL
  PROVE  /\ l.first \in Timers /\ l.timeMs[l.first] \in Nat \ {0}
         /\ \A t \in Timers : l.timeMs[t] # 0 => l.timeMs[l.first] <= l.timeMs[t]
<1>1. PICK q : IsList(l, q)
  BY DEF IsInOrder
<1>2. /\ Len(q) \in Nat /\ DOMAIN q = 1..Len(q)
      /\ \A k \in 1..Len(q) : q[k] \in Timers
  BY <1>1, SeqFacts DEF IsList
<1>3. 1 \in DOMAIN q /\ l.first = q[1]
  BY <1>1 DEF IsList, Item
<1>4. l.timeMs \in [Timers -> Nat]
  BY DEF IsInOrder, Lists
<1>5. l.first \in Timers /\ l.timeMs[l.first] # 0
  BY <1>1, <1>2, <1>3 DEF IsList
<1>6. ASSUME NEW t \in Timers, l.timeMs[t] # 0
      PROVE  l.timeMs[l.first] <= l.timeMs[t]
  <2>1. PICK k \in DOMAIN q : q[k] = t
    BY <1>1, <1>6 DEF IsList
  <2> QED
    BY <1>1, <1>2, <1>3, <2>1 DEF IsList
<1> QED
  BY <1>4, <1>5, <1>6

LEMMA TakeFirstKeepsSorted ==
  ASSUME NEW l, IsInOrder(l), l.first # NULL, NEW l2 \in Lists,
         l2.first = l.next[l.first],
         l2.next = [l.next EXCEPT ![l.first] = NULL],
         l2.timeMs = [l.timeMs EXCEPT ![l.first] = 0]
  PROVE  IsInOrder(l2)
<1>1. PICK q : IsList(l, q)
  BY DEF IsInOrder
<1>2. /\ Len(q) \in Nat /\ DOMAIN q = 1..Len(q)
      /\ \A k \in 1..Len(q) : q[k] \in Timers
  BY <1>1, SeqFacts DEF IsList
<1>3. 1 \in DOMAIN q /\ l.first = q[1]
  BY <1>1 DEF IsList, Item
<1>4. l \in Lists /\ l.next \in [Timers -> Timers \cup {NULL}]
  BY DEF IsInOrder, Lists
<1>5. \A k \in DOMAIN q : k # 1 => l2.next[q[k]] = l.next[q[k]]
  <2>1. \A k \in DOMAIN q : k # 1 => q[k] # q[1]
    BY <1>1, <1>3 DEF IsList, Injective
  <2> QED
    BY <1>2, <1>3, <1>4, <2>1
<1>6. IsList(l2, Dropped(q, 1))
  <2>1. l2.first = IF 1 = 1 THEN l.next[q[1]] ELSE l.first
    BY <1>3
  <2>2. l2.timeMs = [l.timeMs EXCEPT ![q[1]] = 0]
    BY <1>3
  <2>3. \A k \in DOMAIN q : k # 1 /\ k # 1 - 1 => l2.next[q[k]] = l.next[q[k]]
    BY <1>5
  <2> QED
    BY <1>1, <1>3, <1>4, <2>1, <2>2, <2>3, Unlinked
<1> QED
  BY <1>6 DEF IsInOrder

(* What ListIsSorted says of it. *)
LEMMA SortedListIsSorted ==
  ASSUME IsInOrder(List)
  PROVE  ListIsSorted
<1>1. PICK q : IsList(List, q)
  BY DEF IsInOrder
<1> DEFINE n    == Len(q)
           node == Node(List)
           on   == {t \in Timers : timer_active(t)}
           set  == {i \in DOMAIN node : node[i] # NULL}
<1>2. /\ TimerCount \in Nat /\ NULL \notin Timers /\ n \in Nat /\ n <= TimerCount
      /\ DOMAIN q = 1..n /\ \A k \in 1..n : q[k] \in Timers
  BY <1>1, SeqFacts DEF IsList
<1>3. /\ List.timeMs = timeMs /\ timeMs \in [Timers -> Nat]
      /\ \A t \in Timers : timeMs[t] # 0 <=> \E k \in 1..n : q[k] = t
      /\ \A i, j \in 1..n : q[i] = q[j] => i = j
      /\ \A i, j \in 1..n : i <= j => timeMs[q[i]] <= timeMs[q[j]]
  BY <1>1, <1>2 DEF IsList, Injective, IsInOrder, Lists, List
<1>4. /\ DOMAIN node = 0..TimerCount
      /\ \A i \in 0..TimerCount : node[i] = IF i < n THEN q[i + 1] ELSE NULL
  <2>1. node = [i \in 0..TimerCount |-> Item(q, i + 1)]
    BY <1>1, NodeIs
  <2> HIDE DEF TimerCount, n, node
  <2>2. \A i \in 0..TimerCount : i + 1 \in 1..n <=> i < n
    BY <1>2
  <2> QED
    BY <1>2, <2>1, <2>2 DEF Item
<1>5. on = {q[k] : k \in 1..n}
  BY <1>2, <1>3 DEF timer_active
<1> HIDE DEF n, node, TimerCount, on
<1>6. node[TimerCount] = NULL
  BY <1>2, <1>4
<1>7. {node[i] : i \in DOMAIN node} \ {NULL} = on
  <2>1. ASSUME NEW i \in 0..TimerCount, node[i] # NULL PROVE node[i] \in on
    <3>1. i < n /\ i + 1 \in 1..n
      BY <1>2, <1>4, <2>1
    <3> QED
      BY <1>4, <1>5, <3>1
  <2>2. ASSUME NEW k \in 1..n
        PROVE  k - 1 \in 0..TimerCount /\ node[k - 1] = q[k] /\ q[k] # NULL
    <3>1. k - 1 \in 0..TimerCount /\ k - 1 < n /\ (k - 1) + 1 = k
      BY <1>2
    <3> QED
      BY <1>2, <1>4, <3>1
  <2> QED
    BY <1>4, <1>5, <2>1, <2>2
<1>8. set = 0..(n - 1)
  <2>1. \A i \in 0..TimerCount : node[i] # NULL <=> i < n
    <3>1. \A i \in 0..TimerCount : i < n => i + 1 \in 1..n
      BY <1>2
    <3> QED
      BY <1>2, <1>4, <3>1
  <2>2. \A i : i \in 0..(n - 1) <=> i \in 0..TimerCount /\ i < n
    BY <1>2
  <2> QED
    BY <1>4, <2>1, <2>2
<1>9. Cardinality(set) = n
  <2>1. Cardinality(0..(n - 1)) = IF 0 > n - 1 THEN 0 ELSE (n - 1) - 0 + 1
    BY <1>2, FS_Interval
  <2> HIDE DEF set
  <2> QED
    BY <1>2, <1>8, <2>1
<1>10. Cardinality(on) = n
  <2>1. IsFiniteSet(1..n) /\ Cardinality(1..n) = n
    <3>1. /\ IsFiniteSet(1..n)
          /\ Cardinality(1..n) = IF 1 > n THEN 0 ELSE n - 1 + 1
      BY <1>2, FS_Interval
    <3> QED
      BY <1>2, <3>1
  <2> DEFINE f == [k \in 1..n |-> q[k]]
  <2>2. f \in Bijection(1..n, on)
    <3>1. f \in Injection(1..n, on)
      BY <1>3, <1>5 DEF Injection, IsInjective
    <3>2. f \in Surjection(1..n, on)
      BY <1>5 DEF Surjection
    <3> QED
      BY <3>1, <3>2 DEF Bijection
  <2>3. ExistsBijection(1..n, on)
    <3> HIDE DEF f
    <3> QED
      BY <2>2 DEF ExistsBijection
  <2> QED
    BY <2>1, <2>3, FS_Bijection
<1>11. \A i \in 1..(n - 1) : timeMs[node[i - 1]] <= timeMs[node[i]]
  <2> SUFFICES ASSUME NEW i \in 1..(n - 1)
               PROVE  timeMs[node[i - 1]] <= timeMs[node[i]]
    OBVIOUS
  <2>1. /\ i \in 0..TimerCount /\ i < n /\ i - 1 \in 0..TimerCount /\ i - 1 < n /\ (i - 1) + 1 = i
        /\ i \in 1..n /\ i + 1 \in 1..n /\ i <= i + 1
    BY <1>2
  <2>2. node[i - 1] = q[i] /\ node[i] = q[i + 1]
    BY <1>4, <2>1
  <2> QED
    BY <1>3, <2>1, <2>2
<1>12. node[Cardinality(Timers)] = NULL
  BY <1>6 DEF TimerCount
<1> HIDE DEF set
<1>13. n = Cardinality(set)
  BY <1>9
<1> QED
  BY <1>7, <1>10, <1>11, <1>12, <1>13 DEF ListIsSorted, node, on, set

-----------------------------------------------------------------------------
(***************************************************************************)
(* The inductive invariant of the timers, whatever runs the handlers.      *)
(***************************************************************************)
ClockInv ==
  /\ now \in Nat \ {0}
  /\ mtime # NULL => mtime \in Nat /\ mtime <= now
  /\ handler \in Timers \cup {NULL}

TimersInv == IsInOrder(List) /\ ClockInv

LEMMA TimersStart == TimersInit => TimersInv
<1> SUFFICES ASSUME TimersInit PROVE TimersInv
  OBVIOUS
<1>1. ClockInv
  BY DEF TimersInit, ClockInv
<1>2. List \in Lists
  BY DEF TimersInit, List, Lists
<1>3. IsList(List, <<>>)
  <2>1. <<>> \in Seq(Timers) /\ DOMAIN <<>> = {}
    BY EmptySeq
  <2>2. /\ List.first = NULL
        /\ \A t \in Timers : List.timeMs[t] = 0
    BY DEF TimersInit, List
  <2> QED
    BY <2>1, <2>2 DEF IsList, Item, Injective
<1> QED
  BY <1>1, <1>2, <1>3 DEF TimersInv, IsInOrder

LEMMA ListBecomesIs ==
  ASSUME NEW l \in Lists, ListBecomes(l)
  PROVE  List' = l
BY DEF ListBecomes, List, Lists

LEMMA SetOrCancelKeeps ==
  ASSUME TimersInv, SetOrCancel
  PROVE  TimersInv'
<1>1. ClockInv'
  BY DEF TimersInv, ClockInv, SetOrCancel
<1>2. CASE \E t \in Timers, ms \in Delays : ListBecomes(timer_set(List, t, now + ms))
  <2>1. PICK t \in Timers, ms \in Delays : ListBecomes(timer_set(List, t, now + ms))
    BY <1>2
  <2>2. now + ms \in Nat \ {0}
    BY TimersAssumption DEF TimersInv, ClockInv
  <2>3. IsInOrder(timer_set(List, t, now + ms))
    BY <2>2, SetKeepsSorted DEF TimersInv
  <2>4. List' = timer_set(List, t, now + ms)
    BY <2>1, <2>3, ListBecomesIs DEF IsInOrder
  <2>5. IsInOrder(List')
    BY <2>3, <2>4
  <2> QED
    BY <1>1, <2>5 DEF TimersInv, IsInOrder
<1>3. CASE \E t \in Timers : ListBecomes(timer_cancel(List, t))
  <2>1. PICK t \in Timers : ListBecomes(timer_cancel(List, t))
    BY <1>3
  <2>2. IsInOrder(timer_cancel(List, t))
    BY CancelKeepsSorted DEF TimersInv
  <2>3. List' = timer_cancel(List, t)
    BY <2>1, <2>2, ListBecomesIs DEF IsInOrder
  <2>4. IsInOrder(List')
    BY <2>2, <2>3
  <2> QED
    BY <1>1, <2>4 DEF TimersInv, IsInOrder
<1> QED
  BY <1>2, <1>3 DEF SetOrCancel

(* The handler that timer_advance runs next. *)
LEMMA FireKeeps ==
  ASSUME TimersInv, Fire
  PROVE  /\ TimersInv'
         /\ handler' = first /\ first \in Timers
         /\ timeMs[first] \in 1..now
         /\ \A t \in Timers : timer_active(t) => timeMs[first] <= timeMs[t]
         /\ timeMs' = [timeMs EXCEPT ![first] = 0] /\ now' = now
<1>1. /\ List.first = first /\ List.next = next /\ List.timeMs = timeMs
      /\ List'.first = first' /\ List'.next = next' /\ List'.timeMs = timeMs'
  BY DEF List
<1>2. /\ first # NULL /\ Due(first) /\ mtime # NULL
      /\ first' = next[first] /\ next' = [next EXCEPT ![first] = NULL]
      /\ timeMs' = [timeMs EXCEPT ![first] = 0]
      /\ mtime' = IF timeMs[first] > mtime THEN now ELSE mtime
      /\ handler' = first /\ now' = now
  BY DEF Fire
<1>3. /\ first \in Timers /\ timeMs[first] \in Nat \ {0}
      /\ \A t \in Timers : timeMs[t] # 0 => timeMs[first] <= timeMs[t]
  BY <1>1, <1>2, FirstIsEarliest DEF TimersInv
<1>4. now \in Nat \ {0} /\ mtime \in Nat /\ mtime <= now
  BY <1>2 DEF TimersInv, ClockInv
<1>5. ClockInv'
  BY <1>2, <1>3, <1>4 DEF ClockInv
<1>6. timeMs[first] \in 1..now
  BY <1>2, <1>3, <1>4 DEF Due
<1>7. List' \in Lists
  <2>1. /\ next \in [Timers -> Timers \cup {NULL}] /\ timeMs \in [Timers -> Nat]
    BY <1>1 DEF TimersInv, IsInOrder, Lists
  <2>2. /\ first' \in Timers \cup {NULL}
        /\ next' \in [Timers -> Timers \cup {NULL}] /\ timeMs' \in [Timers -> Nat]
    BY <1>2, <1>3, <2>1
  <2> QED
    BY <2>2 DEF List, Lists
<1>8. IsInOrder(List')
  BY <1>1, <1>2, <1>7, TakeFirstKeepsSorted DEF TimersInv
<1>9. TimersInv'
  BY <1>5, <1>8 DEF TimersInv, IsInOrder
<1> QED
  BY <1>2, <1>3, <1>6, <1>9 DEF timer_active

(* Steps that leave the list alone. *)
LEMMA SameListKeeps ==
  ASSUME TimersInv, UNCHANGED list, ClockInv'
  PROVE  TimersInv'
<1>1. List' = List
  BY DEF list, List
<1>2. IsInOrder(List')
  BY <1>1 DEF TimersInv
<1> QED
  BY <1>2 DEF TimersInv, IsInOrder

LEMMA OtherStepsKeep ==
  ASSUME TimersInv, Advance \/ HandlerEnds \/ Return \/ Tick
  PROVE  TimersInv' /\ handler' \in {handler, NULL} /\ now <= now'
<1>1. UNCHANGED list
  BY DEF Advance, HandlerEnds, Return, Tick
<1>2. ClockInv' /\ handler' \in {handler, NULL} /\ now <= now'
  BY DEF Advance, HandlerEnds, Return, Tick, TimersInv, ClockInv
<1> QED
  BY <1>1, <1>2, SameListKeeps

-----------------------------------------------------------------------------
(* The loop of the daemon. *)
FiresEarliest ==
  handler' \notin {handler, NULL}
    => /\ timeMs[handler'] \in 1..now
       /\ \A t \in Timers : timer_active(t) => timeMs[handler'] <= timeMs[t]

LEMMA LoopKeepsTimers ==
  ASSUME TimersInv, [Next]_vars
  PROVE  TimersInv' /\ FiresEarliest
<1>1. CASE UNCHANGED timervars
  <2>1. UNCHANGED list /\ ClockInv' /\ handler' = handler
    BY <1>1 DEF timervars, TimersInv, ClockInv
  <2> QED
    BY <2>1, SameListKeeps DEF FiresEarliest
<1>2. CASE Advance \/ HandlerEnds \/ Return \/ Tick
  BY <1>2, OtherStepsKeep DEF FiresEarliest
<1>3. CASE Fire
  BY <1>3, FireKeeps DEF FiresEarliest
<1>4. CASE SetOrCancel
  BY <1>4, SetOrCancelKeeps DEF SetOrCancel, FiresEarliest
<1>5. CASE Start
  <2>1. PICK t \in Timers, ms \in Delays : ListBecomes(timer_set(List, t, now + ms))
    BY <1>5 DEF Start
  <2>2. now + ms \in Nat \ {0}
    BY TimersAssumption DEF TimersInv, ClockInv
  <2>3. IsInOrder(timer_set(List, t, now + ms))
    BY <2>2, SetKeepsSorted DEF TimersInv
  <2>4. List' = timer_set(List, t, now + ms)
    BY <2>1, <2>3, ListBecomesIs DEF IsInOrder
  <2>5. IsInOrder(List')
    BY <2>3, <2>4
  <2>6. ClockInv' /\ handler' = handler
    BY <1>5 DEF Start, TimersInv, ClockInv
  <2> QED
    BY <2>5, <2>6 DEF TimersInv, IsInOrder, FiresEarliest
<1> QED
  <2>1. CASE Next
    <3>1. ASSUME NEW fd \in Fds, file_event_reg(fd) \/ Arrives(fd)
          PROVE  UNCHANGED timervars
      BY <3>1 DEF file_event_reg, Arrives
    <3>2. file_event_poll => UNCHANGED timervars
      BY DEF file_event_poll, TimedOut, SomeReady, Callback, CallbackReturns, PollReturns
    <3>3. timer_advance => Advance \/ Fire \/ HandlerEnds \/ Return
      BY DEF timer_advance
    <3>4. (InHandler => SetOrCancel) /\ (TimePasses => Tick)
      BY DEF InHandler, TimePasses
    <3> QED
      BY <1>1, <1>2, <1>3, <1>4, <1>5, <2>1, <3>1, <3>2, <3>3, <3>4 DEF Next
  <2>2. CASE UNCHANGED vars
    BY <1>1, <2>2 DEF vars
  <2> QED
    BY <2>1, <2>2

(* The list of timer.c is that of the active timers, each once, in the     *)
(* order of their deadlines, for any number of timers, whatever handlers   *)
(* and callbacks set and cancel while timer_advance walks the list.        *)
THEOREM TimerListIsSorted == Spec => []ListIsSorted
<1>1. Init => TimersInv
  BY TimersStart DEF Init
<1>2. TimersInv /\ [Next]_vars => TimersInv'
  BY LoopKeepsTimers
<1>3. TimersInv => ListIsSorted
  BY SortedListIsSorted DEF TimersInv
<1> QED
  BY <1>1, <1>2, <1>3, PTL DEF Spec

(* timer_advance runs the handler of a timer that is due, and of none      *)
(* before one that is to run earlier.                                      *)
THEOREM HandlersRunInOrder == Spec => EarliestFires
<1>1. Init => TimersInv
  BY TimersStart DEF Init
<1>2. TimersInv /\ [Next]_vars => TimersInv'
  BY LoopKeepsTimers
<1>3. TimersInv /\ [Next]_vars => [FiresEarliest]_timervars
  BY LoopKeepsTimers
<1> QED
  BY <1>1, <1>2, <1>3, PTL DEF Spec, EarliestFires, FiresEarliest

-----------------------------------------------------------------------------
(***************************************************************************)
(* The asynchronous operations.  The inductive invariant: an operation is  *)
(* called back once a start, its timer runs for the start that is under    *)
(* way, and when its handler runs that start is due to end.                *)
(***************************************************************************)
AsyncInv ==
  /\ active \in [Timers -> BOOLEAN] /\ armed = active
  /\ runs \in [Timers -> Nat] /\ called \in [Timers -> Nat]
  /\ deadline \in [Timers -> Nat \cup {NULL}]
  /\ \A op \in Timers :
       /\ runs[op] = called[op] + (IF active[op] THEN 1 ELSE 0)
       /\ ~active[op] => deadline[op] = NULL
       /\ timeMs[op] # 0 => active[op] /\ deadline[op] = timeMs[op]
       /\ handler = op => timeMs[op] = 0
       /\ handler = op /\ active[op] => deadline[op] # NULL /\ deadline[op] <= now

(* An operation gets a new state and no handler runs: what it has to be.   *)
LEMMA OpBecomesKeeps ==
  ASSUME TimersInv, AsyncInv, NEW op \in Timers, NEW st, NEW time \in Nat,
         NEW calls \in Nat, OpBecomes(op, st), IsInOrder(st.list),
         st.list.timeMs = [timeMs EXCEPT ![op] = time],
         st.active \in BOOLEAN, st.armed = st.active,
         st.deadline \in Nat \cup {NULL},
         st.runs = calls + (IF st.active THEN 1 ELSE 0),
         ~st.active => st.deadline = NULL,
         time # 0 => st.active /\ st.deadline = time,
         called' = [called EXCEPT ![op] = calls],
         UNCHANGED <<now, mtime>>, handler' = NULL
  PROVE  TimersInv' /\ AsyncInv'
<1>1. List' = st.list
  BY ListBecomesIs DEF OpBecomes, IsInOrder
<1>2. TimersInv'
  <2>1. IsInOrder(List') /\ ClockInv'
    BY <1>1 DEF TimersInv, ClockInv
  <2> QED
    BY <2>1 DEF TimersInv, IsInOrder
<1>3. timeMs' = [timeMs EXCEPT ![op] = time]
  BY <1>1 DEF List
<1>4. timeMs \in [Timers -> Nat]
  BY DEF TimersInv, IsInOrder, Lists, List
<1>5. st.runs \in Nat
  OBVIOUS
<1>6. /\ active' \in [Timers -> BOOLEAN] /\ armed' = active'
      /\ runs' \in [Timers -> Nat] /\ called' \in [Timers -> Nat]
      /\ deadline' \in [Timers -> Nat \cup {NULL}]
  BY <1>5 DEF OpBecomes, AsyncInv
<1>7. ASSUME NEW p \in Timers
      PROVE  /\ runs'[p] = called'[p] + (IF active'[p] THEN 1 ELSE 0)
             /\ ~active'[p] => deadline'[p] = NULL
             /\ timeMs'[p] # 0 => active'[p] /\ deadline'[p] = timeMs'[p]
             /\ handler' # p
  <2>0. NULL \notin Timers
    BY TimersAssumption
  <2>1. CASE p = op
    <3>1. /\ runs'[p] = st.runs /\ called'[p] = calls /\ active'[p] = st.active
          /\ deadline'[p] = st.deadline /\ timeMs'[p] = time
      BY <1>3, <1>4, <2>1 DEF OpBecomes, AsyncInv
    <3> QED
      BY <2>0, <3>1
  <2>2. CASE p # op
    <3>1. /\ runs'[p] = runs[p] /\ called'[p] = called[p] /\ active'[p] = active[p]
          /\ deadline'[p] = deadline[p] /\ timeMs'[p] = timeMs[p]
      BY <1>3, <1>4, <2>2 DEF OpBecomes, AsyncInv
    <3> QED
      BY <2>0, <3>1 DEF AsyncInv
  <2> QED
    BY <2>1, <2>2
<1> QED
  BY <1>2, <1>6, <1>7 DEF AsyncInv

(* An operation that is started, of a state st. *)
IsStarted(new, st, op) ==
  /\ new.active = TRUE /\ new.armed = TRUE /\ new.runs = st.runs + 1
  /\ IsInOrder(new.list) /\ new.deadline \in Nat \cup {NULL}
  /\ \E time \in Nat : /\ new.list.timeMs = [timeMs EXCEPT ![op] = time]
                       /\ time # 0 => new.deadline = time

LEMMA StartIs ==
  ASSUME NEW st, NEW op \in Timers, NEW ms \in Timeouts, now \in Nat \ {0},
         IsInOrder(st.list), st.list.timeMs = [timeMs EXCEPT ![op] = 0],
         timeMs \in [Timers -> Nat]
  PROVE  IsStarted(async_op_start(st, op, ms), st, op)
<1>1. ms # NULL => ms \in Nat \ {0} /\ ms \in Delays
  BY TimersAssumption DEF Timeouts
<1>2. CASE ms = NULL
  BY <1>2 DEF async_op_start, IsStarted
<1>3. CASE ms # NULL
  <2> DEFINE l == timer_set(st.list, op, now + ms)
  <2>1. now + ms \in Nat \ {0}
    BY <1>1, <1>3
  <2>2. IsInOrder(l) /\ l.timeMs = [st.list.timeMs EXCEPT ![op] = now + ms]
    BY <2>1, SetKeepsSorted
  <2>3. l.timeMs = [timeMs EXCEPT ![op] = now + ms]
    <3>1. st.list.timeMs = [t \in Timers |-> IF t = op THEN 0 ELSE timeMs[t]]
      OBVIOUS
    <3>2. [st.list.timeMs EXCEPT ![op] = now + ms] = [timeMs EXCEPT ![op] = now + ms]
      BY <3>1
    <3> QED
      BY <2>2, <3>2
  <2> HIDE DEF l
  <2> QED
    BY <1>3, <2>1, <2>2, <2>3 DEF async_op_start, l, IsStarted
<1> QED
  BY <1>2, <1>3

LEMMA OverIs ==
  ASSUME TimersInv, AsyncInv, NEW op \in Timers
  PROVE  LET st == Over(Op(op), op) IN
         /\ st.active = FALSE /\ st.armed = FALSE /\ st.runs = runs[op]
         /\ st.deadline = NULL /\ IsInOrder(st.list)
         /\ st.list.timeMs = [timeMs EXCEPT ![op] = 0]
<1> DEFINE l == timer_cancel(List, op)
<1>1. IsInOrder(l) /\ l.timeMs = [timeMs EXCEPT ![op] = 0]
  BY CancelKeepsSorted DEF TimersInv, List
<1> HIDE DEF l
<1> QED
  BY <1>1 DEF Over, Op, l

(* async_op_finish, by a timeout or by who does the work. *)
LEMMA FinishKeeps ==
  ASSUME TimersInv, AsyncInv, NEW op \in Timers, async_op_finish(op),
         UNCHANGED <<now, mtime>>, handler' = NULL
  PROVE  TimersInv' /\ AsyncInv' /\ called' = [called EXCEPT ![op] = runs[op]]
<1> DEFINE over == Over(Op(op), op)
<1>1. /\ timeMs \in [Timers -> Nat] /\ now \in Nat \ {0}
      /\ runs[op] \in Nat /\ called[op] \in Nat /\ called \in [Timers -> Nat]
  BY DEF TimersInv, IsInOrder, ClockInv, AsyncInv, Lists, List
<1>2. active[op] /\ armed[op] /\ runs[op] = called[op] + 1
  BY DEF async_op_finish, AsyncInv
<1>3. called' = [called EXCEPT ![op] = runs[op]]
  BY <1>2 DEF async_op_finish
<1>4. /\ over.active = FALSE /\ over.armed = FALSE /\ over.runs = runs[op]
      /\ over.deadline = NULL /\ IsInOrder(over.list)
      /\ over.list.timeMs = [timeMs EXCEPT ![op] = 0]
  BY OverIs
<1>5. \/ OpBecomes(op, over)
      \/ \E ms \in Timeouts : OpBecomes(op, async_op_start(over, op, ms))
  BY DEF async_op_finish
<1> HIDE DEF over
<1>6. CASE OpBecomes(op, over)
  <2>1. over.runs = runs[op] + (IF over.active THEN 1 ELSE 0)
    BY <1>1, <1>4
  <2> QED
    BY <1>1, <1>3, <1>4, <1>6, <2>1, OpBecomesKeeps
<1>7. CASE \E ms \in Timeouts : OpBecomes(op, async_op_start(over, op, ms))
  <2>1. PICK ms \in Timeouts : OpBecomes(op, async_op_start(over, op, ms))
    BY <1>7
  <2> DEFINE new == async_op_start(over, op, ms)
  <2>2. IsStarted(new, over, op)
    <3>1. /\ timeMs \in [Timers -> Nat] /\ now \in Nat \ {0} /\ IsInOrder(over.list)
          /\ over.list.timeMs = [timeMs EXCEPT ![op] = 0]
      BY <1>1, <1>4
    <3> QED
      BY <3>1, StartIs, Zenon
  <2> HIDE DEF new
  <2>3. PICK time \in Nat : /\ new.list.timeMs = [timeMs EXCEPT ![op] = time]
                            /\ time # 0 => new.deadline = time
    BY <2>2 DEF IsStarted
  <2>4. OpBecomes(op, new)
    BY <2>1 DEF new
  <2>5. new.runs = runs[op] + (IF new.active THEN 1 ELSE 0)
    BY <1>1, <1>4, <2>2 DEF IsStarted
  <2> QED
    BY <1>1, <1>3, <2>2, <2>3, <2>4, <2>5, OpBecomesKeeps DEF IsStarted
<1> QED
  BY <1>3, <1>5, <1>6, <1>7

LEMMA OpStartsKeeps ==
  ASSUME TimersInv, AsyncInv, OpStarts
  PROVE  TimersInv' /\ AsyncInv'
<1>1. PICK op \in Timers, ms \in Timeouts :
        ~active[op] /\ OpBecomes(op, async_op_start(Op(op), op, ms))
  BY DEF OpStarts
<1> DEFINE st  == Op(op)
           new == async_op_start(st, op, ms)
<1>2. /\ timeMs \in [Timers -> Nat] /\ now \in Nat \ {0} /\ timeMs[op] = 0
      /\ runs[op] \in Nat /\ called[op] = runs[op] /\ called \in [Timers -> Nat]
  BY <1>1 DEF TimersInv, IsInOrder, ClockInv, AsyncInv, Lists, List
<1>3. st.list = List /\ st.runs = runs[op] /\ List.timeMs = timeMs
  BY DEF Op, List
<1>4. IsInOrder(st.list) /\ st.list.timeMs = [timeMs EXCEPT ![op] = 0]
  BY <1>2, <1>3 DEF TimersInv
<1> HIDE DEF st
<1>5. IsStarted(new, st, op)
  <2>1. timeMs \in [Timers -> Nat] /\ now \in Nat \ {0}
    BY <1>2
  <2> QED
    BY <1>4, <2>1, StartIs, Zenon
<1> HIDE DEF new
<1>6. PICK time \in Nat : /\ new.list.timeMs = [timeMs EXCEPT ![op] = time]
                          /\ time # 0 => new.deadline = time
  BY <1>5 DEF IsStarted
<1>7. OpBecomes(op, new)
  BY <1>1 DEF new, st
<1>8. new.runs = runs[op] + (IF new.active THEN 1 ELSE 0)
  BY <1>2, <1>3, <1>5 DEF IsStarted
<1>9. called' = [called EXCEPT ![op] = runs[op]] /\ UNCHANGED <<now, mtime>> /\ handler' = NULL
  BY <1>2 DEF OpStarts
<1> QED
  BY <1>2, <1>5, <1>6, <1>7, <1>8, <1>9, OpBecomesKeeps DEF IsStarted

-----------------------------------------------------------------------------
OwnTimeouts ==
  \A op \in Timers :
    called'[op] # called[op] =>
      /\ called'[op] = runs[op]
      /\ handler = op /\ handler' = NULL
           => deadline[op] # NULL /\ deadline[op] <= now

LEMMA FinishIsOwn ==
  ASSUME TimersInv, AsyncInv, NEW p \in Timers, active[p],
         called' = [called EXCEPT ![p] = runs[p]]
  PROVE  OwnTimeouts
<1> SUFFICES ASSUME NEW op \in Timers, called'[op] # called[op]
             PROVE  /\ called'[op] = runs[op]
                    /\ handler = op => deadline[op] # NULL /\ deadline[op] <= now
  BY DEF OwnTimeouts
<1>1. op = p /\ called'[op] = runs[op]
  BY DEF AsyncInv
<1> QED
  BY <1>1 DEF AsyncInv

LEMMA AsyncStepKeeps ==
  ASSUME TimersInv, AsyncInv, [AsyncNext]_asyncvars
  PROVE  TimersInv' /\ AsyncInv' /\ OwnTimeouts /\ FiresEarliest
<1>0. NULL \notin Timers
  BY TimersAssumption
<1>1. CASE OpStarts
  <2>1. called' = called /\ handler' = handler
    BY <1>1 DEF OpStarts
  <2> QED
    BY <1>1, <2>1, OpStartsKeeps DEF OwnTimeouts, FiresEarliest
<1>2. CASE OpFinishes
  <2>1. PICK op \in Timers : async_op_finish(op)
    BY <1>2 DEF OpFinishes
  <2>2. UNCHANGED <<now, mtime>> /\ handler' = NULL
    BY <1>2 DEF OpFinishes
  <2>3. TimersInv' /\ AsyncInv' /\ called' = [called EXCEPT ![op] = runs[op]]
    BY <2>1, <2>2, FinishKeeps
  <2>4. active[op]
    BY <2>1 DEF async_op_finish
  <2> QED
    BY <2>2, <2>3, <2>4, FinishIsOwn DEF FiresEarliest
<1>3. CASE async_op_timeout
  <2>1. handler \in Timers /\ handler' = NULL /\ UNCHANGED <<now, mtime>>
    BY <1>3 DEF async_op_timeout, TimersInv, ClockInv
  <2>2. CASE active[handler]
    <3>1. async_op_finish(handler)
      BY <1>3, <2>2 DEF async_op_timeout
    <3>2. TimersInv' /\ AsyncInv' /\ called' = [called EXCEPT ![handler] = runs[handler]]
      BY <2>1, <3>1, FinishKeeps
    <3> QED
      BY <2>1, <2>2, <3>2, FinishIsOwn DEF FiresEarliest
  <2>3. CASE ~active[handler]
    <3>1. UNCHANGED opvars /\ UNCHANGED list
      BY <1>3, <2>3 DEF async_op_timeout
    <3>2. TimersInv'
      BY <2>1, <3>1, SameListKeeps DEF TimersInv, ClockInv
    <3>3. AsyncInv'
      BY <1>0, <2>1, <3>1 DEF AsyncInv, opvars, list
    <3> QED
      BY <2>1, <3>1, <3>2, <3>3 DEF opvars, OwnTimeouts, FiresEarliest
  <2> QED
    BY <2>2, <2>3
<1>4. CASE (Advance \/ Return \/ Tick) /\ UNCHANGED opvars
  <2>1. TimersInv' /\ handler' \in {handler, NULL} /\ now <= now'
    BY <1>4, OtherStepsKeep
  <2>2. timeMs' = timeMs /\ handler' = handler
    BY <1>4 DEF Advance, Return, Tick, list
  <2>3. AsyncInv'
    <3>1. \A op \in Timers : deadline[op] # NULL => deadline[op] \in Nat
      BY DEF AsyncInv
    <3>2. now \in Nat /\ now' \in Nat
      BY <2>1 DEF TimersInv, ClockInv
    <3> QED
      BY <1>4, <2>1, <2>2, <3>1, <3>2 DEF AsyncInv, opvars
  <2> QED
    BY <1>4, <2>1, <2>2, <2>3 DEF opvars, OwnTimeouts, FiresEarliest
<1>5. CASE Fire /\ UNCHANGED opvars
  <2>1. /\ TimersInv' /\ handler' = first /\ first \in Timers
        /\ timeMs[first] \in 1..now /\ now' = now
        /\ timeMs' = [timeMs EXCEPT ![first] = 0]
        /\ \A t \in Timers : timer_active(t) => timeMs[first] <= timeMs[t]
    BY <1>5, FireKeeps
  <2>2. timeMs \in [Timers -> Nat] /\ now \in Nat
    BY DEF TimersInv, IsInOrder, ClockInv, Lists, List
  <2>3. /\ timeMs'[first] = 0
        /\ \A op \in Timers : timeMs'[op] # 0 => timeMs'[op] = timeMs[op]
    BY <2>1, <2>2
  <2>4. active[first] /\ deadline[first] = timeMs[first]
    BY <2>1, <2>2 DEF AsyncInv
  <2>5. deadline[first] # NULL /\ deadline[first] <= now
    BY <2>1, <2>2, <2>4, TimersAssumption
  <2>6. AsyncInv'
    BY <1>5, <2>1, <2>3, <2>5 DEF AsyncInv, opvars
  <2> QED
    BY <1>5, <2>1, <2>6 DEF opvars, OwnTimeouts, FiresEarliest
<1>6. CASE UNCHANGED asyncvars
  <2>1. UNCHANGED opvars /\ UNCHANGED list /\ handler' = handler /\ now' = now /\ mtime' = mtime
    BY <1>6 DEF asyncvars, timervars
  <2>2. TimersInv'
    BY <2>1, SameListKeeps DEF TimersInv, ClockInv
  <2>3. AsyncInv'
    BY <2>1 DEF AsyncInv, opvars, list
  <2> QED
    BY <2>1, <2>2, <2>3 DEF opvars, OwnTimeouts, FiresEarliest
<1> QED
  BY <1>1, <1>2, <1>3, <1>4, <1>5, <1>6 DEF AsyncNext

LEMMA AsyncStart == AsyncInit => TimersInv /\ AsyncInv
<1>1. AsyncInit => TimersInv
  BY TimersStart DEF AsyncInit
<1>2. AsyncInit => AsyncInv
  <2> SUFFICES ASSUME AsyncInit PROVE AsyncInv
    OBVIOUS
  <2>1. /\ active \in [Timers -> BOOLEAN] /\ armed = active
        /\ \A op \in Timers : active[op] = FALSE
    BY DEF AsyncInit
  <2>2. /\ runs \in [Timers -> Nat] /\ called \in [Timers -> Nat]
        /\ deadline \in [Timers -> Nat \cup {NULL}]
        /\ \A op \in Timers : /\ runs[op] = 0 /\ called[op] = 0
                              /\ deadline[op] = NULL /\ timeMs[op] = 0
                              /\ handler # op
    BY TimersAssumption DEF AsyncInit, TimersInit
  <2> QED
    BY <2>1, <2>2 DEF AsyncInv
<1> QED
  BY <1>1, <1>2

(* Each start of an operation is called back at most once, before the next *)
(* one, and a timeout that ends it is its own: async_op_finish and a start *)
(* leave no timer of an earlier start behind.                              *)
THEOREM OperationsEndByTheirOwnTimeout == AsyncSpec => OwnTimeoutOnly
<1>1. TimersInv /\ AsyncInv /\ [AsyncNext]_asyncvars
        => TimersInv' /\ AsyncInv' /\ [OwnTimeouts]_asyncvars
  BY AsyncStepKeeps
<1> QED
  BY <1>1, AsyncStart, PTL DEF AsyncSpec, OwnTimeoutOnly, OwnTimeouts

(* The timer list of the asynchronous operations is sorted and complete    *)
(* too, whichever of them starts, ends or times out.                       *)
THEOREM AsyncListIsSorted == AsyncSpec => []ListIsSorted
<1>1. TimersInv /\ AsyncInv /\ [AsyncNext]_asyncvars => TimersInv' /\ AsyncInv'
  BY AsyncStepKeeps
<1>2. TimersInv => ListIsSorted
  BY SortedListIsSorted DEF TimersInv
<1> QED
  BY <1>1, <1>2, AsyncStart, PTL DEF AsyncSpec

-----------------------------------------------------------------------------
(***************************************************************************)
(* The file monitor.  The invariant: the watchers have watches of their    *)
(* own, and for each either an event is waiting that will set it anew, or  *)
(* it is as WatcherIsAtPath says.                                          *)
(***************************************************************************)
Watch == [file : Nat, self : BOOLEAN]
Notices == [wd : Nat, type : {"IN_DELETE_SELF", "IN_MOVE_SELF", "IN_IGNORED"}]
Watchers == [path : Files, wd : Nat]

Noticed(q, wd) == \E i \in DOMAIN q : q[i].wd = wd

AtPath(w) ==
  /\ watches[w.wd] # NULL
  /\ \/ watches[w.wd].file = fileAt[w.path]
     \/ ~watches[w.wd].self /\ watches[w.wd].file \in movedAway

MonitorTypes ==
  /\ watches \in Seq(Watch \cup {NULL})
  /\ events \in Seq(Notices)
  /\ watch_list \in Seq(Watchers)
  /\ fileAt \in [Files -> Nat \cup {NULL}] /\ made \in Nat

OwnWatches ==
  /\ \A i \in DOMAIN watch_list : watch_list[i].wd \in DOMAIN watches
  /\ \A i, j \in DOMAIN watch_list :
       watch_list[i].wd = watch_list[j].wd => i = j

MonitorInv ==
  /\ MonitorTypes /\ OwnWatches
  /\ \A i \in DOMAIN watch_list :
       Noticed(events, watch_list[i].wd) \/ AtPath(watch_list[i])

(* What is noticed stays so when events are added.                         *)
LEMMA NoticedMore ==
  ASSUME NEW q \in Seq(Notices), NEW r \in Seq(Notices)
  PROVE  /\ q \o r \in Seq(Notices)
         /\ \A wd : Noticed(q, wd) \/ Noticed(r, wd) => Noticed(q \o r, wd)
<1>1. /\ q \o r \in Seq(Notices) /\ Len(q) \in Nat /\ Len(r) \in Nat
      /\ DOMAIN q = 1..Len(q) /\ DOMAIN r = 1..Len(r)
      /\ DOMAIN (q \o r) = 1..(Len(q) + Len(r))
      /\ \A k \in 1..(Len(q) + Len(r)) :
           (q \o r)[k] = IF k <= Len(q) THEN q[k] ELSE r[k - Len(q)]
  BY ConcatProperties, LenProperties
<1>2. ASSUME NEW i \in DOMAIN q PROVE i \in DOMAIN (q \o r) /\ (q \o r)[i] = q[i]
  BY <1>1
<1>3. ASSUME NEW i \in DOMAIN r
      PROVE  i + Len(q) \in DOMAIN (q \o r) /\ (q \o r)[i + Len(q)] = r[i]
  BY <1>1
<1> QED
  BY <1>1, <1>2, <1>3 DEF Noticed

LEMMA IgnoredIs ==
  ASSUME NEW wd \in Nat
  PROVE  /\ Ignored(wd) \in Notices /\ <<Ignored(wd)>> \in Seq(Notices)
         /\ Noticed(<<Ignored(wd)>>, wd)
<1>1. Ignored(wd) \in Notices
  BY DEF Ignored, Notices
<1>2. 1 \in DOMAIN <<Ignored(wd)>> /\ <<Ignored(wd)>>[1].wd = wd
  BY DEF Ignored
<1> QED
  BY <1>1, <1>2 DEF Noticed

(* inotify_rm_watch of one watch.                                          *)
LEMMA RmWatchIs ==
  ASSUME NEW k \in [watches : Seq(Watch \cup {NULL}), events : Seq(Notices)],
         NEW wd \in DOMAIN k.watches
  PROVE  LET r == inotify_rm_watch(k, wd) IN
         /\ r \in [watches : Seq(Watch \cup {NULL}), events : Seq(Notices)]
         /\ Len(r.watches) = Len(k.watches)
         /\ \A v \in DOMAIN k.watches \ {wd} : r.watches[v] = k.watches[v]
         /\ \A v : Noticed(k.events, v) => Noticed(r.events, v)
<1> DEFINE w == [k.watches EXCEPT ![wd] = NULL]
<1>1. Len(k.watches) \in Nat /\ DOMAIN k.watches = 1..Len(k.watches) /\ wd \in Nat
  BY LenProperties
<1>2. /\ w \in Seq(Watch \cup {NULL}) /\ Len(w) = Len(k.watches)
      /\ \A v \in DOMAIN k.watches \ {wd} : w[v] = k.watches[v]
  BY <1>1, ExceptSeq
<1>3. /\ Append(k.events, Ignored(wd)) = k.events \o <<Ignored(wd)>>
      /\ k.events \o <<Ignored(wd)>> \in Seq(Notices)
      /\ \A v : Noticed(k.events, v) => Noticed(k.events \o <<Ignored(wd)>>, v)
  BY <1>1, IgnoredIs, NoticedMore, AppendIsConcat
<1> HIDE DEF w
<1>4. CASE k.watches[wd] = NULL
  BY <1>4 DEF inotify_rm_watch
<1>5. CASE k.watches[wd] # NULL
  <2>1. inotify_rm_watch(k, wd) = [watches |-> w, events |-> Append(k.events, Ignored(wd))]
    BY <1>5 DEF inotify_rm_watch, w
  <2> QED
    BY <1>2, <1>3, <2>1
<1> QED
  BY <1>4, <1>5

LEMMA WatchesOfIs ==
  ASSUME MonitorTypes, NEW file
  PROVE  LET wds == WatchesOf(file) IN
         /\ wds \in Seq(DOMAIN watches)
         /\ \A i \in DOMAIN wds : watches[wds[i]] # NULL /\ watches[wds[i]].file = file
         /\ \A wd \in DOMAIN watches :
              watches[wd] # NULL /\ watches[wd].file = file
                => \E i \in DOMAIN wds : wds[i] = wd
<1> DEFINE S == {wd \in DOMAIN watches : watches[wd] # NULL /\ watches[wd].file = file}
<1>1. IsFiniteSet(S)
  <2>1. DOMAIN watches = 1..Len(watches) /\ Len(watches) \in Nat
    BY LenProperties DEF MonitorTypes
  <2>2. IsFiniteSet(DOMAIN watches) /\ S \in SUBSET DOMAIN watches
    BY <2>1, FS_Interval
  <2> HIDE DEF S
  <2> QED
    BY <2>2, FS_Subset
<1>2. WatchesOf(file) = SetToSeq(S)
  BY DEF WatchesOf
<1> DEFINE q == SetToSeq(S)
<1>3. q \in Seq(S) /\ \A x \in S : \E i \in DOMAIN q : q[i] = x
  <2> HIDE DEF S
  <2> QED
    BY <1>1, SetToSeqIs
<1> HIDE DEF q
<1>4. \A i \in DOMAIN q : q[i] \in S
  BY <1>3, ElementOfSeq, LenProperties
<1>5. q \in Seq(DOMAIN watches)
  BY <1>3, SeqMonotonic
<1> QED
  BY <1>2, <1>3, <1>4, <1>5 DEF q

(* Events that are added to those waiting.                                 *)
LEMMA MoreEvents ==
  ASSUME MonitorTypes, NEW q \in Seq(Seq(Notices))
  PROVE  /\ events \o FlattenSeq(q) \in Seq(Notices)
         /\ \A wd : Noticed(events, wd) => Noticed(events \o FlattenSeq(q), wd)
         /\ \A i \in DOMAIN q, wd \in Nat :
              Noticed(q[i], wd) => Noticed(events \o FlattenSeq(q), wd)
<1> DEFINE flat == FlattenSeq(q)
<1>1. flat \in Seq(Notices)
  BY SeqJoins, FlattenIs
<1>2. ASSUME NEW i \in DOMAIN q, NEW wd \in Nat, Noticed(q[i], wd)
      PROVE  Noticed(flat, wd)
  <2>1. PICK j \in DOMAIN q[i] : q[i][j].wd = wd
    BY <1>2 DEF Noticed
  <2>2. PICK k \in DOMAIN flat : flat[k] = q[i][j]
    BY FlattenHas
  <2> HIDE DEF flat
  <2> QED
    BY <2>1, <2>2 DEF Noticed
<1> HIDE DEF flat
<1>3. events \in Seq(Notices)
  BY DEF MonitorTypes
<1>4. /\ events \o flat \in Seq(Notices)
      /\ \A wd : Noticed(events, wd) \/ Noticed(flat, wd) => Noticed(events \o flat, wd)
  BY <1>1, <1>3, NoticedMore
<1> QED
  BY <1>2, <1>4 DEF flat

LEMMA SelfIs ==
  ASSUME MonitorTypes, NEW wd \in DOMAIN watches, watches[wd] # NULL,
         NEW type \in {"IN_DELETE_SELF", "IN_MOVE_SELF"}
  PROVE  /\ Self(type, wd) \in Seq(Notices)
         /\ watches[wd].self => Noticed(Self(type, wd), wd)
<1>1. wd \in Nat
  BY LenProperties DEF MonitorTypes
<1> DEFINE e == [wd |-> wd, type |-> type]
<1>2. e \in Notices /\ e.wd = wd
  BY <1>1 DEF Notices
<1>3. <<e>> \in Seq(Notices) /\ 1 \in DOMAIN <<e>> /\ <<e>>[1] = e
  BY <1>2
<1>4. CASE watches[wd].self
  <2>1. Self(type, wd) = <<e>>
    BY <1>4 DEF Self
  <2> QED
    BY <1>2, <1>3, <2>1 DEF Noticed
<1>5. CASE ~watches[wd].self
  BY <1>5, EmptySeq DEF Self
<1> QED
  BY <1>4, <1>5

LEMMA UnwatchedIs ==
  ASSUME MonitorTypes, NEW wds
  PROVE  /\ Unwatched(wds) \in Seq(Watch \cup {NULL})
         /\ DOMAIN Unwatched(wds) = DOMAIN watches
         /\ \A wd \in DOMAIN watches :
              Unwatched(wds)[wd] = IF wd \in ToSet(wds) THEN NULL ELSE watches[wd]
<1>1. /\ watches \in Seq(Watch \cup {NULL})
      /\ Len(watches) \in Nat /\ DOMAIN watches = 1..Len(watches)
      /\ \A wd \in DOMAIN watches : watches[wd] \in Watch \cup {NULL}
  BY LenProperties, ElementOfSeq DEF MonitorTypes
<1>2. Unwatched(wds) \in [1..Len(watches) -> Watch \cup {NULL}]
  BY <1>1 DEF Unwatched
<1> QED
  BY <1>1, <1>2, SeqDef DEF Unwatched

(* A file that is deleted, with the watches on it.                         *)
LEMMA DeletedIs ==
  ASSUME MonitorTypes, NEW file, KernelBecomes(Deleted(file))
  PROVE  /\ watches' \in Seq(Watch \cup {NULL}) /\ events' \in Seq(Notices)
         /\ DOMAIN watches' = DOMAIN watches
         /\ \A wd : Noticed(events, wd) => Noticed(events, wd)'
         /\ \A wd \in DOMAIN watches :
              IF watches[wd] # NULL /\ watches[wd].file = file
              THEN Noticed(events, wd)'
              ELSE watches'[wd] = watches[wd]
<1> DEFINE wds == WatchesOf(file)
           q == [i \in DOMAIN wds |->
                   Self("IN_DELETE_SELF", wds[i]) \o <<Ignored(wds[i])>>]
<1>1. watches' = Unwatched(wds) /\ events' = events \o FlattenSeq(q)
  BY DEF KernelBecomes, Deleted
<1>2. /\ wds \in Seq(DOMAIN watches)
      /\ \A i \in DOMAIN wds : watches[wds[i]] # NULL /\ watches[wds[i]].file = file
      /\ \A wd \in DOMAIN watches :
           watches[wd] # NULL /\ watches[wd].file = file
             => \E i \in DOMAIN wds : wds[i] = wd
  BY WatchesOfIs
<1> HIDE DEF wds
<1>3. /\ \A i \in DOMAIN wds : wds[i] \in DOMAIN watches /\ wds[i] \in Nat
      /\ DOMAIN wds = 1..Len(wds) /\ Len(wds) \in Nat
  <2>1. DOMAIN watches = 1..Len(watches) /\ Len(watches) \in Nat
    BY LenProperties DEF MonitorTypes
  <2> QED
    BY <1>2, <2>1, LenProperties, ElementOfSeq
<1>4. ASSUME NEW i \in DOMAIN wds
      PROVE  q[i] \in Seq(Notices) /\ Noticed(q[i], wds[i])
  <2>1. Self("IN_DELETE_SELF", wds[i]) \in Seq(Notices)
    BY <1>2, <1>3, SelfIs
  <2>2. <<Ignored(wds[i])>> \in Seq(Notices) /\ Noticed(<<Ignored(wds[i])>>, wds[i])
    BY <1>3, IgnoredIs
  <2> QED
    BY <2>1, <2>2, NoticedMore
<1>5. q \in Seq(Seq(Notices)) /\ DOMAIN q = DOMAIN wds
  <2>1. q \in [1..Len(wds) -> Seq(Notices)]
    BY <1>3, <1>4
  <2> QED
    BY <1>3, <2>1, SeqDef
<1> HIDE DEF q
<1>6. /\ events' \in Seq(Notices)
      /\ \A wd : Noticed(events, wd) => Noticed(events', wd)
      /\ \A i \in DOMAIN q, wd \in Nat : Noticed(q[i], wd) => Noticed(events', wd)
  BY <1>1, <1>5, MoreEvents
<1>7. ToSet(wds) = {wds[i] : i \in DOMAIN wds}
  BY DEF ToSet
<1>8. ASSUME NEW wd \in DOMAIN watches
      PROVE  IF watches[wd] # NULL /\ watches[wd].file = file
             THEN Noticed(events', wd)
             ELSE watches'[wd] = watches[wd]
  <2>1. CASE watches[wd] # NULL /\ watches[wd].file = file
    <3>1. PICK i \in DOMAIN wds : wds[i] = wd
      BY <1>2, <2>1
    <3>2. Noticed(events', wd)
      BY <1>3, <1>4, <1>5, <1>6, <3>1
    <3> QED
      BY <2>1, <3>2
  <2>2. CASE ~(watches[wd] # NULL /\ watches[wd].file = file)
    <3>1. wd \notin ToSet(wds)
      BY <1>2, <1>7, <2>2
    <3>2. watches'[wd] = watches[wd]
      BY <1>1, <3>1, UnwatchedIs
    <3> QED
      BY <2>2, <3>2
  <2> QED
    BY <2>1, <2>2
<1> QED
  BY <1>1, <1>6, <1>8, UnwatchedIs DEF Noticed

(* A file that is moved away, with its watches.                            *)
LEMMA MovedIs ==
  ASSUME MonitorTypes, NEW file, KernelBecomes(Moved(file))
  PROVE  /\ watches' = watches /\ events' \in Seq(Notices)
         /\ \A wd : Noticed(events, wd) => Noticed(events, wd)'
         /\ \A wd \in DOMAIN watches :
              watches[wd] # NULL /\ watches[wd].file = file /\ watches[wd].self
                => Noticed(events, wd)'
<1> DEFINE wds == WatchesOf(file)
           q == [i \in DOMAIN wds |-> Self("IN_MOVE_SELF", wds[i])]
<1>1. watches' = watches /\ events' = events \o FlattenSeq(q)
  BY DEF KernelBecomes, Moved
<1>2. /\ wds \in Seq(DOMAIN watches)
      /\ \A i \in DOMAIN wds : watches[wds[i]] # NULL
      /\ \A wd \in DOMAIN watches :
           watches[wd] # NULL /\ watches[wd].file = file
             => \E i \in DOMAIN wds : wds[i] = wd
  BY WatchesOfIs
<1> HIDE DEF wds
<1>3. /\ \A i \in DOMAIN wds : wds[i] \in DOMAIN watches /\ wds[i] \in Nat
      /\ DOMAIN wds = 1..Len(wds) /\ Len(wds) \in Nat
  <2>1. DOMAIN watches = 1..Len(watches) /\ Len(watches) \in Nat
    BY LenProperties DEF MonitorTypes
  <2> QED
    BY <1>2, <2>1, LenProperties, ElementOfSeq
<1>4. ASSUME NEW i \in DOMAIN wds
      PROVE  /\ q[i] \in Seq(Notices)
             /\ watches[wds[i]].self => Noticed(q[i], wds[i])
  BY <1>2, <1>3, SelfIs
<1>5. q \in Seq(Seq(Notices)) /\ DOMAIN q = DOMAIN wds
  <2>1. q \in [1..Len(wds) -> Seq(Notices)]
    BY <1>3, <1>4
  <2> QED
    BY <1>3, <2>1, SeqDef
<1> HIDE DEF q
<1>6. /\ events' \in Seq(Notices)
      /\ \A wd : Noticed(events, wd) => Noticed(events', wd)
      /\ \A i \in DOMAIN q, wd \in Nat : Noticed(q[i], wd) => Noticed(events', wd)
  BY <1>1, <1>5, MoreEvents
<1>7. ASSUME NEW wd \in DOMAIN watches, watches[wd] # NULL,
             watches[wd].file = file, watches[wd].self
      PROVE  Noticed(events', wd)
  <2>1. PICK i \in DOMAIN wds : wds[i] = wd
    BY <1>2, <1>7
  <2> QED
    BY <1>3, <1>4, <1>5, <1>6, <1>7, <2>1
<1> QED
  BY <1>1, <1>6, <1>7 DEF Noticed

(* The head of the events is handled: the others are still waiting.        *)
LEMMA TailIs ==
  ASSUME NEW q \in Seq(Notices), q # <<>>
  PROVE  /\ Tail(q) \in Seq(Notices) /\ Head(q) \in Notices
         /\ \A wd : Noticed(q, wd) /\ wd # Head(q).wd => Noticed(Tail(q), wd)
<1>1. /\ Tail(q) \in Seq(Notices) /\ Head(q) \in Notices /\ Head(q) = q[1]
      /\ Len(Tail(q)) = Len(q) - 1 /\ Len(q) \in Nat /\ Len(q) # 0
      /\ \A i \in 1..Len(Tail(q)) : Tail(q)[i] = q[i + 1]
      /\ DOMAIN q = 1..Len(q) /\ DOMAIN Tail(q) = 1..Len(Tail(q))
  BY HeadTailProperties, LenProperties, EmptySeq
<1>2. ASSUME NEW i \in DOMAIN q, q[i].wd # Head(q).wd
      PROVE  i - 1 \in DOMAIN Tail(q) /\ Tail(q)[i - 1] = q[i]
  <2>1. i # 1
    BY <1>1, <1>2
  <2>2. i - 1 \in 1..(Len(q) - 1) /\ i - 1 + 1 = i
    BY <1>1, <2>1
  <2> QED
    BY <1>1, <2>2
<1> QED
  BY <1>1, <1>2 DEF Noticed

LEMMA AddWatchIs ==
  ASSUME NEW k \in [watches : Seq(Watch \cup {NULL}), events : Seq(Notices)],
         NEW file \in Nat, NEW self \in BOOLEAN
  PROVE  LET r == inotify_add_watch(k, file, self)
             n == Len(k.watches) + 1
         IN  /\ r.watches \in Seq(Watch \cup {NULL}) /\ r.events = k.events
             /\ Len(r.watches) = n /\ n \in Nat \ DOMAIN k.watches
             /\ DOMAIN r.watches = DOMAIN k.watches \cup {n}
             /\ r.watches[n] = [file |-> file, self |-> self]
             /\ \A v \in DOMAIN k.watches : r.watches[v] = k.watches[v]
<1> DEFINE e == [file |-> file, self |-> self]
           w == Append(k.watches, e)
<1>1. e \in Watch \cup {NULL}
  BY DEF Watch
<1> HIDE DEF e
<1>2. /\ w \in Seq(Watch \cup {NULL}) /\ Len(w) = Len(k.watches) + 1
      /\ w[Len(k.watches) + 1] = e
      /\ \A v \in 1..Len(k.watches) : w[v] = k.watches[v]
  BY <1>1, AppendProperties
<1>3. /\ Len(k.watches) \in Nat /\ DOMAIN k.watches = 1..Len(k.watches)
      /\ DOMAIN w = 1..Len(w)
  BY <1>2, LenProperties
<1>4. inotify_add_watch(k, file, self) = [k EXCEPT !.watches = w]
  BY DEF inotify_add_watch, e
<1> HIDE DEF w
<1> QED
  BY <1>2, <1>3, <1>4 DEF e

LEMMA MonitorTypesAre ==
  ASSUME MonitorTypes
  PROVE  /\ Kernel \in [watches : Seq(Watch \cup {NULL}), events : Seq(Notices)]
         /\ Kernel.watches = watches /\ Kernel.events = events
         /\ Len(watches) \in Nat /\ DOMAIN watches = 1..Len(watches)
         /\ Len(watch_list) \in Nat /\ DOMAIN watch_list = 1..Len(watch_list)
         /\ \A i \in DOMAIN watch_list :
              /\ watch_list[i] \in Watchers
              /\ watch_list[i].path \in Files /\ watch_list[i].wd \in Nat
<1>1. \A i \in DOMAIN watch_list : watch_list[i] \in Watchers
  BY LenProperties, ElementOfSeq DEF MonitorTypes
<1> QED
  BY <1>1, LenProperties DEF MonitorTypes, Kernel, Watchers

LEMMA MonitorStarts == MonitorInit => MonitorInv
<1> SUFFICES ASSUME MonitorInit PROVE MonitorInv
  OBVIOUS
<1>1. watch_list = <<>> /\ watches = <<>> /\ events = <<>>
  BY DEF MonitorInit
<1>2. MonitorTypes
  BY <1>1, EmptySeq DEF MonitorTypes, MonitorInit
<1>3. DOMAIN watch_list = {}
  BY <1>1
<1> QED
  BY <1>2, <1>3 DEF MonitorInv, OwnWatches

LEMMA InitKeepsMonitor == MonitorInv /\ fs_monitor_init => MonitorInv'
<1> SUFFICES ASSUME MonitorInv, fs_monitor_init PROVE MonitorInv'
  OBVIOUS
<1> USE DEF MonitorInv
<1> DEFINE wds == [i \in DOMAIN watch_list |-> watch_list[i].wd]
           q == [i \in DOMAIN wds |-> IF watches[wds[i]] = NULL THEN <<>>
                                      ELSE <<Ignored(wds[i])>>]
<1>1. watch_list' = <<>> /\ watches' = Unwatched(wds)
      /\ events' = events \o FlattenSeq(q) /\ UNCHANGED <<fileAt, made>>
  BY DEF fs_monitor_init
<1>2. ASSUME NEW i \in DOMAIN watch_list PROVE q[i] \in Seq(Notices)
  <2>1. wds[i] \in Nat
    BY MonitorTypesAre
  <2> HIDE DEF wds
  <2>2. <<Ignored(wds[i])>> \in Seq(Notices) /\ <<>> \in Seq(Notices)
    BY <2>1, IgnoredIs, EmptySeq
  <2>3. DOMAIN wds = DOMAIN watch_list
    BY DEF wds
  <2> QED
    BY <2>2, <2>3
<1>3. q \in Seq(Seq(Notices))
  <2>1. DOMAIN wds = DOMAIN watch_list
    OBVIOUS
  <2> DEFINE n == Len(watch_list)
  <2>2. n \in Nat /\ DOMAIN watch_list = 1..n
    BY MonitorTypesAre
  <2> HIDE DEF wds, n
  <2>3. q \in [1..n -> Seq(Notices)]
    BY <1>2, <2>1, <2>2
  <2> QED
    BY <2>2, <2>3, SeqDef
<1> HIDE DEF q, wds
<1>4. events' \in Seq(Notices)
  BY <1>1, <1>3, MoreEvents
<1>5. watches' \in Seq(Watch \cup {NULL})
  BY <1>1, UnwatchedIs
<1>6. watch_list' \in Seq(Watchers) /\ DOMAIN watch_list' = {}
  BY <1>1, EmptySeq
<1> QED
  BY <1>1, <1>4, <1>5, <1>6 DEF MonitorTypes, OwnWatches

LEMMA CleanupKeepsMonitor == MonitorInv /\ fs_monitor_cleanup => MonitorInv'
<1> SUFFICES ASSUME MonitorInv, fs_monitor_cleanup PROVE MonitorInv'
  OBVIOUS
<1> USE DEF MonitorInv
<1>1. /\ watch_list' = <<>> /\ events' = <<>>
      /\ watches' = [wd \in DOMAIN watches |-> NULL] /\ UNCHANGED <<fileAt, made>>
  BY DEF fs_monitor_cleanup
<1>2. watches' \in Seq(Watch \cup {NULL})
  <2>1. Len(watches) \in Nat /\ DOMAIN watches = 1..Len(watches)
    BY MonitorTypesAre
  <2>2. watches' \in [1..Len(watches) -> Watch \cup {NULL}]
    BY <1>1, <2>1
  <2> QED
    BY <2>1, <2>2, SeqDef
<1>3. watch_list' \in Seq(Watchers) /\ DOMAIN watch_list' = {}
      /\ events' \in Seq(Notices)
  BY <1>1, EmptySeq
<1> QED
  BY <1>1, <1>2, <1>3 DEF MonitorTypes, OwnWatches

LEMMA AddKeepsMonitor ==
  ASSUME MonitorInv, NEW p \in Files, fs_monitor_add_watcher(p)
  PROVE  MonitorInv'
<1> USE DEF MonitorInv
<1> DEFINE n == Len(watches) + 1
           new == [path |-> p, wd |-> n]
<1>1. fileAt[p] \in Nat /\ UNCHANGED <<fileAt, made, movedAway>>
  BY DEF fs_monitor_add_watcher, MonitorTypes
<1>2. /\ watches' \in Seq(Watch \cup {NULL}) /\ events' = events
      /\ Len(watches') = n /\ n \in Nat \ DOMAIN watches
      /\ DOMAIN watches' = DOMAIN watches \cup {n}
      /\ watches'[n] = [file |-> fileAt[p], self |-> TRUE]
      /\ \A v \in DOMAIN watches : watches'[v] = watches[v]
  <2>1. KernelBecomes(inotify_add_watch(Kernel, fileAt[p], TRUE))
    BY DEF fs_monitor_add_watcher
  <2> DEFINE f == fileAt[p]
             k == Kernel
             r == inotify_add_watch(k, f, TRUE)
  <2>2. /\ k \in [watches : Seq(Watch \cup {NULL}), events : Seq(Notices)]
        /\ k.watches = watches /\ k.events = events /\ f \in Nat
        /\ watches' = r.watches /\ events' = r.events
    BY <1>1, <2>1, MonitorTypesAre DEF KernelBecomes
  <2> HIDE DEF f, k
  <2>3. /\ r.watches \in Seq(Watch \cup {NULL}) /\ r.events = k.events
        /\ Len(r.watches) = Len(k.watches) + 1
        /\ Len(k.watches) + 1 \in Nat \ DOMAIN k.watches
        /\ DOMAIN r.watches = DOMAIN k.watches \cup {Len(k.watches) + 1}
        /\ r.watches[Len(k.watches) + 1] = [file |-> f, self |-> TRUE]
        /\ \A v \in DOMAIN k.watches : r.watches[v] = k.watches[v]
    BY <2>2, AddWatchIs
  <2> HIDE DEF r
  <2> QED
    BY <2>2, <2>3 DEF f
<1>3. watch_list' = <<new>> \o watch_list
  BY <1>2 DEF fs_monitor_add_watcher
<1>4. new \in Watchers /\ new.path = p /\ new.wd = n
  BY <1>2 DEF Watchers
<1> HIDE DEF n, new
<1>5. /\ watch_list' \in Seq(Watchers) /\ DOMAIN watch_list' = 1..(1 + Len(watch_list))
      /\ \A i \in 1..(1 + Len(watch_list)) :
           watch_list'[i] = IF i = 1 THEN new ELSE watch_list[i - 1]
  <2>1. watch_list \in Seq(Watchers) /\ <<new>> \in Seq(Watchers)
        /\ Len(<<new>>) = 1 /\ <<new>>[1] = new
    BY <1>4 DEF MonitorTypes
  <2> DEFINE s == <<new>>
             c == s \o watch_list
  <2> HIDE DEF s
  <2>2. /\ c \in Seq(Watchers) /\ Len(c) = Len(s) + Len(watch_list)
        /\ \A i \in 1..(Len(s) + Len(watch_list)) :
             c[i] = IF i <= Len(s) THEN s[i] ELSE watch_list[i - Len(s)]
    BY <2>1, ConcatProperties DEF s
  <2>3. Len(s) = 1 /\ s[1] = new /\ watch_list' = c
    BY <1>3, <2>1 DEF s
  <2>4. DOMAIN c = 1..Len(c) /\ Len(watch_list) \in Nat
    BY <2>2, LenProperties, MonitorTypesAre
  <2> HIDE DEF c
  <2>5. \A i \in 1..(1 + Len(watch_list)) : i <= 1 <=> i = 1
    BY <2>4
  <2> QED
    BY <2>2, <2>3, <2>4, <2>5
<1>6. \A i \in DOMAIN watch_list' :
        i # 1 => i - 1 \in DOMAIN watch_list /\ watch_list'[i] = watch_list[i - 1]
  BY <1>5, MonitorTypesAre
<1>7. MonitorTypes'
  BY <1>1, <1>2, <1>5 DEF MonitorTypes
<1>8. OwnWatches'
  <2>1. \A i \in DOMAIN watch_list' : watch_list'[i].wd \in DOMAIN watches'
    BY <1>2, <1>4, <1>5, <1>6 DEF OwnWatches
  <2>2. ASSUME NEW i \in DOMAIN watch_list', NEW j \in DOMAIN watch_list',
               watch_list'[i].wd = watch_list'[j].wd
        PROVE  i = j
    <3>1. \A k \in DOMAIN watch_list : watch_list[k].wd # n
      BY <1>2 DEF OwnWatches
    <3>2. CASE i = 1 \/ j = 1
      BY <1>4, <1>5, <1>6, <2>2, <3>1, <3>2
    <3>3. CASE i # 1 /\ j # 1
      <4>1. i - 1 = j - 1
        BY <1>6, <2>2, <3>3 DEF OwnWatches
      <4> QED
        BY <1>5, <4>1
    <3> QED
      BY <3>2, <3>3
  <2> QED
    BY <2>1, <2>2 DEF OwnWatches
<1>9. ASSUME NEW i \in DOMAIN watch_list'
      PROVE  Noticed(events', watch_list'[i].wd) \/ AtPath(watch_list[i])'
  <2>1. CASE i = 1
    <3>1. watch_list'[i].wd = n /\ watch_list'[i].path = p
      BY <1>4, <1>5, <2>1
    <3>2. watches'[n] # NULL
      <4>1. [file |-> fileAt[p], self |-> TRUE] \in [file : Nat, self : BOOLEAN]
        BY <1>1
      <4> QED
        BY <1>2, <4>1, MonitorAssumption
    <3> QED
      BY <1>1, <1>2, <3>1, <3>2 DEF AtPath
  <2>2. CASE i # 1
    <3>1. PICK w : w = watch_list[i - 1]
      OBVIOUS
    <3>2. watch_list'[i] = w /\ w.wd \in DOMAIN watches
          /\ (Noticed(events, w.wd) \/ AtPath(w))
      BY <1>6, <2>2, <3>1 DEF OwnWatches
    <3> QED
      BY <1>1, <1>2, <3>2 DEF AtPath
  <2> QED
    BY <2>1, <2>2
<1> QED
  BY <1>7, <1>8, <1>9 DEF Noticed

(* One watcher leaves the list: the others are as before.                  *)
LEMMA RemovedIs ==
  ASSUME MonitorTypes, OwnWatches, NEW i \in DOMAIN watch_list,
         watch_list' = RemoveAt(watch_list, i)
  PROVE  /\ watch_list' \in Seq(Watchers)
         /\ \A j \in DOMAIN watch_list' :
              \E m \in DOMAIN watch_list \ {i} : watch_list'[j] = watch_list[m]
         /\ \A j, l \in DOMAIN watch_list' :
              watch_list'[j].wd = watch_list'[l].wd => j = l
<1>1. watch_list \in Seq(Watchers)
  BY DEF MonitorTypes
<1> DEFINE Place(j) == IF j < i THEN j ELSE j + 1
<1>2. /\ watch_list' \in Seq(Watchers)
      /\ \A j \in DOMAIN watch_list' :
           Place(j) \in DOMAIN watch_list \ {i} /\ watch_list'[j] = watch_list[Place(j)]
  BY <1>1, RemoveAtIs
<1>3. /\ \A j \in DOMAIN watch_list' : j \in Nat /\ i \in Nat
      /\ \A j, l \in DOMAIN watch_list' : Place(j) = Place(l) => j = l
  BY <1>2, LenProperties, MonitorTypesAre
<1> HIDE DEF Place
<1>4. \A j, l \in DOMAIN watch_list' :
        watch_list'[j].wd = watch_list'[l].wd => Place(j) = Place(l)
  BY <1>2 DEF OwnWatches
<1> QED
  BY <1>2, <1>3, <1>4

(* The others keep what they had when one watch and the events at most of  *)
(* that watch go, and the files stay.                                      *)
LEMMA OthersStay ==
  ASSUME MonitorInv, NEW i \in DOMAIN watch_list, NEW m \in DOMAIN watch_list \ {i},
         UNCHANGED <<fileAt, movedAway>>,
         \A v \in DOMAIN watches \ {watch_list[i].wd} : watches'[v] = watches[v],
         \A v : v # watch_list[i].wd /\ Noticed(events, v) => Noticed(events', v)
  PROVE  \A w : w = watch_list[m] =>
           Noticed(events', w.wd) \/ AtPath(w)'
<1> TAKE w
<1> HAVE w = watch_list[m]
<1>1. w.wd # watch_list[i].wd /\ w.wd \in DOMAIN watches
  BY DEF MonitorInv, OwnWatches
<1>2. Noticed(events, w.wd) \/ AtPath(w)
  BY DEF MonitorInv
<1>3. watches'[w.wd] = watches[w.wd]
  BY <1>1
<1> QED
  BY <1>1, <1>2, <1>3 DEF AtPath

LEMMA DelKeepsMonitor ==
  ASSUME MonitorInv, NEW p \in Files, fs_monitor_del_watcher(p)
  PROVE  MonitorInv'
<1>0. MonitorTypes /\ OwnWatches
  BY DEF MonitorInv
<1>1. PICK i \in DOMAIN watch_list :
        /\ KernelBecomes(inotify_rm_watch(Kernel, watch_list[i].wd))
        /\ watch_list' = RemoveAt(watch_list, i)
  BY DEF fs_monitor_del_watcher
<1>2. PICK wd : wd = watch_list[i].wd
  OBVIOUS
<1>3. PICK k : k = Kernel
  OBVIOUS
<1>4. /\ k \in [watches : Seq(Watch \cup {NULL}), events : Seq(Notices)]
      /\ k.watches = watches /\ k.events = events /\ wd \in DOMAIN k.watches
  BY <1>0, <1>2, <1>3, MonitorTypesAre DEF OwnWatches
<1> DEFINE r == inotify_rm_watch(k, wd)
<1>5. /\ r \in [watches : Seq(Watch \cup {NULL}), events : Seq(Notices)]
      /\ Len(r.watches) = Len(k.watches)
      /\ \A v \in DOMAIN k.watches \ {wd} : r.watches[v] = k.watches[v]
      /\ \A v : Noticed(k.events, v) => Noticed(r.events, v)
  BY <1>4, RmWatchIs
<1>6. watches' = r.watches /\ events' = r.events
  BY <1>1, <1>2, <1>3 DEF KernelBecomes
<1> HIDE DEF r
<1>7. /\ watches' \in Seq(Watch \cup {NULL}) /\ events' \in Seq(Notices)
      /\ DOMAIN watches' = DOMAIN watches
      /\ \A v \in DOMAIN watches \ {wd} : watches'[v] = watches[v]
      /\ \A v : Noticed(events, v) => Noticed(events', v)
  BY <1>4, <1>5, <1>6, LenProperties
<1>8. UNCHANGED <<fileAt, made, movedAway>>
  BY DEF fs_monitor_del_watcher
<1>9. /\ watch_list' \in Seq(Watchers)
      /\ \A j \in DOMAIN watch_list' :
           \E m \in DOMAIN watch_list \ {i} : watch_list'[j] = watch_list[m]
      /\ \A j, l \in DOMAIN watch_list' :
           watch_list'[j].wd = watch_list'[l].wd => j = l
  BY <1>0, <1>1, RemovedIs
<1>10. MonitorTypes'
  BY <1>0, <1>7, <1>8, <1>9 DEF MonitorTypes
<1>11. OwnWatches'
  BY <1>0, <1>7, <1>9 DEF OwnWatches
<1>12. ASSUME NEW j \in DOMAIN watch_list'
       PROVE  Noticed(events', watch_list'[j].wd) \/ AtPath(watch_list[j])'
  <2>1. PICK m \in DOMAIN watch_list \ {i} : watch_list'[j] = watch_list[m]
    BY <1>9
  <2>2. PICK w : w = watch_list[m]
    OBVIOUS
  <2>3. Noticed(events', w.wd) \/ AtPath(w)'
    BY <1>2, <1>7, <1>8, <2>2, OthersStay
  <2> QED
    BY <2>1, <2>2, <2>3 DEF AtPath
<1> QED
  BY <1>10, <1>11, <1>12 DEF MonitorInv, Noticed

(* An event is handled that names the watcher: its watch is removed and,   *)
(* with a file at the path, set anew.                                      *)
LEMMA RestoredKeepsMonitor ==
  ASSUME MonitorInv, events # <<>>, NEW i \in DOMAIN watch_list,
         watch_list[i].wd = Head(events).wd, Restored(i),
         UNCHANGED <<fileAt, made, movedAway>>
  PROVE  MonitorInv'
<1>0. MonitorTypes /\ OwnWatches
  BY DEF MonitorInv
<1>1. PICK w : w = watch_list[i]
  OBVIOUS
<1>2. PICK k : k = [Kernel EXCEPT !.events = Tail(events)]
  OBVIOUS
<1>3. /\ Tail(events) \in Seq(Notices)
      /\ \A v : Noticed(events, v) /\ v # w.wd => Noticed(Tail(events), v)
  BY <1>0, <1>1, TailIs DEF MonitorTypes
<1>4. /\ k \in [watches : Seq(Watch \cup {NULL}), events : Seq(Notices)]
      /\ k.watches = watches /\ k.events = Tail(events) /\ w.wd \in DOMAIN k.watches
      /\ w.path \in Files /\ w.wd \in Nat /\ w \in Watchers
  BY <1>0, <1>1, <1>2, <1>3, MonitorTypesAre DEF OwnWatches
<1>5. PICK r : r = inotify_rm_watch(k, w.wd)
  OBVIOUS
<1>6. /\ r \in [watches : Seq(Watch \cup {NULL}), events : Seq(Notices)]
      /\ Len(r.watches) = Len(k.watches)
      /\ \A v \in DOMAIN k.watches \ {w.wd} : r.watches[v] = k.watches[v]
      /\ \A v : Noticed(k.events, v) => Noticed(r.events, v)
  BY <1>4, <1>5, RmWatchIs
<1>7. /\ DOMAIN r.watches = DOMAIN watches
      /\ \A v \in DOMAIN watches \ {w.wd} : r.watches[v] = watches[v]
      /\ \A v : v # w.wd /\ Noticed(events, v) => Noticed(r.events, v)
  BY <1>3, <1>4, <1>6, LenProperties
<1>8. CASE fileAt[w.path] = NULL
  <2>1. watches' = r.watches /\ events' = r.events
        /\ watch_list' = RemoveAt(watch_list, i)
    BY <1>1, <1>2, <1>5, <1>8 DEF Restored, KernelBecomes, Kernel
  <2>2. /\ watch_list' \in Seq(Watchers)
        /\ \A j \in DOMAIN watch_list' :
             \E m \in DOMAIN watch_list \ {i} : watch_list'[j] = watch_list[m]
        /\ \A j, l \in DOMAIN watch_list' :
             watch_list'[j].wd = watch_list'[l].wd => j = l
    BY <1>0, <2>1, RemovedIs
  <2>3. MonitorTypes'
    BY <1>0, <1>6, <2>1, <2>2 DEF MonitorTypes
  <2>4. OwnWatches'
    BY <1>0, <1>7, <2>1, <2>2 DEF OwnWatches
  <2>5. ASSUME NEW j \in DOMAIN watch_list'
        PROVE  Noticed(events', watch_list'[j].wd) \/ AtPath(watch_list[j])'
    <3>1. PICK m \in DOMAIN watch_list \ {i} : watch_list'[j] = watch_list[m]
      BY <2>2
    <3>2. PICK x : x = watch_list[m]
      OBVIOUS
    <3>3. Noticed(events', x.wd) \/ AtPath(x)'
      BY <1>1, <1>7, <2>1, <3>2, OthersStay
    <3> QED
      BY <3>1, <3>2, <3>3 DEF AtPath
  <2> QED
    BY <2>3, <2>4, <2>5 DEF MonitorInv, Noticed
<1>9. CASE fileAt[w.path] # NULL
  <2>1. PICK f : f = fileAt[w.path]
    OBVIOUS
  <2>2. f \in Nat
    BY <1>0, <1>4, <1>9, <2>1 DEF MonitorTypes
  <2>3. PICK n : n = Len(r.watches) + 1
    OBVIOUS
  <2> DEFINE a == inotify_add_watch(r, f, FALSE)
  <2>4. /\ a.watches \in Seq(Watch \cup {NULL}) /\ a.events = r.events
        /\ Len(a.watches) = n /\ n \in Nat \ DOMAIN r.watches
        /\ DOMAIN a.watches = DOMAIN r.watches \cup {n}
        /\ a.watches[n] = [file |-> f, self |-> FALSE]
        /\ \A v \in DOMAIN r.watches : a.watches[v] = r.watches[v]
    BY <1>6, <2>2, <2>3, AddWatchIs
  <2>5. /\ KernelBecomes(a)
        /\ watch_list' = [watch_list EXCEPT ![i].wd = Len(watches')]
    BY <1>1, <1>2, <1>5, <1>9, <2>1 DEF Restored, Kernel
  <2>6. watches' = a.watches /\ events' = a.events
    BY <2>5 DEF KernelBecomes
  <2> HIDE DEF a
  <2>7. /\ watches' \in Seq(Watch \cup {NULL}) /\ events' = r.events
        /\ n \in Nat \ DOMAIN watches /\ DOMAIN watches' = DOMAIN watches \cup {n}
        /\ watches'[n] = [file |-> f, self |-> FALSE]
        /\ \A v \in DOMAIN watches \ {w.wd} : watches'[v] = watches[v]
    BY <1>7, <2>4, <2>6
  <2>8. PICK new : new = [w EXCEPT !.wd = n]
    OBVIOUS
  <2>9. new \in Watchers /\ new.wd = n /\ new.path = w.path
    BY <1>4, <2>7, <2>8 DEF Watchers
  <2>10. /\ watch_list' \in Seq(Watchers) /\ DOMAIN watch_list' = DOMAIN watch_list
         /\ watch_list'[i] = new
         /\ \A j \in DOMAIN watch_list \ {i} : watch_list'[j] = watch_list[j]
    <3>1. watch_list' = [watch_list EXCEPT ![i] = new]
      BY <1>1, <2>4, <2>5, <2>6, <2>8
    <3>2. watch_list \in Seq(Watchers) /\ i \in 1..Len(watch_list)
      BY <1>0, MonitorTypesAre DEF MonitorTypes
    <3> DEFINE u == [watch_list EXCEPT ![i] = new]
    <3>3. /\ u \in Seq(Watchers) /\ Len(u) = Len(watch_list)
          /\ \A j \in 1..Len(watch_list) : u[j] = IF j = i THEN new ELSE watch_list[j]
      BY <2>9, <3>2, ExceptSeq
    <3> HIDE DEF u
    <3>4. DOMAIN u = 1..Len(u) /\ DOMAIN watch_list = 1..Len(watch_list)
      BY <3>2, <3>3, LenProperties
    <3> QED
      BY <3>1, <3>2, <3>3, <3>4 DEF u
  <2>11. MonitorTypes'
    BY <1>0, <1>6, <2>7, <2>10 DEF MonitorTypes
  <2>12. \A m \in DOMAIN watch_list : watch_list[m].wd \in DOMAIN watches
    BY <1>0 DEF OwnWatches
  <2>13. OwnWatches'
    <3>1. \A j \in DOMAIN watch_list' : watch_list'[j].wd \in DOMAIN watches'
      BY <2>7, <2>9, <2>10, <2>12
    <3>2. ASSUME NEW j \in DOMAIN watch_list', NEW l \in DOMAIN watch_list',
                 watch_list'[j].wd = watch_list'[l].wd
          PROVE  j = l
      <4>1. CASE j = i \/ l = i
        BY <2>7, <2>9, <2>10, <2>12, <3>2, <4>1
      <4>2. CASE j # i /\ l # i
        BY <1>0, <2>10, <3>2, <4>2 DEF OwnWatches
      <4> QED
        BY <4>1, <4>2
    <3> QED
      BY <3>1, <3>2 DEF OwnWatches
  <2>14. ASSUME NEW j \in DOMAIN watch_list'
         PROVE  Noticed(events', watch_list'[j].wd) \/ AtPath(watch_list[j])'
    <3>1. CASE j = i
      <4>1. [file |-> f, self |-> FALSE] \in [file : Nat, self : BOOLEAN]
        BY <2>2
      <4>2. watches'[n] # NULL /\ watches'[n].file = f
        <5>1. [file |-> f, self |-> FALSE] # NULL
          BY <4>1, MonitorAssumption
        <5> QED
          BY <2>7, <5>1
      <4>3. fileAt'[new.path] = f
        BY <2>1, <2>9
      <4> QED
        BY <2>9, <2>10, <3>1, <4>2, <4>3 DEF AtPath
    <3>2. CASE j # i
      <4>1. j \in DOMAIN watch_list \ {i} /\ watch_list'[j] = watch_list[j]
        BY <2>10, <3>2
      <4>2. PICK x : x = watch_list[j]
        OBVIOUS
      <4>3. Noticed(events', x.wd) \/ AtPath(x)'
        BY <1>1, <1>7, <2>7, <4>1, <4>2, OthersStay
      <4> QED
        BY <4>1, <4>2, <4>3 DEF AtPath
    <3> QED
      BY <3>1, <3>2
  <2> QED
    BY <2>11, <2>13, <2>14 DEF MonitorInv, Noticed
<1> QED
  BY <1>8, <1>9

LEMMA HandleKeepsMonitor == MonitorInv /\ fs_monitor_handle_event => MonitorInv'
<1> SUFFICES ASSUME MonitorInv, fs_monitor_handle_event PROVE MonitorInv'
  OBVIOUS
<1> DEFINE found == {i \in DOMAIN watch_list : watch_list[i].wd = Head(events).wd}
<1>0. MonitorTypes /\ OwnWatches
  BY DEF MonitorInv
<1>1. events # <<>> /\ UNCHANGED <<fileAt, made, movedAway>>
  BY DEF fs_monitor_handle_event
<1>2. /\ Tail(events) \in Seq(Notices) /\ Head(events) \in Notices
      /\ \A v : Noticed(events, v) /\ v # Head(events).wd => Noticed(Tail(events), v)
  BY <1>0, <1>1, TailIs DEF MonitorTypes
<1>3. PathChanged(Head(events).type)
  BY <1>2 DEF PathChanged, Notices
<1>4. CASE found # {}
  <2>1. PICK i \in found : Restored(i)
    BY <1>3, <1>4 DEF fs_monitor_handle_event
  <2> QED
    BY <1>1, <2>1, RestoredKeepsMonitor
<1>5. CASE found = {}
  <2>1. events' = Tail(events) /\ UNCHANGED <<watches, watch_list>>
    BY <1>3, <1>5 DEF fs_monitor_handle_event
  <2>2. \A i \in DOMAIN watch_list : watch_list[i].wd # Head(events).wd
    BY <1>5
  <2>3. MonitorTypes'
    BY <1>0, <1>1, <1>2, <2>1 DEF MonitorTypes
  <2>4. OwnWatches'
    BY <1>0, <2>1 DEF OwnWatches
  <2>5. ASSUME NEW i \in DOMAIN watch_list
        PROVE  Noticed(Tail(events), watch_list[i].wd) \/ AtPath(watch_list[i])
    BY <1>2, <2>2 DEF MonitorInv
  <2> QED
    BY <1>1, <2>1, <2>3, <2>4, <2>5 DEF MonitorInv, Noticed, AtPath
<1> QED
  BY <1>4, <1>5

(* A file is deleted, replaced, moved away or made: a watcher that was at  *)
(* its path is noticed, unless it does not follow moves any more.          *)
LEMMA ChangeKeepsMonitor ==
  ASSUME MonitorInv, NEW p \in Files, FileChanges(p)
  PROVE  MonitorInv'
<1>0. MonitorTypes /\ OwnWatches
  BY DEF MonitorInv
<1>1. PICK f : f = fileAt[p]
  OBVIOUS
<1>2. /\ fileAt' \in [Files -> Nat \cup {NULL}] /\ made' \in Nat
      /\ \A q \in Files \ {p} : fileAt'[q] = fileAt[q]
      /\ UNCHANGED watch_list
  BY <1>0 DEF FileChanges, MonitorTypes
<1>3. /\ watches' \in Seq(Watch \cup {NULL}) /\ events' \in Seq(Notices)
      /\ DOMAIN watches' = DOMAIN watches /\ movedAway \subseteq movedAway'
      /\ \A wd : Noticed(events, wd) => Noticed(events', wd)
      /\ \A wd \in DOMAIN watches :
           watches[wd] # NULL =>
             \/ Noticed(events', wd)
             \/ /\ watches'[wd] = watches[wd]
                /\ watches[wd].file = f =>
                     f = NULL \/ (~watches[wd].self /\ f \in movedAway')
  <2>1. CASE f # NULL /\ KernelBecomes(Deleted(f)) /\ UNCHANGED movedAway
    <3>1. /\ watches' \in Seq(Watch \cup {NULL}) /\ events' \in Seq(Notices)
          /\ DOMAIN watches' = DOMAIN watches
          /\ \A wd : Noticed(events, wd) => Noticed(events, wd)'
          /\ \A wd \in DOMAIN watches :
               IF watches[wd] # NULL /\ watches[wd].file = f
               THEN Noticed(events, wd)'
               ELSE watches'[wd] = watches[wd]
      BY <1>0, <2>1, DeletedIs
    <3> QED
      BY <2>1, <3>1 DEF Noticed
  <2>2. CASE /\ f # NULL /\ KernelBecomes(Moved(f))
             /\ movedAway' = movedAway \cup {f}
    <3>1. /\ watches' = watches /\ events' \in Seq(Notices)
          /\ \A wd : Noticed(events, wd) => Noticed(events, wd)'
          /\ \A wd \in DOMAIN watches :
               watches[wd] # NULL /\ watches[wd].file = f /\ watches[wd].self
                 => Noticed(events, wd)'
      BY <1>0, <2>2, MovedIs
    <3> QED
      BY <1>0, <2>2, <3>1 DEF Noticed, MonitorTypes
  <2>3. CASE f = NULL /\ UNCHANGED <<watches, events, movedAway>>
    BY <1>0, <2>3 DEF MonitorTypes
  <2> QED
    BY <1>1, <2>1, <2>2, <2>3 DEF FileChanges
<1>4. MonitorTypes'
  BY <1>0, <1>2, <1>3 DEF MonitorTypes
<1>5. OwnWatches'
  BY <1>0, <1>2, <1>3 DEF OwnWatches
<1>6. ASSUME NEW i \in DOMAIN watch_list
      PROVE  Noticed(events', watch_list[i].wd) \/ AtPath(watch_list[i])'
  <2>1. PICK w : w = watch_list[i]
    OBVIOUS
  <2>2. w.wd \in DOMAIN watches /\ w.path \in Files
    BY <1>0, <2>1, MonitorTypesAre DEF OwnWatches
  <2>3. CASE Noticed(events, w.wd)
    BY <1>3, <2>1, <2>3
  <2>4. CASE AtPath(w)
    <3>1. watches[w.wd] # NULL
      BY <2>4 DEF AtPath
    <3>2. watches[w.wd].file # NULL
      <4>1. watches[w.wd] \in Watch \cup {NULL}
        BY <1>0, <2>2, LenProperties, ElementOfSeq DEF MonitorTypes
      <4> QED
        BY <3>1, <4>1, MonitorAssumption DEF Watch
    <3>3. CASE w.path # p
      <4>1. fileAt'[w.path] = fileAt[w.path]
        BY <1>2, <2>2, <3>3
      <4>2. Noticed(events', w.wd) \/ AtPath(w)'
        BY <1>3, <2>2, <2>4, <3>1, <4>1 DEF AtPath
      <4> QED
        BY <1>2, <2>1, <4>2 DEF AtPath
    <3>4. CASE w.path = p
      <4>1. Noticed(events', w.wd) \/ AtPath(w)'
        BY <1>1, <1>3, <2>2, <2>4, <3>1, <3>2, <3>4 DEF AtPath
      <4> QED
        BY <1>2, <2>1, <4>1 DEF AtPath
    <3> QED
      BY <3>3, <3>4
  <2> QED
    BY <2>1, <2>3, <2>4 DEF MonitorInv
<1> QED
  BY <1>2, <1>4, <1>5, <1>6 DEF MonitorInv, Noticed

LEMMA MonitorStep == MonitorInv /\ [MonitorNext]_monitorvars => MonitorInv'
<1> SUFFICES ASSUME MonitorInv, [MonitorNext]_monitorvars PROVE MonitorInv'
  OBVIOUS
<1>1. ASSUME NEW p \in Files,
             \/ fs_monitor_add_watcher(p)
             \/ fs_monitor_del_watcher(p)
             \/ FileChanges(p)
      PROVE  MonitorInv'
  BY <1>1, AddKeepsMonitor, DelKeepsMonitor, ChangeKeepsMonitor
<1>2. CASE fs_monitor_handle_event
  BY <1>2, HandleKeepsMonitor
<1>3. CASE fs_monitor_init \/ fs_monitor_cleanup
  BY <1>3, InitKeepsMonitor, CleanupKeepsMonitor
<1>4. CASE UNCHANGED monitorvars
  BY <1>4 DEF monitorvars, MonitorInv, MonitorTypes, OwnWatches, Noticed, AtPath
<1> QED
  BY <1>1, <1>2, <1>3, <1>4 DEF MonitorNext

(* Whatever happens to the files, when the events are handled every        *)
(* watcher watches the file at its path (fs_monitor_handle_event), but for *)
(* one that was set anew and whose file was moved away after that.         *)
THEOREM WatchersFollowPaths == MonitorSpec => []WatcherIsAtPath
<1>1. MonitorInv /\ [MonitorNext]_monitorvars => MonitorInv'
  BY MonitorStep
<1>2. MonitorInv => WatcherIsAtPath
  <2> SUFFICES ASSUME MonitorInv, events = <<>>, NEW w \in ToSet(watch_list)
               PROVE  AtPath(w)
    BY DEF WatcherIsAtPath, AtPath
  <2>1. PICK i \in DOMAIN watch_list : w = watch_list[i]
    BY DEF ToSet
  <2>2. ~Noticed(events, w.wd)
    BY DEF Noticed
  <2> QED
    BY <2>1, <2>2 DEF MonitorInv
<1> QED
  BY <1>1, <1>2, MonitorStarts, PTL DEF MonitorSpec

-----------------------------------------------------------------------------
(* Paths.                                                                  *)
LEMMA PathJoins ==
  ASSUME NEW S, NEW p \in Seq(S), NEW r \in Seq(S)
  PROVE  /\ p \o r \in Seq(S) /\ IsPrefix(p, p \o r) /\ Rest(p, p \o r) = r
<1> DEFINE q == p \o r
<1>1. /\ q \in Seq(S) /\ Len(q) = Len(p) + Len(r)
      /\ Len(p) \in Nat /\ Len(r) \in Nat
      /\ \A i \in 1..Len(p) : q[i] = p[i]
      /\ \A i \in 1..Len(r) : q[Len(p) + i] = r[i]
  BY ConcatProperties, LenProperties
<1> HIDE DEF q
<1>2. SubSeq(p, 1, Len(p)) = SubSeq(q, 1, Len(p)) /\ Len(p) <= Len(q)
  BY <1>1
<1>3. SubSeq(q, Len(p) + 1, Len(q)) = r
  BY <1>1
<1> QED
  BY <1>1, <1>2, <1>3 DEF q, IsPrefix, Rest

LEMMA PathParts ==
  ASSUME NEW S, NEW p \in Seq(S), NEW q \in Seq(S), IsPrefix(p, q)
  PROVE  Rest(p, q) \in Seq(S) /\ q = p \o Rest(p, q)
<1> DEFINE r == Rest(p, q)
<1>1. Len(p) \in Nat /\ Len(q) \in Nat /\ Len(p) <= Len(q)
  BY LenProperties DEF IsPrefix
<1>2. \A i \in 1..Len(p) : q[i] = p[i]
  BY <1>1 DEF IsPrefix
<1>3. /\ r \in Seq(S) /\ Len(r) = Len(q) - Len(p)
      /\ \A i \in 1..Len(r) : r[i] = q[Len(p) + i]
  BY <1>1 DEF Rest
<1> HIDE DEF r
<1>4. q = p \o r
  <2> DEFINE t == p \o r
  <2>1. /\ t \in Seq(S) /\ Len(t) = Len(q)
        /\ \A i \in 1..Len(p) : t[i] = p[i]
        /\ \A i \in 1..Len(r) : t[Len(p) + i] = r[i]
    BY <1>1, <1>3, ConcatProperties
  <2>2. ASSUME NEW i \in 1..Len(q) PROVE t[i] = q[i]
    <3>1. CASE i \in 1..Len(p)
      BY <1>2, <2>1, <3>1
    <3>2. CASE i \notin 1..Len(p)
      <4> DEFINE j == i - Len(p)
      <4>1. j \in 1..Len(r) /\ i = Len(p) + j
        BY <1>1, <1>3, <3>2
      <4> QED
        BY <1>3, <2>1, <4>1
    <3> QED
      BY <3>1, <3>2
  <2> HIDE DEF t
  <2>3. t = q
    BY <2>1, <2>2, SeqEqual
  <2> QED
    BY <2>3 DEF t
<1> QED
  BY <1>3, <1>4 DEF r

(* Below the field of a name are the paths that start with the name, and   *)
(* above it is nothing else than the root.                                 *)
LEMMA PathOfName ==
  ASSUME NEW S, NEW n \in S, NEW q \in Seq(S)
  PROVE  /\ <<n>> \in Seq(S)
         /\ IsPrefix(<<n>>, q) <=> q # <<>> /\ q[1] = n
         /\ IsPrefix(q, <<n>>) /\ q # <<>> => q = <<n>>
         /\ q # <<>> => q[1] \in S
<1>1. Len(q) \in Nat /\ (q # <<>> <=> Len(q) >= 1)
  BY LenProperties, EmptySeq
<1>2. IsPrefix(<<n>>, q) <=> q # <<>> /\ q[1] = n
  BY <1>1 DEF IsPrefix
<1>3. IsPrefix(q, <<n>>) /\ q # <<>> => q = <<n>>
  BY <1>1 DEF IsPrefix
<1>4. q # <<>> => q[1] \in S
  BY <1>1
<1> QED
  BY <1>2, <1>3, <1>4

LEMMA PathOfRoot ==
  ASSUME NEW S, NEW q \in Seq(S)
  PROVE  /\ <<>> \in Seq(S) /\ IsPrefix(<<>>, q) /\ Rest(<<>>, q) = q
         /\ IsPrefix(q, <<>>) => q = <<>>
         /\ <<>> \o q = q /\ q \o <<>> = q
<1>1. Len(q) \in Nat /\ (q # <<>> <=> Len(q) >= 1)
  BY LenProperties, EmptySeq
<1>2. IsPrefix(<<>>, q) /\ Rest(<<>>, q) = q
  BY <1>1 DEF IsPrefix, Rest
<1>3. IsPrefix(q, <<>>) => q = <<>>
  BY <1>1 DEF IsPrefix
<1>4. <<>> \o q = q /\ q \o <<>> = q
  BY <1>1
<1> QED
  BY <1>2, <1>3, <1>4

-----------------------------------------------------------------------------
(* Values and what is found in them. *)
LEMMA ValueAtIs ==
  ASSUME NEW t, IsValue(t), NEW p \in DOMAIN t
  PROVE  /\ IsValue(At(t, p))
         /\ \A r \in Seq(Fields) : /\ r \in DOMAIN At(t, p) <=> p \o r \in DOMAIN t
                                   /\ r \in DOMAIN At(t, p) => At(t, p)[r] = t[p \o r]
<1> DEFINE R == {Rest(p, q) : q \in Below(t, p)}
<1>1. p \in Seq(Fields) /\ DOMAIN t \subseteq Seq(Fields)
  BY DEF IsValue
<1>2. ASSUME NEW r \in Seq(Fields) PROVE r \in R <=> p \o r \in DOMAIN t
  <2>1. IsPrefix(p, p \o r) /\ Rest(p, p \o r) = r
    BY <1>1, PathJoins
  <2>2. \A q \in Below(t, p) : q \in DOMAIN t /\ q = p \o Rest(p, q)
    BY <1>1, PathParts DEF Below
  <2>3. CASE p \o r \in DOMAIN t
    BY <2>1, <2>3 DEF Below
  <2>4. CASE r \in R
    BY <2>2, <2>4
  <2> QED
    BY <2>3, <2>4
<1>3. R \subseteq Seq(Fields)
  BY <1>1, PathParts DEF Below
<1>4. At(t, p) = [r \in R |-> t[p \o r]]
  BY DEF At
<1>5. <<>> \in R
  <2>1. <<>> \in Seq(Fields) /\ p \o <<>> = p
    BY <1>1, PathOfRoot
  <2> QED
    BY <1>2, <2>1
<1> HIDE DEF R
<1>6. \A r \in R : t[p \o r] \in Leaves \cup {Object}
  BY <1>2, <1>3 DEF IsValue
<1>7. IsValue(At(t, p))
  BY <1>3, <1>4, <1>5, <1>6 DEF IsValue
<1> QED
  BY <1>2, <1>4, <1>7

(* w is the value t, but has the value obj at p.                           *)
IsWith(w, t, p, obj) ==
  /\ IsValue(w)
  /\ DOMAIN w = {q \in DOMAIN t : ~IsPrefix(p, q)} \cup {p \o r : r \in DOMAIN obj}
  /\ \A q \in DOMAIN t : ~IsPrefix(p, q) => w[q] = t[q]
  /\ \A r \in DOMAIN obj : w[p \o r] = obj[r]

LEMMA WithIs ==
  ASSUME NEW t, IsValue(t), NEW p \in Seq(Fields) \ {<<>>}, NEW obj, IsValue(obj)
  PROVE  IsWith(With(t, p, obj), t, p, obj)
<1> DEFINE base == Without(t, p)
           B == {q \in DOMAIN t : ~IsPrefix(p, q)}
           N == {p \o r : r \in DOMAIN obj}
           w == With(t, p, obj)
<1>1. /\ DOMAIN t \subseteq Seq(Fields) /\ DOMAIN obj \subseteq Seq(Fields)
      /\ p \in Seq(Fields)
  BY DEF IsValue
<1>2. DOMAIN base = B /\ \A q \in B : base[q] = t[q]
  BY DEF Without, Below
<1>3. w = [q \in B \cup N |-> IF q \in B THEN base[q] ELSE obj[Rest(p, q)]]
  BY <1>2 DEF With
<1>4. \A r \in DOMAIN obj : /\ p \o r \in Seq(Fields) /\ p \o r \notin B
                            /\ Rest(p, p \o r) = r
  BY <1>1, PathJoins
<1>5. <<>> \in B
  <2>1. <<>> \in Seq(Fields) /\ ~IsPrefix(p, <<>>)
    BY PathOfRoot
  <2> QED
    BY <2>1 DEF IsValue
<1>6. B \subseteq Seq(Fields) /\ N \subseteq Seq(Fields)
  BY <1>1, <1>4
<1>7. \A q \in B : base[q] \in Leaves \cup {Object}
  BY <1>2 DEF IsValue
<1> HIDE DEF base
<1>8. \A q \in B : w[q] = t[q]
  BY <1>2, <1>3
<1>9. \A r \in DOMAIN obj : w[p \o r] = obj[r]
  BY <1>3, <1>4
<1>10. \A q \in N : w[q] \in Leaves \cup {Object}
  BY <1>9 DEF IsValue
<1>11. \A q \in B : w[q] \in Leaves \cup {Object}
  BY <1>8 DEF IsValue
<1>12. DOMAIN w = B \cup N /\ w = [q \in B \cup N |-> w[q]]
  BY <1>3
<1> HIDE DEF w, N, B
<1>13. IsValue(w)
  BY <1>5, <1>6, <1>10, <1>11, <1>12 DEF IsValue
<1> QED
  BY <1>8, <1>9, <1>12, <1>13 DEF w, N, B, IsWith

(* What the change handler keeps, told of one path: nothing from there     *)
(* down, but the leaves it is told.                                        *)
LEMMA LeavesAre ==
  ASSUME NEW t, IsValue(t)
  PROVE  /\ DOMAIN LeavesOf(t) = {q \in DOMAIN t : t[q] # Object}
         /\ \A q \in DOMAIN LeavesOf(t) : LeavesOf(t)[q] = t[q]
         /\ \A q \in DOMAIN t : q \in Seq(Fields) /\ t[q] \in Leaves \cup {Object}
<1>1. \A q \in DOMAIN t : q \in Seq(Fields) /\ t[q] \in Leaves \cup {Object}
  BY DEF IsValue
<1>2. {q \in DOMAIN t : t[q] \in Leaves} = {q \in DOMAIN t : t[q] # Object}
  BY <1>1, ConfAssumption
<1> QED
  BY <1>1, <1>2 DEF LeavesOf

(* What the change handler has to have been told, to keep the leaves of t. *)
Untold(seen, told) == {q \in DOMAIN seen : \A u \in told : ~IsPrefix(u[1], q)}
Brought(told) == UNION {{u[1] \o r : r \in DOMAIN LeavesOf(u[2])} :
                          u \in {v \in told : v[2] # NULL}}
Above(told, q) == CHOOSE u \in told : IsPrefix(u[1], q)

LEMMA BroughtHas ==
  ASSUME NEW told, NEW q
  PROVE  q \in Brought(told)
           <=> \E u \in told : /\ u[2] # NULL
                              /\ \E r \in DOMAIN LeavesOf(u[2]) : q = u[1] \o r
<1>1. ASSUME NEW u \in told, u[2] # NULL, NEW r \in DOMAIN LeavesOf(u[2]), q = u[1] \o r
      PROVE  q \in Brought(told)
  <2> DEFINE U == {v \in told : v[2] # NULL}
             N(v) == {v[1] \o s : s \in DOMAIN LeavesOf(v[2])}
  <2>1. u \in U /\ q \in N(u)
    BY <1>1
  <2> HIDE DEF U, N
  <2>2. q \in UNION {N(v) : v \in U}
    BY <2>1
  <2> QED
    BY <2>2 DEF Brought, U, N
<1>2. ASSUME q \in Brought(told)
      PROVE  \E u \in told : /\ u[2] # NULL
                            /\ \E r \in DOMAIN LeavesOf(u[2]) : q = u[1] \o r
  BY <1>2 DEF Brought
<1> QED
  BY <1>1, <1>2

LEMMA TellingGives ==
  ASSUME NEW seen, NEW told, NEW t,
         \A q \in DOMAIN LeavesOf(t) : q \in Untold(seen, told) \cup Brought(told),
         \A q \in Untold(seen, told) :
           q \in DOMAIN LeavesOf(t) /\ seen[q] = LeavesOf(t)[q],
         \A u \in told : u[2] # NULL =>
           \A r \in DOMAIN LeavesOf(u[2]) :
             /\ u[1] \o r \in DOMAIN LeavesOf(t)
             /\ Above(told, u[1] \o r) = u /\ Rest(u[1], u[1] \o r) = r
             /\ u[2][r] = LeavesOf(t)[u[1] \o r]
  PROVE  change_handler(seen, told) = LeavesOf(t)
<1> DEFINE old == Untold(seen, told)
           new == Brought(told)
           value(q) == Above(told, q)[2][Rest(Above(told, q)[1], q)]
<1>1. change_handler(seen, told)
        = [q \in old \cup new |-> IF q \in old THEN seen[q] ELSE value(q)]
  BY DEF change_handler, Untold, Brought, Above
<1>2. ASSUME NEW q \in new
      PROVE  q \in DOMAIN LeavesOf(t) /\ value(q) = LeavesOf(t)[q]
  <2>1. PICK u \in told : u[2] # NULL /\ \E r \in DOMAIN LeavesOf(u[2]) : q = u[1] \o r
    BY BroughtHas
  <2>2. PICK r \in DOMAIN LeavesOf(u[2]) : q = u[1] \o r
    BY <2>1
  <2>3. /\ q \in DOMAIN LeavesOf(t) /\ Above(told, q) = u /\ Rest(u[1], q) = r
        /\ u[2][r] = LeavesOf(t)[q]
    BY <2>1, <2>2
  <2> QED
    BY <2>3
<1>3. LeavesOf(t) = [q \in DOMAIN LeavesOf(t) |-> LeavesOf(t)[q]]
  BY DEF LeavesOf
<1> HIDE DEF old, new, value
<1>4. old \cup new = DOMAIN LeavesOf(t)
  BY <1>2 DEF old, new
<1>5. \A q \in old : seen[q] = LeavesOf(t)[q]
  BY DEF old
<1> QED
  BY <1>1, <1>2, <1>3, <1>4, <1>5

LEMMA SetIsTold ==
  ASSUME NEW t, IsValue(t), NEW p \in Seq(Fields) \ {<<>>},
         NEW obj, IsValue(obj), obj # NULL
  PROVE  change_handler(LeavesOf(t), {<<p, obj>>}) = LeavesOf(With(t, p, obj))
<1> DEFINE seen == LeavesOf(t)
           told == {<<p, obj>>}
           given == LeavesOf(obj)
           w == With(t, p, obj)
<1>1. IsWith(w, t, p, obj)
  BY WithIs
<1> HIDE DEF w
<1>2. /\ DOMAIN w = {q \in DOMAIN t : ~IsPrefix(p, q)} \cup {p \o r : r \in DOMAIN obj}
      /\ \A q \in DOMAIN t : ~IsPrefix(p, q) => w[q] = t[q]
      /\ \A r \in DOMAIN obj : w[p \o r] = obj[r]
      /\ IsValue(w)
  BY <1>1 DEF IsWith
<1>3. /\ DOMAIN seen = {q \in DOMAIN t : t[q] # Object}
      /\ \A q \in DOMAIN seen : seen[q] = t[q]
  BY LeavesAre
<1>4. /\ DOMAIN given = {q \in DOMAIN obj : obj[q] # Object}
      /\ \A q \in DOMAIN given : given[q] = obj[q]
      /\ \A q \in DOMAIN obj : q \in Seq(Fields)
  BY LeavesAre
<1>5. /\ DOMAIN LeavesOf(w) = {q \in DOMAIN w : w[q] # Object}
      /\ \A q \in DOMAIN LeavesOf(w) : LeavesOf(w)[q] = w[q]
  BY <1>2, LeavesAre
<1>6. \A q : q \in Untold(seen, told) <=> q \in DOMAIN seen /\ ~IsPrefix(p, q)
  BY DEF Untold
<1>7. \A r \in DOMAIN given : p \o r \in Brought(told)
  <2>1. <<p, obj>> \in told /\ <<p, obj>>[1] = p /\ <<p, obj>>[2] = obj
    OBVIOUS
  <2> QED
    BY <2>1, BroughtHas
<1> HIDE DEF seen, given
<1>8. ASSUME NEW q \in DOMAIN LeavesOf(w)
      PROVE  q \in Untold(seen, told) \cup Brought(told)
  <2>1. CASE q \in DOMAIN t /\ ~IsPrefix(p, q)
    BY <1>2, <1>3, <1>5, <1>6, <2>1
  <2>2. ASSUME NEW r \in DOMAIN obj, q = p \o r PROVE q \in Brought(told)
    <3>1. r \in DOMAIN given
      BY <1>2, <1>4, <1>5, <2>2
    <3> QED
      BY <1>7, <2>2, <3>1
  <2> QED
    BY <1>2, <1>5, <2>1, <2>2
<1>9. \A q \in Untold(seen, told) : q \in DOMAIN LeavesOf(w) /\ seen[q] = LeavesOf(w)[q]
  BY <1>2, <1>3, <1>5, <1>6
<1>10. ASSUME NEW r \in DOMAIN given
       PROVE  /\ p \o r \in DOMAIN LeavesOf(w)
              /\ Above(told, p \o r) = <<p, obj>> /\ Rest(p, p \o r) = r
              /\ obj[r] = LeavesOf(w)[p \o r]
  <2>1. r \in DOMAIN obj /\ obj[r] # Object /\ r \in Seq(Fields) /\ w[p \o r] = obj[r]
    BY <1>2, <1>4
  <2>2. IsPrefix(p, p \o r) /\ Rest(p, p \o r) = r
    BY <2>1, PathJoins
  <2>3. Above(told, p \o r) = <<p, obj>>
    BY <2>2 DEF Above
  <2> QED
    BY <1>2, <1>5, <2>1, <2>2, <2>3
<1>11. \A u \in told : u[2] # NULL =>
         \A r \in DOMAIN LeavesOf(u[2]) :
           /\ u[1] \o r \in DOMAIN LeavesOf(w)
           /\ Above(told, u[1] \o r) = u /\ Rest(u[1], u[1] \o r) = r
           /\ u[2][r] = LeavesOf(w)[u[1] \o r]
  <2>1. \A u \in told : u = <<p, obj>> /\ u[1] = p /\ u[2] = obj
    OBVIOUS
  <2> HIDE DEF told
  <2> QED
    BY <1>10, <2>1 DEF given
<1> HIDE DEF told
<1>12. change_handler(seen, told) = LeavesOf(w)
  BY <1>8, <1>9, <1>11, TellingGives
<1> QED
  BY <1>12 DEF w, seen, told

LEMMA RemovalIsTold ==
  ASSUME NEW t, IsValue(t), NEW p \in Seq(Fields) \ {<<>>}
  PROVE  /\ change_handler(LeavesOf(t), {<<p, NULL>>}) = LeavesOf(Without(t, p))
         /\ IsValue(Without(t, p))
<1> DEFINE seen == LeavesOf(t)
           told == {<<p, NULL>>}
           w == Without(t, p)
<1>1. DOMAIN w = {q \in DOMAIN t : ~IsPrefix(p, q)} /\ \A q \in DOMAIN w : w[q] = t[q]
  BY DEF Without, Below
<1>2. IsValue(w)
  <2>1. <<>> \in Seq(Fields) /\ ~IsPrefix(p, <<>>)
    BY PathOfRoot
  <2>2. w = [q \in DOMAIN w |-> t[q]]
    BY DEF Without
  <2> HIDE DEF w
  <2> QED
    BY <1>1, <2>1, <2>2 DEF IsValue
<1>3. /\ DOMAIN seen = {q \in DOMAIN t : t[q] # Object}
      /\ \A q \in DOMAIN seen : seen[q] = t[q]
      /\ DOMAIN LeavesOf(w) = {q \in DOMAIN w : w[q] # Object}
      /\ \A q \in DOMAIN LeavesOf(w) : LeavesOf(w)[q] = w[q]
  BY <1>2, LeavesAre
<1>4. \A q : q \in Untold(seen, told) <=> q \in DOMAIN seen /\ ~IsPrefix(p, q)
  BY DEF Untold
<1>5. \A u \in told : u[2] = NULL
  OBVIOUS
<1> HIDE DEF w, seen, told
<1>6. \A q \in DOMAIN LeavesOf(w) : q \in Untold(seen, told)
  BY <1>1, <1>3, <1>4
<1>7. \A q \in Untold(seen, told) : q \in DOMAIN LeavesOf(w) /\ seen[q] = LeavesOf(w)[q]
  BY <1>1, <1>3, <1>4
<1>8. change_handler(seen, told) = LeavesOf(w)
  BY <1>5, <1>6, <1>7, TellingGives
<1> QED
  BY <1>2, <1>8 DEF w, seen, told

(* Trees. *)
LEMMA TopNamesAre ==
  ASSUME NEW t, IsTree(t)
  PROVE  /\ \A n : n \in TopNames(t) => n \in Fields /\ <<n>> \in DOMAIN t
         /\ \A q \in DOMAIN t : q # <<>> => /\ q[1] \in TopNames(t) /\ q[1] \in Fields
                                            /\ IsPrefix(<<q[1]>>, q)
         /\ IsValue(t) /\ t[<<>>] = Object /\ <<>> \in DOMAIN t
<1>1. /\ IsValue(t) /\ t[<<>>] = Object /\ <<>> \in DOMAIN t
      /\ DOMAIN t \subseteq Seq(Fields)
      /\ \A q \in DOMAIN t : q # <<>> => <<q[1]>> \in DOMAIN t
  BY DEF IsTree, IsValue
<1>2. ASSUME NEW q \in DOMAIN t, q # <<>>
      PROVE  q[1] \in TopNames(t) /\ q[1] \in Fields /\ IsPrefix(<<q[1]>>, q)
  <2>1. q \in Seq(Fields) /\ q[1] \in Fields
    BY <1>1, <1>2, PathOfName
  <2>2. IsPrefix(<<q[1]>>, q)
    BY <1>2, <2>1, PathOfName
  <2> QED
    BY <1>2, <2>1, <2>2 DEF TopNames
<1>3. ASSUME NEW n, n \in TopNames(t) PROVE n \in Fields /\ <<n>> \in DOMAIN t
  <2>1. PICK q \in DOMAIN t \ {<<>>} : n = q[1]
    BY <1>3 DEF TopNames
  <2> QED
    BY <1>1, <1>2, <2>1
<1> QED
  BY <1>1, <1>2, <1>3

LEMMA SameBelow ==
  ASSUME NEW s, IsValue(s), NEW t, IsValue(t), NEW p,
         p \in DOMAIN s \cap DOMAIN t, At(s, p) = At(t, p),
         NEW q \in DOMAIN s, IsPrefix(p, q)
  PROVE  q \in DOMAIN t /\ t[q] = s[q]
<1>1. p \in Seq(Fields) /\ q \in Seq(Fields)
  BY DEF IsValue
<1>2. PICK r \in Seq(Fields) : q = p \o r
  BY <1>1, PathParts
<1>3. r \in DOMAIN At(s, p) /\ At(s, p)[r] = s[q]
  BY <1>2, ValueAtIs
<1> QED
  BY <1>2, <1>3, ValueAtIs

LEMMA RootIsTold ==
  ASSUME NEW t, IsTree(t), NEW new, IsTree(new), ~IsValue(NULL)
  PROVE  conf_set_root_obj([root |-> t, view |-> LeavesOf(t)], new)
           = [root |-> new, view |-> LeavesOf(new)]
<1> DEFINE changed == {n \in TopNames(new) : At(t, <<n>>) # At(new, <<n>>)}
           deleted == TopNames(t) \ TopNames(new)
           seen == LeavesOf(t)
           told == {<<<<n>>, At(new, <<n>>)>> : n \in changed}
                     \cup {<<<<n>>, NULL>> : n \in deleted}
<1>1. conf_set_root_obj([root |-> t, view |-> seen], new)
        = [root |-> new, view |-> change_handler(seen, told)]
  BY DEF conf_set_root_obj
<1>2. /\ \A n : n \in TopNames(t) => n \in Fields /\ <<n>> \in DOMAIN t
      /\ \A q \in DOMAIN t : q # <<>> => /\ q[1] \in TopNames(t) /\ q[1] \in Fields
                                         /\ IsPrefix(<<q[1]>>, q)
      /\ IsValue(t) /\ t[<<>>] = Object
  BY TopNamesAre
<1>3. /\ \A n : n \in TopNames(new) => n \in Fields /\ <<n>> \in DOMAIN new
      /\ \A q \in DOMAIN new : q # <<>> => /\ q[1] \in TopNames(new) /\ q[1] \in Fields
                                           /\ IsPrefix(<<q[1]>>, q)
      /\ IsValue(new) /\ new[<<>>] = Object
  BY TopNamesAre
<1>4. /\ DOMAIN seen = {q \in DOMAIN t : t[q] # Object}
      /\ \A q \in DOMAIN seen : seen[q] = t[q]
      /\ DOMAIN LeavesOf(new) = {q \in DOMAIN new : new[q] # Object}
      /\ \A q \in DOMAIN LeavesOf(new) : LeavesOf(new)[q] = new[q]
      /\ \A q \in DOMAIN t : q \in Seq(Fields)
      /\ \A q \in DOMAIN new : q \in Seq(Fields)
  BY <1>2, <1>3, LeavesAre
<1>5. \A n \in changed : <<<<n>>, At(new, <<n>>)>> \in told
  OBVIOUS
<1>6. \A n \in deleted : <<<<n>>, NULL>> \in told
  OBVIOUS
<1>7. \A u \in told : \/ \E n \in changed : u = <<<<n>>, At(new, <<n>>)>>
                      \/ \E n \in deleted : u = <<<<n>>, NULL>>
  OBVIOUS
<1>8. \A n \in changed : n \in TopNames(new) /\ At(t, <<n>>) # At(new, <<n>>)
  OBVIOUS
<1>9. \A n \in TopNames(new) : n \notin changed =>
        At(t, <<n>>) = At(new, <<n>>)
  OBVIOUS
<1>10. \A n : n \in deleted <=> n \in TopNames(t) /\ n \notin TopNames(new)
  OBVIOUS
<1> HIDE DEF changed, deleted, seen, told
<1>11. \A n \in TopNames(new) : IsValue(At(new, <<n>>)) /\ At(new, <<n>>) # NULL
  BY <1>3, ValueAtIs
<1>12. ASSUME NEW n \in TopNames(new), n \notin changed
       PROVE  <<n>> \in DOMAIN t \cap DOMAIN new /\ At(t, <<n>>) = At(new, <<n>>)
  <2>1. At(t, <<n>>) # NULL
    BY <1>9, <1>11, <1>12
  <2> QED
    BY <1>3, <1>9, <1>12, <2>1 DEF At
<1>13. ASSUME NEW q \in DOMAIN t, q # <<>>, q \in Untold(seen, told)
       PROVE  q \in DOMAIN new /\ new[q] = t[q]
  <2>1. q[1] \notin deleted /\ q[1] \notin changed
    BY <1>2, <1>5, <1>6, <1>13 DEF Untold
  <2>2. q[1] \in TopNames(new)
    BY <1>2, <1>10, <1>13, <2>1
  <2> DEFINE n == q[1]
  <2>3. IsPrefix(<<n>>, q)
    BY <1>2, <1>13
  <2>4. <<n>> \in DOMAIN t \cap DOMAIN new /\ At(t, <<n>>) = At(new, <<n>>)
    BY <1>12, <2>1, <2>2
  <2> HIDE DEF n
  <2> QED
    BY <1>2, <1>3, <2>3, <2>4, SameBelow
<1>14. \A q \in Untold(seen, told) :
         q \in DOMAIN LeavesOf(new) /\ seen[q] = LeavesOf(new)[q]
  BY <1>2, <1>4, <1>13 DEF Untold
<1>15. ASSUME NEW u \in told, NEW v \in told, NEW q \in Seq(Fields),
              IsPrefix(u[1], q), IsPrefix(v[1], q)
       PROVE  u = v
  <2>1. \A w \in told : IsPrefix(w[1], q) =>
          w = IF q[1] \in changed THEN <<<<q[1]>>, At(new, <<q[1]>>)>>
              ELSE <<<<q[1]>>, NULL>>
    <3>1. ASSUME NEW n \in Fields, IsPrefix(<<n>>, q) PROVE n = q[1]
      BY <3>1, PathOfName
    <3>2. \A n \in changed : n \in Fields
      BY <1>3, <1>8
    <3>3. \A n \in deleted : n \in Fields /\ n \notin changed
      BY <1>2, <1>8, <1>10
    <3> SUFFICES ASSUME NEW w \in told, IsPrefix(w[1], q)
                 PROVE  w = IF q[1] \in changed THEN <<<<q[1]>>, At(new, <<q[1]>>)>>
                            ELSE <<<<q[1]>>, NULL>>
      OBVIOUS
    <3>4. ASSUME NEW n \in changed, w = <<<<n>>, At(new, <<n>>)>>
          PROVE  w = <<<<q[1]>>, At(new, <<q[1]>>)>> /\ q[1] \in changed
      <4>1. w[1] = <<n>>
        BY <3>4
      <4>2. n = q[1]
        BY <3>1, <3>2, <4>1
      <4> QED
        BY <3>4, <4>2
    <3>5. ASSUME NEW n \in deleted, w = <<<<n>>, NULL>>
          PROVE  w = <<<<q[1]>>, NULL>> /\ q[1] \notin changed
      <4>1. w[1] = <<n>>
        BY <3>5
      <4>2. n = q[1]
        BY <3>1, <3>3, <4>1
      <4> QED
        BY <3>3, <3>5, <4>2
    <3> QED
      BY <1>7, <3>4, <3>5
  <2> QED
    BY <1>15, <2>1
<1>16. ASSUME NEW u \in told, u[2] # NULL, NEW r \in DOMAIN LeavesOf(u[2])
       PROVE  /\ u[1] \o r \in DOMAIN LeavesOf(new)
              /\ Above(told, u[1] \o r) = u /\ Rest(u[1], u[1] \o r) = r
              /\ u[2][r] = LeavesOf(new)[u[1] \o r]
  <2>1. PICK n \in changed : u = <<<<n>>, At(new, <<n>>)>>
    BY <1>7, <1>16
  <2>2. <<n>> \in DOMAIN new /\ <<n>> \in Seq(Fields) /\ IsValue(At(new, <<n>>))
    BY <1>3, <1>4, <1>8, <1>11
  <2>3. /\ r \in DOMAIN At(new, <<n>>) /\ r \in Seq(Fields)
        /\ At(new, <<n>>)[r] # Object
    <3> DEFINE obj == At(new, <<n>>)
    <3>1. r \in DOMAIN LeavesOf(obj) /\ IsValue(obj)
      BY <1>16, <2>1, <2>2
    <3> HIDE DEF obj
    <3>2. /\ DOMAIN LeavesOf(obj) = {q \in DOMAIN obj : obj[q] # Object}
          /\ \A q \in DOMAIN obj : q \in Seq(Fields)
      BY <3>1, LeavesAre
    <3>3. r \in DOMAIN obj /\ r \in Seq(Fields) /\ obj[r] # Object
      BY <3>1, <3>2
    <3> QED
      BY <3>3 DEF obj
  <2>4. <<n>> \o r \in DOMAIN new /\ At(new, <<n>>)[r] = new[<<n>> \o r]
    BY <1>3, <2>2, <2>3, ValueAtIs
  <2>5. /\ <<n>> \o r \in Seq(Fields) /\ IsPrefix(<<n>>, <<n>> \o r)
        /\ Rest(<<n>>, <<n>> \o r) = r
    BY <2>2, <2>3, PathJoins
  <2>6. Above(told, u[1] \o r) = u
    <3>1. IsPrefix(u[1], u[1] \o r) /\ u[1] \o r \in Seq(Fields)
      BY <2>1, <2>5
    <3>2. Above(told, u[1] \o r) \in told /\ IsPrefix(Above(told, u[1] \o r)[1], u[1] \o r)
      BY <3>1 DEF Above
    <3> QED
      BY <1>15, <3>1, <3>2
  <2> QED
    BY <1>4, <2>1, <2>3, <2>4, <2>5, <2>6
<1>17. ASSUME NEW q \in DOMAIN LeavesOf(new)
       PROVE  q \in Untold(seen, told) \cup Brought(told)
  <2>1. q \in DOMAIN new /\ new[q] # Object /\ q # <<>> /\ q \in Seq(Fields)
    BY <1>3, <1>4
  <2> DEFINE n == q[1]
  <2>2. n \in TopNames(new) /\ IsPrefix(<<n>>, q) /\ <<n>> \in DOMAIN new /\ <<n>> \in Seq(Fields)
    BY <1>3, <1>4, <2>1
  <2> HIDE DEF n
  <2>3. CASE n \in changed
    <3>1. PICK r \in Seq(Fields) : q = <<n>> \o r
      BY <2>1, <2>2, PathParts
    <3>2. r \in DOMAIN At(new, <<n>>) /\ At(new, <<n>>)[r] # Object
      BY <1>3, <2>1, <2>2, <3>1, ValueAtIs
    <3>3. r \in DOMAIN LeavesOf(At(new, <<n>>))
      BY <1>11, <2>2, <3>2, LeavesAre
    <3> DEFINE u == <<<<n>>, At(new, <<n>>)>>
    <3>4. u \in told /\ u[2] # NULL /\ r \in DOMAIN LeavesOf(u[2]) /\ q = u[1] \o r
      BY <1>5, <1>11, <2>2, <2>3, <3>1, <3>3
    <3> QED
      BY <3>4, BroughtHas
  <2>4. CASE n \notin changed
    <3>1. q \in DOMAIN t /\ t[q] = new[q]
      BY <1>2, <1>3, <1>12, <2>1, <2>2, <2>4, SameBelow
    <3>2. ASSUME NEW u \in told, IsPrefix(u[1], q) PROVE FALSE
      <4>1. \A m \in Fields : IsPrefix(<<m>>, q) => m = n
        BY <2>1, PathOfName DEF n
      <4>2. \E m \in changed \cup deleted : u[1] = <<m>>
        <5>1. ASSUME NEW m \in changed, u = <<<<m>>, At(new, <<m>>)>> PROVE u[1] = <<m>>
          BY <5>1
        <5>2. ASSUME NEW m \in deleted, u = <<<<m>>, NULL>> PROVE u[1] = <<m>>
          BY <5>2
        <5> QED
          BY <1>7, <5>1, <5>2
      <4>3. PICK m \in changed \cup deleted : u[1] = <<m>>
        BY <4>2
      <4>4. m \in Fields
        BY <1>2, <1>3, <1>8, <1>10
      <4>5. m = n
        BY <3>2, <4>1, <4>3, <4>4
      <4> QED
        BY <1>10, <2>2, <2>4, <4>5
    <3> QED
      BY <1>4, <2>1, <3>1, <3>2 DEF Untold
  <2> QED
    BY <2>3, <2>4
<1>18. change_handler(seen, told) = LeavesOf(new)
  BY <1>14, <1>16, <1>17, TellingGives
<1> QED
  BY <1>1, <1>18 DEF seen

LEMMA SameValue ==
  ASSUME NEW v, IsValue(v), NEW w, IsValue(w),
         \A r \in Seq(Fields) : /\ r \in DOMAIN v <=> r \in DOMAIN w
                                /\ r \in DOMAIN v => v[r] = w[r]
  PROVE  v = w
<1>1. /\ v = [r \in DOMAIN v |-> v[r]] /\ w = [r \in DOMAIN w |-> w[r]]
      /\ DOMAIN v \subseteq Seq(Fields) /\ DOMAIN w \subseteq Seq(Fields)
  BY DEF IsValue
<1>2. DOMAIN v = DOMAIN w
  BY <1>1
<1> QED
  BY <1>1, <1>2

LEMMA WithIsTree ==
  ASSUME NEW t, IsTree(t), NEW p \in Seq(Fields) \ {<<>>}, NEW obj, IsValue(obj),
         p = <<p[1]>> \/ <<p[1]>> \in DOMAIN t
  PROVE  IsTree(With(t, p, obj))
<1> DEFINE w == With(t, p, obj)
<1>1. /\ \A q \in DOMAIN t : q # <<>> => <<q[1]>> \in DOMAIN t
      /\ IsValue(t) /\ t[<<>>] = Object /\ <<>> \in DOMAIN t
      /\ DOMAIN t \subseteq Seq(Fields)
  BY DEF IsTree, IsValue
<1>2. IsWith(w, t, p, obj)
  BY <1>1, WithIs
<1> HIDE DEF w
<1>3. /\ DOMAIN w = {q \in DOMAIN t : ~IsPrefix(p, q)} \cup {p \o r : r \in DOMAIN obj}
      /\ \A q \in DOMAIN t : ~IsPrefix(p, q) => w[q] = t[q]
      /\ IsValue(w)
  BY <1>2 DEF IsWith
<1>4. w[<<>>] = Object
  <2>1. ~IsPrefix(p, <<>>)
    BY PathOfRoot
  <2> QED
    BY <1>1, <1>3, <2>1
<1>5. p[1] \in Fields /\ <<p[1]>> \in Seq(Fields)
  BY PathOfName
<1>6. <<p[1]>> \in DOMAIN w
  <2>1. CASE p = <<p[1]>>
    <3>1. p \o <<>> = p /\ <<>> \in DOMAIN obj
      BY PathOfRoot DEF IsValue
    <3> QED
      BY <1>3, <2>1, <3>1
  <2>2. CASE p # <<p[1]>>
    <3>1. ~IsPrefix(p, <<p[1]>>)
      BY <1>5, <2>2, PathOfName
    <3> QED
      BY <1>3, <2>2, <3>1
  <2> QED
    BY <2>1, <2>2
<1>7. ASSUME NEW q \in DOMAIN t, q # <<>>, ~IsPrefix(p, q)
      PROVE  <<q[1]>> \in DOMAIN w
  <2>1. q \in Seq(Fields) /\ q[1] \in Fields /\ <<q[1]>> \in DOMAIN t
    BY <1>1, <1>7, PathOfName
  <2>2. IsPrefix(<<q[1]>>, q)
    BY <1>7, <2>1, PathOfName
  <2>3. ~IsPrefix(p, <<q[1]>>)
    BY <1>7, <2>1, <2>2, PathOfName
  <2> QED
    BY <1>3, <2>1, <2>3
<1>8. ASSUME NEW r \in DOMAIN obj PROVE (p \o r)[1] = p[1]
  <2>1. r \in Seq(Fields) /\ Len(p) \in Nat /\ Len(p) >= 1
    BY LenProperties, EmptySeq DEF IsValue
  <2> QED
    BY <2>1, ConcatProperties
<1>9. ASSUME NEW q \in DOMAIN w, q # <<>> PROVE <<q[1]>> \in DOMAIN w
  <2>1. CASE q \in DOMAIN t /\ ~IsPrefix(p, q)
    BY <1>7, <1>9, <2>1
  <2>2. ASSUME NEW r \in DOMAIN obj, q = p \o r PROVE <<q[1]>> \in DOMAIN w
    BY <1>6, <1>8, <2>2
  <2> QED
    BY <1>3, <2>1, <2>2
<1>10. IsTree(w)
  BY <1>3, <1>4, <1>9 DEF IsTree
<1> QED
  BY <1>10 DEF w

LEMMA WithoutIsTree ==
  ASSUME NEW t, IsTree(t), NEW p \in Seq(Fields) \ {<<>>}
  PROVE  IsTree(Without(t, p))
<1> DEFINE w == Without(t, p)
<1>1. /\ \A q \in DOMAIN t : q # <<>> => <<q[1]>> \in DOMAIN t
      /\ IsValue(t) /\ t[<<>>] = Object /\ <<>> \in DOMAIN t
      /\ DOMAIN t \subseteq Seq(Fields)
  BY DEF IsTree, IsValue
<1>2. IsValue(w)
  BY <1>1, RemovalIsTold
<1>3. DOMAIN w = {q \in DOMAIN t : ~IsPrefix(p, q)} /\ \A q \in DOMAIN w : w[q] = t[q]
  BY DEF Without, Below
<1> HIDE DEF w
<1>4. w[<<>>] = Object
  <2>1. ~IsPrefix(p, <<>>)
    BY PathOfRoot
  <2> QED
    BY <1>1, <1>3, <2>1
<1>5. ASSUME NEW q \in DOMAIN w, q # <<>> PROVE <<q[1]>> \in DOMAIN w
  <2>1. q \in Seq(Fields) /\ q[1] \in Fields /\ <<q[1]>> \in DOMAIN t /\ ~IsPrefix(p, q)
    BY <1>1, <1>3, <1>5, PathOfName
  <2>2. IsPrefix(<<q[1]>>, q)
    BY <1>5, <2>1, PathOfName
  <2>3. ~IsPrefix(p, <<q[1]>>)
    BY <2>1, <2>2, PathOfName
  <2> QED
    BY <1>3, <2>1, <2>3
<1>6. IsTree(w)
  BY <1>2, <1>4, <1>5 DEF IsTree
<1> QED
  BY <1>6 DEF w

LEMMA ParentsAreMade ==
  ASSUME NEW t, IsTree(t), NEW p \in Seq(Fields) \ {<<>>}
  PROVE  /\ IsTree(WithParents(t, p)) /\ LeavesOf(WithParents(t, p)) = LeavesOf(t)
         /\ p = <<p[1]>> \/ <<p[1]>> \in DOMAIN WithParents(t, p)
<1> DEFINE w == WithParents(t, p)
           way == OnTheWay(p)
<1>1. /\ \A q \in DOMAIN t : q # <<>> => <<q[1]>> \in DOMAIN t
      /\ IsValue(t) /\ t[<<>>] = Object /\ <<>> \in DOMAIN t
      /\ DOMAIN t \subseteq Seq(Fields) /\ t \in [DOMAIN t -> Leaves \cup {Object}]
  BY DEF IsTree, IsValue
<1>2. /\ Len(p) \in Nat \ {0} /\ p[1] \in Fields /\ p = [i \in 1..Len(p) |-> p[i]]
      /\ \A i \in 1..Len(p) : p[i] \in Fields
  BY LenProperties, EmptySeq
<1>3. ASSUME NEW q \in way
      PROVE  q \in Seq(Fields) /\ q # <<>> /\ q[1] = p[1] /\ <<p[1]>> \in way
  <2>1. PICK i \in 1..(Len(p) - 1) : q = SubSeq(p, 1, i)
    BY DEF OnTheWay
  <2>2. i \in 1..Len(p) /\ 1 \in 1..(Len(p) - 1)
    BY <1>2, <2>1
  <2>3. q \in Seq(Fields) /\ Len(q) = i /\ q[1] = p[1]
    BY <1>2, <2>1, <2>2
  <2>4. <<p[1]>> = SubSeq(p, 1, 1)
    BY <1>2, <2>2
  <2> QED
    BY <2>2, <2>3, <2>4 DEF OnTheWay
<1>4. p = <<p[1]>> \/ <<p[1]>> \in way
  <2>1. CASE Len(p) = 1
    BY <1>2, <2>1
  <2>2. CASE Len(p) # 1
    <3>1. 1 \in 1..(Len(p) - 1) /\ <<p[1]>> = SubSeq(p, 1, 1)
      BY <1>2, <2>2
    <3> QED
      BY <3>1 DEF OnTheWay
  <2> QED
    BY <2>1, <2>2
<1>5. w = [q \in DOMAIN t \cup way |-> IF q \in DOMAIN t THEN t[q] ELSE Object]
  BY DEF WithParents
<1> HIDE DEF w, way
<1>6. IsValue(w)
  BY <1>1, <1>3, <1>5 DEF IsValue
<1>7. IsTree(w)
  BY <1>1, <1>3, <1>5, <1>6 DEF IsTree
<1>8. /\ DOMAIN LeavesOf(w) = {q \in DOMAIN w : w[q] # Object}
      /\ \A q \in DOMAIN LeavesOf(w) : LeavesOf(w)[q] = w[q]
      /\ DOMAIN LeavesOf(t) = {q \in DOMAIN t : t[q] # Object}
      /\ \A q \in DOMAIN LeavesOf(t) : LeavesOf(t)[q] = t[q]
  BY <1>1, <1>6, LeavesAre
<1>9. DOMAIN LeavesOf(w) = DOMAIN LeavesOf(t)
  BY <1>5, <1>8
<1>10. \A q \in DOMAIN LeavesOf(t) : LeavesOf(w)[q] = LeavesOf(t)[q]
  BY <1>5, <1>8, <1>9
<1>11. LeavesOf(w) = LeavesOf(t)
  <2>1. \A v : LeavesOf(v) = [q \in DOMAIN LeavesOf(v) |-> LeavesOf(v)[q]]
    BY DEF LeavesOf
  <2> QED
    BY <1>9, <1>10, <2>1
<1> QED
  BY <1>4, <1>5, <1>7, <1>11 DEF w

(* The configuration and what its handler was told agree.                  *)
Told(s) == \E t : IsTree(t) /\ s = [root |-> t, view |-> LeavesOf(t)]

LEMMA SetObjTells ==
  ASSUME NEW s, Told(s), NEW p \in Seq(Fields) \ {<<>>},
         NEW obj, IsValue(obj), obj # NULL,
         p = <<p[1]>> \/ <<p[1]>> \in DOMAIN s.root
  PROVE  Told(conf_set_obj(s, p, obj))
<1>1. PICK t : IsTree(t) /\ s = [root |-> t, view |-> LeavesOf(t)]
  BY DEF Told
<1>2. s.root = t /\ s.view = LeavesOf(t) /\ IsValue(t)
  BY <1>1 DEF IsTree
<1>3. change_handler(LeavesOf(t), {<<p, obj>>}) = LeavesOf(With(t, p, obj))
  BY <1>2, SetIsTold
<1>4. IsTree(With(t, p, obj))
  BY <1>1, <1>2, WithIsTree
<1> QED
  BY <1>2, <1>3, <1>4 DEF Told, conf_set_obj

LEMMA SetObjIs ==
  ASSUME NEW s, IsTree(s.root), NEW n \in Fields, NEW obj, IsValue(obj)
  PROVE  /\ At(conf_set_obj(s, <<n>>, obj).root, <<n>>) = obj
         /\ \A m \in Fields \ {n} :
              At(conf_set_obj(s, <<n>>, obj).root, <<m>>) = At(s.root, <<m>>)
<1> DEFINE t == s.root
           w == With(t, <<n>>, obj)
<1>1. <<n>> \in Seq(Fields) \ {<<>>} /\ IsValue(t)
  BY PathOfName DEF IsTree
<1>2. IsWith(w, t, <<n>>, obj)
  BY <1>1, WithIs
<1> HIDE DEF w
<1>3. /\ DOMAIN w = {q \in DOMAIN t : ~IsPrefix(<<n>>, q)} \cup {<<n>> \o r : r \in DOMAIN obj}
      /\ \A q \in DOMAIN t : ~IsPrefix(<<n>>, q) => w[q] = t[q]
      /\ \A r \in DOMAIN obj : w[<<n>> \o r] = obj[r]
      /\ IsValue(w)
  BY <1>2 DEF IsWith
<1>4. \A q \in DOMAIN t : q \in Seq(Fields)
  BY <1>1 DEF IsValue
<1>5. \A r \in DOMAIN obj : r \in Seq(Fields)
  BY DEF IsValue
<1> HIDE DEF t
<1>6. At(w, <<n>>) = obj
  <2>1. <<n>> \in DOMAIN w
    <3>1. <<n>> \o <<>> = <<n>> /\ <<>> \in DOMAIN obj
      BY <1>1, PathOfRoot DEF IsValue
    <3> QED
      BY <1>3, <3>1
  <2>2. ASSUME NEW r \in Seq(Fields)
        PROVE  /\ r \in DOMAIN At(w, <<n>>) <=> r \in DOMAIN obj
               /\ r \in DOMAIN At(w, <<n>>) => At(w, <<n>>)[r] = obj[r]
    <3>1. /\ r \in DOMAIN At(w, <<n>>) <=> <<n>> \o r \in DOMAIN w
          /\ r \in DOMAIN At(w, <<n>>) => At(w, <<n>>)[r] = w[<<n>> \o r]
      <4>1. IsValue(w) /\ <<n>> \in DOMAIN w
        BY <1>3, <2>1
      <4> QED
        BY <4>1, ValueAtIs
    <3>2. IsPrefix(<<n>>, <<n>> \o r) /\ Rest(<<n>>, <<n>> \o r) = r
      BY <1>1, PathJoins
    <3>3. \A u \in DOMAIN obj : <<n>> \o u = <<n>> \o r => u = r
      <4>1. \A u \in DOMAIN obj : Rest(<<n>>, <<n>> \o u) = u
        BY <1>1, <1>5, PathJoins
      <4> QED
        BY <3>2, <4>1
    <3>4. <<n>> \o r \in DOMAIN w <=> r \in DOMAIN obj
      BY <1>3, <3>2, <3>3
    <3> QED
      BY <1>3, <3>1, <3>4
  <2>3. IsValue(At(w, <<n>>))
    BY <1>3, <2>1, ValueAtIs
  <2> QED
    BY <2>2, <2>3, SameValue
<1>7. ASSUME NEW m \in Fields \ {n} PROVE At(w, <<m>>) = At(t, <<m>>)
  <2>1. <<m>> \in Seq(Fields) /\ ~IsPrefix(<<n>>, <<m>>)
    <3> DEFINE q == <<m>>
    <3>1. m \in Fields /\ m # n /\ q[1] = m /\ q \in Seq(Fields)
      BY PathOfName
    <3> HIDE DEF q
    <3>2. ~IsPrefix(<<n>>, q)
      BY <3>1, PathOfName
    <3> QED
      BY <3>1, <3>2 DEF q
  <2>2. \A r \in Seq(Fields) : /\ <<m>> \o r \in DOMAIN w <=> <<m>> \o r \in DOMAIN t
                               /\ <<m>> \o r \in DOMAIN t =>
                                    w[<<m>> \o r] = t[<<m>> \o r]
    <3> TAKE r \in Seq(Fields)
    <3> DEFINE q == <<m>> \o r
    <3>1. q \in Seq(Fields) /\ IsPrefix(<<m>>, q)
      BY <2>1, PathJoins
    <3> HIDE DEF q
    <3>2. ~IsPrefix(<<n>>, q)
      BY <3>1, PathOfName
    <3>3. \A u \in DOMAIN obj : IsPrefix(<<n>>, <<n>> \o u)
      BY <1>1, <1>5, PathJoins
    <3>4. q \in DOMAIN w <=> q \in DOMAIN t
      BY <1>3, <3>2, <3>3
    <3>5. q \in DOMAIN t => w[q] = t[q]
      BY <1>3, <3>2
    <3> QED
      BY <3>4, <3>5 DEF q
  <2>3. <<m>> \in DOMAIN w <=> <<m>> \in DOMAIN t
    <3>1. <<m>> \o <<>> = <<m>> /\ <<>> \in Seq(Fields)
      BY <2>1, PathOfRoot
    <3> QED
      BY <2>2, <3>1
  <2>4. CASE <<m>> \notin DOMAIN t
    BY <2>3, <2>4 DEF At
  <2>5. CASE <<m>> \in DOMAIN t
    <3>1. IsValue(At(t, <<m>>)) /\ IsValue(At(w, <<m>>))
      BY <1>1, <1>3, <2>3, <2>5, ValueAtIs DEF t
    <3>2. \A r \in Seq(Fields) :
            /\ r \in DOMAIN At(t, <<m>>) <=> <<m>> \o r \in DOMAIN t
            /\ r \in DOMAIN At(t, <<m>>) => At(t, <<m>>)[r] = t[<<m>> \o r]
      BY <1>1, <2>5, ValueAtIs DEF t
    <3>3. \A r \in Seq(Fields) :
            /\ r \in DOMAIN At(w, <<m>>) <=> <<m>> \o r \in DOMAIN w
            /\ r \in DOMAIN At(w, <<m>>) => At(w, <<m>>)[r] = w[<<m>> \o r]
      BY <1>3, <2>3, <2>5, ValueAtIs
    <3> QED
      BY <2>2, <3>1, <3>2, <3>3, SameValue
  <2> QED
    BY <2>4, <2>5
<1>8. CASE At(t, <<n>>) = obj
  <2>1. conf_set_obj(s, <<n>>, obj) = s
    BY <1>8 DEF conf_set_obj, t
  <2> QED
    BY <1>8, <2>1 DEF t
<1>9. CASE At(t, <<n>>) # obj
  <2>1. conf_set_obj(s, <<n>>, obj).root = w
    BY <1>9 DEF conf_set_obj, t, w
  <2> QED
    BY <1>6, <1>7, <2>1 DEF t
<1> QED
  BY <1>8, <1>9

LEMMA PathSetTells ==
  ASSUME NEW s, Told(s), NEW p \in Seq(Fields) \ {<<>>},
         NEW obj, IsValue(obj) \/ obj = NULL
  PROVE  Told(conf_path_set(s, p, obj))
<1>1. PICK t : IsTree(t) /\ s = [root |-> t, view |-> LeavesOf(t)]
  BY DEF Told
<1> DEFINE w == WithParents(t, p)
           grown == [root |-> w, view |-> LeavesOf(t)]
<1>2. s.root = t /\ s.view = LeavesOf(t)
  BY <1>1
<1>3. \/ conf_path_set(s, p, obj) \in {s, conf_remove_obj(grown, p)}
      \/ /\ obj # NULL
         /\ conf_path_set(s, p, obj) = conf_set_obj(grown, p, obj)
  <2> DEFINE bad == \E q \in OnTheWay(p) : q \in DOMAIN t /\ t[q] # Object
             old == At(t, p)
             differs == old # NULL /\ Type[old[<<>>]] # Type[obj[<<>>]]
  <2>1. conf_path_set(s, p, obj)
          = IF bad THEN s ELSE IF obj = NULL THEN conf_remove_obj(grown, p)
            ELSE IF differs THEN s ELSE conf_set_obj(grown, p, obj)
    BY <1>2 DEF conf_path_set
  <2> HIDE DEF bad, differs, grown
  <2> QED
    BY <2>1
<1>4. IsTree(w) /\ LeavesOf(w) = LeavesOf(t) /\ (p = <<p[1]>> \/ <<p[1]>> \in DOMAIN w)
  BY <1>1, ParentsAreMade
<1> HIDE DEF w
<1>5. Told(grown) /\ grown.root = w /\ grown.view = LeavesOf(w)
  BY <1>4 DEF Told
<1> HIDE DEF grown
<1>6. Told(conf_remove_obj(grown, p))
  <2>1. IsTree(Without(w, p))
    BY <1>4, WithoutIsTree
  <2>2. change_handler(LeavesOf(w), {<<p, NULL>>}) = LeavesOf(Without(w, p))
    BY <1>4, RemovalIsTold DEF IsTree
  <2> QED
    BY <1>5, <2>1, <2>2 DEF Told, conf_remove_obj
<1>7. ASSUME obj # NULL PROVE Told(conf_set_obj(grown, p, obj))
  BY <1>4, <1>5, <1>7, SetObjTells
<1> QED
  BY <1>3, <1>6, <1>7

(* conf_update gives the configuration the parts of all its operations.    *)
LEMMA UpdateTells ==
  ASSUME NEW s, Told(s), ops \in Seq(Names),
         \A n \in Names : IsValue(part[n]) \/ part[n] = NULL
  PROVE  /\ Told(conf_update(s))
         /\ \A n \in Names : Contains(ops, n) /\ part[n] # NULL =>
              At(conf_update(s).root, <<n>>) = part[n]
<1>1. PICK q, g : /\ q = ops /\ q \in Seq(Names) /\ g = part
                  /\ \A n \in Names : IsValue(g[n]) \/ g[n] = NULL
  OBVIOUS
<1> DEFINE N == Len(q)
           T == {v \in UNION {[R -> Leaves \cup {Object}] : R \in SUBSET Seq(Fields)} :
                   IsTree(v)}
           V == {[root |-> t, view |-> LeavesOf(t)] : t \in T}
           after(i, r) == IF g[q[i]] = NULL THEN r
                          ELSE conf_set_obj(r, <<q[i]>>, g[q[i]])
           G == [i \in 1..N |-> [r \in V |-> after(i, r)]]
           updated == CHOOSE f : f = [i \in 0..N |-> IF i = 0 THEN s
                        ELSE IF g[q[i]] = NULL THEN f[i - 1]
                        ELSE conf_set_obj(f[i - 1], <<q[i]>>, g[q[i]])]
<1>2. conf_update(s) = updated[N]
  BY <1>1 DEF conf_update
<1>3. N \in Nat /\ \A i \in 1..N : q[i] \in Names /\ q[i] \in Fields
  BY <1>1, LenProperties, ConfAssumption
<1>4. \A r : r \in V <=> Told(r)
  <2>1. \A t : t \in T <=> IsTree(t)
    <3>1. ASSUME NEW t, IsTree(t)
          PROVE  t \in UNION {[R -> Leaves \cup {Object}] : R \in SUBSET Seq(Fields)}
      <4>1. DOMAIN t \in SUBSET Seq(Fields) /\ t \in [DOMAIN t -> Leaves \cup {Object}]
        BY <3>1 DEF IsTree, IsValue
      <4> QED
        BY <4>1
    <3> QED
      BY <3>1
  <2> HIDE DEF T
  <2> QED
    BY <2>1 DEF Told
<1> HIDE DEF V
<1>5. ASSUME NEW i \in 1..N, NEW r \in V PROVE after(i, r) \in V
  <2>1. CASE g[q[i]] # NULL
    <3> DEFINE n == q[i]
    <3>1. n \in Fields /\ IsValue(g[n]) /\ g[n] # NULL
      BY <1>1, <1>3, <2>1
    <3> HIDE DEF n
    <3>2. <<n>> \in Seq(Fields) \ {<<>>} /\ <<n>> = <<<<n>>[1]>>
      BY <3>1, PathOfName
    <3>3. Told(conf_set_obj(r, <<n>>, g[n]))
      BY <1>4, <3>1, <3>2, SetObjTells
    <3> QED
      BY <1>4, <2>1, <3>3 DEF n
  <2> QED
    BY <2>1
<1>6. s \in V /\ G \in [1..N -> [V -> V]]
  BY <1>4, <1>5
<1>7. PICK f : IsRun(f, V, N, s, G)
  <2> HIDE DEF G, N
  <2> QED
    BY <1>3, <1>6, RunExists
<1>8. /\ f \in [0..N -> V] /\ f[0] = s
      /\ \A i \in 1..N : i - 1 \in 0..N /\ f[i - 1] \in V /\ f[i] = after(i, f[i - 1])
  <2>1. f \in [0..N -> V] /\ f[0] = s /\ \A i \in 1..N : f[i] = G[i][f[i - 1]]
    <3> HIDE DEF G, N
    <3> QED
      BY <1>7 DEF IsRun
  <2>2. ASSUME NEW i \in 1..N
        PROVE  i - 1 \in 0..N /\ f[i - 1] \in V /\ f[i] = after(i, f[i - 1])
    <3>1. i - 1 \in 0..N
      BY <1>3
    <3>2. f[i - 1] \in V /\ f[i] = G[i][f[i - 1]]
      BY <2>1, <3>1
    <3>3. \A r \in V : G[i][r] = after(i, r)
      OBVIOUS
    <3> HIDE DEF G, after
    <3> QED
      BY <3>1, <3>2, <3>3
  <2> QED
    BY <2>1, <2>2
<1> DEFINE P == {k \in 0..N : \A j \in 1..k : g[q[j]] # NULL =>
                                At(f[k].root, <<q[j]>>) = g[q[j]]}
<1>9. 0..N \subseteq P
  <2>1. 0 \in P
    BY <1>3
  <2>2. ASSUME NEW k \in 1..N, k - 1 \in P PROVE k \in P
    <3>1. SUFFICES ASSUME NEW j \in 1..k, g[q[j]] # NULL
                   PROVE  At(f[k].root, <<q[j]>>) = g[q[j]]
      BY <1>3
    <3>2. /\ k \in 0..N /\ k \in 1..N /\ j \in 1..N
          /\ j # k => j \in 1..(k - 1)
      BY <1>3
    <3>3. j # k => At(f[k - 1].root, <<q[j]>>) = g[q[j]]
      BY <2>2, <3>1, <3>2
    <3> DEFINE n == q[k]
               m == q[j]
    <3>4. /\ n \in Fields /\ m \in Fields
          /\ f[k] = IF g[n] = NULL THEN f[k - 1] ELSE conf_set_obj(f[k - 1], <<n>>, g[n])
          /\ IsValue(g[n]) \/ g[n] = NULL
          /\ j = k => m = n
      BY <1>1, <1>3, <1>8, <3>2
    <3>5. IsTree(f[k - 1].root)
      BY <1>4, <1>8 DEF Told
    <3> HIDE DEF n, m
    <3>6. g[m] # NULL
      BY <3>1 DEF m
    <3>7. j # k => At(f[k - 1].root, <<m>>) = g[m]
      BY <3>3 DEF m
    <3>8. CASE g[n] = NULL
      BY <3>4, <3>6, <3>7, <3>8 DEF m
    <3>9. CASE g[n] # NULL
      <4>1. /\ At(conf_set_obj(f[k - 1], <<n>>, g[n]).root, <<n>>) = g[n]
            /\ m # n => At(conf_set_obj(f[k - 1], <<n>>, g[n]).root, <<m>>)
                          = At(f[k - 1].root, <<m>>)
        BY <3>4, <3>5, <3>9, SetObjIs
      <4> QED
        BY <3>4, <3>7, <3>9, <4>1 DEF m
    <3> QED
      BY <3>8, <3>9
  <2> HIDE DEF P
  <2> QED
    BY <1>3, <2>1, <2>2, UpTo
<1>10. updated = f
  <2> DEFINE H(h) == [i \in 0..N |-> IF i = 0 THEN s
                        ELSE IF g[q[i]] = NULL THEN h[i - 1]
                        ELSE conf_set_obj(h[i - 1], <<q[i]>>, g[q[i]])]
  <2>1. f = H(f)
    BY <1>3, <1>8
  <2>2. ASSUME NEW h, h = H(h) PROVE h = f
    <3>1. \A i \in 0..N : h[i] = H(h)[i] /\ f[i] = H(f)[i]
      BY <2>1, <2>2
    <3>2. h = [i \in 0..N |-> h[i]] /\ f = [i \in 0..N |-> f[i]]
      BY <1>8, <2>2
    <3>3. h[0] = f[0]
      <4>1. 0 \in 0..N /\ H(h)[0] = s
        BY <1>3
      <4>2. h[0] = H(h)[0]
        BY <3>1, <4>1
      <4>3. f[0] = s
        BY <1>8
      <4> HIDE DEF H
      <4> QED
        BY <4>1, <4>2, <4>3
    <3>4. ASSUME NEW i \in 1..N, h[i - 1] = f[i - 1] PROVE h[i] = f[i]
      <4>1. i \in 0..N /\ i # 0
        BY <1>3
      <4>2. /\ H(h)[i] = IF g[q[i]] = NULL THEN h[i - 1]
                         ELSE conf_set_obj(h[i - 1], <<q[i]>>, g[q[i]])
            /\ H(f)[i] = IF g[q[i]] = NULL THEN f[i - 1]
                         ELSE conf_set_obj(f[i - 1], <<q[i]>>, g[q[i]])
        BY <4>1
      <4> HIDE DEF H
      <4> QED
        BY <3>1, <3>4, <4>1, <4>2
    <3>5. \A i \in 0..N : h[i] = f[i]
      <4> DEFINE E == {i \in 0..N : h[i] = f[i]}
      <4>1. 0 \in E
        BY <1>3, <3>3
      <4>2. \A i \in 1..N : i - 1 \in E => i \in E
        BY <1>3, <3>4
      <4>3. 0..N \subseteq E
        <5> HIDE DEF E
        <5> QED
          BY <1>3, <4>1, <4>2, UpTo
      <4> QED
        BY <4>3
    <3> QED
      BY <3>2, <3>5
  <2> HIDE DEF H
  <2>3. updated = CHOOSE h : h = H(h)
    BY DEF H
  <2> QED
    BY <2>1, <2>2, <2>3
<1>11. N \in 0..N /\ f[N] \in V /\ N \in P
  BY <1>3, <1>8, <1>9
<1>12. \A n \in Names : Contains(q, n) /\ g[n] # NULL => At(f[N].root, <<n>>) = g[n]
  BY <1>11 DEF Contains
<1> QED
  BY <1>1, <1>2, <1>4, <1>10, <1>11, <1>12

-----------------------------------------------------------------------------
(* The configuration, its files and the parts are JSON values, and the     *)
(* change handler knows the leaves.                                        *)
IsFile(v) == v \in {NULL, Object} \/ IsTree(v)
IsPart(v) == v = NULL \/ IsValue(v)

ConfInv ==
  /\ root # NULL => IsTree(root) /\ view = LeavesOf(root)
  /\ DOMAIN disk = {"startup", "factory"}
  /\ IsFile(disk["startup"]) /\ IsFile(disk["factory"])
  /\ \A n \in Names : IsPart(part[n])
  /\ part = [n \in Names |-> part[n]]
  /\ ops \in Seq(Names)
  /\ \/ job = NoJob
     \/ job = [step |-> "load"]
     \/ /\ root # NULL
        /\ \E file, temp :
             /\ file \in {"startup", "factory"} /\ IsFile(temp)
             /\ \/ job = [step |-> "dump", file |-> file, temp |-> NULL]
                \/ job = [step |-> "rename", file |-> file, temp |-> temp]

LEMMA RootValue == IsTree(Value(Object)) /\ \A v \in Leaves \cup {Object} : IsValue(Value(v))
<1>1. <<>> \in Seq(Fields)
  OBVIOUS
<1> QED
  BY <1>1 DEF IsTree, IsValue, Value

LEMMA AppliedIs ==
  ASSUME NEW t, IsTree(t), ConfInv, NEW n \in Names
  PROVE  IsPart(Applied(t)[n])
<1>1. n \in Fields /\ IsValue(t)
  BY ConfAssumption DEF IsTree
<1>2. At(t, <<n>>) = NULL \/ IsValue(At(t, <<n>>))
  <2>1. CASE <<n>> \in DOMAIN t
    BY <1>1, <2>1, ValueAtIs
  <2> QED
    BY <2>1 DEF At
<1> QED
  BY <1>2 DEF Applied, ConfInv, IsPart

LEMMA RemoveFirstIs ==
  ASSUME NEW S, NEW s \in Seq(S), NEW e
  PROVE  RemoveFirst(s, e) \in Seq(S)
<1> DEFINE I == {i \in 1..Len(s) : s[i] = e}
<1>1. CASE I = {}
  BY <1>1 DEF RemoveFirst
<1>2. CASE I # {}
  <2>1. RemoveFirst(s, e) = RemoveAt(s, Min(I))
    BY <1>2 DEF RemoveFirst, SelectInSeq
  <2>2. Min(I) \in I
    <3>1. I \in SUBSET Nat
      OBVIOUS
    <3> HIDE DEF I
    <3> QED
      BY <1>2, <3>1, MinIs
  <2>3. Min(I) \in DOMAIN s
    BY <2>2, LenProperties
  <2> QED
    BY <2>1, <2>3, RemoveAtIs
<1> QED
  BY <1>1, <1>2

LEMMA ConfStep ==
  ASSUME ~IsValue(NULL), ConfInv, [ConfNext]_confvars
  PROVE  ConfInv'
<1> USE DEF ConfInv
<1>0. root # NULL => Told(State)
  BY DEF Told, State
<1>1. ASSUME Told([root |-> root', view |-> view'])
      PROVE  IsTree(root') /\ view' = LeavesOf(root')
  BY <1>1 DEF Told
<1>2. \A s : Told(s) /\ Becomes(s) => IsTree(root') /\ view' = LeavesOf(root')
  <2>1. \A s : Told(s) => s = [root |-> s.root, view |-> s.view]
    BY DEF Told
  <2> QED
    BY <1>1, <2>1 DEF Becomes
<1>3. CASE conf_init
  <2>1. IsTree(root') /\ view' = LeavesOf(root')
    BY <1>3, RootValue DEF conf_init
  <2> QED
    BY <1>3, <2>1 DEF conf_init, NoJob
<1>4. CASE Forgotten
  BY <1>4 DEF Forgotten, IsPart
<1>5. CASE conf_factory_edit_mode_enable
  BY <1>5 DEF conf_factory_edit_mode_enable
<1>6. ASSUME NEW n \in Names, conf_register(n) PROVE ConfInv'
  <2>1. ops' \in Seq(Names)
    BY <1>6 DEF conf_register
  <2> QED
    BY <1>6, <2>1 DEF conf_register
<1>7. ASSUME NEW n \in Names, conf_unregister(n) PROVE ConfInv'
  <2>1. ops' \in Seq(Names)
    BY <1>7, RemoveFirstIs DEF conf_unregister
  <2> QED
    BY <1>7, <2>1 DEF conf_unregister
<1>8. ASSUME NEW n \in Names, PartChanges(n) PROVE ConfInv'
  <2>1. PICK p \in Parts : part' = [part EXCEPT ![n] = p]
    BY <1>8 DEF PartChanges
  <2>2. IsPart(p)
    BY ConfAssumption DEF IsPart
  <2>3. \A m \in Names : IsPart(part'[m])
    BY <2>1, <2>2
  <2> QED
    BY <1>8, <2>1, <2>3 DEF PartChanges
<1>9. CASE conf_apply
  <2>1. PICK r : r = root
    OBVIOUS
  <2>2. \A n \in Names : IsPart(Applied(r)[n])
    BY <1>9, <2>1, AppliedIs DEF conf_apply, Idle
  <2>3. part' = Applied(r) /\ part' = [n \in Names |-> part'[n]]
    BY <1>9, <2>1 DEF conf_apply, Applied
  <2> QED
    BY <1>9, <2>2, <2>3 DEF conf_apply
<1>10. CASE conf_set
  <2>1. PICK set \in Sets : Becomes(conf_path_set(State, set[1], Value(set[2])))
    BY <1>10 DEF conf_set
  <2>2. PICK s : s = State
    OBVIOUS
  <2>3. Told(s)
    BY <1>0, <1>10, <2>2 DEF conf_set, Idle
  <2>4. set[1] \in Seq(Fields) \ {<<>>} /\ IsValue(Value(set[2]))
    BY ConfAssumption, RootValue
  <2>5. Told(conf_path_set(s, set[1], Value(set[2])))
    BY <2>3, <2>4, PathSetTells
  <2>6. IsTree(root') /\ view' = LeavesOf(root')
    BY <1>2, <2>1, <2>2, <2>5
  <2> QED
    BY <1>10, <2>6 DEF conf_set, Up, Idle
<1>11. CASE conf_delete
  <2>1. PICK p \in Paths : Becomes(conf_path_set(State, p, NULL))
    BY <1>11 DEF conf_delete
  <2>2. PICK s : s = State
    OBVIOUS
  <2>3. Told(s)
    BY <1>0, <1>11, <2>2 DEF conf_delete, Idle
  <2>4. p \in Seq(Fields) \ {<<>>}
    BY ConfAssumption
  <2>5. Told(conf_path_set(s, p, NULL))
    BY <2>3, <2>4, PathSetTells
  <2>6. IsTree(root') /\ view' = LeavesOf(root')
    BY <1>2, <2>1, <2>2, <2>5
  <2> QED
    BY <1>11, <2>6 DEF conf_delete, Up, Idle
<1>12. CASE conf_load
  <2>1. CASE conf_read(LoadedFile) = NULL
    BY <1>12, <2>1 DEF conf_load, NoJob
  <2>2. CASE conf_read(LoadedFile) # NULL
    <3>1. PICK r, new : r = root /\ new = conf_read(LoadedFile)
      OBVIOUS
    <3>2. IsTree(r) /\ IsTree(new) /\ State = [root |-> r, view |-> LeavesOf(r)]
      BY <1>12, <2>2, <3>1 DEF conf_load, conf_read, LoadedFile, IsFile, State
    <3>3. conf_set_root_obj([root |-> r, view |-> LeavesOf(r)], new)
            = [root |-> new, view |-> LeavesOf(new)]
      BY <3>2, RootIsTold
    <3>4. root' = new /\ view' = LeavesOf(new) /\ part' = Applied(root')
      BY <1>12, <2>2, <3>1, <3>2, <3>3 DEF conf_load, Becomes
    <3>5. \A n \in Names : IsPart(Applied(new)[n])
      BY <3>2, AppliedIs
    <3>6. part' = Applied(new) /\ part' = [n \in Names |-> part'[n]]
      BY <3>4 DEF Applied
    <3> QED
      BY <1>12, <3>2, <3>4, <3>5, <3>6 DEF conf_load, NoJob
  <2> QED
    BY <2>1, <2>2
<1>13. CASE conf_factory_reset
  BY <1>13 DEF conf_factory_reset, IsFile
<1>14. CASE conf_save
  <2>1. PICK s : s = State
    OBVIOUS
  <2>2. Told(conf_update(s))
    BY <1>0, <1>14, <2>1, UpdateTells DEF conf_save, Idle, IsPart
  <2>3. IsTree(root') /\ view' = LeavesOf(root')
    BY <1>2, <1>14, <2>1, <2>2 DEF conf_save
  <2>4. root' # NULL
    BY <2>3 DEF IsTree
  <2> QED
    BY <1>14, <2>3, <2>4 DEF conf_save, IsFile
<1>15. CASE WriteTemp
  <2>1. PICK file \in {"startup", "factory"} :
          /\ root # NULL
          /\ job = [step |-> "dump", file |-> file, temp |-> NULL]
    BY <1>15 DEF WriteTemp, NoJob
  <2>2. PICK temp : IsFile(temp) /\ job' = [job EXCEPT !.step = "rename", !.temp = temp]
    <3>1. IsFile(root) /\ IsFile(Object)
      BY <2>1 DEF IsFile
    <3> QED
      BY <1>15, <3>1 DEF WriteTemp
  <2>3. job' = [step |-> "rename", file |-> file, temp |-> temp]
    BY <2>1, <2>2
  <2> QED
    BY <1>15, <2>1, <2>2, <2>3 DEF WriteTemp
<1>16. CASE WriteFails
  BY <1>16 DEF WriteFails, NoJob
<1>17. CASE Rename
  BY <1>17 DEF Rename, NoJob, IsFile
<1>18. CASE UNCHANGED confvars
  BY <1>18 DEF confvars
<1> QED
  BY <1>3, <1>4, <1>5, <1>6, <1>7, <1>8, <1>9, <1>10, <1>11, <1>12, <1>13, <1>14,
     <1>15, <1>16, <1>17, <1>18 DEF ConfNext

LEMMA ConfInvHolds == ASSUME ~IsValue(NULL) PROVE ConfSpec => []ConfInv
<1>1. ConfInit => ConfInv
  <2>1. ASSUME ConfInit PROVE ConfInv
    <3>1. IsTree(FactoryTree) /\ <<>> \in Seq(Names)
      BY ConfAssumption
    <3> QED
      BY <2>1, <3>1 DEF ConfInit, ConfInv, IsFile, IsPart, NoJob
  <2> QED
    BY <2>1
<1>2. ConfInv /\ [ConfNext]_confvars => ConfInv'
  BY ConfStep
<1> QED
  BY <1>1, <1>2, PTL DEF ConfSpec

(* Whoever follows the change handler of conf_io.c knows every leaf of the *)
(* configuration, whatever was set, deleted, loaded, updated or reset:     *)
(* provided the null pointer is no JSON value.                             *)
THEOREM TreeIsTold == ASSUME ~IsValue(NULL) PROVE ConfSpec => []ChangesAreTold
<1>1. ConfInv => ChangesAreTold
  BY DEF ConfInv, ChangesAreTold
<1> QED
  BY <1>1, ConfInvHolds, PTL

(* What a save writes is what the subsystems have, and what was saved last *)
(* stays in the startup file.                                              *)
Has(tree, n, v) == v # NULL => At(tree, <<n>>) = v

SaveInv ==
  /\ kept # NULL => /\ IsTree(disk["startup"])
                    /\ \A n \in Names : Has(disk["startup"], n, kept[n])
  /\ job.step \in {"dump", "rename"} =>
       \A n \in Names : Contains(ops, n) => Has(root, n, part[n])
  /\ job.step = "rename" => job.temp = root

LEMMA SaveStep ==
  ASSUME ~IsValue(NULL), ~FlushFails, ConfInv, SaveInv, [ConfNext]_confvars
  PROVE  SaveInv'
<1> USE DEF SaveInv
<1>1. ASSUME UNCHANGED <<disk, kept>>, job' = NoJob \/ job' = [step |-> "load"]
      PROVE  SaveInv'
  BY <1>1 DEF NoJob
<1>2. ASSUME UNCHANGED <<disk, kept, job>>, job = NoJob \/ job = [step |-> "load"]
      PROVE  SaveInv'
  BY <1>2 DEF NoJob
<1>3. CASE conf_init
  BY <1>2, <1>3 DEF conf_init, ConfInv
<1>4. CASE Forgotten
  BY <1>1, <1>4 DEF Forgotten
<1>5. CASE conf_factory_edit_mode_enable
  BY <1>2, <1>5 DEF conf_factory_edit_mode_enable, Idle
<1>6. ASSUME NEW n \in Names, conf_register(n) PROVE SaveInv'
  BY <1>2, <1>6 DEF conf_register, Idle
<1>7. ASSUME NEW n \in Names, conf_unregister(n) PROVE SaveInv'
  BY <1>2, <1>7 DEF conf_unregister, Idle
<1>8. ASSUME NEW n \in Names, PartChanges(n) PROVE SaveInv'
  BY <1>2, <1>8 DEF PartChanges, Idle
<1>9. CASE conf_apply
  BY <1>2, <1>9 DEF conf_apply, Idle
<1>10. CASE conf_set
  BY <1>2, <1>10 DEF conf_set, Up, Idle
<1>11. CASE conf_delete
  BY <1>2, <1>11 DEF conf_delete, Up, Idle
<1>12. CASE conf_load
  BY <1>1, <1>12 DEF conf_load
<1>13. CASE conf_factory_reset
  BY <1>13 DEF conf_factory_reset
<1>14. CASE conf_save
  <2>1. PICK s : s = State
    OBVIOUS
  <2>2. Told(s)
    BY <1>14, <2>1 DEF conf_save, Idle, Told, State, ConfInv
  <2>3. \A n \in Names : Contains(ops, n) => Has(conf_update(s).root, n, part[n])
    BY <2>2, UpdateTells DEF ConfInv, IsPart, Has
  <2>4. /\ root' = conf_update(s).root /\ UNCHANGED <<ops, part, disk, kept>>
        /\ job'.step = "dump"
    BY <1>14, <2>1 DEF conf_save, Becomes
  <2> QED
    BY <2>3, <2>4
<1>15. CASE WriteTemp
  <2>1. PICK file \in {"startup", "factory"} :
          job = [step |-> "dump", file |-> file, temp |-> NULL]
    BY <1>15 DEF WriteTemp, NoJob, ConfInv
  <2>2. job' = [job EXCEPT !.step = "rename", !.temp = root]
    BY <1>15 DEF WriteTemp
  <2>3. job' = [step |-> "rename", file |-> file, temp |-> root]
    BY <2>1, <2>2
  <2> QED
    BY <1>15, <2>1, <2>3 DEF WriteTemp
<1>16. CASE WriteFails
  BY <1>1, <1>16 DEF WriteFails
<1>17. CASE Rename
  <2>1. PICK file, temp :
          /\ file \in {"startup", "factory"} /\ root # NULL
          /\ job = [step |-> "rename", file |-> file, temp |-> temp]
    BY <1>17 DEF Rename, NoJob, ConfInv
  <2>2. temp = root /\ IsTree(root)
    BY <2>1 DEF ConfInv
  <2>3. /\ disk' = [disk EXCEPT ![file] = root] /\ job' = NoJob
        /\ IF file = "startup"
           THEN kept' = [n \in Names |-> IF Contains(ops, n) THEN part[n] ELSE NULL]
           ELSE kept' = kept
    BY <1>17, <2>1, <2>2 DEF Rename
  <2>4. CASE file = "startup"
    <3>1. disk'["startup"] = root
      BY <2>3, <2>4 DEF ConfInv
    <3>2. \A n \in Names : Contains(ops, n) => Has(root, n, part[n])
      BY <2>1
    <3>3. ASSUME NEW n \in Names PROVE Has(root, n, kept'[n])
      BY <2>3, <2>4, <3>2 DEF Has
    <3> QED
      BY <2>2, <2>3, <3>1, <3>3 DEF NoJob, Has
  <2>5. CASE file # "startup"
    <3>1. disk'["startup"] = disk["startup"] /\ kept' = kept
      BY <2>3, <2>5 DEF ConfInv
    <3> QED
      BY <2>3, <3>1 DEF NoJob
  <2> QED
    BY <2>4, <2>5
<1>18. CASE UNCHANGED confvars
  BY <1>18 DEF confvars
<1> QED
  BY <1>3, <1>4, <1>5, <1>6, <1>7, <1>8, <1>9, <1>10, <1>11, <1>12, <1>13, <1>14,
     <1>15, <1>16, <1>17, <1>18 DEF ConfNext

(* However the daemon ended and whatever step of a later save it broke     *)
(* off, a load gives each registered subsystem what it had at the last     *)
(* save that was completed: provided that a full disk shows before the     *)
(* temporary file is renamed, and that the null pointer and a file cut off *)
(* are no JSON values.                                                     *)
THEOREM SavedIsRestored ==
  ASSUME ~IsValue(NULL), ~IsTree(Object), ~FlushFails
  PROVE  ConfSpec => RestartRestores
<1>1. ConfInit => SaveInv
  BY DEF ConfInit, SaveInv, NoJob
<1>2. ConfInv /\ SaveInv /\ [ConfNext]_confvars => SaveInv'
  BY SaveStep
<1>3. ASSUME ConfInv, SaveInv, conf_load, ~edit, kept # NULL,
             NEW n \in ToSet(ops), kept[n] \notin Refused \cup {NULL}
      PROVE  part'[n] = kept[n]
  <2>1. n \in Names /\ Contains(ops, n)
    BY <1>3 DEF ConfInv, ToSet, Contains
  <2>2. PICK t : t = disk["startup"]
    OBVIOUS
  <2>3. IsTree(t) /\ Has(t, n, kept[n]) /\ t \notin {NULL, Object}
    BY <1>3, <2>1, <2>2 DEF SaveInv, IsTree
  <2>4. LoadedFile = "startup" /\ conf_read(LoadedFile) = t
    BY <1>3, <2>2, <2>3 DEF LoadedFile, conf_read
  <2>5. root' = t
    BY <1>3, <2>3, <2>4 DEF conf_load, Becomes, conf_set_root_obj
  <2>6. part'[n] = Applied(t)[n]
    BY <1>3, <2>3, <2>4, <2>5 DEF conf_load
  <2> QED
    BY <1>3, <2>1, <2>3, <2>6 DEF Applied, Has
<1>4. ConfInv /\ SaveInv /\ [ConfNext]_confvars
        => [conf_load /\ ~edit /\ kept # NULL
              => \A n \in ToSet(ops) :
                   kept[n] \notin Refused \cup {NULL} => part'[n] = kept[n]]_confvars
  BY <1>3
<1> QED
  BY <1>1, <1>2, <1>4, ConfInvHolds, PTL DEF ConfSpec, RestartRestores

-----------------------------------------------------------------------------
(* buffer.c: the queue is seen through the bytes of its buffers.  What     *)
(* each call makes of them is stated call by call (TrimIs, PutIs, ...),    *)
(* and so is what a copy finds at an offset (CopyIs).                      *)
(* The first n of a sequence, and what is behind them. *)
LEMMA FirstIs ==
  ASSUME NEW S, NEW s \in Seq(S), NEW n \in 0..Len(s)
  PROVE  /\ SubSeq(s, 1, n) \in Seq(S) /\ Len(SubSeq(s, 1, n)) = n
         /\ \A i \in 1..n : SubSeq(s, 1, n)[i] = s[i]
<1>1. Len(s) \in Nat /\ n \in Nat /\ n \in Int /\ \A i \in 1..n : i \in 1..Len(s) /\ 1 + i - 1 = i
  BY LenProperties
<1>2. \A i \in 1..n : s[i] \in S
  BY <1>1, ElementOfSeq
<1>3. /\ SubSeq(s, 1, n) \in Seq(S)
      /\ Len(SubSeq(s, 1, n)) = IF 1 <= n THEN n - 1 + 1 ELSE 0
      /\ \A i \in 1..(n - 1 + 1) : SubSeq(s, 1, n)[i] = s[1 + i - 1]
  BY <1>1, <1>2, SubSeqProperties
<1>4. n - 1 + 1 = n /\ (1 <= n \/ n = 0)
  BY <1>1
<1> QED
  BY <1>1, <1>3, <1>4

LEMMA DropIs ==
  ASSUME NEW S, NEW s \in Seq(S), NEW n \in 0..Len(s)
  PROVE  /\ DropFirst(s, n) \in Seq(S) /\ Len(DropFirst(s, n)) = Len(s) - n
         /\ \A i \in 1..(Len(s) - n) : DropFirst(s, n)[i] = s[n + i]
<1> DEFINE N == Len(s)
           t == SubSeq(s, n + 1, N)
<1>1. N \in Nat /\ n \in Nat /\ n <= N /\ \A i \in 1..N : s[i] \in S
  BY LenProperties, ElementOfSeq
<1>2. /\ n + 1 \in Int /\ N \in Int /\ \A i \in (n + 1)..N : s[i] \in S
  <2> HIDE DEF N
  <2> QED
    BY <1>1
<1>3. /\ t \in Seq(S)
      /\ Len(t) = IF n + 1 <= N THEN N - (n + 1) + 1 ELSE 0
      /\ \A i \in 1..(N - (n + 1) + 1) : t[i] = s[(n + 1) + i - 1]
  <2> HIDE DEF N
  <2> QED
    BY <1>2, SubSeqProperties
<1>4. DropFirst(s, n) = t
  BY DEF DropFirst
<1> HIDE DEF N, t
<1>5. /\ N - (n + 1) + 1 = N - n /\ (n + 1 <= N \/ N - n = 0)
      /\ \A i \in 1..(N - n) : (n + 1) + i - 1 = n + i
  BY <1>1
<1>6. Len(t) = N - n /\ \A i \in 1..(N - n) : t[i] = s[n + i]
  BY <1>3, <1>5
<1> QED
  BY <1>3, <1>4, <1>6 DEF N

(* The same of two joined. *)
LEMMA FirstOfJoin ==
  ASSUME NEW S, NEW s \in Seq(S), NEW t \in Seq(S)
  PROVE  /\ \A n \in 0..Len(s) : SubSeq(s \o t, 1, n) = SubSeq(s, 1, n)
         /\ \A n \in 0..Len(t) :
              SubSeq(s \o t, 1, Len(s) + n) = s \o SubSeq(t, 1, n)
<1> DEFINE a == Len(s)
           b == Len(t)
           w == s \o t
<1>1. a \in Nat /\ b \in Nat
  BY LenProperties
<1>2. w \in Seq(S) /\ Len(w) = a + b
      /\ \A i \in 1..(a + b) : w[i] = IF i <= a THEN s[i] ELSE t[i - a]
  BY ConcatProperties
<1>3. ASSUME NEW n \in 0..a PROVE SubSeq(w, 1, n) = SubSeq(s, 1, n)
  <2> DEFINE u == SubSeq(w, 1, n)
             v == SubSeq(s, 1, n)
  <2>1. v \in Seq(S) /\ Len(v) = n /\ \A i \in 1..n : v[i] = s[i]
    BY FirstIs
  <2> HIDE DEF a, b, w, v
  <2>2. n \in 0..(a + b) /\ n \in 0..Len(w) /\ \A i \in 1..n : i \in 1..(a + b) /\ i <= a
    BY <1>1, <1>2
  <2>3. u \in Seq(S) /\ Len(u) = n /\ \A i \in 1..n : u[i] = w[i]
    BY <1>2, <2>2, FirstIs
  <2> HIDE DEF u
  <2>4. \A i \in 1..Len(u) : u[i] = v[i]
    BY <1>2, <2>1, <2>2, <2>3
  <2>5. u = v
    BY <2>1, <2>3, <2>4, SeqEqual
  <2> QED
    BY <2>5 DEF u, v
<1>4. ASSUME NEW n \in 0..b PROVE SubSeq(w, 1, a + n) = s \o SubSeq(t, 1, n)
  <2> DEFINE u == SubSeq(w, 1, a + n)
             x == SubSeq(t, 1, n)
             v == s \o x
  <2>1. x \in Seq(S) /\ Len(x) = n /\ \A i \in 1..n : x[i] = t[i]
    BY FirstIs
  <2> HIDE DEF x
  <2>2. v \in Seq(S) /\ Len(v) = a + n
        /\ \A i \in 1..(a + n) : v[i] = IF i <= a THEN s[i] ELSE x[i - a]
    BY <2>1, ConcatProperties
  <2> HIDE DEF a, b, w, v
  <2>3. /\ a + n \in 0..Len(w)
        /\ \A i \in 1..(a + n) : i \in 1..(a + b) /\ (i <= a \/ i - a \in 1..n)
    BY <1>1, <1>2
  <2>4. u \in Seq(S) /\ Len(u) = a + n /\ \A i \in 1..(a + n) : u[i] = w[i]
    BY <1>2, <2>3, FirstIs
  <2> HIDE DEF u
  <2>5. \A i \in 1..Len(u) : u[i] = v[i]
    BY <1>2, <2>1, <2>2, <2>3, <2>4
  <2>6. u = v
    BY <2>2, <2>4, <2>5, SeqEqual
  <2> QED
    BY <2>6 DEF u, v, x
<1> QED
  BY <1>3, <1>4

LEMMA DropOfJoin ==
  ASSUME NEW S, NEW s \in Seq(S), NEW t \in Seq(S)
  PROVE  /\ \A n \in 0..Len(s) : DropFirst(s \o t, n) = DropFirst(s, n) \o t
         /\ \A n \in 0..Len(t) : DropFirst(s \o t, Len(s) + n) = DropFirst(t, n)
<1> DEFINE a == Len(s)
           b == Len(t)
           w == s \o t
<1>1. a \in Nat /\ b \in Nat
  BY LenProperties
<1>2. w \in Seq(S) /\ Len(w) = a + b
      /\ \A i \in 1..(a + b) : w[i] = IF i <= a THEN s[i] ELSE t[i - a]
  BY ConcatProperties
<1>3. ASSUME NEW n \in 0..a PROVE DropFirst(w, n) = DropFirst(s, n) \o t
  <2> DEFINE u == DropFirst(w, n)
             x == DropFirst(s, n)
             v == x \o t
             m == a - n
             k == m + b
  <2>1. x \in Seq(S) /\ Len(x) = m /\ \A i \in 1..m : x[i] = s[n + i]
    BY DropIs
  <2> HIDE DEF x, m
  <2>2. v \in Seq(S) /\ Len(v) = k
        /\ \A i \in 1..k : v[i] = IF i <= m THEN x[i] ELSE t[i - m]
    BY <2>1, ConcatProperties
  <2> HIDE DEF a, b, w, v, k
  <2>3. /\ n \in 0..Len(w) /\ Len(w) - n = k
        /\ \A i \in 1..k : /\ n + i \in 1..(a + b)
                           /\ i <= m => i \in 1..m /\ n + i <= a
                           /\ ~(i <= m) => ~(n + i <= a) /\ n + i - a = i - m
    BY <1>1, <1>2 DEF m, k
  <2>4. u \in Seq(S) /\ Len(u) = k /\ \A i \in 1..k : u[i] = w[n + i]
    <3>1. /\ u \in Seq(S) /\ Len(u) = Len(w) - n
          /\ \A i \in 1..(Len(w) - n) : u[i] = w[n + i]
      BY <1>2, <2>3, DropIs
    <3> HIDE DEF u
    <3> QED
      BY <2>3, <3>1
  <2> HIDE DEF u
  <2>5. \A i \in 1..k : u[i] = v[i]
    <3> TAKE i \in 1..k
    <3> DEFINE j == n + i
    <3>1. /\ j \in 1..(a + b) /\ u[i] = w[j]
          /\ i <= m => i \in 1..m /\ j <= a
          /\ ~(i <= m) => ~(j <= a) /\ j - a = i - m
          /\ i \in 1..m => x[i] = s[j]
      <4>1. /\ j \in 1..(a + b) /\ (i <= m => i \in 1..m /\ j <= a)
            /\ ~(i <= m) => ~(j <= a) /\ j - a = i - m
        BY <1>1 DEF m, k
      <4>2. u[i] = w[j]
        BY <2>4
      <4>3. i \in 1..m => x[i] = s[j]
        BY <2>1
      <4> QED
        BY <4>1, <4>2, <4>3
    <3> HIDE DEF j
    <3>2. u[i] = IF j <= a THEN s[j] ELSE t[j - a]
      BY <1>2, <3>1
    <3>3. v[i] = IF i <= m THEN x[i] ELSE t[i - m]
      BY <2>2
    <3> QED
      BY <3>1, <3>2, <3>3
  <2>6. u = v
    BY <2>2, <2>4, <2>5, SeqEqual
  <2> QED
    BY <2>6 DEF u, v, x
<1>4. ASSUME NEW n \in 0..b PROVE DropFirst(w, a + n) = DropFirst(t, n)
  <2> DEFINE u == DropFirst(w, a + n)
             v == DropFirst(t, n)
             k == b - n
  <2>1. v \in Seq(S) /\ Len(v) = k /\ \A i \in 1..k : v[i] = t[n + i]
    BY DropIs
  <2> HIDE DEF a, b, w, v, k
  <2>2. /\ a + n \in 0..Len(w) /\ Len(w) - (a + n) = k
        /\ \A i \in 1..k : /\ (a + n) + i \in 1..(a + b) /\ ~((a + n) + i <= a)
                           /\ (a + n) + i - a = n + i
    BY <1>1, <1>2 DEF k
  <2>3. u \in Seq(S) /\ Len(u) = k /\ \A i \in 1..k : u[i] = w[(a + n) + i]
    <3>1. /\ u \in Seq(S) /\ Len(u) = Len(w) - (a + n)
          /\ \A i \in 1..(Len(w) - (a + n)) : u[i] = w[(a + n) + i]
      BY <1>2, <2>2, DropIs
    <3> HIDE DEF u
    <3> QED
      BY <2>2, <3>1
  <2> HIDE DEF u
  <2>4. \A i \in 1..k : u[i] = v[i]
    <3> TAKE i \in 1..k
    <3> DEFINE j == (a + n) + i
    <3>1. /\ j \in 1..(a + b) /\ ~(j <= a) /\ j - a = n + i
          /\ u[i] = w[j] /\ v[i] = t[n + i]
      <4>1. j \in 1..(a + b) /\ ~(j <= a) /\ j - a = n + i
        BY <1>1 DEF k
      <4>2. u[i] = w[j]
        BY <2>3
      <4>3. v[i] = t[n + i]
        BY <2>1
      <4> QED
        BY <4>1, <4>2, <4>3
    <3> HIDE DEF j
    <3>2. w[j] = IF j <= a THEN s[j] ELSE t[j - a]
      BY <1>2, <3>1
    <3> QED
      BY <3>1, <3>2
  <2>5. u = v
    BY <2>1, <2>3, <2>4, SeqEqual
  <2> QED
    BY <2>5 DEF u, v
<1> QED
  BY <1>3, <1>4

LEMMA FirstAndDrop ==
  ASSUME NEW S, NEW s \in Seq(S), NEW n \in 0..Len(s)
  PROVE  SubSeq(s, 1, n) \o DropFirst(s, n) = s
<1>1. /\ Len(s) \in Nat /\ 1 \in 1..(Len(s) + 1) /\ n \in (1 - 1)..Len(s)
      /\ Len(s) \in n..Len(s)
  BY LenProperties
<1>2. SubSeq(s, 1, n) \o SubSeq(s, n + 1, Len(s)) = SubSeq(s, 1, Len(s))
  BY <1>1, ConcatAdjacentSubSeq
<1> QED
  BY <1>2, SubSeqFull DEF DropFirst

-----------------------------------------------------------------------------
(* The bytes of a list of buffers. *)
Buffers == {b \in [size : Nat, buf : Seq(Bytes)] : Len(b.buf) <= b.size}

LEMMA BufferIs ==
  ASSUME NEW b \in Buffers
  PROVE  b.size \in Nat /\ b.buf \in Seq(Bytes) /\ Len(b.buf) \in 0..b.size
<1>1. b.size \in Nat /\ b.buf \in Seq(Bytes) /\ Len(b.buf) <= b.size
  BY DEF Buffers
<1> QED
  BY <1>1, LenProperties

LEMMA BufIs ==
  ASSUME NEW x \in Seq(Bytes), NEW room \in Nat, Len(x) <= room
  PROVE  Buf(room, x) \in Buffers /\ Buf(room, x).buf = x
  BY DEF Buf, Buffers

Contents(l) == [i \in DOMAIN l |-> l[i].buf]

LEMMA ContentsAre ==
  ASSUME NEW l \in Seq(Buffers)
  PROVE  Contents(l) \in Seq(Seq(Bytes)) /\ Len(Contents(l)) = Len(l)
         /\ \A i \in 1..Len(l) : Contents(l)[i] = l[i].buf
<1> DEFINE n == Len(l)
           p == Contents(l)
<1>1. n \in Nat /\ DOMAIN l = 1..n /\ \A i \in 1..n : l[i] \in Buffers
  BY LenProperties, ElementOfSeq
<1>2. p \in [1..n -> Seq(Bytes)]
  BY <1>1, BufferIs DEF Contents
<1>3. p \in Seq(Seq(Bytes))
  <2> HIDE DEF n, p
  <2> QED
    BY <1>1, <1>2, SeqDef
<1>4. Len(p) = n
  <2> HIDE DEF n, p
  <2>1. DOMAIN p = 1..n /\ DOMAIN p = 1..Len(p) /\ Len(p) \in Nat
    BY <1>2, <1>3, LenProperties
  <2> QED
    BY <1>1, <2>1
<1> QED
  BY <1>1, <1>3, <1>4 DEF Contents

LEMMA BytesAre == ASSUME NEW l \in Seq(Buffers) PROVE BytesOf(l) \in Seq(Bytes)
<1>1. Joins(Seq(Bytes)) /\ Contents(l) \in Seq(Seq(Bytes))
  BY SeqJoins, ContentsAre
<1> QED
  BY <1>1, FlattenIs DEF BytesOf, Contents

LEMMA BytesJoin ==
  ASSUME NEW l \in Seq(Buffers), NEW m \in Seq(Buffers)
  PROVE  l \o m \in Seq(Buffers) /\ BytesOf(l \o m) = BytesOf(l) \o BytesOf(m)
<1> DEFINE w == l \o m
           a == Contents(l)
           b == Contents(m)
           p == a \o b
<1>1. w \in Seq(Buffers) /\ Len(w) = Len(l) + Len(m)
      /\ \A i \in 1..(Len(l) + Len(m)) : w[i] = IF i <= Len(l) THEN l[i] ELSE m[i - Len(l)]
  BY ConcatProperties
<1>2. /\ a \in Seq(Seq(Bytes)) /\ Len(a) = Len(l)
      /\ b \in Seq(Seq(Bytes)) /\ Len(b) = Len(m)
      /\ \A i \in 1..Len(l) : a[i] = l[i].buf
      /\ \A i \in 1..Len(m) : b[i] = m[i].buf
      /\ Len(l) \in Nat /\ Len(m) \in Nat
  BY ContentsAre, LenProperties
<1> HIDE DEF a, b
<1>3. p \in Seq(Seq(Bytes)) /\ Len(p) = Len(l) + Len(m)
      /\ \A i \in 1..(Len(l) + Len(m)) :
           p[i] = IF i <= Len(l) THEN a[i] ELSE b[i - Len(l)]
  <2>1. a \in Seq(Seq(Bytes)) /\ b \in Seq(Seq(Bytes))
    BY <1>2
  <2>2. p \in Seq(Seq(Bytes)) /\ Len(p) = Len(a) + Len(b)
        /\ \A i \in 1..(Len(a) + Len(b)) : p[i] = IF i <= Len(a) THEN a[i] ELSE b[i - Len(a)]
    BY <2>1, ConcatProperties
  <2> HIDE DEF p
  <2> QED
    BY <1>2, <2>2
<1> HIDE DEF w, p
<1>4. Contents(w) \in Seq(Seq(Bytes)) /\ Len(Contents(w)) = Len(w)
      /\ \A i \in 1..Len(w) : Contents(w)[i] = w[i].buf
  BY <1>1, ContentsAre
<1>5. ASSUME NEW i \in 1..Len(w) PROVE Contents(w)[i] = p[i]
  <2>1. CASE i <= Len(l)
    <3>1. i \in 1..Len(l)
      BY <1>1, <1>2, <2>1
    <3>2. w[i] = l[i] /\ p[i] = a[i]
      BY <1>1, <1>3, <2>1
    <3> QED
      BY <1>2, <1>4, <3>1, <3>2
  <2>2. CASE ~(i <= Len(l))
    <3> DEFINE j == i - Len(l)
    <3>1. j \in 1..Len(m)
      BY <1>1, <1>2, <2>2
    <3>2. w[i] = m[j] /\ p[i] = b[j]
      BY <1>1, <1>3, <2>2
    <3> HIDE DEF j
    <3> QED
      BY <1>2, <1>4, <3>1, <3>2
  <2> QED
    BY <2>1, <2>2
<1>6. Contents(w) = p
  <2> DEFINE q == Contents(w)
  <2>1. q \in Seq(Seq(Bytes)) /\ Len(q) = Len(p) /\ \A i \in 1..Len(q) : q[i] = p[i]
    BY <1>1, <1>3, <1>4, <1>5
  <2> HIDE DEF q
  <2>2. q = p
    BY <1>3, <2>1, SeqEqual
  <2> QED
    BY <2>2 DEF q
<1>7. FlattenSeq(p) = FlattenSeq(a) \o FlattenSeq(b)
  BY <1>2, FlattenJoin DEF p
<1> QED
  BY <1>1, <1>6, <1>7 DEF BytesOf, Contents, a, b, w

LEMMA BytesOfOne ==
  ASSUME NEW b \in Buffers
  PROVE  <<b>> \in Seq(Buffers) /\ BytesOf(<<b>>) = b.buf
<1>1. Contents(<<b>>) = <<b.buf>>
  BY DEF Contents
<1>2. b.buf \in Seq(Bytes) /\ Joins(Seq(Bytes)) /\ <<>> \in Seq(Seq(Bytes))
  BY BufferIs, SeqJoins
<1>3. FlattenSeq(Append(<<>>, b.buf)) = b.buf
  BY <1>2, FlattenAppend
<1>4. Append(<<>>, b.buf) = <<b.buf>>
  OBVIOUS
<1> QED
  BY <1>1, <1>3, <1>4 DEF BytesOf, Contents

LEMMA BytesOfNone == BytesOf(<<>>) = <<>>
<1>1. [i \in DOMAIN <<>> |-> <<>>[i].buf] = <<>>
  OBVIOUS
<1> QED
  BY <1>1 DEF BytesOf, FlattenSeq

(* The bytes before, in and behind the i-th buffer. *)
LEMMA BytesSplit ==
  ASSUME NEW l \in Seq(Buffers), NEW i \in 1..Len(l)
  PROVE  /\ l[i] \in Buffers /\ i - 1 \in 0..Len(l) /\ i \in 0..Len(l)
         /\ SubSeq(l, 1, i - 1) \in Seq(Buffers) /\ DropFirst(l, i) \in Seq(Buffers)
         /\ DropFirst(l, i - 1) \in Seq(Buffers)
         /\ BytesOf(DropFirst(l, i - 1)) = l[i].buf \o BytesOf(DropFirst(l, i))
         /\ BytesOf(SubSeq(l, 1, i)) = BytesOf(SubSeq(l, 1, i - 1)) \o l[i].buf
         /\ BytesOf(l) = BytesOf(SubSeq(l, 1, i - 1)) \o BytesOf(DropFirst(l, i - 1))
<1> DEFINE n == Len(l)
           a == SubSeq(l, 1, i - 1)
           z == DropFirst(l, i)
           t == DropFirst(l, i - 1)
           h == SubSeq(l, 1, i)
           c == <<l[i]>>
<1>1. n \in Nat /\ i - 1 \in 0..n /\ i \in 0..n /\ l[i] \in Buffers
  BY LenProperties, ElementOfSeq
<1>2. a \in Seq(Buffers) /\ z \in Seq(Buffers) /\ t \in Seq(Buffers) /\ h \in Seq(Buffers)
  BY <1>1, FirstIs, DropIs
<1>3. c \in Seq(Buffers) /\ BytesOf(c) = l[i].buf
  BY <1>1, BytesOfOne
<1>4. t = c \o z
  <2>1. i \in 1..n /\ n \in i..n /\ i - 1 + 1 = i
    BY <1>1
  <2>2. SubSeq(l, i, n) = c \o SubSeq(l, i + 1, n)
    BY <2>1, SubSeqRecursiveFirst
  <2>3. t = SubSeq(l, i, n)
    BY <2>1 DEF DropFirst
  <2> QED
    BY <2>2, <2>3 DEF DropFirst
<1>5. h = a \o c
  <2>1. 1 \in 1..n /\ i \in 1..n
    BY <1>1
  <2> QED
    BY <2>1, SubSeqRecursiveSecond
<1>6. a \o t = l
  BY <1>1, FirstAndDrop
<1> HIDE DEF n, a, z, t, h, c
<1>7. BytesOf(c \o z) = BytesOf(c) \o BytesOf(z)
  BY <1>2, <1>3, BytesJoin
<1>8. BytesOf(a \o c) = BytesOf(a) \o BytesOf(c)
  BY <1>2, <1>3, BytesJoin
<1>9. BytesOf(a \o t) = BytesOf(a) \o BytesOf(t)
  BY <1>2, BytesJoin
<1>10. /\ BytesOf(t) = l[i].buf \o BytesOf(z) /\ BytesOf(h) = BytesOf(a) \o l[i].buf
       /\ BytesOf(l) = BytesOf(a) \o BytesOf(t)
  BY <1>3, <1>4, <1>5, <1>6, <1>7, <1>8, <1>9
<1> QED
  BY <1>1, <1>2, <1>10 DEF n, a, z, t, h

LEMMA UptoIs ==
  ASSUME NEW l \in Seq(Buffers)
  PROVE  /\ \A i \in 0..Len(l) : Upto(l, i) \in Nat
         /\ Upto(l, 0) = 0 /\ Upto(l, Len(l)) = Len(BytesOf(l))
         /\ \A i \in 1..Len(l) : Upto(l, i) = Upto(l, i - 1) + Len(l[i].buf)
<1>1. ASSUME NEW i \in 0..Len(l) PROVE Upto(l, i) \in Nat
  <2>1. SubSeq(l, 1, i) \in Seq(Buffers)
    BY FirstIs
  <2> QED
    BY <2>1, BytesAre, LenProperties DEF Upto
<1>2. Upto(l, 0) = 0
  <2>1. SubSeq(l, 1, 0) = <<>>
    BY SubSeqEmpty
  <2> QED
    <3>1. BytesOf(SubSeq(l, 1, 0)) = <<>> /\ Len(<<>>) = 0
      BY <2>1, BytesOfNone
    <3> QED
      BY <3>1 DEF Upto
<1>3. Upto(l, Len(l)) = Len(BytesOf(l))
  BY SubSeqFull DEF Upto
<1>4. ASSUME NEW i \in 1..Len(l) PROVE Upto(l, i) = Upto(l, i - 1) + Len(l[i].buf)
  <2> DEFINE h == BytesOf(SubSeq(l, 1, i - 1))
             x == l[i].buf
  <2>1. h \in Seq(Bytes) /\ x \in Seq(Bytes) /\ BytesOf(SubSeq(l, 1, i)) = h \o x
    BY BytesSplit, BytesAre, BufferIs
  <2> HIDE DEF h, x
  <2>2. Len(h \o x) = Len(h) + Len(x)
    BY <2>1, ConcatProperties
  <2> QED
    BY <2>1, <2>2 DEF Upto, h, x
<1> QED
  BY <1>1, <1>2, <1>3, <1>4

LEMMA UptoGrows ==
  ASSUME NEW l \in Seq(Buffers), NEW i \in 0..Len(l), NEW j \in i..Len(l)
  PROVE  Upto(l, i) <= Upto(l, j)
<1> DEFINE n == Len(l)
           N == j - i
           P == {k \in 0..N : Upto(l, i) <= Upto(l, i + k)}
<1>1. n \in Nat /\ N \in Nat /\ i \in Nat /\ j = i + N
  BY LenProperties
<1>2. \A k \in 0..n : Upto(l, k) \in Nat
  BY UptoIs
<1>3. 0 \in P
  <2>1. i + 0 = i /\ Upto(l, i) \in Nat
    BY <1>1, <1>2
  <2> QED
    BY <1>1, <2>1
<1>4. ASSUME NEW k \in 1..N, k - 1 \in P PROVE k \in P
  <2> DEFINE m == i + k
  <2>1. m \in 1..n /\ m \in 0..n /\ m - 1 \in 0..n /\ i + (k - 1) = m - 1 /\ k \in 0..N
    BY <1>1
  <2>2. Upto(l, i) <= Upto(l, m - 1)
    BY <1>4, <2>1
  <2> HIDE DEF m
  <2>3. l[m] \in Buffers
    BY <2>1, ElementOfSeq
  <2>4. Len(l[m].buf) \in Nat
    BY <2>3, BufferIs
  <2>5. Upto(l, m) = Upto(l, m - 1) + Len(l[m].buf)
    BY <2>1, UptoIs
  <2>6. Upto(l, i) \in Nat /\ Upto(l, m - 1) \in Nat
    BY <1>2, <2>1
  <2>7. Upto(l, i) <= Upto(l, m)
    BY <2>2, <2>4, <2>5, <2>6
  <2> QED
    BY <2>1, <2>7 DEF m
<1>5. 0..N \subseteq P
  <2> HIDE DEF N, P
  <2> QED
    BY <1>1, <1>3, <1>4, UpTo
<1>6. N \in P
  BY <1>1, <1>5
<1> QED
  BY <1>1, <1>6

(* The list with other bytes in its i-th buffer. *)
IsChanged(m, l, i, x) == m = [l EXCEPT ![i].buf = x]

LEMMA ChangedIs ==
  ASSUME NEW l \in Seq(Buffers), NEW i \in 1..Len(l), NEW x \in Seq(Bytes),
         Len(x) <= l[i].size, NEW m, IsChanged(m, l, i, x)
  PROVE  /\ m \in Seq(Buffers) /\ Len(m) = Len(l)
         /\ BytesOf(m) = BytesOf(SubSeq(l, 1, i - 1)) \o (x \o BytesOf(DropFirst(l, i)))
<1> DEFINE n == Len(l)
           b == [l[i] EXCEPT !.buf = x]
<1>1. n \in Nat /\ i - 1 \in 0..n /\ i \in 0..n /\ l[i] \in Buffers
  BY LenProperties, ElementOfSeq
<1>2. b \in Buffers /\ b.buf = x
  BY <1>1 DEF Buffers
<1>3. m = [l EXCEPT ![i] = b]
  BY DEF IsChanged
<1> HIDE DEF b, n
<1>4. i \in 1..Len(l)
  OBVIOUS
<1>5. m \in Seq(Buffers) /\ Len(m) = n /\ \A j \in 1..n : m[j] = IF j = i THEN b ELSE l[j]
  BY <1>2, <1>3, <1>4, ExceptSeq DEF n
<1>6. SubSeq(m, 1, i - 1) = SubSeq(l, 1, i - 1)
  <2> DEFINE u == SubSeq(m, 1, i - 1)
             v == SubSeq(l, 1, i - 1)
  <2>1. u \in Seq(Buffers) /\ Len(u) = i - 1 /\ \A j \in 1..(i - 1) : u[j] = m[j]
    BY <1>1, <1>5, FirstIs
  <2>2. v \in Seq(Buffers) /\ Len(v) = i - 1 /\ \A j \in 1..(i - 1) : v[j] = l[j]
    BY <1>1, FirstIs DEF n
  <2> HIDE DEF u, v
  <2>3. \A j \in 1..(i - 1) : j \in 1..n /\ j # i
    BY <1>1
  <2>4. \A j \in 1..Len(u) : u[j] = v[j]
    BY <1>5, <2>1, <2>2, <2>3
  <2>5. u = v
    BY <2>1, <2>2, <2>4, SeqEqual
  <2> QED
    BY <2>5 DEF u, v
<1>7. DropFirst(m, i) = DropFirst(l, i)
  <2> DEFINE u == DropFirst(m, i)
             v == DropFirst(l, i)
  <2>1. u \in Seq(Buffers) /\ Len(u) = n - i /\ \A j \in 1..(n - i) : u[j] = m[i + j]
    <3>1. i \in 0..Len(m)
      BY <1>1, <1>5
    <3>2. u \in Seq(Buffers) /\ Len(u) = Len(m) - i
          /\ \A j \in 1..(Len(m) - i) : u[j] = m[i + j]
      BY ONLY <1>5, <3>1, DropIs
    <3> HIDE DEF u
    <3> QED
      BY <1>5, <3>2
  <2>2. v \in Seq(Buffers) /\ Len(v) = n - i /\ \A j \in 1..(n - i) : v[j] = l[i + j]
    BY <1>1, DropIs DEF n
  <2> HIDE DEF u, v
  <2>3. \A j \in 1..(n - i) : i + j \in 1..n /\ i + j # i
    BY <1>1
  <2>4. \A j \in 1..Len(u) : u[j] = v[j]
    <3> TAKE j \in 1..Len(u)
    <3>1. j \in 1..(n - i)
      BY <2>1
    <3>2. u[j] = m[i + j] /\ v[j] = l[i + j]
      BY <2>1, <2>2, <3>1
    <3>3. m[i + j] = l[i + j]
      BY <1>5, <2>3, <3>1
    <3> QED
      BY <3>2, <3>3
  <2>5. u = v
    BY <2>1, <2>2, <2>4, SeqEqual
  <2> QED
    BY <2>5 DEF u, v
<1>8. m[i] = b /\ i \in 1..Len(m)
  BY <1>4, <1>5 DEF n
<1>9. /\ BytesOf(m) = BytesOf(SubSeq(m, 1, i - 1)) \o BytesOf(DropFirst(m, i - 1))
      /\ BytesOf(DropFirst(m, i - 1)) = m[i].buf \o BytesOf(DropFirst(m, i))
  BY <1>5, <1>8, BytesSplit
<1> QED
  BY <1>2, <1>5, <1>6, <1>7, <1>8, <1>9 DEF n

LEMMA MinOfTwo ==
  ASSUME NEW a \in Nat, NEW b \in Nat
  PROVE  Min({a, b}) = IF a <= b THEN a ELSE b
<1>1. {a, b} \in SUBSET Nat /\ {a, b} # {}
  OBVIOUS
<1>2. Min({a, b}) \in {a, b} /\ \A m \in {a, b} : Min({a, b}) <= m
  BY <1>1, MinIs
<1> DEFINE c == Min({a, b})
<1>3. (c = a \/ c = b) /\ c <= a /\ c <= b
  BY <1>2
<1> HIDE DEF c
<1>4. c = IF a <= b THEN a ELSE b
  BY <1>3
<1> QED
  BY <1>4 DEF c

(* The first buffer and the others. *)
LEMMA BytesOfFirst ==
  ASSUME NEW l \in Seq(Buffers), l # <<>>
  PROVE  /\ 1 \in 1..Len(l) /\ l[1] \in Buffers /\ DropFirst(l, 1) \in Seq(Buffers)
         /\ BytesOf(l) = l[1].buf \o BytesOf(DropFirst(l, 1))
<1>1. 1 \in 1..Len(l) /\ 1 - 1 = 0
  BY EmptySeq, LenProperties
<1>2. /\ l[1] \in Buffers /\ DropFirst(l, 1) \in Seq(Buffers)
      /\ DropFirst(l, 0) \in Seq(Buffers)
      /\ BytesOf(DropFirst(l, 0)) = l[1].buf \o BytesOf(DropFirst(l, 1))
      /\ BytesOf(l) = BytesOf(SubSeq(l, 1, 0)) \o BytesOf(DropFirst(l, 0))
  BY <1>1, BytesSplit
<1>3. SubSeq(l, 1, 0) = <<>>
  BY SubSeqEmpty
<1>4. BytesOf(SubSeq(l, 1, 0)) = <<>>
  BY <1>3, BytesOfNone
<1>5. BytesOf(DropFirst(l, 0)) \in Seq(Bytes)
  BY <1>2, BytesAre
<1>6. <<>> \o BytesOf(DropFirst(l, 0)) = BytesOf(DropFirst(l, 0))
  BY <1>5, ConcatEmptySeq
<1> QED
  BY <1>1, <1>2, <1>4, <1>6

LEMMA ChangedFirst ==
  ASSUME NEW l \in Seq(Buffers), l # <<>>, NEW x \in Seq(Bytes),
         Len(x) <= l[1].size, NEW m, IsChanged(m, l, 1, x)
  PROVE  /\ m \in Seq(Buffers) /\ m # <<>>
         /\ BytesOf(m) = x \o BytesOf(DropFirst(l, 1))
<1>1. 1 \in 1..Len(l) /\ 1 - 1 = 0 /\ Len(l) # 0 /\ DropFirst(l, 1) \in Seq(Buffers)
  BY BytesOfFirst, LenProperties
<1>2. /\ m \in Seq(Buffers) /\ Len(m) = Len(l)
      /\ BytesOf(m) = BytesOf(SubSeq(l, 1, 0)) \o (x \o BytesOf(DropFirst(l, 1)))
  <2>1. /\ m \in Seq(Buffers) /\ Len(m) = Len(l)
        /\ BytesOf(m) = BytesOf(SubSeq(l, 1, 1 - 1)) \o (x \o BytesOf(DropFirst(l, 1)))
    BY <1>1, ChangedIs
  <2> QED
    BY <1>1, <2>1
<1>3. BytesOf(SubSeq(l, 1, 0)) = <<>>
  <2>1. SubSeq(l, 1, 0) = <<>>
    BY SubSeqEmpty
  <2> QED
    BY <2>1, BytesOfNone
<1> DEFINE y == x \o BytesOf(DropFirst(l, 1))
<1>4. y \in Seq(Bytes)
  BY <1>1, BytesAre, ConcatProperties
<1> HIDE DEF y
<1>5. <<>> \o y = y
  BY <1>4, ConcatEmptySeq
<1>6. m # <<>>
  BY <1>1, <1>2
<1> QED
  BY <1>2, <1>3, <1>5, <1>6 DEF y

(* The types of a queue_buf, and what holds of one between calls. *)
QueueBufs ==
  [pre_alloc : BOOLEAN, max_len : Nat, len : Nat, list : Seq(Buffers)]
IsQueue(q) ==
  /\ q \in QueueBufs /\ q.len = Len(BytesOf(q.list))
  /\ q.pre_alloc => q.list # <<>>

Holding(q, len, bufs) == [q EXCEPT !.len = len, !.list = bufs]

LEMMA QueueWith ==
  ASSUME NEW q \in QueueBufs, NEW len, NEW bufs \in Seq(Buffers),
         len = Len(BytesOf(bufs)), q.pre_alloc => bufs # <<>>,
         NEW r, r = Holding(q, len, bufs)
  PROVE  IsQueue(r) /\ r.list = bufs /\ r.len = len /\ r.max_len = q.max_len
         /\ r.pre_alloc = q.pre_alloc
<1>1. BytesOf(bufs) \in Seq(Bytes)
  BY BytesAre
<1>2. len \in Nat
  BY <1>1, LenProperties
<1> QED
  BY <1>2 DEF IsQueue, QueueBufs, Holding

LEMMA ResetIs ==
  ASSUME NEW q \in QueueBufs
  PROVE  /\ IsQueue(queue_buf_reset(q)) /\ BytesOf(queue_buf_reset(q).list) = <<>>
         /\ queue_buf_reset(q).max_len = q.max_len
         /\ queue_buf_reset(q).len = 0
<1> DEFINE bufs == IF q.pre_alloc THEN <<Buf(MinSize, <<>>)>> ELSE <<>>
<1>1. /\ <<>> \in Seq(Bytes) /\ Len(<<>>) = 0 /\ MinSize \in Nat
      /\ <<>> \in Seq(Buffers) /\ Len(<<>>) <= MinSize
  BY BufferAssumption
<1>2. Buf(MinSize, <<>>) \in Buffers /\ Buf(MinSize, <<>>).buf = <<>>
  BY <1>1, BufIs
<1>3. /\ <<Buf(MinSize, <<>>)>> \in Seq(Buffers)
      /\ BytesOf(<<Buf(MinSize, <<>>)>>) = <<>>
  BY <1>2, BytesOfOne
<1>4. bufs \in Seq(Buffers) /\ BytesOf(bufs) = <<>> /\ (q.pre_alloc => bufs # <<>>)
  BY <1>1, <1>3, BytesOfNone
<1>5. queue_buf_reset(q) = Holding(q, 0, bufs)
  BY DEF queue_buf_reset, Holding
<1> HIDE DEF bufs
<1> DEFINE r == queue_buf_reset(q)
<1>6. r = Holding(q, 0, bufs)
  BY <1>5
<1> HIDE DEF r
<1>7. 0 = Len(BytesOf(bufs))
  BY <1>1, <1>4
<1>8. IsQueue(r) /\ r.list = bufs /\ r.len = 0 /\ r.max_len = q.max_len
  BY <1>4, <1>6, <1>7, QueueWith
<1> QED
  BY <1>4, <1>8 DEF r

LEMMA InitIs ==
  ASSUME NEW p \in BOOLEAN
  PROVE  /\ IsQueue(queue_buf_init(p)) /\ BytesOf(queue_buf_init(p).list) = <<>>
         /\ queue_buf_init(p).max_len = 0
<1> DEFINE q == [pre_alloc |-> p, max_len |-> 0, len |-> 0, list |-> <<>>]
<1>1. q \in QueueBufs /\ q.max_len = 0
  BY EmptySeq DEF QueueBufs
<1>2. queue_buf_init(p) = queue_buf_reset(q)
  BY DEF queue_buf_init
<1> HIDE DEF q
<1> QED
  BY <1>1, <1>2, ResetIs

-----------------------------------------------------------------------------
(* The operations, and the bytes they leave. *)
LEMMA ConcatIs ==
  ASSUME NEW q1, NEW q2, IsQueue(q1), IsQueue(q2)
  PROVE  /\ IsQueue(queue_buf_concat(q1, q2))
         /\ BytesOf(queue_buf_concat(q1, q2).list)
              = IF Exceeds(q1, q2.len) THEN BytesOf(q1.list)
                ELSE BytesOf(q1.list) \o BytesOf(q2.list)
<1> DEFINE r == queue_buf_concat(q1, q2)
           bufs == q1.list \o q2.list
           len == q1.len + q2.len
<1>1. /\ q1 \in QueueBufs /\ q1.list \in Seq(Buffers) /\ q2.list \in Seq(Buffers)
      /\ q1.len = Len(BytesOf(q1.list)) /\ q2.len = Len(BytesOf(q2.list))
      /\ q1.pre_alloc => q1.list # <<>>
  BY DEF IsQueue, QueueBufs
<1>2. bufs \in Seq(Buffers) /\ BytesOf(bufs) = BytesOf(q1.list) \o BytesOf(q2.list)
  BY <1>1, BytesJoin
<1>3. len = Len(BytesOf(bufs))
  <2>1. BytesOf(q1.list) \in Seq(Bytes) /\ BytesOf(q2.list) \in Seq(Bytes)
    BY <1>1, BytesAre
  <2> QED
    BY <1>1, <1>2, <2>1, ConcatProperties
<1>4. q1.pre_alloc => bufs # <<>>
  BY <1>1, ConcatEqualIffEmpty
<1>5. CASE Exceeds(q1, q2.len)
  BY <1>5 DEF queue_buf_concat
<1>6. CASE ~Exceeds(q1, q2.len)
  <2>1. r = Holding(q1, len, bufs)
    BY <1>6 DEF queue_buf_concat, Holding
  <2> HIDE DEF r, len, bufs
  <2>2. IsQueue(r) /\ r.list = bufs
    BY <1>1, <1>2, <1>3, <1>4, <2>1, QueueWith
  <2> QED
    BY <1>2, <1>6, <2>2 DEF r, bufs
<1> QED
  BY <1>5, <1>6

LEMMA CoalesceIs ==
  ASSUME NEW q, IsQueue(q)
  PROVE  IsQueue(queue_buf_coalesce(q)) /\ BytesOf(queue_buf_coalesce(q).list) = BytesOf(q.list)
<1> DEFINE r == queue_buf_coalesce(q)
           b == Buf(Larger(q.list[1].size, q.len), BytesOf(q.list))
           bufs == <<b>>
<1>1. /\ q \in QueueBufs /\ q.list \in Seq(Buffers) /\ q.len \in Nat
      /\ q.len = Len(BytesOf(q.list))
  BY DEF IsQueue, QueueBufs
<1>2. CASE q.list = <<>> \/ q.len \in {0, Len(q.list[1].buf)}
  BY <1>2 DEF queue_buf_coalesce
<1>3. CASE ~(q.list = <<>> \/ q.len \in {0, Len(q.list[1].buf)})
  <2> DEFINE room == Larger(q.list[1].size, q.len)
             x == BytesOf(q.list)
  <2>1. q.list[1].size \in Nat
    BY <1>1, <1>3, BytesOfFirst, BufferIs
  <2>2. room \in Nat /\ q.len <= room
    BY <1>1, <2>1 DEF Larger
  <2>3. x \in Seq(Bytes)
    BY <1>1, BytesAre
  <2> HIDE DEF room, x
  <2>4. Len(x) <= room
    BY <1>1, <2>2 DEF x
  <2>5. Buf(room, x) \in Buffers /\ Buf(room, x).buf = x
    BY <2>2, <2>3, <2>4, BufIs
  <2>6. b = Buf(room, x)
    BY DEF room, x
  <2>7. bufs \in Seq(Buffers) /\ BytesOf(bufs) = x /\ bufs # <<>>
    BY <2>5, <2>6, BytesOfOne
  <2>8. r = Holding(q, q.len, bufs)
    <3>1. r = [q EXCEPT !.list = bufs]
      BY <1>3 DEF queue_buf_coalesce
    <3> HIDE DEF r, bufs
    <3> QED
      BY <1>1, <3>1 DEF Holding, QueueBufs
  <2> HIDE DEF r, bufs
  <2>9. q.len = Len(BytesOf(bufs))
    BY <1>1, <2>7 DEF x
  <2>10. IsQueue(r) /\ r.list = bufs
    BY <1>1, <2>7, <2>8, <2>9, QueueWith
  <2> QED
    BY <2>7, <2>10 DEF r, x
<1> QED
  BY <1>2, <1>3

LEMMA LargerIs ==
  ASSUME NEW x \in Seq(Bytes)
  PROVE  /\ Buf(Larger(MinSize, Len(x)), x) \in Buffers
         /\ Buf(Larger(MinSize, Len(x)), x).buf = x
<1> DEFINE room == Larger(MinSize, Len(x))
<1>1. Len(x) \in Nat /\ MinSize \in Nat
  BY LenProperties, BufferAssumption
<1>2. room \in Nat /\ Len(x) <= room
  BY <1>1 DEF Larger
<1> HIDE DEF room
<1>3. Buf(room, x) \in Buffers /\ Buf(room, x).buf = x
  BY <1>2, BufIs
<1> QED
  BY <1>3 DEF room

LEMMA PutHeadIs ==
  ASSUME NEW q, IsQueue(q), NEW x \in Seq(Bytes)
  PROVE  /\ IsQueue(queue_buf_put_head(q, x))
         /\ BytesOf(queue_buf_put_head(q, x).list) = x \o BytesOf(q.list)
<1> DEFINE r == queue_buf_put_head(q, x)
           b == Buf(Larger(MinSize, Len(x)), x)
           bufs == <<b>> \o q.list
           len == q.len + Len(x)
<1>1. /\ q \in QueueBufs /\ q.list \in Seq(Buffers) /\ q.len \in Nat
      /\ q.len = Len(BytesOf(q.list))
  BY DEF IsQueue, QueueBufs
<1>2. b \in Buffers /\ b.buf = x
  BY LargerIs
<1>3. r = Holding(q, len, bufs)
  BY DEF queue_buf_put_head, Holding
<1> HIDE DEF b
<1>4. <<b>> \in Seq(Buffers) /\ BytesOf(<<b>>) = x
  BY <1>2, BytesOfOne
<1>5. bufs \in Seq(Buffers) /\ BytesOf(bufs) = x \o BytesOf(q.list)
  BY <1>1, <1>4, BytesJoin
<1>6. bufs # <<>>
  BY <1>1, <1>4, ConcatEqualIffEmpty
<1>7. len = Len(BytesOf(bufs))
  <2>1. BytesOf(q.list) \in Seq(Bytes) /\ Len(x) \in Nat
    BY <1>1, BytesAre, LenProperties
  <2>2. Len(x \o BytesOf(q.list)) = Len(x) + Len(BytesOf(q.list))
    BY <2>1, ConcatProperties
  <2> HIDE DEF bufs
  <2> QED
    BY <1>1, <1>5, <2>1, <2>2
<1> HIDE DEF r, bufs, len
<1>8. IsQueue(r) /\ r.list = bufs
  BY <1>1, <1>3, <1>5, <1>6, <1>7, QueueWith
<1> QED
  BY <1>5, <1>8 DEF r

(* The last buffer filled up. *)
LEMMA FilledIs ==
  ASSUME NEW l \in Seq(Buffers), l # <<>>, NEW x \in Seq(Bytes),
         Len(l[Len(l)].buf) + Len(x) <= l[Len(l)].size,
         NEW m, IsChanged(m, l, Len(l), l[Len(l)].buf \o x)
  PROVE  m \in Seq(Buffers) /\ BytesOf(m) = BytesOf(l) \o x /\ m # <<>>
<1> DEFINE n == Len(l)
           y == l[n].buf
           p == BytesOf(SubSeq(l, 1, n - 1))
           w == y \o x
<1>1. n \in Nat \ {0} /\ n \in 1..Len(l)
  BY EmptySeq, LenProperties
<1>2. l[n] \in Buffers /\ SubSeq(l, 1, n - 1) \in Seq(Buffers)
      /\ DropFirst(l, n) \in Seq(Buffers)
      /\ BytesOf(SubSeq(l, 1, n)) = p \o y
  BY <1>1, BytesSplit
<1>3. y \in Seq(Bytes) /\ p \in Seq(Bytes)
  BY <1>2, BufferIs, BytesAre
<1>4. BytesOf(l) = p \o y
  <2>1. SubSeq(l, 1, n) = l
    BY SubSeqFull
  <2> QED
    BY <1>2, <2>1
<1>5. BytesOf(DropFirst(l, n)) = <<>>
  <2>1. DropFirst(l, n) = <<>>
    <3>1. n + 1 \in Int /\ n \in Int /\ n < n + 1
      BY <1>1
    <3>2. SubSeq(l, n + 1, n) = <<>>
      BY <3>1, SubSeqEmpty
    <3> QED
      BY <3>2 DEF DropFirst
  <2> QED
    BY <2>1, BytesOfNone
<1> HIDE DEF n, y, p
<1>6. w \in Seq(Bytes) /\ Len(w) = Len(y) + Len(x)
  BY <1>3, ConcatProperties
<1>7. Len(w) <= l[n].size /\ IsChanged(m, l, n, w)
  BY <1>6 DEF n, y
<1> HIDE DEF w
<1>8. /\ m \in Seq(Buffers) /\ Len(m) = Len(l)
      /\ BytesOf(m) = p \o (w \o BytesOf(DropFirst(l, n)))
  BY <1>1, <1>6, <1>7, ChangedIs DEF p
<1>9. w \o <<>> = w
  BY <1>6, ConcatEmptySeq
<1>10. p \o (y \o x) = (p \o y) \o x
  BY ONLY <1>3, x \in Seq(Bytes)
<1>11. m # <<>>
  BY <1>1, <1>8 DEF n
<1> QED
  BY <1>4, <1>5, <1>8, <1>9, <1>10, <1>11 DEF w

LEMMA PutIs ==
  ASSUME NEW q, IsQueue(q), NEW x \in Seq(Bytes)
  PROVE  /\ IsQueue(queue_buf_put(q, x))
         /\ BytesOf(queue_buf_put(q, x).list)
              = IF Exceeds(q, Len(x)) THEN BytesOf(q.list) ELSE BytesOf(q.list) \o x
         /\ ~Exceeds(q, Len(x)) => queue_buf_put(q, x).len = q.len + Len(x)
<1> DEFINE r     == queue_buf_put(q, x)
           l     == q.list
           n     == Len(l)
           space == IF n = 0 THEN 0 ELSE l[n].size - Len(l[n].buf)
           fill  == Min({space, Len(x)})
           rest  == DropFirst(x, fill)
           filling  == SubSeq(x, 1, fill)
           bufs  == IF fill = 0 THEN l ELSE [l EXCEPT ![n].buf = @ \o filling]
           last  == Buf(Larger(MinSize, Len(rest)), rest)
           all   == IF rest = <<>> THEN bufs ELSE Append(bufs, last)
           len   == q.len + Len(x)
<1>1. /\ q \in QueueBufs /\ l \in Seq(Buffers) /\ q.len \in Nat
      /\ q.len = Len(BytesOf(l)) /\ (q.pre_alloc => l # <<>>)
      /\ BytesOf(l) \in Seq(Bytes) /\ n \in Nat /\ Len(x) \in Nat
  BY BytesAre, LenProperties DEF IsQueue, QueueBufs
<1>2. r = IF Len(x) > 0 /\ Exceeds(q, Len(x)) THEN q ELSE Holding(q, len, all)
  BY DEF queue_buf_put, Holding
<1>3. ASSUME n # 0
      PROVE  l # <<>> /\ l[n].buf \in Seq(Bytes) /\ l[n].size \in Nat
             /\ space \in Nat /\ Len(l[n].buf) + space = l[n].size
  <2>1. n \in 1..Len(l) /\ l # <<>>
    BY <1>1, <1>3, EmptySeq
  <2>2. l[n] \in Buffers
    BY <1>1, <2>1, ElementOfSeq
  <2>3. l[n].buf \in Seq(Bytes) /\ l[n].size \in Nat /\ Len(l[n].buf) \in 0..l[n].size
    BY <2>2, BufferIs
  <2> QED
    BY <1>3, <2>1, <2>3
<1>4. space \in Nat
  BY <1>3
<1> HIDE DEF r, space, l
<1>5. fill \in 0..Len(x) /\ fill <= space /\ fill \in Nat
  <2>1. fill = IF space <= Len(x) THEN space ELSE Len(x)
    BY <1>1, <1>4, MinOfTwo
  <2> QED
    BY <1>1, <1>4, <2>1
<1> HIDE DEF fill
<1>6. /\ filling \in Seq(Bytes) /\ Len(filling) = fill /\ rest \in Seq(Bytes)
      /\ filling \o rest = x
  BY <1>5, FirstIs, DropIs, FirstAndDrop
<1> HIDE DEF filling, rest
<1>7. bufs \in Seq(Buffers) /\ BytesOf(bufs) = BytesOf(l) \o filling /\ (l # <<>> => bufs # <<>>)
  <2>1. CASE fill = 0
    <3>1. filling = <<>>
      BY <1>6, <2>1, EmptySeq
    <3> QED
      BY <1>1, <2>1, <3>1, ConcatEmptySeq
  <2>2. CASE fill # 0
    <3>1. n # 0
      BY <1>5, <2>2 DEF space
    <3>2. Len(l[n].buf) + Len(filling) <= l[n].size
      BY <1>3, <1>5, <1>6, <3>1, LenProperties
    <3>3. IsChanged(bufs, l, n, l[n].buf \o filling)
      <4>1. bufs = [l EXCEPT ![n].buf = l[n].buf \o filling]
        BY <2>2
      <4> QED
        BY <4>1 DEF IsChanged
    <3> HIDE DEF bufs
    <3> QED
      BY <1>1, <1>3, <1>6, <3>1, <3>2, <3>3, FilledIs
  <2> QED
    BY <2>1, <2>2
<1> HIDE DEF bufs
<1>8. last \in Buffers /\ last.buf = rest
  BY <1>6, LargerIs
<1> HIDE DEF last
<1>9. all \in Seq(Buffers) /\ BytesOf(all) = BytesOf(l) \o x /\ (l # <<>> => all # <<>>)
  <2>1. CASE rest = <<>>
    <3>1. filling = x
      BY <1>6, <2>1, ConcatEmptySeq
    <3> QED
      BY <1>7, <2>1, <3>1
  <2>2. CASE rest # <<>>
    <3>1. all = bufs \o <<last>> /\ all # <<>>
      BY <1>7, <1>8, <2>2, AppendIsConcat, AppendProperties
    <3>2. <<last>> \in Seq(Buffers) /\ BytesOf(<<last>>) = rest
      BY <1>8, BytesOfOne
    <3> HIDE DEF all
    <3>3. all \in Seq(Buffers) /\ BytesOf(all) = BytesOf(bufs) \o rest
      BY <1>7, <3>1, <3>2, BytesJoin
    <3> DEFINE b == BytesOf(l)
    <3>4. b \in Seq(Bytes)
      BY <1>1
    <3> HIDE DEF b
    <3>5. (b \o filling) \o rest = b \o (filling \o rest)
      <4>1. filling \in Seq(Bytes) /\ rest \in Seq(Bytes)
        BY <1>6
      <4> QED
        BY ONLY <3>4, <4>1
    <3> QED
      BY <1>6, <1>7, <3>1, <3>3, <3>5 DEF b
  <2> QED
    BY <2>1, <2>2
<1> HIDE DEF all
<1>10. len = Len(BytesOf(all))
  <2>1. Len(BytesOf(l) \o x) = Len(BytesOf(l)) + Len(x)
    BY <1>1, ConcatProperties
  <2> QED
    BY <1>1, <1>9, <2>1
<1>11. CASE Len(x) > 0 /\ Exceeds(q, Len(x))
  BY <1>2, <1>11 DEF r, l
<1>12. CASE ~(Len(x) > 0 /\ Exceeds(q, Len(x)))
  <2>1. r = Holding(q, len, all)
    BY <1>2, <1>12
  <2>2. q.pre_alloc => all # <<>>
    BY <1>1, <1>9
  <2>3. IsQueue(r) /\ r.list = all /\ r.len = len
    BY <1>1, <1>9, <1>10, <2>1, <2>2, QueueWith
  <2>4. CASE Len(x) > 0
    BY <1>9, <1>12, <2>3, <2>4 DEF r, l
  <2>5. CASE ~(Len(x) > 0)
    <3>1. x = <<>>
      BY <1>1, <2>5, EmptySeq
    <3>2. BytesOf(l) \o x = BytesOf(l)
      BY <1>1, <3>1, ConcatEmptySeq
    <3> QED
      BY <1>9, <2>3, <3>2 DEF r, l
  <2> QED
    BY <2>4, <2>5
<1> QED
  BY <1>11, <1>12

LEMMA TrimIs ==
  ASSUME NEW q, IsQueue(q), NEW n \in Nat
  PROVE  /\ IsQueue(queue_buf_trim(q, n))
         /\ BytesOf(queue_buf_trim(q, n).list)
              = SubSeq(BytesOf(q.list), 1, Min({n, Len(BytesOf(q.list))}))
<1> DEFINE r    == queue_buf_trim(q, n)
           l    == q.list
           B    == BytesOf(l)
           at   == {i \in DOMAIN l : Upto(l, i) >= n}
           last == Min(at)
           over == Upto(l, last) - n
           bufs == CutEnd(l, last, over)
<1>1. /\ q \in QueueBufs /\ l \in Seq(Buffers) /\ q.len \in Nat
      /\ q.len = Len(B) /\ (q.pre_alloc => l # <<>>)
      /\ B \in Seq(Bytes) /\ Len(l) \in Nat /\ DOMAIN l = 1..Len(l)
  BY BytesAre, LenProperties DEF IsQueue, QueueBufs
<1>2. r = IF n >= q.len THEN q ELSE IF n = 0 THEN queue_buf_reset(q)
          ELSE Holding(q, n, bufs)
  <2>1. [q EXCEPT !.len = n].list = q.list
    BY <1>1 DEF QueueBufs
  <2> QED
    BY <2>1 DEF queue_buf_trim, Holding
<1>3. Min({n, Len(B)}) = IF n <= Len(B) THEN n ELSE Len(B)
  BY <1>1, MinOfTwo
<1> HIDE DEF r, l, B, bufs
<1>4. CASE n >= q.len
  <2>1. Min({n, Len(B)}) = Len(B)
    BY <1>1, <1>3, <1>4
  <2>2. SubSeq(B, 1, Len(B)) = B
    BY <1>1, SubSeqFull
  <2> QED
    BY <1>2, <1>4, <2>1, <2>2 DEF r, l, B
<1>5. CASE ~(n >= q.len) /\ n = 0
  <2>1. Min({n, Len(B)}) = 0
    BY <1>1, <1>3, <1>5
  <2>2. SubSeq(B, 1, 0) = <<>>
    BY SubSeqEmpty
  <2>3. IsQueue(queue_buf_reset(q)) /\ BytesOf(queue_buf_reset(q).list) = <<>>
    BY <1>1, ResetIs
  <2> QED
    BY <1>2, <1>5, <2>1, <2>2, <2>3 DEF r, l, B
<1>6. CASE ~(n >= q.len) /\ n # 0
  <2>1. n \in Nat \ {0} /\ n < Len(B) /\ Min({n, Len(B)}) = n
    BY <1>1, <1>3, <1>6
  <2>2. /\ Upto(l, 0) = 0 /\ Upto(l, Len(l)) = Len(B)
        /\ \A i \in 0..Len(l) : Upto(l, i) \in Nat
    BY <1>1, UptoIs DEF B
  <2>3. Len(l) \in at
    <3>1. Len(l) # 0
      BY <2>1, <2>2
    <3> QED
      BY <1>1, <2>1, <2>2, <3>1
  <2>4. at \in SUBSET Nat /\ at # {}
    BY <1>1, <2>3
  <2>5. last \in at /\ \A i \in at : last <= i
    <3> HIDE DEF at
    <3> QED
      BY <2>4, MinIs
  <2> HIDE DEF last
  <2>6. last \in 1..Len(l) /\ Upto(l, last) >= n
    BY <1>1, <2>5
  <2>7. last - 1 \in 0..Len(l) /\ Upto(l, last - 1) < n
    <3>1. CASE last = 1
      BY <1>1, <2>1, <2>2, <3>1
    <3>2. CASE last # 1
      <4>1. last - 1 \in 1..Len(l) /\ last - 1 \in 0..Len(l) /\ ~(last <= last - 1)
        BY <1>1, <2>6, <3>2
      <4>2. ~(Upto(l, last - 1) >= n)
        BY <1>1, <2>5, <4>1
      <4> QED
        BY <2>1, <2>2, <4>1, <4>2
    <3> QED
      BY <3>1, <3>2
  <2> DEFINE h == SubSeq(l, 1, last)
             p == BytesOf(SubSeq(l, 1, last - 1))
             x == l[last].buf
             z == BytesOf(DropFirst(l, last))
             t == x \o z
             k == n - Len(p)
             y == SubSeq(x, 1, k)
  <2>8. /\ l[last] \in Buffers /\ SubSeq(l, 1, last - 1) \in Seq(Buffers)
        /\ DropFirst(l, last) \in Seq(Buffers)
        /\ B = p \o t
    BY <1>1, <2>6, BytesSplit DEF B
  <2>9. x \in Seq(Bytes) /\ z \in Seq(Bytes) /\ p \in Seq(Bytes) /\ Len(p) \in Nat
        /\ Len(x) \in 0..l[last].size /\ l[last].size \in Nat
    BY <2>8, BufferIs, BytesAre, LenProperties
  <2>10. Upto(l, last - 1) = Len(p) /\ Upto(l, last) = Len(p) + Len(x)
    <3>1. Upto(l, last - 1) = Len(p)
      BY DEF Upto
    <3> QED
      BY <1>1, <2>6, <3>1, UptoIs
  <2> HIDE DEF x, z, p
  <2>11. k \in 0..Len(x) /\ n = Len(p) + k /\ Len(x) - over = k
    <3>1. /\ k = n - Len(p) /\ over = Len(p) + Len(x) - n
          /\ n \in Nat /\ Len(p) \in Nat /\ Len(x) \in Nat
          /\ Len(p) < n /\ Len(p) + Len(x) >= n
      BY <2>1, <2>6, <2>7, <2>9, <2>10
    <3> HIDE DEF k, over
    <3> QED
      BY ONLY <3>1
  <2>12. t \in Seq(Bytes) /\ Len(t) = Len(x) + Len(z) /\ Len(z) \in Nat
    BY <2>9, ConcatProperties, LenProperties
  <2> HIDE DEF k, over
  <2>13. SubSeq(B, 1, n) = p \o y
    <3>1. k \in 0..Len(t)
      BY <2>9, <2>11, <2>12
    <3>2. SubSeq(t, 1, k) = y
      BY <2>9, <2>11, FirstOfJoin
    <3> HIDE DEF t
    <3>3. SubSeq(p \o t, 1, Len(p) + k) = p \o SubSeq(t, 1, k)
      <4>1. p \in Seq(Bytes) /\ t \in Seq(Bytes)
        BY <2>9, <2>12
      <4> QED
        BY ONLY <3>1, <4>1, FirstOfJoin
    <3> QED
      BY <2>8, <2>11, <3>2, <3>3
  <2>14. y \in Seq(Bytes) /\ Len(y) = k
    BY <2>9, <2>11, FirstIs
  <2>15. h \in Seq(Buffers) /\ Len(h) = last /\ h[last] = l[last]
         /\ SubSeq(h, 1, last - 1) = SubSeq(l, 1, last - 1) /\ DropFirst(h, last) = <<>>
    <3>1. /\ last \in 0..Len(l) /\ last \in 1..last /\ last - 1 \in 0..last
          /\ last + 1 \in Int /\ last \in Int /\ last < last + 1
      BY <1>1, <2>6
    <3>2. h \in Seq(Buffers) /\ Len(h) = last /\ \A i \in 1..last : h[i] = l[i]
      BY <1>1, <3>1, FirstIs
    <3>3. h \o DropFirst(l, last) = l
      BY <1>1, <3>1, FirstAndDrop
    <3> HIDE DEF h
    <3>4. SubSeq(h \o DropFirst(l, last), 1, last - 1) = SubSeq(h, 1, last - 1)
      BY <2>8, <3>1, <3>2, FirstOfJoin
    <3>5. SubSeq(h, last + 1, last) = <<>>
      BY <3>1, SubSeqEmpty
    <3> QED
      BY <3>1, <3>2, <3>3, <3>4, <3>5 DEF DropFirst
  <2>16. IsChanged(bufs, h, last, y)
    <3>1. bufs = [h EXCEPT ![last].buf = SubSeq(h[last].buf, 1, Len(h[last].buf) - over)]
      BY DEF bufs, CutEnd
    <3>2. SubSeq(h[last].buf, 1, Len(h[last].buf) - over) = y
      BY <2>11, <2>15 DEF x
    <3> HIDE DEF h, y
    <3> QED
      BY <3>1, <3>2 DEF IsChanged
  <2> HIDE DEF h, y
  <2>17. last \in 1..Len(h) /\ Len(y) <= h[last].size
    BY <2>6, <2>9, <2>11, <2>14, <2>15
  <2>18. /\ bufs \in Seq(Buffers) /\ Len(bufs) = last
         /\ BytesOf(bufs) = BytesOf(SubSeq(h, 1, last - 1)) \o (y \o BytesOf(DropFirst(h, last)))
    BY <2>14, <2>15, <2>16, <2>17, ChangedIs
  <2>19. BytesOf(bufs) = p \o y
    <3>1. y \o <<>> = y
      BY <2>14, ConcatEmptySeq
    <3> QED
      BY <2>15, <2>18, <3>1, BytesOfNone DEF p
  <2>20. n = Len(BytesOf(bufs)) /\ bufs # <<>>
    <3>1. Len(p \o y) = Len(p) + Len(y)
      BY <2>9, <2>14, ConcatProperties
    <3>2. Len(bufs) # 0
      BY <2>6, <2>18
    <3> QED
      BY <2>11, <2>14, <2>19, <3>1, <3>2
  <2>21. r = Holding(q, n, bufs)
    BY <1>2, <1>6
  <2>22. IsQueue(r) /\ r.list = bufs
    BY <1>1, <2>18, <2>20, <2>21, QueueWith
  <2> QED
    BY <2>1, <2>13, <2>19, <2>22 DEF r, B, l
<1> QED
  BY <1>4, <1>5, <1>6

LEMMA CutStartIs ==
  ASSUME NEW l \in Seq(Buffers), l # <<>>, NEW n \in 0..Len(l[1].buf)
  PROVE  /\ CutStart(l, n) \in Seq(Buffers) /\ CutStart(l, n) # <<>>
         /\ BytesOf(CutStart(l, n)) = DropFirst(l[1].buf, n) \o BytesOf(DropFirst(l, 1))
<1> DEFINE m == CutStart(l, n)
           x == l[1].buf
           y == DropFirst(x, n)
<1>1. l[1] \in Buffers
  BY BytesOfFirst
<1>2. x \in Seq(Bytes) /\ Len(x) \in 0..l[1].size /\ l[1].size \in Nat
  BY <1>1, BufferIs
<1>3. y \in Seq(Bytes) /\ Len(y) = Len(x) - n
  BY <1>2, DropIs
<1>4. IsChanged(m, l, 1, y)
  BY DEF IsChanged, CutStart
<1> HIDE DEF m, x, y
<1>5. Len(y) <= l[1].size
  BY <1>2, <1>3 DEF x
<1>6. m \in Seq(Buffers) /\ m # <<>> /\ BytesOf(m) = y \o BytesOf(DropFirst(l, 1))
  BY <1>3, <1>4, <1>5, ChangedFirst
<1> QED
  BY <1>6 DEF m, x, y

(* The kept first buffer, emptied and filled from the next.  The bytes are *)
(* right in number, and they are the right ones when none of the next      *)
(* buffer's were to go.                                                    *)
LEMMA RefilledIs ==
  ASSUME NEW front \in Buffers, NEW l \in Seq(Buffers), l # <<>>,
         NEW n \in 0..Len(l[1].buf)
  PROVE  /\ Refilled(front, l, n) \in Seq(Buffers) /\ Refilled(front, l, n) # <<>>
         /\ Len(BytesOf(Refilled(front, l, n))) = Len(BytesOf(l)) - n
         /\ n = 0 => BytesOf(Refilled(front, l, n)) = BytesOf(l)
<1> DEFINE m    == Refilled(front, l, n)
           x    == l[1].buf
           z    == BytesOf(DropFirst(l, 1))
           fit  == Min({Len(x) - n, front.size})
           y    == SubSeq(x, 1, fit)
           to   == [front EXCEPT !.buf = y]
           w    == DropFirst(x, n + fit)
<1>1. /\ l[1] \in Buffers /\ DropFirst(l, 1) \in Seq(Buffers) /\ BytesOf(l) = x \o z
  BY BytesOfFirst
<1>2. x \in Seq(Bytes) /\ z \in Seq(Bytes) /\ Len(x) \in Nat /\ Len(z) \in Nat
      /\ front.size \in Nat /\ n \in Nat /\ Len(x) - n \in Nat
  BY <1>1, BufferIs, BytesAre, LenProperties
<1>3. m = IF n + fit = Len(x) THEN <<to>> \o Tail(l) ELSE <<to>> \o CutStart(l, n + fit)
  BY DEF Refilled
<1> HIDE DEF m, z
<1>4. fit \in Nat /\ fit <= Len(x) - n /\ fit <= front.size
  <2> DEFINE a == Len(x) - n
             b == front.size
  <2>1. a \in Nat /\ b \in Nat
    BY <1>2
  <2> HIDE DEF a, b
  <2>2. Min({a, b}) = IF a <= b THEN a ELSE b
    BY <2>1, MinOfTwo
  <2>3. Min({a, b}) \in Nat /\ Min({a, b}) <= a /\ Min({a, b}) <= b
    BY <2>1, <2>2
  <2> QED
    BY <2>3 DEF a, b
<1> HIDE DEF fit
<1>5. fit \in 0..Len(x) /\ n + fit \in 0..Len(x)
  BY <1>2, <1>4
<1>6. y \in Seq(Bytes) /\ Len(y) = fit /\ w \in Seq(Bytes) /\ Len(w) = Len(x) - (n + fit)
  BY <1>2, <1>5, FirstIs, DropIs
<1>7. ASSUME n = 0 PROVE y \o w = x
  <2>1. n + fit = fit /\ fit \in 0..Len(x)
    BY <1>4, <1>5, <1>7
  <2>2. w = DropFirst(x, fit)
    BY <2>1
  <2> HIDE DEF w, fit, x
  <2>3. SubSeq(x, 1, fit) \o DropFirst(x, fit) = x
    BY <1>2, <2>1, FirstAndDrop
  <2> QED
    BY <2>2, <2>3
<1> HIDE DEF y
<1>8. to \in Buffers /\ to.buf = y
  BY <1>4, <1>6 DEF Buffers
<1> HIDE DEF to
<1>9. <<to>> \in Seq(Buffers) /\ BytesOf(<<to>>) = y
  BY <1>8, BytesOfOne
<1>10. \E t : /\ t \in Seq(Buffers) /\ m = <<to>> \o t /\ BytesOf(t) = w \o z
  <2>1. CASE n + fit = Len(x)
    <3>1. Tail(l) = DropFirst(l, 1)
      <4>1. Tail(l) = SubSeq(l, 2, Len(l)) /\ 1 + 1 = 2
        BY TailIsSubSeq
      <4> QED
        BY <4>1 DEF DropFirst
    <3>2. w = <<>>
      BY <1>2, <1>6, <2>1, EmptySeq
    <3>3. <<>> \o z = z
      BY <1>2, ConcatEmptySeq
    <3>4. BytesOf(DropFirst(l, 1)) = w \o z
      BY <3>2, <3>3 DEF z
    <3> QED
      BY <1>1, <1>3, <2>1, <3>1, <3>4
  <2>2. CASE n + fit # Len(x)
    <3>1. /\ CutStart(l, n + fit) \in Seq(Buffers)
          /\ BytesOf(CutStart(l, n + fit)) = w \o z
      BY <1>5, CutStartIs DEF z
    <3> QED
      BY <1>3, <2>2, <3>1
  <2> QED
    BY <2>1, <2>2
<1>11. PICK t : /\ t \in Seq(Buffers) /\ m = <<to>> \o t /\ BytesOf(t) = w \o z
  BY <1>10
<1>12. m \in Seq(Buffers) /\ BytesOf(m) = y \o (w \o z)
  BY <1>9, <1>11, BytesJoin
<1>13. m # <<>>
  BY <1>9, <1>11, ConcatEqualIffEmpty
<1> HIDE DEF w, x
<1>14. Len(BytesOf(m)) = Len(BytesOf(l)) - n
  <2>1. w \o z \in Seq(Bytes) /\ Len(w \o z) = Len(w) + Len(z)
    BY <1>2, <1>6, ConcatProperties
  <2> DEFINE u == w \o z
  <2> HIDE DEF u
  <2>2. u \in Seq(Bytes) /\ Len(u) = Len(w) + Len(z)
    BY <2>1 DEF u
  <2>3. Len(y \o u) = Len(y) + Len(u)
    BY <1>6, <2>2, ConcatProperties
  <2>4. Len(x \o z) = Len(x) + Len(z)
    BY <1>2, ConcatProperties
  <2>5. Len(BytesOf(m)) = Len(y) + Len(u) /\ Len(BytesOf(l)) = Len(x) + Len(z)
    BY <1>1, <1>12, <2>3, <2>4 DEF u
  <2> QED
    BY <1>2, <1>4, <1>6, <2>2, <2>5
<1>15. ASSUME n = 0 PROVE BytesOf(m) = BytesOf(l)
  <2>1. y \in Seq(Bytes) /\ w \in Seq(Bytes) /\ z \in Seq(Bytes)
    BY <1>2, <1>6
  <2>2. (y \o w) \o z = y \o (w \o z)
    BY ONLY <2>1
  <2> QED
    BY <1>1, <1>7, <1>12, <1>15, <2>2
<1> QED
  BY <1>12, <1>13, <1>14, <1>15 DEF m

LEMMA TrimHeadIs ==
  ASSUME NEW q, IsQueue(q), NEW n \in Nat, n <= q.len
  PROVE  LET B   == BytesOf(q.list)
             len == q.len - n
             r   == queue_buf_trim_head(q, n)
         IN  /\ IsQueue(r) /\ Len(BytesOf(r.list)) = n
             /\ \/ BytesOf(r.list) = DropFirst(B, len)
                \/ /\ n > 0 /\ KeepsFirst(q, len)
                   /\ len \notin {Upto(q.list, i) : i \in DOMAIN q.list}
<1> DEFINE r    == queue_buf_trim_head(q, n)
           l    == q.list
           B    == BytesOf(l)
           len  == q.len - n
           S    == {i \in 0..Len(l) : Upto(l, i) <= len}
           gone == Max(S)
           rest == DropFirst(l, gone)
           left == StillToTrim(l, gone, len)
           bufs == IF KeepsFirst(q, len) THEN Refilled(l[1], rest, left)
                   ELSE CutStart(rest, left)
           exact == len \in {Upto(l, i) : i \in DOMAIN l}
<1> SUFFICES /\ IsQueue(r) /\ Len(BytesOf(r.list)) = n
             /\ \/ BytesOf(r.list) = DropFirst(B, len)
                \/ n > 0 /\ KeepsFirst(q, len) /\ ~exact
  OBVIOUS
<1>1. /\ q \in QueueBufs /\ l \in Seq(Buffers) /\ q.len \in Nat
      /\ q.len = Len(B) /\ (q.pre_alloc => l # <<>>)
      /\ B \in Seq(Bytes) /\ Len(l) \in Nat /\ DOMAIN l = 1..Len(l)
  BY BytesAre, LenProperties DEF IsQueue, QueueBufs
<1>2. r = IF n >= q.len THEN q ELSE IF n = 0 THEN queue_buf_reset(q)
          ELSE Holding(q, n, bufs)
  <2>1. [q EXCEPT !.len = n].list = q.list
    BY <1>1 DEF QueueBufs
  <2> QED
    BY <2>1 DEF queue_buf_trim_head, Holding
<1>3. len \in 0..Len(B) /\ len \in Nat
  BY <1>1
<1>4. DropFirst(B, len) \in Seq(Bytes) /\ Len(DropFirst(B, len)) = Len(B) - len
  BY <1>1, <1>3, DropIs
<1> HIDE DEF r, l, B, bufs, exact
<1>5. CASE n >= q.len
  <2>1. n = q.len /\ len = 0
    BY <1>1, <1>5
  <2>2. DropFirst(B, 0) = B
    <3>1. 0 + 1 = 1 /\ SubSeq(B, 1, Len(B)) = B
      BY <1>1, SubSeqFull
    <3> QED
      BY <3>1 DEF DropFirst
  <2>3. r = q
    BY <1>2, <1>5
  <2> QED
    BY <1>1, <2>1, <2>2, <2>3 DEF B, l
<1>6. CASE ~(n >= q.len) /\ n = 0
  <2>1. IsQueue(r) /\ BytesOf(r.list) = <<>>
    BY <1>1, <1>2, <1>6, ResetIs
  <2>2. Len(DropFirst(B, len)) = 0 /\ Len(<<>>) = 0
    BY <1>1, <1>4, <1>6
  <2>3. DropFirst(B, len) = <<>>
    BY <1>4, <2>2, EmptySeq
  <2> QED
    BY <1>6, <2>1, <2>2, <2>3
<1>7. CASE ~(n >= q.len) /\ n # 0
  <2>1. n > 0 /\ len < Len(B) /\ len = Len(B) - n
    BY <1>1, <1>7
  <2> HIDE DEF len
  <2>2. /\ Upto(l, 0) = 0 /\ Upto(l, Len(l)) = Len(B)
        /\ \A i \in 0..Len(l) : Upto(l, i) \in Nat
    BY <1>1, UptoIs DEF B
  <2>3. 0 \in S /\ S \in SUBSET (0..Len(l)) /\ S # {}
    BY <1>1, <1>3, <2>2
  <2>4. gone \in S /\ \A i \in S : i <= gone
    <3> HIDE DEF S
    <3> QED
      BY <1>1, <2>3, MaxIs
  <2> HIDE DEF gone
  <2>5. gone \in 0..Len(l) /\ Upto(l, gone) <= len /\ Upto(l, gone) \in Nat
    BY <2>2, <2>4
  <2> DEFINE i == gone + 1
  <2>6. i \in 1..Len(l) /\ i \in 0..Len(l) /\ i - 1 = gone
    <3>1. gone # Len(l)
      BY <2>1, <2>2, <2>5
    <3>2. Len(l) \in Nat /\ gone \in 0..Len(l)
      BY <1>1, <2>5
    <3> QED
      BY ONLY <3>1, <3>2
  <2>7. ~(Upto(l, i) <= len)
    <3>1. ~(i <= gone)
      BY <2>5
    <3> QED
      BY <2>4, <2>6, <3>1
  <2> HIDE DEF i
  <2> DEFINE p == BytesOf(SubSeq(l, 1, gone))
             x == l[i].buf
  <2>8. /\ l[i] \in Buffers /\ SubSeq(l, 1, gone) \in Seq(Buffers)
        /\ rest \in Seq(Buffers) /\ B = p \o BytesOf(rest)
    BY <1>1, <2>6, BytesSplit DEF B
  <2>9. x \in Seq(Bytes) /\ p \in Seq(Bytes) /\ Len(p) \in Nat /\ Len(x) \in Nat
        /\ BytesOf(rest) \in Seq(Bytes)
    BY <2>8, BufferIs, BytesAre, LenProperties
  <2>10. Upto(l, gone) = Len(p) /\ Upto(l, i) = Len(p) + Len(x)
    <3>1. Upto(l, gone) = Len(p)
      BY DEF Upto
    <3>2. Upto(l, i) = Upto(l, i - 1) + Len(l[i].buf)
      BY <1>1, <2>6, UptoIs
    <3> QED
      BY <2>6, <3>1, <3>2
  <2>11. left = len - Len(p)
    BY <2>10 DEF StillToTrim
  <2> HIDE DEF p, left
  <2>12. left \in 0..Len(x) /\ len = Len(p) + left
    BY <1>3, <2>5, <2>7, <2>9, <2>10, <2>11
  <2>13. rest # <<>> /\ rest[1] = l[i]
    <3>1. /\ Len(rest) = Len(l) - gone
          /\ \A k \in 1..(Len(l) - gone) : rest[k] = l[gone + k]
      BY <1>1, <2>5, DropIs
    <3>2. Len(l) \in Nat /\ gone \in 0..Len(l) /\ gone + 1 \in 1..Len(l)
      BY <1>1, <2>5, <2>6 DEF i
    <3>3. 1 \in 1..(Len(l) - gone) /\ Len(l) - gone # 0
      BY ONLY <3>2
    <3>4. rest \in Seq(Buffers)
      BY <2>8
    <3> HIDE DEF rest
    <3>5. rest[1] = l[gone + 1]
      BY <3>1, <3>3
    <3>6. rest # <<>>
      BY <3>1, <3>3, <3>4, EmptySeq
    <3> QED
      BY <3>5, <3>6 DEF i
  <2> HIDE DEF x, rest
  <2> DEFINE z == BytesOf(DropFirst(rest, 1))
             b == BytesOf(rest)
  <2>14. b = x \o z /\ DropFirst(rest, 1) \in Seq(Buffers)
    BY <2>8, <2>13, BytesOfFirst DEF x
  <2>15. z \in Seq(Bytes)
    BY <2>14, BytesAre
  <2> HIDE DEF z, b
  <2>16. b \in Seq(Bytes) /\ Len(b) = Len(x) + Len(z) /\ Len(z) \in Nat
    BY <2>9, <2>14, <2>15, ConcatProperties, LenProperties
  <2>17. Len(B) = Len(p) + Len(b)
    BY <2>8, <2>9, <2>16, ConcatProperties DEF b
  <2>18. DropFirst(B, len) = DropFirst(x, left) \o z /\ DropFirst(B, len) = DropFirst(b, left)
    <3>1. left \in 0..Len(b)
      BY <2>9, <2>12, <2>16
    <3>2. DropFirst(p \o b, Len(p) + left) = DropFirst(b, left)
      <4>1. p \in Seq(Bytes)
        BY <2>9
      <4>2. b \in Seq(Bytes)
        BY <2>16
      <4> QED
        BY ONLY <3>1, <4>1, <4>2, DropOfJoin
    <3>3. DropFirst(x \o z, left) = DropFirst(x, left) \o z
      BY <2>9, <2>12, <2>15, DropOfJoin
    <3> QED
      BY <2>8, <2>12, <2>14, <3>2, <3>3 DEF b
  <2>19. left \in 0..Len(rest[1].buf)
    BY <2>12, <2>13 DEF x
  <2>20. /\ bufs \in Seq(Buffers) /\ bufs # <<>> /\ Len(BytesOf(bufs)) = n
         /\ \/ BytesOf(bufs) = DropFirst(B, len)
            \/ KeepsFirst(q, len) /\ ~exact
    <3>1. CASE KeepsFirst(q, len)
      <4>1. bufs = Refilled(l[1], rest, left)
        BY <3>1 DEF bufs
      <4>2. l[1] \in Buffers
        <5>1. l # <<>>
          BY <1>1, <3>1 DEF KeepsFirst
        <5> QED
          BY <1>1, <5>1, BytesOfFirst
      <4>3. /\ bufs \in Seq(Buffers) /\ bufs # <<>> /\ Len(BytesOf(bufs)) = Len(b) - left
            /\ left = 0 => BytesOf(bufs) = b
        BY <2>8, <2>13, <2>19, <4>1, <4>2, RefilledIs DEF b
      <4>4. Len(b) - left = n
        <5>1. /\ Len(x) \in Nat /\ Len(z) \in Nat /\ Len(p) \in Nat
              /\ left \in 0..Len(x) /\ n \in Nat
              /\ Len(b) = Len(x) + Len(z) /\ Len(B) = Len(p) + Len(b)
              /\ len = Len(p) + left /\ len = Len(B) - n
          BY <2>1, <2>9, <2>12, <2>16, <2>17
        <5> QED
          BY ONLY <5>1
      <4>5. ASSUME exact PROVE left = 0
        <5>1. PICK j \in DOMAIN l : len = Upto(l, j)
          BY <4>5 DEF exact
        <5>2. j \in S
          BY <1>1, <1>3, <5>1
        <5>3. j \in 0..Len(l) /\ gone \in j..Len(l)
          BY <1>1, <2>4, <2>5, <5>1, <5>2
        <5>4. Upto(l, j) <= Upto(l, gone)
          BY <1>1, <5>3, UptoGrows
        <5> QED
          BY <1>3, <2>5, <2>9, <2>10, <2>11, <5>1, <5>4
      <4>6. left = 0 => DropFirst(B, len) = b
        <5>1. SubSeq(b, 1, Len(b)) = b /\ 0 + 1 = 1
          BY <2>16, SubSeqFull
        <5>2. DropFirst(b, 0) = b
          BY <5>1 DEF DropFirst
        <5> QED
          BY <2>18, <5>2
      <4> QED
        BY <3>1, <4>3, <4>4, <4>5, <4>6
    <3>2. CASE ~KeepsFirst(q, len)
      <4>1. bufs = CutStart(rest, left)
        BY <3>2 DEF bufs
      <4>2. bufs \in Seq(Buffers) /\ bufs # <<>>
            /\ BytesOf(bufs) = DropFirst(x, left) \o z
        BY <2>8, <2>13, <2>19, <4>1, CutStartIs DEF x, z
      <4>3. Len(BytesOf(bufs)) = n
        <5>1. BytesOf(bufs) = DropFirst(B, len)
          BY <2>18, <4>2
        <5>2. /\ Len(BytesOf(bufs)) = Len(B) - len /\ len = Len(B) - n
              /\ Len(B) \in Nat /\ n \in Nat
          BY <1>1, <1>4, <2>1, <5>1, LenProperties
        <5> QED
          BY ONLY <5>2
      <4> QED
        BY <2>18, <4>2, <4>3
    <3> QED
      BY <3>1, <3>2
  <2>21. r = Holding(q, n, bufs)
    BY <1>2, <1>7
  <2>22. IsQueue(r) /\ r.list = bufs
    BY <1>1, <2>20, <2>21, QueueWith
  <2> QED
    BY <2>1, <2>20, <2>22
<1> QED
  BY <1>5, <1>6, <1>7

(* What is due from an offset on. *)
Window(s, o, n) == SubSeq(s, o + 1, Min({o + n, Len(s)}))

LEMMA WindowIs ==
  ASSUME NEW S, NEW s \in Seq(S), NEW o \in Nat, NEW n \in Nat
  PROVE  /\ Len(Window(s, o, n)) = IF o >= Len(s) THEN 0
                                   ELSE IF n <= Len(s) - o THEN n ELSE Len(s) - o
         /\ o >= Len(s) => Window(s, o, n) = <<>>
         /\ o < Len(s) => Window(s, o, n)
                            = SubSeq(DropFirst(s, o), 1, Min({n, Len(DropFirst(s, o))}))
<1> DEFINE N == Len(s)
           e == Min({o + n, N})
<1>1. N \in Nat /\ o + n \in Nat
  BY LenProperties
<1>2. e = IF o + n <= N THEN o + n ELSE N
  BY <1>1, MinOfTwo
<1> HIDE DEF e
<1>3. CASE o >= N
  <2> HIDE DEF N
  <2>1. e \in Int /\ o + 1 \in Int /\ e < o + 1
    BY <1>1, <1>2, <1>3
  <2>2. SubSeq(s, o + 1, e) = <<>> /\ Len(<<>>) = 0
    BY <2>1, SubSeqEmpty
  <2>3. Window(s, o, n) = <<>> /\ Len(Window(s, o, n)) = 0
    BY <2>2 DEF Window, e, N
  <2>4. ~(o < N)
    BY <1>1, <1>3
  <2> QED
    BY <1>3, <2>3, <2>4 DEF N
<1>4. CASE o < N
  <2> DEFINE d == DropFirst(s, o)
             D == Len(d)
             k == Min({n, D})
  <2>1. d \in Seq(S) /\ D = N - o
    <3>1. o \in 0..Len(s)
      BY <1>1, <1>4
    <3> QED
      BY <3>1, DropIs
  <2> HIDE DEF d
  <2>2. D \in Nat /\ D # 0
    <3> HIDE DEF N, D
    <3> QED
      BY <1>1, <1>4, <2>1
  <2> HIDE DEF D
  <2>3. k = IF n <= D THEN n ELSE D
    BY <2>2, MinOfTwo
  <2> HIDE DEF k, N
  <2>4. k \in 0..D /\ e = o + k /\ D = N - o
    BY <1>1, <1>2, <1>4, <2>1, <2>2, <2>3
  <2>5. SubSeq(s, o + 1, e) = SubSeq(d, 1, k)
    <3>1. CASE k = 0
      <4>1. e \in Int /\ o + 1 \in Int /\ e < o + 1 /\ 0 < 1
        BY <2>4, <3>1
      <4>2. SubSeq(s, o + 1, e) = <<>> /\ SubSeq(d, 1, 0) = <<>>
        BY <4>1, SubSeqEmpty
      <4> QED
        BY <3>1, <4>2
    <3>2. CASE k # 0
      <4> DEFINE i == o + 1
      <4>1. /\ i \in 1..N /\ N \in 1..N /\ 1 \in 1..(N - i + 1)
            /\ k \in 1..(N - i + 1) /\ i + 1 - 1 = o + 1 /\ i + k - 1 = e
        BY <1>1, <1>4, <2>2, <2>4, <3>2
      <4>2. d = SubSeq(s, i, N)
        BY DEF d, DropFirst, N
      <4> HIDE DEF i
      <4>3. SubSeq(SubSeq(s, i, N), 1, k) = SubSeq(s, i + 1 - 1, i + k - 1)
        BY <4>1, SubSeqOfSubSeq DEF N
      <4> QED
        BY <4>1, <4>2, <4>3
    <3> QED
      BY <3>1, <3>2
  <2>6. Len(SubSeq(d, 1, k)) = k
    <3>1. k \in 0..Len(d)
      BY <2>4 DEF D
    <3> QED
      BY <2>1, <3>1, FirstIs
  <2>7. Window(s, o, n) = SubSeq(d, 1, k)
    BY <2>5 DEF Window, e, N
  <2>8. ~(o >= N) /\ k = IF n <= N - o THEN n ELSE N - o
    BY <1>1, <1>4, <2>3, <2>4
  <2> QED
    BY <2>6, <2>7, <2>8 DEF k, D, d, N
<1>5. o >= N \/ o < N
  <2> HIDE DEF N
  <2> QED
    BY <1>1
<1> QED
  BY <1>3, <1>4, <1>5

LEMMA CopyIs ==
  ASSUME NEW q, IsQueue(q), NEW n \in Nat, NEW o \in Nat
  PROVE  queue_buf_copyout(q, n, o) = Window(BytesOf(q.list), o, n)
<1> DEFINE l  == q.list
           B  == BytesOf(l)
           at == {i \in DOMAIN l : Upto(l, i) >= o}
           i  == Min(at)
           to == DropFirst(BytesOf(DropFirst(l, i - 1)), o - Upto(l, i - 1))
           r  == queue_buf_copyout(q, n, o)
<1>1. /\ l \in Seq(Buffers) /\ q.len \in Nat /\ q.len = Len(B)
      /\ B \in Seq(Bytes) /\ Len(l) \in Nat /\ DOMAIN l = 1..Len(l)
  BY BytesAre, LenProperties DEF IsQueue, QueueBufs
<1>2. r = IF q.len <= o \/ at = {} THEN <<>> ELSE SubSeq(to, 1, Min({n, Len(to)}))
  BY DEF queue_buf_copyout
<1> HIDE DEF r, l, B, to
<1>3. CASE q.len <= o
  <2>1. o >= Len(B)
    BY <1>1, <1>3
  <2>2. Window(B, o, n) = <<>>
    BY <1>1, <2>1, WindowIs
  <2> QED
    BY <1>2, <1>3, <2>2 DEF r, B, l
<1>4. CASE ~(q.len <= o)
  <2>1. o < Len(B)
    BY <1>1, <1>4
  <2>2. /\ Upto(l, 0) = 0 /\ Upto(l, Len(l)) = Len(B)
        /\ \A j \in 0..Len(l) : Upto(l, j) \in Nat
    BY <1>1, UptoIs DEF B
  <2>3. Len(l) \in at
    <3>1. Len(l) # 0
      BY <2>1, <2>2
    <3> QED
      BY <1>1, <2>1, <2>2, <3>1
  <2>4. at \in SUBSET Nat /\ at # {}
    BY <1>1, <2>3
  <2>5. i \in at /\ \A j \in at : i <= j
    <3> HIDE DEF at
    <3> QED
      BY <2>4, MinIs
  <2> HIDE DEF i
  <2>6. i \in 1..Len(l)
    BY <1>1, <2>5
  <2>7. i - 1 \in 0..Len(l) /\ Upto(l, i - 1) <= o
    <3>1. CASE i = 1
      BY <1>1, <2>1, <2>2, <3>1
    <3>2. CASE i # 1
      <4>1. i - 1 \in 1..Len(l) /\ i - 1 \in 0..Len(l) /\ ~(i <= i - 1)
        BY <1>1, <2>6, <3>2
      <4>2. ~(Upto(l, i - 1) >= o)
        BY <1>1, <2>5, <4>1
      <4> QED
        BY <2>1, <2>2, <4>1, <4>2
    <3> QED
      BY <3>1, <3>2
  <2> DEFINE p == BytesOf(SubSeq(l, 1, i - 1))
             b == BytesOf(DropFirst(l, i - 1))
             k == o - Upto(l, i - 1)
  <2>8. /\ SubSeq(l, 1, i - 1) \in Seq(Buffers) /\ DropFirst(l, i - 1) \in Seq(Buffers)
        /\ B = p \o b
    BY <1>1, <2>6, BytesSplit DEF B
  <2>9. p \in Seq(Bytes) /\ b \in Seq(Bytes)
    BY <2>8, BytesAre
  <2>10. Upto(l, i - 1) = Len(p)
    BY DEF Upto
  <2>11. to = DropFirst(b, k)
    BY DEF to
  <2> HIDE DEF p, b
  <2>12. Len(p) \in Nat /\ Len(b) \in Nat /\ Len(B) = Len(p) + Len(b)
    BY <2>8, <2>9, ConcatProperties, LenProperties
  <2>13. k \in 0..Len(b) /\ o = Len(p) + k
    <3>1. Len(p) \in Nat /\ Len(b) \in Nat /\ o < Len(p) + Len(b) /\ o \in Nat /\ Len(p) <= o
      BY <2>1, <2>7, <2>10, <2>12
    <3>2. o - Len(p) \in 0..Len(b) /\ o = Len(p) + (o - Len(p))
      BY ONLY <3>1
    <3> QED
      BY <2>10, <3>2
  <2> HIDE DEF k
  <2>14. to = DropFirst(B, o)
    <3>1. DropFirst(p \o b, Len(p) + k) = DropFirst(b, k)
      BY <2>9, <2>13, DropOfJoin
    <3> QED
      BY <2>8, <2>11, <2>13, <3>1
  <2>15. Window(B, o, n) = SubSeq(DropFirst(B, o), 1, Min({n, Len(DropFirst(B, o))}))
    BY <1>1, <2>1, WindowIs
  <2>16. r = SubSeq(to, 1, Min({n, Len(to)}))
    <3> HIDE DEF at
    <3> QED
      BY <1>2, <1>4, <2>4
  <2> QED
    BY <2>14, <2>15, <2>16 DEF r, B, l
<1> QED
  BY <1>3, <1>4

-----------------------------------------------------------------------------
(* The bytes in the buffers are those of the history, but after the trim   *)
(* that skews; and their number is right even then.                        *)
BufferInv ==
  /\ IsQueue(qbuf) /\ stream \in Seq(Bytes) /\ skewed \in BOOLEAN
  /\ qbuf.len = Len(stream)
  /\ ~skewed => BytesOf(qbuf.list) = stream

LEMMA BufferStart == BufferInit => BufferInv
<1> SUFFICES ASSUME BufferInit PROVE BufferInv
  OBVIOUS
<1>1. PICK p \in BOOLEAN : qbuf = queue_buf_init(p)
  BY DEF BufferInit
<1>2. IsQueue(qbuf) /\ BytesOf(qbuf.list) = <<>>
  BY <1>1, InitIs
<1>3. qbuf.len = Len(<<>>)
  BY <1>2 DEF IsQueue
<1>4. stream = <<>> /\ skewed = FALSE /\ <<>> \in Seq(Bytes)
  BY DEF BufferInit
<1> QED
  BY <1>2, <1>3, <1>4 DEF BufferInv

(* The bytes of the queue follow those of the history. *)
LEMMA BufferFollows ==
  ASSUME IsQueue(qbuf'), stream' \in Seq(Bytes), skewed' \in BOOLEAN,
         Len(BytesOf(qbuf'.list)) = Len(stream'),
         ~skewed' => BytesOf(qbuf'.list) = stream'
  PROVE  BufferInv'
  BY DEF BufferInv, IsQueue

LEMMA CopiesFollow == BufferInv => CopiesWhatIsDue
<1> SUFFICES ASSUME BufferInv PROVE CopiesWhatIsDue
  OBVIOUS
<1>1. /\ IsQueue(qbuf) /\ stream \in Seq(Bytes) /\ skewed \in BOOLEAN
      /\ qbuf.len = Len(stream) /\ qbuf.len = Len(BytesOf(qbuf.list))
      /\ ~skewed => BytesOf(qbuf.list) = stream
      /\ BytesOf(qbuf.list) \in Seq(Bytes)
  <2>1. qbuf.list \in Seq(Buffers)
    BY DEF BufferInv, IsQueue, QueueBufs
  <2> QED
    BY <2>1, BytesAre DEF BufferInv, IsQueue
<1>2. ASSUME NEW o \in 0..Room, NEW n \in 0..Room
      PROVE  LET copy == queue_buf_copyout(qbuf, n, o)
                 due  == SubSeq(stream, o + 1, Min({o + n, Len(stream)}))
             IN  Len(copy) = Len(due) /\ (skewed \/ copy = due)
  <2>1. o \in Nat /\ n \in Nat
    BY BufferAssumption
  <2>2. queue_buf_copyout(qbuf, n, o) = Window(BytesOf(qbuf.list), o, n)
    BY <1>1, <2>1, CopyIs
  <2> DEFINE B == BytesOf(qbuf.list)
  <2> HIDE DEF B
  <2>3. B \in Seq(Bytes) /\ Len(B) = Len(stream) /\ (~skewed => B = stream)
    BY <1>1 DEF B
  <2>4. Len(Window(B, o, n)) = Len(Window(stream, o, n))
    <3>1. Len(Window(B, o, n)) = IF o >= Len(B) THEN 0
                                 ELSE IF n <= Len(B) - o THEN n ELSE Len(B) - o
      BY <2>1, <2>3, WindowIs
    <3>2. Len(Window(stream, o, n))
            = IF o >= Len(stream) THEN 0
              ELSE IF n <= Len(stream) - o THEN n ELSE Len(stream) - o
      BY <1>1, <2>1, WindowIs
    <3> QED
      BY <2>3, <3>1, <3>2
  <2>5. Window(stream, o, n) = SubSeq(stream, o + 1, Min({o + n, Len(stream)}))
    BY DEF Window
  <2> QED
    BY <2>2, <2>3, <2>4, <2>5 DEF B
<1> QED
  BY <1>1, <1>2 DEF CopiesWhatIsDue

LEMMA PutSafe ==
  ASSUME BufferInv, NEW data \in Chunks, Put(data)
  PROVE  BufferInv'
<1> DEFINE B == BytesOf(qbuf.list)
           r == queue_buf_put(qbuf, data)
<1>1. /\ IsQueue(qbuf) /\ stream \in Seq(Bytes) /\ skewed \in BOOLEAN
      /\ qbuf.len = Len(stream) /\ qbuf.len = Len(B) /\ (~skewed => B = stream)
      /\ B \in Seq(Bytes) /\ data \in Seq(Bytes)
  <2>1. qbuf.list \in Seq(Buffers) /\ data \in Seq(Bytes)
    BY BufferAssumption DEF BufferInv, IsQueue, QueueBufs
  <2> QED
    BY <2>1, BytesAre DEF BufferInv, IsQueue
<1>2. qbuf' = r /\ stream' = AppendedTo(qbuf, data) /\ skewed' = skewed
  BY DEF Put, QueueIs
<1>3. IsQueue(r) /\ BytesOf(r.list) = IF Exceeds(qbuf, Len(data)) THEN B ELSE B \o data
  BY <1>1, PutIs
<1> HIDE DEF r, B
<1>4. /\ B \o data \in Seq(Bytes) /\ Len(B \o data) = Len(B) + Len(data)
      /\ stream \o data \in Seq(Bytes) /\ Len(stream \o data) = Len(stream) + Len(data)
  BY <1>1, ConcatProperties
<1>5. /\ stream' \in Seq(Bytes) /\ Len(BytesOf(r.list)) = Len(stream')
      /\ ~skewed' => BytesOf(r.list) = stream'
  BY <1>1, <1>2, <1>3, <1>4 DEF AppendedTo
<1> QED
  BY <1>1, <1>2, <1>3, <1>5, BufferFollows

(* An empty queue of no limit takes whatever is put in. *)
LEMMA ConcatSafe ==
  ASSUME BufferInv, NEW data \in Chunks, Concat(data)
  PROVE  BufferInv'
<1> DEFINE B     == BytesOf(qbuf.list)
           new   == queue_buf_init(qbuf.pre_alloc)
           other == queue_buf_put(new, data)
           r     == queue_buf_concat(qbuf, other)
<1>1. /\ IsQueue(qbuf) /\ stream \in Seq(Bytes) /\ skewed \in BOOLEAN
      /\ qbuf.len = Len(stream) /\ qbuf.len = Len(B) /\ (~skewed => B = stream)
      /\ B \in Seq(Bytes) /\ data \in Seq(Bytes) /\ qbuf.pre_alloc \in BOOLEAN
  <2>1. qbuf.list \in Seq(Buffers) /\ data \in Seq(Bytes) /\ qbuf.pre_alloc \in BOOLEAN
    BY BufferAssumption DEF BufferInv, IsQueue, QueueBufs
  <2> QED
    BY <2>1, BytesAre DEF BufferInv, IsQueue
<1>2. qbuf' = r /\ stream' = AppendedTo(qbuf, data) /\ skewed' = skewed
  BY DEF Concat, QueueIs
<1>3. IsQueue(new) /\ BytesOf(new.list) = <<>> /\ ~Exceeds(new, Len(data))
  BY <1>1, InitIs DEF Exceeds
<1> HIDE DEF new
<1>4. IsQueue(other) /\ BytesOf(other.list) = <<>> \o data
  BY <1>1, <1>3, PutIs
<1>5. <<>> \o data = data
  BY <1>1, ConcatEmptySeq
<1> HIDE DEF other
<1>6. other.len = Len(data) /\ BytesOf(other.list) = data
  BY <1>4, <1>5 DEF IsQueue
<1>7. IsQueue(r) /\ BytesOf(r.list) = IF Exceeds(qbuf, Len(data)) THEN B ELSE B \o data
  BY <1>1, <1>4, <1>6, ConcatIs
<1> HIDE DEF r, B
<1>8. /\ B \o data \in Seq(Bytes) /\ Len(B \o data) = Len(B) + Len(data)
      /\ stream \o data \in Seq(Bytes) /\ Len(stream \o data) = Len(stream) + Len(data)
  BY <1>1, ConcatProperties
<1>9. /\ stream' \in Seq(Bytes) /\ Len(BytesOf(r.list)) = Len(stream')
      /\ ~skewed' => BytesOf(r.list) = stream'
  BY <1>1, <1>2, <1>7, <1>8 DEF AppendedTo
<1> QED
  BY <1>1, <1>2, <1>7, <1>9, BufferFollows

LEMMA PutHeadSafe ==
  ASSUME BufferInv, NEW data \in Chunks, PutHead(data)
  PROVE  BufferInv'
<1> DEFINE B == BytesOf(qbuf.list)
           r == queue_buf_put_head(qbuf, data)
<1>1. /\ IsQueue(qbuf) /\ stream \in Seq(Bytes) /\ skewed \in BOOLEAN
      /\ qbuf.len = Len(stream) /\ qbuf.len = Len(B) /\ (~skewed => B = stream)
      /\ B \in Seq(Bytes) /\ data \in Seq(Bytes)
  <2>1. qbuf.list \in Seq(Buffers) /\ data \in Seq(Bytes)
    BY BufferAssumption DEF BufferInv, IsQueue, QueueBufs
  <2> QED
    BY <2>1, BytesAre DEF BufferInv, IsQueue
<1>2. qbuf' = r /\ stream' = data \o stream /\ skewed' = skewed
  BY DEF PutHead, QueueIs
<1>3. IsQueue(r) /\ BytesOf(r.list) = data \o B
  BY <1>1, PutHeadIs
<1> HIDE DEF r, B
<1>4. /\ Len(data \o B) = Len(data) + Len(B)
      /\ data \o stream \in Seq(Bytes) /\ Len(data \o stream) = Len(data) + Len(stream)
  BY <1>1, ConcatProperties
<1>5. /\ stream' \in Seq(Bytes) /\ Len(BytesOf(r.list)) = Len(stream')
      /\ ~skewed' => BytesOf(r.list) = stream'
  BY <1>1, <1>2, <1>3, <1>4
<1> QED
  BY <1>1, <1>2, <1>3, <1>5, BufferFollows

(* The first n bytes stay, of the queue and of the history. *)
LEMMA TrimFollows ==
  ASSUME BufferInv, NEW n \in Nat,
         stream' = SubSeq(stream, 1, Min({n, Len(stream)})),
         skewed' = (skewed /\ n > 0),
         IsQueue(qbuf'), qbuf'.list = queue_buf_trim(qbuf, n).list
  PROVE  BufferInv'
<1> DEFINE B == BytesOf(qbuf.list)
           r == qbuf'.list
           k == Min({n, Len(stream)})
<1>1. /\ IsQueue(qbuf) /\ stream \in Seq(Bytes) /\ skewed \in BOOLEAN
      /\ Len(B) = Len(stream) /\ (~skewed => B = stream)
      /\ B \in Seq(Bytes) /\ Len(stream) \in Nat
  <2>1. qbuf.list \in Seq(Buffers)
    BY DEF BufferInv, IsQueue, QueueBufs
  <2> QED
    BY <2>1, BytesAre, LenProperties DEF BufferInv, IsQueue
<1>2. BytesOf(r) = SubSeq(B, 1, Min({n, Len(B)}))
  BY <1>1, TrimIs
<1>3. k = IF n <= Len(stream) THEN n ELSE Len(stream)
  BY <1>1, MinOfTwo
<1>4. BytesOf(r) = SubSeq(B, 1, k)
  BY <1>1, <1>2
<1> HIDE DEF k, B, r
<1>5. k \in 0..Len(stream) /\ k \in 0..Len(B) /\ (n = 0 => k = 0)
  BY <1>1, <1>3
<1>6. /\ SubSeq(B, 1, k) \in Seq(Bytes) /\ Len(SubSeq(B, 1, k)) = k
      /\ SubSeq(stream, 1, k) \in Seq(Bytes) /\ Len(SubSeq(stream, 1, k)) = k
  BY <1>1, <1>5, FirstIs
<1>7. SubSeq(B, 1, 0) = <<>> /\ SubSeq(stream, 1, 0) = <<>>
  BY SubSeqEmpty
<1>8. n > 0 \/ n = 0
  OBVIOUS
<1>9. stream' = SubSeq(stream, 1, k)
  BY DEF k
<1>10. /\ stream' \in Seq(Bytes) /\ Len(BytesOf(r)) = Len(stream') /\ skewed' \in BOOLEAN
       /\ ~skewed' => BytesOf(r) = stream'
  BY <1>1, <1>4, <1>5, <1>6, <1>7, <1>8, <1>9
<1> QED
  BY <1>10, BufferFollows DEF r

LEMMA TrimSafe ==
  ASSUME BufferInv, NEW n \in Nat, Trim(n)
  PROVE  BufferInv'
<1>1. /\ stream' = SubSeq(stream, 1, Min({n, Len(stream)}))
      /\ skewed' = (skewed /\ n > 0) /\ qbuf' = queue_buf_trim(qbuf, n)
  BY DEF Trim, QueueIs
<1>2. IsQueue(qbuf')
  BY <1>1, TrimIs DEF BufferInv
<1> QED
  BY <1>1, <1>2, TrimFollows

LEMMA SetMaxLenSafe ==
  ASSUME BufferInv, NEW n \in Nat, queue_buf_set_max_len(n)
  PROVE  BufferInv'
<1> DEFINE q == queue_buf_trim(qbuf, n)
<1>1. /\ stream' = SubSeq(stream, 1, Min({n, Len(stream)}))
      /\ skewed' = (skewed /\ n > 0) /\ qbuf' = [q EXCEPT !.max_len = n]
  BY DEF queue_buf_set_max_len, QueueIs
<1>2. IsQueue(q)
  BY TrimIs DEF BufferInv
<1> HIDE DEF q
<1>3. IsQueue(qbuf') /\ qbuf'.list = q.list
  BY <1>1, <1>2 DEF IsQueue, QueueBufs
<1> QED
  BY <1>1, <1>3, TrimFollows DEF q

LEMMA CoalesceSafe ==
  ASSUME BufferInv, Coalesce
  PROVE  BufferInv'
<1>1. qbuf' = queue_buf_coalesce(qbuf) /\ stream' = stream /\ skewed' = skewed
  BY DEF Coalesce, QueueIs
<1>2. /\ IsQueue(qbuf) /\ stream \in Seq(Bytes) /\ skewed \in BOOLEAN
      /\ Len(BytesOf(qbuf.list)) = Len(stream)
      /\ ~skewed => BytesOf(qbuf.list) = stream
  BY DEF BufferInv, IsQueue
<1>3. IsQueue(qbuf') /\ BytesOf(qbuf'.list) = BytesOf(qbuf.list)
  BY <1>1, <1>2, CoalesceIs
<1> QED
  BY <1>1, <1>2, <1>3, BufferFollows

(* The trim of the kept buffer and some of the next one skews, in this     *)
(* step or because the history is skewed already.                          *)
LEMMA TrimHeadSafe ==
  ASSUME BufferInv, NEW n \in Nat, TrimHead(n)
  PROVE  BufferInv'
<1> DEFINE B     == BytesOf(qbuf.list)
           r     == queue_buf_trim_head(qbuf, n)
           len   == Len(stream) - n
           exact == len \in {Upto(qbuf.list, i) : i \in DOMAIN qbuf.list}
           keeps == KeepsFirst(qbuf, len)
<1>1. /\ IsQueue(qbuf) /\ stream \in Seq(Bytes) /\ skewed \in BOOLEAN
      /\ qbuf.len = Len(stream) /\ Len(B) = Len(stream) /\ (~skewed => B = stream)
      /\ B \in Seq(Bytes) /\ Len(stream) \in Nat
  <2>1. qbuf.list \in Seq(Buffers)
    BY DEF BufferInv, IsQueue, QueueBufs
  <2> QED
    BY <2>1, BytesAre, LenProperties DEF BufferInv, IsQueue
<1>2. /\ len > 0 /\ qbuf' = r /\ stream' = DropFirst(stream, len)
      /\ skewed' = (n > 0 /\ (skewed \/ (keeps /\ ~exact)))
  BY DEF TrimHead, QueueIs
<1>3. n <= qbuf.len
  BY <1>1, <1>2
<1>4. /\ IsQueue(r) /\ Len(BytesOf(r.list)) = n
      /\ \/ BytesOf(r.list) = DropFirst(B, len)
         \/ n > 0 /\ keeps /\ ~exact
  <2>1. LET d == qbuf.len - n
        IN  /\ IsQueue(r) /\ Len(BytesOf(r.list)) = n
            /\ \/ BytesOf(r.list) = DropFirst(B, d)
               \/ /\ n > 0 /\ KeepsFirst(qbuf, d)
                  /\ d \notin {Upto(qbuf.list, i) : i \in DOMAIN qbuf.list}
    BY <1>1, <1>3, TrimHeadIs
  <2>2. qbuf.len - n = len
    BY <1>1
  <2> QED
    BY <2>1, <2>2
<1> HIDE DEF keeps, exact, r, B
<1>5. len \in 0..Len(stream) /\ Len(stream) - len = n
  BY <1>1, <1>2
<1>6. /\ DropFirst(stream, len) \in Seq(Bytes) /\ Len(DropFirst(stream, len)) = n
  <2> HIDE DEF len
  <2> QED
    BY <1>1, <1>5, DropIs
<1> HIDE DEF len
<1>7. CASE n = 0
  <2>1. Len(BytesOf(r.list)) = 0 /\ Len(stream') = 0
    BY <1>2, <1>4, <1>6, <1>7
  <2>2. r.list \in Seq(Buffers)
    BY <1>4 DEF IsQueue, QueueBufs
  <2>3. BytesOf(r.list) = <<>> /\ stream' = <<>>
    BY <1>2, <1>6, <2>1, <2>2, BytesAre, EmptySeq
  <2>4. skewed' \in BOOLEAN
    BY <1>2, <1>7
  <2> QED
    BY <1>2, <1>4, <1>6, <2>3, <2>4, BufferFollows
<1>8. CASE n # 0
  <2>1. n > 0
    BY <1>8
  <2>2. skewed' = (skewed \/ (keeps /\ ~exact)) /\ skewed' \in BOOLEAN
    BY <1>1, <1>2, <2>1
  <2>3. ~skewed' => BytesOf(r.list) = DropFirst(stream, len)
    BY <1>1, <1>4, <2>2
  <2> QED
    BY <1>2, <1>4, <1>6, <2>2, <2>3, BufferFollows
<1> QED
  BY <1>7, <1>8

LEMMA BufferStep == BufferInv /\ [BufferNext]_buffervars => BufferInv'
<1> SUFFICES ASSUME BufferInv, [BufferNext]_buffervars PROVE BufferInv'
  OBVIOUS
<1>1. CASE UNCHANGED buffervars
  BY <1>1 DEF BufferInv, buffervars
<1>2. ASSUME NEW data \in Chunks, Put(data) \/ PutHead(data) \/ Concat(data)
      PROVE  BufferInv'
  BY <1>2, PutSafe, PutHeadSafe, ConcatSafe
<1>3. ASSUME NEW n \in 0..Room, Trim(n) \/ TrimHead(n) PROVE BufferInv'
  <2>1. n \in Nat
    BY BufferAssumption
  <2> QED
    BY <1>3, <2>1, TrimSafe, TrimHeadSafe
<1>4. CASE Coalesce
  BY <1>4, CoalesceSafe
<1>5. ASSUME NEW max_len \in MaxLens, queue_buf_set_max_len(max_len) PROVE BufferInv'
  <2>1. max_len \in Nat
    BY BufferAssumption
  <2> QED
    BY <1>5, <2>1, SetMaxLenSafe
<1> QED
  BY <1>1, <1>2, <1>3, <1>4, <1>5 DEF BufferNext

(* Whatever is put in, concatenated, trimmed and coalesced, a copy from    *)
(* any offset gives the bytes that are due, and the right number of them   *)
(* even after the trim that skews (queue_buf_copyout, for all of the calls *)
(* that change the queue, any chunks and any sizes).                       *)
THEOREM CopiesAreDue == BufferSpec => []CopiesWhatIsDue
<1>1. BufferInv /\ [BufferNext]_buffervars => BufferInv'
  BY BufferStep
<1>2. BufferSpec => []BufferInv
  BY <1>1, BufferStart, PTL DEF BufferSpec
<1> QED
  BY <1>2, CopiesFollow, PTL
=============================================================================
