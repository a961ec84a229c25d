--------------------------- MODULE ConsoleProofs ---------------------------
(***************************************************************************)
(* Proofs about the attribute store, the bus and the console, for any      *)
(* devices, values, messages and lines: SettleInv, that each attribute is  *)
(* asked for, or a report with its value is under way, or what was told is *)
(* its value; ResultInv, that of each message that came the answers are    *)
(* those owed; StoreInv, what the two levels of hash map hold, where both  *)
(* have room (RoomForAll), and from it what is told of them.  A node id    *)
(* may or may not come through a char as it is.                            *)
(***************************************************************************)
EXTENDS Console, SequenceFacts

(* The rank of a device is the number of those before it. *)
LEMMA InOrderIs == DevicesInOrder \in Seq(Devices)
<1> DEFINE n == Cardinality(Devices)
           rank == [d \in Devices |-> Cardinality(Before(d))]
<1>1. IsFiniteSet(Devices) /\ Devices \subseteq Nat /\ n \in Nat
  BY ClassCmdAssumption, FS_CardinalityType
<1>2. ASSUME NEW d \in Devices
      PROVE  /\ IsFiniteSet(Before(d)) /\ Cardinality(Before(d)) \in 0..(n - 1)
  <2>1. Before(d) \in SUBSET Devices /\ d \notin Before(d)
    BY <1>1 DEF Before
  <2>2. IsFiniteSet(Before(d)) /\ Cardinality(Before(d)) <= n
        /\ Cardinality(Before(d)) # n
    BY <1>1, <2>1, FS_Subset
  <2>3. Cardinality(Before(d)) \in Nat
    BY <2>2, FS_CardinalityType
  <2> QED
    BY <1>1, <2>2, <2>3
<1>3. ASSUME NEW d \in Devices, NEW e \in Devices, d < e
      PROVE  Cardinality(Before(d)) # Cardinality(Before(e))
  <2>1. d \in Nat /\ e \in Nat /\ \A c \in Devices : c \in Nat
    BY <1>1
  <2>2. \A c \in Devices : c < d => c < e
    BY <1>3, <2>1
  <2>3. Before(d) \in SUBSET Before(e) /\ d \in Before(e) /\ d \notin Before(d)
    <3>1. ~(d < d)
      BY <2>1
    <3> QED
      BY <1>3, <2>2, <3>1, Zenon DEF Before
  <2>4. IsFiniteSet(Before(e)) /\ Before(d) # Before(e)
    BY <1>2, <2>3
  <2> DEFINE A == Before(d)
             B == Before(e)
  <2> HIDE DEF A, B
  <2>5. A \in SUBSET B /\ A # B /\ IsFiniteSet(B)
    BY <2>3, <2>4 DEF A, B
  <2>6. Cardinality(A) # Cardinality(B)
    BY <2>5, FS_Subset, Zenon
  <2> QED
    BY <2>6 DEF A, B
<1>4. rank \in Injection(Devices, 0..(n - 1))
  <2>1. rank \in [Devices -> 0..(n - 1)]
    BY <1>2
  <2>2. \A d, e \in Devices : rank[d] = rank[e] => d = e
    <3> SUFFICES ASSUME NEW d \in Devices, NEW e \in Devices, d # e
                 PROVE  rank[d] # rank[e]
      OBVIOUS
    <3>1. d < e \/ e < d
      BY <1>1
    <3> QED
      BY <1>3, <3>1
  <2> HIDE DEF rank
  <2> QED
    BY <2>1, <2>2 DEF Injection, IsInjective
<1>5. IsFiniteSet(0..(n - 1)) /\ Cardinality(0..(n - 1)) = n
  <2>1. 0 \in Int /\ n - 1 \in Int /\ (IF 0 > n - 1 THEN 0 ELSE n - 1 - 0 + 1) = n
    BY <1>1
  <2> HIDE DEF n
  <2> QED
    BY <2>1, FS_Interval
<1>6. rank \in Surjection(Devices, 0..(n - 1))
  <2> HIDE DEF rank
  <2> QED
    BY <1>4, <1>5, FS_Injection
<1>7. ASSUME NEW i \in 1..n
      PROVE  DevicesInOrder[i] \in Devices
  <2>1. i - 1 \in 0..(n - 1)
    BY <1>1
  <2>2. \E d \in Devices : rank[d] = i - 1
    <3> HIDE DEF rank
    <3> QED
      BY <1>6, <2>1 DEF Surjection
  <2>3. \E d \in Devices : Cardinality(Before(d)) = i - 1
    BY <2>2
  <2> QED
    BY <2>3 DEF DevicesInOrder
<1>8. DevicesInOrder = [i \in 1..n |-> DevicesInOrder[i]]
  BY DEF DevicesInOrder
<1>9. DevicesInOrder \in [1..n -> Devices]
  BY <1>7, <1>8
<1> QED
  BY <1>1, <1>9

-----------------------------------------------------------------------------
(* The table of the classes, and the events that the handlers push. *)

LEMMA ClassesAre ==
  /\ IsFiniteSet(classes)
  /\ \A x, y \in classes : x.name = y.name => x = y
  /\ \A x \in classes : x.set = "sends" => x.get = "asks"
  /\ \A x \in classes : x.usenick => x.report = "formats"
<1> DEFINE a == Row("basic", "basic", FALSE, "nothing", "asks", "nothing")
           b == Row("version", "version_command_class", FALSE, "NULL", "nothing", "nothing")
           c == Row("version", "version", TRUE, "NULL", "asks", "formats")
           d == Row("battery", "battery", TRUE, "NULL", "asks", "formats")
           e == Row("switch", "switch_binary", TRUE, "sends", "asks", "formats")
           f == Row("manufacturer", "manufacturer_specific", TRUE, "NULL", "asks", "formats")
<1>1. classes = {a, b, c, d, e, f}
  BY DEF classes
<1>2. /\ a.name = "basic" /\ b.name = "version_command_class"
      /\ c.name = "version" /\ d.name = "battery"
      /\ e.name = "switch_binary" /\ f.name = "manufacturer_specific"
  BY DEF Row
<1>3. /\ a.set = "nothing" /\ b.set = "NULL" /\ c.set = "NULL" /\ d.set = "NULL"
      /\ e.set = "sends" /\ e.get = "asks" /\ f.set = "NULL"
  BY DEF Row
<1>4. /\ ~a.usenick /\ ~b.usenick
      /\ c.report = "formats" /\ d.report = "formats"
      /\ e.report = "formats" /\ f.report = "formats"
  BY DEF Row
<1> HIDE DEF a, b, c, d, e, f
<1>6. IsFiniteSet({a, b, c, d, e, f})
  <2>1. IsFiniteSet({a})
    BY FS_Singleton
  <2>2. IsFiniteSet({a} \cup {b})
    BY <2>1, FS_AddElement
  <2>3. IsFiniteSet({a} \cup {b} \cup {c})
    BY <2>2, FS_AddElement
  <2>4. IsFiniteSet({a} \cup {b} \cup {c} \cup {d})
    BY <2>3, FS_AddElement
  <2>5. IsFiniteSet({a} \cup {b} \cup {c} \cup {d} \cup {e})
    BY <2>4, FS_AddElement
  <2>6. IsFiniteSet({a} \cup {b} \cup {c} \cup {d} \cup {e} \cup {f})
    BY <2>5, FS_AddElement
  <2>7. {a} \cup {b} \cup {c} \cup {d} \cup {e} \cup {f} = {a, b, c, d, e, f}
    OBVIOUS
  <2> QED
    BY <2>6, <2>7
<1>7. \A x, y \in {a, b, c, d, e, f} : x.name = y.name => x = y
  BY <1>2
<1>8. \A x \in {a, b, c, d, e, f} : x.set = "sends" => x.get = "asks"
  BY <1>3
<1>9. \A x \in {a, b, c, d, e, f} : x.usenick => x.report = "formats"
  BY <1>4, Zenon
<1> QED
  BY <1>1, <1>6, <1>7, <1>8, <1>9, Zenon

Events == [dev : Devices, name : Names, value : Values \cup {NULL}]

Asks(e, d, n) == e = [dev |-> d, name |-> n, value |-> NULL]

(* Every set is followed by a get of what was set.                         *)
IsReadBack(q) ==
  \A i \in 1..Len(q) : q[i].value # NULL =>
    \E j \in (i + 1)..Len(q) : Asks(q[j], q[i].dev, q[i].name)

ReadBack == {q \in Seq(Events) : IsReadBack(q)}

LEMMA ReadBackJoins == Joins(ReadBack)
<1>1. <<>> \in ReadBack
  BY DEF ReadBack, IsReadBack
<1>2. ASSUME NEW s \in ReadBack, NEW t \in ReadBack PROVE s \o t \in ReadBack
  <2>1. s \in Seq(Events) /\ t \in Seq(Events)
    BY DEF ReadBack
  <2> DEFINE q == s \o t
             m == Len(s)
             n == Len(t)
  <2>2. /\ q \in Seq(Events) /\ Len(q) = m + n
        /\ \A i \in 1..(m + n) : q[i] = IF i <= m THEN s[i] ELSE t[i - m]
    BY <2>1, ConcatProperties
  <2>3. m \in Nat /\ n \in Nat
    BY <2>1, LenProperties
  <2>4. /\ \A i \in 1..m : s[i].value # NULL =>
             \E j \in (i + 1)..m : Asks(s[j], s[i].dev, s[i].name)
        /\ \A i \in 1..n : t[i].value # NULL =>
             \E j \in (i + 1)..n : Asks(t[j], t[i].dev, t[i].name)
    BY DEF ReadBack, IsReadBack
  <2> HIDE DEF q, m, n
  <2>5. ASSUME NEW i \in 1..(m + n), q[i].value # NULL
        PROVE  \E j \in (i + 1)..(m + n) : Asks(q[j], q[i].dev, q[i].name)
    <3>1. CASE i <= m
      <4>1. i \in 1..m /\ q[i] = s[i]
        BY <2>2, <2>3, <3>1
      <4>2. PICK j \in (i + 1)..m : Asks(s[j], s[i].dev, s[i].name)
        BY <2>4, <2>5, <4>1
      <4>3. j \in (i + 1)..(m + n) /\ q[j] = s[j]
        BY <2>2, <2>3, <4>1
      <4> QED
        BY <4>1, <4>2, <4>3
    <3>2. CASE i > m
      <4>1. i - m \in 1..n /\ q[i] = t[i - m]
        BY <2>2, <2>3, <3>2
      <4>2. PICK j \in (i - m + 1)..n : Asks(t[j], t[i - m].dev, t[i - m].name)
        BY <2>4, <2>5, <4>1
      <4>3. j + m \in (i + 1)..(m + n) /\ j + m > m /\ j + m - m = j
        BY <2>3, <4>1
      <4>4. q[j + m] = t[j]
        BY <2>2, <2>3, <4>1, <4>3
      <4> QED
        BY <4>1, <4>2, <4>3, <4>4
    <3> QED
      BY <2>3, <3>1, <3>2
  <2>6. IsReadBack(q)
    BY <2>2, <2>5 DEF IsReadBack
  <2> QED
    BY <2>2, <2>6 DEF ReadBack, q
<1> QED
  BY <1>1, <1>2 DEF Joins

LEMMA ReadBackTail ==
  ASSUME NEW q \in ReadBack, q # <<>>
  PROVE  /\ Head(q) \in Events
         /\ Tail(q) \in ReadBack
         /\ \A i \in 1..Len(Tail(q)) : Tail(q)[i] = q[i + 1]
         /\ Len(Tail(q)) = Len(q) - 1 /\ Len(q) \in Nat /\ Head(q) = q[1]
<1>1. q \in Seq(Events) /\ IsReadBack(q)
  BY DEF ReadBack
<1> DEFINE t == Tail(q)
<1>2. /\ Head(q) \in Events /\ t \in Seq(Events) /\ Len(t) = Len(q) - 1
      /\ \A i \in 1..Len(t) : t[i] = q[i + 1]
      /\ Head(q) = q[1] /\ Len(q) \in Nat
  BY <1>1, HeadTailProperties, LenProperties
<1> HIDE DEF t
<1>3. ASSUME NEW i \in 1..Len(t), t[i].value # NULL
      PROVE  \E j \in (i + 1)..Len(t) : Asks(t[j], t[i].dev, t[i].name)
  <2>1. i + 1 \in 1..Len(q) /\ q[i + 1] = t[i]
    BY <1>2
  <2>2. PICK j \in (i + 1 + 1)..Len(q) : Asks(q[j], t[i].dev, t[i].name)
    BY <1>1, <1>3, <2>1 DEF IsReadBack
  <2>3. j - 1 \in (i + 1)..Len(t) /\ j - 1 \in 1..Len(t) /\ j - 1 + 1 = j
    BY <1>2
  <2>4. t[j - 1] = q[j]
    BY <1>2, <2>3
  <2> QED
    BY <2>2, <2>3, <2>4
<1>4. t \in ReadBack
  BY <1>2, <1>3 DEF ReadBack, IsReadBack
<1> QED
  BY <1>2, <1>4 DEF t

LEMMA ListedIs ==
  ASSUME NEW d \in Devices
  PROVE  Listed(d) \in Seq({row \in classes : row.usenick})
<1> DEFINE S == {row \in classes : row.usenick}
           q == [i \in DOMAIN ClassesOf[d] |-> ListedRows(ClassesOf[d][i])]
<1>1. ASSUME NEW cid PROVE ListedRows(cid) \in Seq(S)
  <2> DEFINE R == {row \in classes : row.cid = cid /\ row.usenick}
  <2>1. R \in SUBSET classes /\ R \subseteq S
    OBVIOUS
  <2>2. IsFiniteSet(R)
    BY <2>1, ClassesAre, FS_Subset
  <2> HIDE DEF R, S
  <2>3. SetToSeq(R) \in Seq(S)
    BY <2>1, <2>2, SetToSeqIs, SeqMonotonic
  <2> QED
    BY <2>3 DEF ListedRows, R
<1>2. ClassesOf[d] \in Seq({row.cid : row \in classes})
  BY ClassCmdAssumption
<1>3. q \in Seq(Seq(S))
  <2>1. DOMAIN ClassesOf[d] = 1..Len(ClassesOf[d]) /\ Len(ClassesOf[d]) \in Nat
    BY <1>2, LenProperties
  <2> HIDE DEF S
  <2>2. q \in [1..Len(ClassesOf[d]) -> Seq(S)]
    BY <1>1, <2>1
  <2> QED
    BY <2>1, <2>2
<1>4. FlattenSeq(q) \in Seq(S)
  <2> HIDE DEF S, q
  <2> QED
    BY <1>3, SeqJoins, FlattenIs
<1>5. <<>> \in Seq(S)
  BY EmptySeq
<1> QED
  BY <1>4, <1>5 DEF Listed

LEMMA ListedAre ==
  ASSUME NEW d \in Devices
  PROVE  /\ Len(Listed(d)) \in Nat /\ DOMAIN Listed(d) = 1..Len(Listed(d))
         /\ \A i \in 1..Len(Listed(d)) : /\ Listed(d)[i] \in classes
                                         /\ Listed(d)[i].name \in Names
                                         /\ Listed(d)[i].report = "formats"
<1> DEFINE S == {row \in classes : row.usenick}
           q == Listed(d)
<1>1. q \in Seq(S)
  BY ListedIs
<1>2. \A r \in S : r \in classes /\ r.name \in Names /\ r.report = "formats"
  BY ClassesAre DEF Names
<1> HIDE DEF S, q
<1>3. Len(q) \in Nat /\ DOMAIN q = 1..Len(q) /\ \A i \in 1..Len(q) : q[i] \in S
  BY <1>1, LenProperties, ElementOfSeq
<1> QED
  BY <1>2, <1>3 DEF q

LEMMA GetsAre ==
  ASSUME NEW d \in Devices, NEW row \in classes
  PROVE  Gets(d, row) \in ReadBack
<1> DEFINE e == SubEvent(d, row, NULL)
<1>1. e \in Events /\ e.value = NULL
  BY DEF Events, SubEvent, Names
<1> HIDE DEF e
<1>2. <<e>> \in Seq(Events) /\ Len(<<e>>) = 1 /\ <<e>>[1] = e
  BY <1>1
<1>3. <<e>> \in ReadBack
  BY <1>1, <1>2 DEF ReadBack, IsReadBack
<1>4. <<>> \in ReadBack
  BY ReadBackJoins DEF Joins
<1> QED
  BY <1>3, <1>4 DEF Gets, e

LEMMA SetsAreReadBack ==
  ASSUME NEW d \in Devices, NEW row \in classes,
         NEW value \in Values \cup {NULL}
  PROVE  class_cmd_set_attr(d, row, value) \in ReadBack
<1>1. Gets(d, row) \in ReadBack /\ <<>> \in ReadBack
  BY GetsAre, ReadBackJoins DEF Joins
<1>2. CASE row.set # "NULL" /\ row.set = "sends" /\ value # NULL
  <2> DEFINE e == SubEvent(d, row, value)
             g == SubEvent(d, row, NULL)
             q == <<e>> \o <<g>>
  <2>1. row.get = "asks"
    BY <1>2, ClassesAre
  <2>2. class_cmd_set_attr(d, row, value) = <<e>> \o <<g>>
    BY <1>2, <2>1 DEF class_cmd_set_attr, Gets
  <2>3. /\ e \in Events /\ g \in Events /\ g.value = NULL
        /\ Asks(g, e.dev, e.name)
    BY DEF Events, SubEvent, Names, Asks
  <2> HIDE DEF e, g
  <2>4. q \in Seq(Events) /\ Len(q) = 2 /\ q[1] = e /\ q[2] = g
    <3>1. /\ <<e>> \in Seq(Events) /\ Len(<<e>>) = 1 /\ <<e>>[1] = e
          /\ <<g>> \in Seq(Events) /\ Len(<<g>>) = 1 /\ <<g>>[1] = g
      BY <2>3
    <3> QED
      BY <3>1, ConcatProperties
  <2> HIDE DEF q
  <2>5. ASSUME NEW i \in 1..2, q[i].value # NULL
        PROVE  \E j \in (i + 1)..2 : Asks(q[j], q[i].dev, q[i].name)
    <3>1. i = 1 \/ i = 2
      OBVIOUS
    <3>2. i = 1 /\ 2 \in (i + 1)..2
      BY <2>3, <2>4, <2>5, <3>1
    <3> QED
      BY <2>3, <2>4, <3>2
  <2> QED
    BY <2>2, <2>4, <2>5 DEF ReadBack, IsReadBack, q
<1>3. CASE row.set # "NULL" /\ ~(row.set = "sends" /\ value # NULL)
  <2>1. class_cmd_set_attr(d, row, value) = <<>> \o Gets(d, row)
    BY <1>3 DEF class_cmd_set_attr
  <2>2. Gets(d, row) \in Seq(Events)
    BY <1>1 DEF ReadBack
  <2>3. <<>> \o Gets(d, row) = Gets(d, row)
    BY <2>2, ConcatEmptySeq
  <2> QED
    BY <1>1, <2>1, <2>3
<1>4. CASE row.set = "NULL"
  BY <1>1, <1>4 DEF class_cmd_set_attr
<1> QED
  BY <1>2, <1>3, <1>4

(* What is asked of the devices on the list, one after the other. *)
LEMMA MissingAre ==
  ASSUME NEW m, NEW d \in Devices
  PROVE  Missing(m, d) \in ReadBack
<1> DEFINE L == Listed(d)
           q == [i \in DOMAIN L |-> IF Stored(m, d, L[i].name) = NULL
                                    THEN Gets(d, L[i]) ELSE <<>>]
<1>1. Len(L) \in Nat /\ DOMAIN L = 1..Len(L) /\ \A i \in 1..Len(L) : L[i] \in classes
  BY ListedAre
<1>2. <<>> \in ReadBack
  BY ReadBackJoins DEF Joins
<1>3. Missing(m, d) = FlattenSeq(q)
  BY DEF Missing
<1> HIDE DEF L
<1>4. \A i \in 1..Len(L) : Gets(d, L[i]) \in ReadBack
  BY <1>1, GetsAre
<1>5. q \in [1..Len(L) -> ReadBack]
  BY <1>1, <1>2, <1>4
<1>6. q \in Seq(ReadBack)
  BY <1>1, <1>5
<1> HIDE DEF q
<1> QED
  BY <1>3, <1>6, ReadBackJoins, FlattenIs

LEMMA AllAskedAre ==
  ASSUME NEW d \in Devices
  PROVE  class_cmd_get_dev_attr(d) \in ReadBack
<1> DEFINE L == Listed(d)
           q == [i \in DOMAIN L |-> Gets(d, L[i])]
<1>1. Len(L) \in Nat /\ DOMAIN L = 1..Len(L) /\ \A i \in 1..Len(L) : L[i] \in classes
  BY ListedAre
<1>2. class_cmd_get_dev_attr(d) = FlattenSeq(q)
  BY DEF class_cmd_get_dev_attr
<1> HIDE DEF L
<1>3. \A i \in 1..Len(L) : Gets(d, L[i]) \in ReadBack
  BY <1>1, GetsAre
<1>4. q \in Seq(ReadBack)
  BY <1>1, <1>3
<1> HIDE DEF q
<1> QED
  BY <1>2, <1>4, ReadBackJoins, FlattenIs

-----------------------------------------------------------------------------
(* The events that are pushed, whoever pushes them. *)

Pushes == \E new \in ReadBack : subcmdq' = subcmdq \o new

LEMMA PushesNothing ==
  ASSUME subcmdq \in ReadBack, UNCHANGED subcmdq
  PROVE  Pushes
<1>1. subcmdq \in Seq(Events) /\ <<>> \in ReadBack
  BY ReadBackJoins DEF Joins, ReadBack
<1>2. subcmdq \o <<>> = subcmdq
  BY <1>1, ConcatEmptySeq
<1> QED
  BY <1>1, <1>2 DEF Pushes

LEMMA ListPushes ==
  ASSUME zwave_device_list
  PROVE  Pushes
<1> DEFINE D == DevicesInOrder
           q == [i \in DOMAIN D |-> Missing(memory, D[i])]
<1>1. D \in Seq(Devices)
  BY InOrderIs
<1>2. subcmdq' = subcmdq \o FlattenSeq(q)
  BY DEF zwave_device_list
<1> HIDE DEF D
<1>3. Len(D) \in Nat /\ DOMAIN D = 1..Len(D) /\ \A i \in 1..Len(D) : D[i] \in Devices
  BY <1>1, LenProperties, ElementOfSeq
<1>4. \A i \in 1..Len(D) : Missing(memory, D[i]) \in ReadBack
  BY <1>3, MissingAre
<1>5. q \in Seq(ReadBack)
  BY <1>3, <1>4
<1> HIDE DEF q
<1>6. FlattenSeq(q) \in ReadBack
  BY <1>5, ReadBackJoins, FlattenIs
<1> QED
  BY <1>2, <1>6 DEF Pushes

(* An attribute of the console's commands is one row of the table, or none. *)
LEMMA RowsAreFinite ==
  ASSUME NEW cid, NEW name, NEW f, DOMAIN f = RowAt(cid, name),
         \A row \in RowAt(cid, name) : f[row] \in ReadBack
  PROVE  FlattenSeq(SetToSeq({f[row] : row \in RowAt(cid, name)})) \in ReadBack
<1> DEFINE R == RowAt(cid, name)
           T == {f[row] : row \in R}
<1>1. R \in SUBSET classes
  BY DEF RowAt
<1>2. IsFiniteSet(R)
  BY <1>1, ClassesAre, FS_Subset
<1> HIDE DEF R
<1> DEFINE g == [row \in R |-> f[row]]
<1>3. g \in Surjection(R, T)
  BY DEF Surjection
<1>4. IsFiniteSet(T)
  <2> HIDE DEF g, T
  <2> QED
    BY <1>2, <1>3, FS_Surjection
<1>5. T \subseteq ReadBack
  BY DEF R
<1> HIDE DEF T
<1>6. SetToSeq(T) \in Seq(ReadBack)
  BY <1>4, <1>5, SetToSeqIs, SeqMonotonic
<1>7. FlattenSeq(SetToSeq(T)) \in ReadBack
  BY <1>6, ReadBackJoins, FlattenIs
<1> QED
  BY <1>7 DEF T, R

LEMMA GetPushes ==
  ASSUME NEW argv, do_cmd_get(argv), subcmdq \in ReadBack
  PROVE  Pushes
<1>1. CASE Len(argv) # 4 \/ argv[2] \notin DOMAIN Ids
  BY <1>1, PushesNothing DEF do_cmd_get, NoCommand
<1>2. CASE ~(Len(argv) # 4 \/ argv[2] \notin DOMAIN Ids)
  <2> DEFINE d == Ids[argv[2]]
             R == RowAt(argv[3], argv[4])
             f == [row \in R |-> class_cmd_get_attr(d, row)]
  <2>1. d \in Devices
    BY <1>2, ConsoleAssumption
  <2>2. \A row \in R : class_cmd_get_attr(d, row) \in ReadBack
    BY <2>1, GetsAre DEF RowAt, class_cmd_get_attr
  <2>3. subcmdq' = subcmdq \o FlattenSeq(SetToSeq({class_cmd_get_attr(d, row) : row \in R}))
    BY <1>2 DEF do_cmd_get, PushCommand
  <2>4. {class_cmd_get_attr(d, row) : row \in R} = {f[row] : row \in R}
    OBVIOUS
  <2>5. DOMAIN f = R /\ \A row \in R : f[row] \in ReadBack
    BY <2>2
  <2> HIDE DEF f, d
  <2>6. FlattenSeq(SetToSeq({f[row] : row \in R})) \in ReadBack
    BY <2>5, RowsAreFinite
  <2> QED
    BY <2>3, <2>4, <2>6 DEF Pushes
<1> QED
  BY <1>1, <1>2

LEMMA SetPushes ==
  ASSUME NEW argv, NEW value \in Values \cup {NULL}, do_cmd_set(argv, value),
         subcmdq \in ReadBack
  PROVE  Pushes
<1>1. CASE Len(argv) # 5 \/ argv[2] \notin DOMAIN Ids
  BY <1>1, PushesNothing DEF do_cmd_set, NoCommand
<1>2. CASE ~(Len(argv) # 5 \/ argv[2] \notin DOMAIN Ids)
  <2> DEFINE d == Ids[argv[2]]
             R == RowAt(argv[3], argv[4])
             f == [row \in R |-> class_cmd_set_attr(d, row, value)]
  <2>1. d \in Devices
    BY <1>2, ConsoleAssumption
  <2>2. \A row \in R : class_cmd_set_attr(d, row, value) \in ReadBack
    BY <2>1, SetsAreReadBack DEF RowAt
  <2>3. subcmdq' = subcmdq \o
          FlattenSeq(SetToSeq({class_cmd_set_attr(d, row, value) : row \in R}))
    BY <1>2 DEF do_cmd_set, PushCommand
  <2>4. {class_cmd_set_attr(d, row, value) : row \in R} = {f[row] : row \in R}
    OBVIOUS
  <2>5. DOMAIN f = R /\ \A row \in R : f[row] \in ReadBack
    BY <2>2
  <2> HIDE DEF f, d
  <2>6. FlattenSeq(SetToSeq({f[row] : row \in R})) \in ReadBack
    BY <2>5, RowsAreFinite
  <2> QED
    BY <2>3, <2>4, <2>6 DEF Pushes
<1> QED
  BY <1>1, <1>2

(* cmd_in and ubus_receive_event. *)
LEMMA ConsolePushes ==
  ASSUME cmd_in, subcmdq \in ReadBack
  PROVE  Pushes
<1>1. PICK line \in Lines :
        LET argv == parse_argv(line)
            cmd  == IF argv = <<>> THEN <<>> ELSE argv[1]
        IN  \/ cmd = <<"init">> /\ do_cmd_init
            \/ cmd = <<"list">> /\ zwave_device_list
            \/ cmd = <<"get">> /\ do_cmd_get(argv)
            \/ /\ cmd = <<"set">>
               /\ \E value \in Values \cup {NULL} : do_cmd_set(argv, value)
            \/ /\ cmd \notin {<<"init">>, <<"list">>, <<"get">>, <<"set">>}
               /\ NoCommand
  BY DEF cmd_in
<1> DEFINE argv == parse_argv(line)
<1>2. \/ do_cmd_init \/ zwave_device_list \/ do_cmd_get(argv)
      \/ \E value \in Values \cup {NULL} : do_cmd_set(argv, value)
      \/ NoCommand
  BY <1>1, Zenon
<1> HIDE DEF argv
<1> QED
  BY <1>2, PushesNothing, ListPushes, GetPushes, SetPushes DEF do_cmd_init, NoCommand

LEMMA RequestIs ==
  ASSUME NEW i \in 1..Len(Requests)
  PROVE  /\ Requests[i].value \in {"none", "some"} \cup Values
         /\ Requests[i].dev \in Devices
         /\ Requests[i].attr \in STRING /\ Requests[i].command \in STRING
<1> DEFINE S == [from : STRING, to : STRING, command : STRING, attr : STRING,
                 value : {"none", "some"} \cup Values, dev : Devices]
<1>1. Requests \in Seq(S)
  BY UprotoAssumption
<1>2. \A r \in S : /\ r.value \in {"none", "some"} \cup Values
                   /\ r.dev \in Devices /\ r.attr \in STRING /\ r.command \in STRING
  OBVIOUS
<1> HIDE DEF S
<1>3. Requests[i] \in S
  BY <1>1, ElementOfSeq
<1> QED
  BY <1>2, <1>3

LEMMA OnOffNeeds == "onoff" \in DOMAIN Setters /\ Setters["onoff"].needs
  BY DEF Setters, NeedNoValue, NotYet

LEMMA BusPushes ==
  ASSUME ubus_receive_event, came \in Nat, Len(Requests) \in Nat,
         subcmdq \in ReadBack
  PROVE  Pushes
<1> DEFINE id == came + 1
           r  == Requests[id]
<1>1. came' = id /\ id \in 1..Len(Requests) /\ uproto_handler_cmd(id, r)
  BY DEF ubus_receive_event
<1>2. r.value \in {"none", "some"} \cup Values /\ r.dev \in Devices
  BY <1>1, RequestIs
<1> HIDE DEF id, r
<1>3. CASE UNCHANGED subcmdq
  BY <1>3, PushesNothing
<1>4. CASE zwave_device_list
  BY <1>4, ListPushes
<1>5. CASE /\ r.attr = "onoff"
           /\ ~(r.value = "none") /\ ~(r.value = "some")
           /\ zwave_device_light_onoff(r.dev, r.value)
  <2> DEFINE row == CHOOSE row \in classes : row.name = "switch_binary"
             new == class_cmd_set_attr(r.dev, row, r.value)
  <2>1. Row("switch", "switch_binary", TRUE, "sends", "asks", "formats") \in classes
    BY DEF classes
  <2>2. Row("switch", "switch_binary", TRUE, "sends", "asks", "formats").name
          = "switch_binary"
    BY DEF Row
  <2>3. row \in classes
    BY <2>1, <2>2
  <2>4. subcmdq' = subcmdq \o new
    BY <1>5 DEF zwave_device_light_onoff, PushCommand
  <2> HIDE DEF row
  <2>5. new \in ReadBack
    BY <1>2, <1>5, <2>3, SetsAreReadBack
  <2> QED
    BY <2>4, <2>5 DEF Pushes
<1>6. ASSUME uproto_cmd_handler_attr_get(id, r)
      PROVE  zwave_device_list \/ UNCHANGED subcmdq
  BY <1>6 DEF uproto_cmd_handler_attr_get, NoCommand
<1>7. ASSUME uproto_cmd_handler_attr_set(id, r)
      PROVE  \/ UNCHANGED subcmdq
             \/ /\ r.attr = "onoff"
                /\ ~(r.value = "none") /\ ~(r.value = "some")
                /\ zwave_device_light_onoff(r.dev, r.value)
  BY <1>7, OnOffNeeds DEF uproto_cmd_handler_attr_set, NoCommand
<1> QED
  BY <1>1, <1>3, <1>4, <1>5, <1>6, <1>7 DEF uproto_handler_cmd, NoCommand

LEMMA TakesPush ==
  ASSUME AppTakes, subcmdq \in ReadBack
  PROVE  Pushes
<1> DEFINE D == DevicesInOrder
           q == [i \in DOMAIN D |-> class_cmd_get_dev_attr(D[i])]
<1>1. D \in Seq(Devices)
  BY InOrderIs
<1>2. subcmdq' = subcmdq \o FlattenSeq(q) \/ subcmdq' = subcmdq
  BY DEF AppTakes
<1> HIDE DEF D
<1>3. Len(D) \in Nat /\ DOMAIN D = 1..Len(D) /\ \A i \in 1..Len(D) : D[i] \in Devices
  BY <1>1, LenProperties, ElementOfSeq
<1>4. \A i \in 1..Len(D) : class_cmd_get_dev_attr(D[i]) \in ReadBack
  BY <1>3, AllAskedAre
<1>5. q \in Seq(ReadBack)
  BY <1>3, <1>4
<1> HIDE DEF q
<1>6. FlattenSeq(q) \in ReadBack
  BY <1>5, ReadBackJoins, FlattenIs
<1> QED
  BY <1>2, <1>6, PushesNothing DEF Pushes

-----------------------------------------------------------------------------
(* What is on the way between the daemon and the devices. *)

Reports == [dev : Devices, name : Names, value : Values]

ClassTypes ==
  /\ subcmdq \in ReadBack
  /\ air \in Seq(Reports)
  /\ real \in [Devices -> [Names -> Values]]
  /\ told \in [Devices \X Names -> Values \cup {NULL, Uninit}]

Formats(n) == \E row \in classes : row.name = n /\ row.report = "formats"

(* A get of the attribute is queued; or its report is under way, and the   *)
(* last one has what the attribute is now; or what was told is that.       *)
IsAsked(d, n) == \E i \in 1..Len(subcmdq) : Asks(subcmdq[i], d, n)

IsOf(report, d, n) == report.dev = d /\ report.name = n

IsUnderWay(d, n) ==
  \E i \in 1..Len(air) :
    /\ IsOf(air[i], d, n) /\ air[i].value = real[d][n]
    /\ \A j \in (i + 1)..Len(air) : ~IsOf(air[j], d, n)

IsTold(d, n) ==
  /\ \A i \in 1..Len(air) : ~IsOf(air[i], d, n)
  /\ Formats(n) => told[<<d, n>>] \in {NULL, real[d][n]}

Settles(d, n) == IsAsked(d, n) \/ IsUnderWay(d, n) \/ IsTold(d, n)

SettleInv ==
  /\ ClassTypes
  /\ \A d \in Devices, n \in Names : Settles(d, n)

LEMMA SettleInit == ClassInit => SettleInv
<1> SUFFICES ASSUME ClassInit PROVE SettleInv
  OBVIOUS
<1>1. <<>> \in ReadBack
  BY ReadBackJoins DEF Joins
<1>2. (CHOOSE v \in Values : TRUE) \in Values
  BY ClassCmdAssumption
<1>3. ClassTypes
  BY <1>1, <1>2 DEF ClassInit, ClassTypes
<1>4. ASSUME NEW d \in Devices, NEW n \in Names PROVE IsTold(d, n)
  BY DEF ClassInit, IsTold
<1> QED
  BY <1>3, <1>4 DEF SettleInv, Settles

(* A push leaves what was asked, and the rest. *)
LEMMA PushKeepsSettled ==
  ASSUME SettleInv, Pushes, UNCHANGED <<air, real, told>>
  PROVE  SettleInv'
<1>1. PICK new \in ReadBack : subcmdq' = subcmdq \o new
  BY DEF Pushes
<1>2. subcmdq \in ReadBack /\ subcmdq \in Seq(Events) /\ new \in Seq(Events)
  BY DEF SettleInv, ClassTypes, ReadBack
<1>3. subcmdq' \in ReadBack
  BY <1>1, <1>2, ReadBackJoins DEF Joins
<1>4. /\ Len(subcmdq') = Len(subcmdq) + Len(new)
      /\ Len(subcmdq) \in Nat /\ Len(new) \in Nat
      /\ \A i \in 1..Len(subcmdq) : subcmdq'[i] = subcmdq[i]
  BY <1>1, <1>2, ConcatProperties, LenProperties
<1>5. ASSUME NEW d \in Devices, NEW n \in Names PROVE Settles(d, n)'
  <2>1. Settles(d, n)
    BY DEF SettleInv
  <2>2. CASE IsAsked(d, n)
    <3>1. PICK i \in 1..Len(subcmdq) : Asks(subcmdq[i], d, n)
      BY <2>2 DEF IsAsked
    <3>2. i \in 1..Len(subcmdq') /\ Asks(subcmdq'[i], d, n)
      BY <1>4, <3>1
    <3> QED
      BY <3>2 DEF Settles, IsAsked
  <2>3. CASE IsUnderWay(d, n)
    BY <2>3 DEF Settles, IsUnderWay
  <2>4. CASE IsTold(d, n)
    BY <2>4 DEF Settles, IsTold
  <2> QED
    BY <2>1, <2>2, <2>3, <2>4 DEF Settles
<1> QED
  BY <1>3, <1>5 DEF SettleInv, ClassTypes

(* The app layer sends a set: a get of the same is behind it. *)
LEMMA SetKeepsSettled ==
  ASSUME SettleInv, AppSends, Head(subcmdq).value # NULL
  PROVE  SettleInv'
<1> DEFINE e == Head(subcmdq)
           t == Tail(subcmdq)
<1>1. /\ subcmdq # <<>> /\ subcmdq' = t
      /\ real' = [real EXCEPT ![e.dev][e.name] = e.value]
      /\ UNCHANGED <<air, told>>
  BY DEF AppSends
<1>2. /\ e \in Events /\ t \in ReadBack /\ Len(t) = Len(subcmdq) - 1
      /\ Len(subcmdq) \in Nat /\ e = subcmdq[1]
      /\ \A i \in 1..Len(t) : t[i] = subcmdq[i + 1]
  BY <1>1, ReadBackTail DEF SettleInv, ClassTypes
<1>3. e.value # NULL
  OBVIOUS
<1> HIDE DEF e, t
<1>4. e.dev \in Devices /\ e.name \in Names /\ e.value \in Values
  BY <1>2, <1>3 DEF Events
<1> DEFINE D == e.dev
           N == e.name
           v == e.value
<1>5. D \in Devices /\ N \in Names /\ v \in Values
  BY <1>4
<1>6. real' = [real EXCEPT ![D][N] = v]
  BY <1>1
<1> HIDE DEF D, N, v
<1>7. real \in [Devices -> [Names -> Values]]
  BY DEF SettleInv, ClassTypes
<1>8. /\ real' \in [Devices -> [Names -> Values]]
      /\ \A d \in Devices, n \in Names :
           ~(d = D /\ n = N) => real'[d][n] = real[d][n]
  BY <1>5, <1>6, <1>7
<1>9. ClassTypes'
  BY <1>1, <1>2, <1>8 DEF SettleInv, ClassTypes
<1>10. ASSUME NEW i \in 2..Len(subcmdq), NEW d, NEW n, Asks(subcmdq[i], d, n)
       PROVE  IsAsked(d, n)'
  <2>1. i - 1 \in 1..Len(t) /\ t[i - 1] = subcmdq[i]
    BY <1>2
  <2> QED
    BY <1>1, <1>10, <2>1 DEF IsAsked
<1>11. ASSUME NEW d \in Devices, NEW n \in Names PROVE Settles(d, n)'
  <2>1. Settles(d, n)
    BY DEF SettleInv
  <2>2. CASE d = D /\ n = N
    <3>1. IsReadBack(subcmdq) /\ 1 \in 1..Len(subcmdq)
      BY <1>2 DEF SettleInv, ClassTypes, ReadBack
    <3>2. PICK j \in 2..Len(subcmdq) : Asks(subcmdq[j], D, N)
      BY <1>2, <1>3, <3>1 DEF IsReadBack, D, N
    <3> QED
      BY <1>10, <2>2, <3>2 DEF Settles
  <2>3. CASE IsAsked(d, n)
    <3>1. PICK i \in 1..Len(subcmdq) : Asks(subcmdq[i], d, n)
      BY <2>3 DEF IsAsked
    <3>2. i # 1
      BY <1>2, <1>3, <3>1 DEF Asks
    <3>3. i \in 2..Len(subcmdq)
      BY <1>2, <3>2
    <3> QED
      BY <1>10, <3>1, <3>3 DEF Settles
  <2>4. CASE ~(d = D /\ n = N) /\ IsUnderWay(d, n)
    BY <1>1, <1>8, <2>4 DEF Settles, IsUnderWay
  <2>5. CASE ~(d = D /\ n = N) /\ IsTold(d, n)
    <3>1. real'[d][n] = real[d][n]
      BY <1>8, <2>5
    <3> QED
      BY <1>1, <2>5, <3>1 DEF Settles, IsTold
  <2>6. CASE IsUnderWay(d, n) \/ IsTold(d, n)
    BY <2>2, <2>4, <2>5, <2>6
  <2> QED
    BY <2>1, <2>3, <2>6 DEF Settles
<1> QED
  BY <1>9, <1>11 DEF SettleInv

(* A report goes out with what the attribute is now. *)
LEMMA ReportIsUnderWay ==
  ASSUME air \in Seq(Reports), NEW d \in Devices, NEW n \in Names,
         NEW v \in Values, air' = Append(air, Reported(d, n, v))
  PROVE  /\ air' \in Seq(Reports)
         /\ real'[d][n] = v => IsUnderWay(d, n)'
         /\ \A e \in Devices, m \in Names :
              ~(e = d /\ m = n) /\ real'[e][m] = real[e][m] /\ UNCHANGED told
                => /\ IsUnderWay(e, m) => IsUnderWay(e, m)'
                   /\ IsTold(e, m) => IsTold(e, m)'
<1> DEFINE r == Reported(d, n, v)
           k == Len(air)
<1>1. r \in Reports /\ r.dev = d /\ r.name = n /\ r.value = v
  BY DEF Reported, Reports
<1> HIDE DEF r
<1>2. /\ air' \in Seq(Reports) /\ Len(air') = k + 1 /\ k \in Nat
      /\ air'[k + 1] = r /\ \A i \in 1..k : air'[i] = air[i]
  BY <1>1 DEF r
<1> HIDE DEF k
<1>3. ASSUME real'[d][n] = v PROVE IsUnderWay(d, n)'
  <2>1. k + 1 \in 1..Len(air') /\ (k + 1 + 1)..Len(air') = {}
    BY <1>2
  <2>2. IsOf(air'[k + 1], d, n) /\ air'[k + 1].value = real'[d][n]
    BY <1>1, <1>2, <1>3 DEF IsOf
  <2> QED
    BY <2>1, <2>2 DEF IsUnderWay
<1>4. ASSUME NEW e \in Devices, NEW m \in Names, ~(e = d /\ m = n),
             real'[e][m] = real[e][m], UNCHANGED told
      PROVE  /\ IsUnderWay(e, m) => IsUnderWay(e, m)'
             /\ IsTold(e, m) => IsTold(e, m)'
  <2>1. ~IsOf(air'[k + 1], e, m)
    BY <1>1, <1>2, <1>4 DEF IsOf
  <2>2. ASSUME IsUnderWay(e, m) PROVE IsUnderWay(e, m)'
    <3>1. PICK i \in 1..k :
            /\ IsOf(air[i], e, m) /\ air[i].value = real[e][m]
            /\ \A j \in (i + 1)..k : ~IsOf(air[j], e, m)
      BY <2>2 DEF IsUnderWay, k
    <3>2. i \in 1..Len(air') /\ air'[i] = air[i]
      BY <1>2
    <3>3. ASSUME NEW j \in (i + 1)..Len(air') PROVE ~IsOf(air'[j], e, m)
      <4>1. j = k + 1 \/ (j \in (i + 1)..k /\ j \in 1..k)
        BY <1>2
      <4> QED
        BY <1>2, <2>1, <3>1, <4>1
    <3> QED
      BY <1>4, <3>1, <3>2, <3>3 DEF IsUnderWay
  <2>3. ASSUME IsTold(e, m) PROVE IsTold(e, m)'
    <3>1. \A i \in 1..Len(air') : i = k + 1 \/ i \in 1..k
      BY <1>2
    <3>2. \A i \in 1..Len(air') : ~IsOf(air'[i], e, m)
      BY <1>2, <2>1, <2>3, <3>1 DEF IsTold, k
    <3> QED
      BY <1>4, <2>3, <3>2 DEF IsTold
  <2> QED
    BY <2>2, <2>3
<1> QED
  BY <1>2, <1>3, <1>4

LEMMA GetKeepsSettled ==
  ASSUME SettleInv, AppSends, Head(subcmdq).value = NULL
  PROVE  SettleInv'
<1> DEFINE e == Head(subcmdq)
           t == Tail(subcmdq)
<1>1. /\ subcmdq # <<>> /\ subcmdq' = t /\ UNCHANGED <<real, told>>
      /\ air' = Append(air, Reported(e.dev, e.name, real[e.dev][e.name]))
  BY DEF AppSends
<1>2. /\ e \in Events /\ t \in ReadBack /\ Len(t) = Len(subcmdq) - 1
      /\ Len(subcmdq) \in Nat /\ e = subcmdq[1]
      /\ \A i \in 1..Len(t) : t[i] = subcmdq[i + 1]
  BY <1>1, ReadBackTail DEF SettleInv, ClassTypes
<1> HIDE DEF e, t
<1>3. PICK D \in Devices, N \in Names : D = e.dev /\ N = e.name
  BY <1>2 DEF Events
<1>4. PICK v \in Values : v = real[D][N]
  BY <1>3 DEF SettleInv, ClassTypes
<1>5. /\ air' = Append(air, Reported(D, N, v)) /\ real'[D][N] = v
      /\ air \in Seq(Reports)
  BY <1>1, <1>3, <1>4 DEF SettleInv, ClassTypes
<1>6. /\ air' \in Seq(Reports)
      /\ real'[D][N] = v => IsUnderWay(D, N)'
      /\ \A x \in Devices, m \in Names :
           ~(x = D /\ m = N) /\ real'[x][m] = real[x][m] /\ UNCHANGED told
             => /\ IsUnderWay(x, m) => IsUnderWay(x, m)'
                /\ IsTold(x, m) => IsTold(x, m)'
  BY <1>3, <1>4, <1>5, ReportIsUnderWay
<1>7. ClassTypes'
  BY <1>1, <1>2, <1>6 DEF SettleInv, ClassTypes
<1>8. ASSUME NEW d \in Devices, NEW n \in Names PROVE Settles(d, n)'
  <2>1. Settles(d, n)
    BY DEF SettleInv
  <2>2. CASE d = D /\ n = N
    BY <1>5, <1>6, <2>2 DEF Settles
  <2>3. CASE ~(d = D /\ n = N) /\ IsAsked(d, n)
    <3>1. PICK i \in 1..Len(subcmdq) : Asks(subcmdq[i], d, n)
      BY <2>3 DEF IsAsked
    <3>2. i # 1
      BY <1>2, <1>3, <2>3, <3>1 DEF Asks
    <3>3. i - 1 \in 1..Len(t) /\ t[i - 1] = subcmdq[i]
      BY <1>2, <3>2
    <3> QED
      BY <1>1, <3>1, <3>3 DEF Settles, IsAsked
  <2>4. CASE ~(d = D /\ n = N) /\ ~IsAsked(d, n)
    <3>1. /\ IsUnderWay(d, n) => IsUnderWay(d, n)'
          /\ IsTold(d, n) => IsTold(d, n)'
      BY <1>1, <1>6, <2>4
    <3> QED
      BY <2>1, <2>4, <3>1 DEF Settles
  <2> QED
    BY <2>2, <2>3, <2>4
<1> QED
  BY <1>7, <1>8 DEF SettleInv

(* The device changes, and tells it. *)
LEMMA ChangeKeepsSettled ==
  ASSUME SettleInv, DeviceChanges
  PROVE  SettleInv'
<1>1. PICK p \in Changing, v \in Values :
        /\ real' = [real EXCEPT ![p[1]][p[2]] = v]
        /\ air' = Append(air, Reported(p[1], p[2], v))
  BY DEF DeviceChanges
<1>2. UNCHANGED <<subcmdq, told>>
  BY DEF DeviceChanges
<1> DEFINE D == p[1]
           N == p[2]
<1>3. D \in Devices /\ N \in Names
  BY ClassCmdAssumption
<1>4. real' = [real EXCEPT ![D][N] = v] /\ air' = Append(air, Reported(D, N, v))
  BY <1>1
<1> HIDE DEF D, N
<1>5. real \in [Devices -> [Names -> Values]] /\ air \in Seq(Reports)
  BY DEF SettleInv, ClassTypes
<1>6. /\ real' \in [Devices -> [Names -> Values]] /\ real'[D][N] = v
      /\ \A d \in Devices, n \in Names :
           ~(d = D /\ n = N) => real'[d][n] = real[d][n]
  BY <1>3, <1>4, <1>5
<1>7. v \in Values /\ told' = told
  BY <1>2
<1>8. /\ air' \in Seq(Reports)
      /\ real'[D][N] = v => IsUnderWay(D, N)'
      /\ \A e \in Devices, m \in Names :
           ~(e = D /\ m = N) /\ real'[e][m] = real[e][m] /\ UNCHANGED told
             => /\ IsUnderWay(e, m) => IsUnderWay(e, m)'
                /\ IsTold(e, m) => IsTold(e, m)'
  BY <1>3, <1>4, <1>5, <1>7, ReportIsUnderWay
<1>9. ASSUME NEW d \in Devices, NEW n \in Names, ~(d = D /\ n = N)
      PROVE  /\ IsUnderWay(d, n) => IsUnderWay(d, n)'
             /\ IsTold(d, n) => IsTold(d, n)'
  <2>1. real'[d][n] = real[d][n]
    BY <1>6, <1>9
  <2> QED
    BY <1>7, <1>8, <1>9, <2>1
<1>10. ClassTypes'
  BY <1>2, <1>6, <1>8 DEF SettleInv, ClassTypes
<1>11. ASSUME NEW d \in Devices, NEW n \in Names PROVE Settles(d, n)'
  <2>1. Settles(d, n)
    BY DEF SettleInv
  <2>2. IsAsked(d, n) => IsAsked(d, n)'
    BY <1>2 DEF IsAsked
  <2>3. CASE d = D /\ n = N
    BY <1>6, <1>8, <2>3 DEF Settles
  <2>4. CASE ~(d = D /\ n = N)
    BY <1>9, <2>1, <2>2, <2>4 DEF Settles
  <2> QED
    BY <2>3, <2>4
<1> QED
  BY <1>10, <1>11 DEF SettleInv

(* A report is saved: the last one of an attribute has what it is now. *)
LEMMA SaveKeepsSettled ==
  ASSUME SettleInv, class_cmd_save
  PROVE  SettleInv'
<1> DEFINE r   == Head(air)
           t   == Tail(air)
           row == CHOOSE x \in classes : x.name = r.name
           buf == IF row.report = "formats" THEN r.value ELSE Uninit
<1>1. /\ air # <<>> /\ air' = t /\ UNCHANGED <<subcmdq, real>>
      /\ told' = [told EXCEPT ![<<r.dev, r.name>>] = buf]
  BY DEF class_cmd_save
<1>2. air \in Seq(Reports)
  BY DEF SettleInv, ClassTypes
<1>3. /\ r \in Reports /\ t \in Seq(Reports) /\ Len(t) = Len(air) - 1
      /\ \A i \in 1..Len(t) : t[i] = air[i + 1]
      /\ Len(air) \in Nat \ {0} /\ r = air[1]
  BY <1>1, <1>2, HeadTailProperties, LenProperties, EmptySeq
<1> DEFINE D == r.dev
           N == r.name
<1>4. D \in Devices /\ N \in Names /\ r.value \in Values
  BY <1>3 DEF Reports
<1>5. row \in classes /\ row.name = N
  BY <1>4 DEF Names
<1>6. Formats(N) => buf = r.value
  BY <1>5, ClassesAre DEF Formats
<1>7. buf \in Values \cup {NULL, Uninit}
  BY <1>4
<1> HIDE DEF buf, row, r, t
<1>8. told' = [told EXCEPT ![<<D, N>>] = buf]
  BY <1>1
<1> HIDE DEF D, N
<1>9. told \in [Devices \X Names -> Values \cup {NULL, Uninit}]
  BY DEF SettleInv, ClassTypes
<1>10. /\ told' \in [Devices \X Names -> Values \cup {NULL, Uninit}]
       /\ told'[<<D, N>>] = buf
       /\ \A d \in Devices, n \in Names :
            ~(d = D /\ n = N) => told'[<<d, n>>] = told[<<d, n>>]
  BY <1>4, <1>7, <1>8, <1>9
<1>11. ClassTypes'
  BY <1>1, <1>3, <1>10 DEF SettleInv, ClassTypes
<1>12. ASSUME NEW d \in Devices, NEW n \in Names PROVE Settles(d, n)'
  <2>1. CASE IsAsked(d, n)
    BY <1>1, <2>1 DEF Settles, IsAsked
  <2>2. CASE IsUnderWay(d, n)
    <3>1. PICK i \in 1..Len(air) :
            /\ IsOf(air[i], d, n) /\ air[i].value = real[d][n]
            /\ \A j \in (i + 1)..Len(air) : ~IsOf(air[j], d, n)
      BY <2>2 DEF IsUnderWay
    <3>2. CASE i = 1
      <4>1. d = D /\ n = N /\ r.value = real[d][n]
        BY <1>3, <3>1, <3>2 DEF IsOf, D, N
      <4>2. ASSUME NEW j \in 1..Len(t) PROVE ~IsOf(t[j], d, n)
        <5>1. j + 1 \in (i + 1)..Len(air) /\ t[j] = air[j + 1]
          BY <1>3, <3>2
        <5> QED
          BY <3>1, <5>1
      <4>3. Formats(n) => told'[<<d, n>>] = real'[d][n]
        BY <1>1, <1>6, <1>10, <4>1
      <4>4. IsTold(d, n)'
        BY <1>1, <4>2, <4>3 DEF IsTold, Formats
      <4> QED
        BY <4>4 DEF Settles
    <3>3. CASE i # 1
      <4>1. i - 1 \in 1..Len(t) /\ t[i - 1] = air[i]
        BY <1>3, <3>3
      <4>2. ASSUME NEW j \in (i - 1 + 1)..Len(t) PROVE ~IsOf(t[j], d, n)
        <5>1. j + 1 \in (i + 1)..Len(air) /\ j \in 1..Len(t)
          BY <1>3, <4>1
        <5> QED
          BY <1>3, <3>1, <5>1
      <4>3. IsUnderWay(d, n)'
        BY <1>1, <3>1, <4>1, <4>2 DEF IsUnderWay
      <4> QED
        BY <4>3 DEF Settles
    <3> QED
      BY <3>2, <3>3
  <2>3. CASE IsTold(d, n)
    <3>1. ~(d = D /\ n = N)
      BY <1>3, <2>3 DEF IsTold, IsOf, D, N
    <3>2. ASSUME NEW j \in 1..Len(t) PROVE ~IsOf(t[j], d, n)
      <4>1. j + 1 \in 1..Len(air) /\ t[j] = air[j + 1]
        BY <1>3
      <4> QED
        BY <2>3, <4>1 DEF IsTold
    <3>3. told'[<<d, n>>] = told[<<d, n>>]
      BY <1>10, <3>1
    <3>4. IsTold(d, n)'
      BY <1>1, <2>3, <3>2, <3>3 DEF IsTold, Formats
    <3> QED
      BY <3>4 DEF Settles
  <2>4. Settles(d, n)
    BY DEF SettleInv
  <2> QED
    BY <2>1, <2>2, <2>3, <2>4 DEF Settles
<1> QED
  BY <1>11, <1>12 DEF SettleInv

(* Each step pushes, sends, reports, changes a device, or is none of these. *)
LEMMA StepKeepsSettled ==
  ASSUME SettleInv, came \in Nat, [Next]_vars
  PROVE  SettleInv'
<1>1. subcmdq \in ReadBack
  BY DEF SettleInv, ClassTypes
<1>2. CASE cmd_in
  <2>1. UNCHANGED <<air, real, told>>
    BY <1>2 DEF cmd_in, devicevars
  <2> QED
    BY <1>1, <1>2, <2>1, ConsolePushes, PushKeepsSettled
<1>3. CASE ubus_receive_event
  <2>1. UNCHANGED <<air, real, told>>
    BY <1>3 DEF ubus_receive_event, devicevars
  <2>2. Len(Requests) \in Nat
    BY UprotoAssumption, LenProperties
  <2> QED
    BY <1>1, <1>3, <2>1, <2>2, BusPushes, PushKeepsSettled
<1>4. CASE UNCHANGED <<subcmdq, air, real, told>>
  <2>1. Pushes
    BY <1>1, <1>4, PushesNothing
  <2> QED
    BY <1>4, <2>1, PushKeepsSettled
<1>5. CASE AppTakes
  <2>1. UNCHANGED <<air, real, told>>
    BY <1>5 DEF AppTakes, devicevars
  <2> QED
    BY <1>1, <1>5, <2>1, TakesPush, PushKeepsSettled
<1>6. CASE AppSends
  BY <1>6, SetKeepsSettled, GetKeepsSettled
<1>7. CASE class_cmd_save
  BY <1>7, SaveKeepsSettled
<1>8. CASE DeviceChanges
  BY <1>8, ChangeKeepsSettled
<1>9. uproto_run \/ Learn \/ UNCHANGED vars => UNCHANGED <<subcmdq, air, real, told>>
  BY DEF uproto_run, Learn, ClassKnown, vars, classvars, devicevars
<1> QED
  BY <1>2, <1>3, <1>4, <1>5, <1>6, <1>7, <1>8, <1>9
     DEF Next, Bus, App, Report, Change

LEMMA SettledAgrees == SettleInv => SettledStoreAgrees
<1> SUFFICES ASSUME SettleInv, subcmdq = <<>>, air = <<>>,
                    NEW d \in Devices, NEW row \in RowsOf(d),
                    row.report = "formats", told[<<d, row.name>>] # NULL
             PROVE  told[<<d, row.name>>] = real[d][row.name]
  BY DEF SettledStoreAgrees
<1>1. row \in classes /\ row.name \in Names
  BY DEF RowsOf, Names
<1>2. Settles(d, row.name)
  BY <1>1 DEF SettleInv
<1>3. ~IsAsked(d, row.name) /\ ~IsUnderWay(d, row.name)
  BY DEF IsAsked, IsUnderWay
<1> QED
  BY <1>1, <1>2, <1>3 DEF Settles, IsTold, Formats

LEMMA CameIsNat ==
  /\ UprotoInit => came \in Nat
  /\ came \in Nat /\ [Next]_vars => came' \in Nat
<1>1. UprotoInit => came \in Nat
  BY DEF UprotoInit
<1>2. ASSUME came \in Nat, [Next]_vars PROVE came' = came \/ came' = came + 1
  BY <1>2 DEF Next, Bus, App, Report, Change, Learn, ubus_receive_event, uproto_run,
     cmd_in, vars, upvars
<1> QED
  BY <1>1, <1>2

(* When nothing is queued for the devices and no report is under way, what *)
(* was reported last of an attribute is what the device has: whatever is   *)
(* set, read, listed, changed or reported, and in whatever order, each set *)
(* is read back after it.                                                  *)
THEOREM StoreAgrees == Spec => []SettledStoreAgrees
<1>1. Init => SettleInv /\ came \in Nat
  BY SettleInit, CameIsNat DEF Init
<1>2. (SettleInv /\ came \in Nat) /\ [Next]_vars => (SettleInv /\ came \in Nat)'
  BY StepKeepsSettled, CameIsNat
<1>3. SettleInv /\ came \in Nat => SettledStoreAgrees
  BY SettledAgrees
<1> QED
  BY <1>1, <1>2, <1>3, PTL DEF Spec

-----------------------------------------------------------------------------
(* The results of the messages of the bus. *)

IsResult(m) == m.type = "cmdResult"

Results(out, id) == {i \in DOMAIN out : out[i].type = "cmdResult" /\ out[i].id = id}

(* What OneResultEach says of one message. *)
Answered(out, id, r) ==
  \/ r.attr = "current_time" /\ r.value = "some"
  \/ /\ Cardinality(Results(out, id)) = IF Owed(r) THEN 1 ELSE 0
     /\ r.command = "getAttribute" =>
          \A i \in Results(out, id) :
            /\ i > 1 /\ out[i - 1].type = "reportAttribute"
            /\ out[i - 1].attr = r.attr

(* What is pushed for a message: nothing, or a result, or what a get asks. *)
Answer(msgs, id, r) ==
  \/ msgs = <<>> /\ ((r.attr = "current_time" /\ r.value = "some") \/ ~Owed(r))
  \/ /\ \E code : msgs = <<uproto_response_ucmd(id, code)>>
     /\ (r.attr = "current_time" /\ r.value = "some") \/ Owed(r)
     /\ r.command # "getAttribute"
  \/ /\ \E value : msgs = GetMessages(id, r.attr, value)
     /\ Owed(r)

LEMMA AnswerIs ==
  ASSUME NEW msgs, NEW id, NEW r, Answer(msgs, id, r)
  PROVE  /\ IsSeq(msgs) /\ Len(msgs) \in Nat
         /\ \A i \in 1..Len(msgs) :
              msgs[i].type = "cmdResult" => msgs[i].id = id /\ i = Len(msgs)
         /\ Len(msgs) = 0
              => (r.attr = "current_time" /\ r.value = "some") \/ ~Owed(r)
         /\ Len(msgs) # 0
              => /\ msgs[Len(msgs)].type = "cmdResult"
                 /\ (r.attr = "current_time" /\ r.value = "some") \/ Owed(r)
                 /\ r.command = "getAttribute"
                      => /\ Len(msgs) = 2
                         /\ msgs[1].type = "reportAttribute"
                         /\ msgs[1].attr = r.attr
<1>1. CASE /\ msgs = <<>>
           /\ (r.attr = "current_time" /\ r.value = "some") \/ ~Owed(r)
  <2>1. IsSeq(msgs) /\ Len(msgs) = 0
    BY <1>1, EmptySeq DEF IsSeq
  <2> QED
    BY <1>1, <2>1
<1>2. CASE /\ \E code : msgs = <<uproto_response_ucmd(id, code)>>
           /\ (r.attr = "current_time" /\ r.value = "some") \/ Owed(r)
           /\ r.command # "getAttribute"
  <2>1. PICK code : msgs = <<uproto_response_ucmd(id, code)>>
    BY <1>2
  <2> DEFINE m == uproto_response_ucmd(id, code)
  <2>2. m.type = "cmdResult" /\ m.id = id
    BY DEF uproto_response_ucmd
  <2> HIDE DEF m
  <2>3. msgs \in Seq({m}) /\ Len(msgs) = 1 /\ msgs[1] = m
    BY <2>1 DEF m
  <2>4. IsSeq(msgs)
    BY <2>3 DEF IsSeq
  <2> QED
    BY <1>2, <2>2, <2>3, <2>4
<1>3. CASE (\E value : msgs = GetMessages(id, r.attr, value)) /\ Owed(r)
  <2>1. PICK value : msgs = GetMessages(id, r.attr, value)
    BY <1>3
  <2> DEFINE m == uproto_report_umsg(r.attr, value)
             n == uproto_response_ucmd(id, 0)
  <2>2. /\ n.type = "cmdResult" /\ n.id = id
        /\ m.type = "reportAttribute" /\ m.attr = r.attr
    BY DEF uproto_response_ucmd, uproto_report_umsg
  <2>3. msgs = <<m, n>>
    BY <2>1 DEF GetMessages
  <2> HIDE DEF m, n
  <2>4. msgs \in Seq({m, n}) /\ Len(msgs) = 2 /\ msgs[1] = m /\ msgs[2] = n
    BY <2>3
  <2>5. IsSeq(msgs)
    BY <2>4 DEF IsSeq
  <2> QED
    BY <1>3, <2>2, <2>4, <2>5
<1> QED
  BY <1>1, <1>2, <1>3 DEF Answer

(* The results so far are of the messages that came. *)
LEMMA OldResults ==
  ASSUME NEW out, NEW msgs, IsSeq(out), IsSeq(msgs), NEW id,
         \A i \in 1..Len(msgs) : msgs[i].type = "cmdResult" => msgs[i].id # id
  PROVE  /\ Results(out \o msgs, id) = Results(out, id)
         /\ \A r : Answered(out, id, r) => Answered(out \o msgs, id, r)
<1> DEFINE all == out \o msgs
           n   == Len(out)
           k   == Len(msgs)
<1>1. /\ n \in Nat /\ k \in Nat /\ DOMAIN out = 1..n /\ DOMAIN all = 1..(n + k)
      /\ \A i \in 1..n : all[i] = out[i]
      /\ \A i \in 1..k : all[n + i] = msgs[i]
  BY SeqsJoin
<1> HIDE DEF all, n
<1>2. ASSUME NEW i \in 1..(n + k), ~(i \in 1..n)
      PROVE  ~(all[i].type = "cmdResult" /\ all[i].id = id)
  <2>1. i - n \in 1..k /\ i = n + (i - n)
    BY <1>1, <1>2
  <2>2. all[i] = msgs[i - n]
    BY <1>1, <2>1
  <2> QED
    BY <2>1, <2>2
<1>3. 1..n \subseteq 1..(n + k)
  BY <1>1
<1>4. Results(all, id) = Results(out, id)
  BY <1>1, <1>2, <1>3 DEF Results
<1>5. ASSUME NEW r, Answered(out, id, r) PROVE Answered(all, id, r)
  <2>1. ASSUME NEW i \in Results(out, id), i > 1 PROVE all[i - 1] = out[i - 1]
    <3>1. i \in 1..n /\ i - 1 \in 1..n
      BY <1>1, <2>1 DEF Results
    <3> QED
      BY <1>1, <3>1
  <2> QED
    BY <1>4, <1>5, <2>1 DEF Answered
<1> QED
  BY <1>4, <1>5 DEF all

LEMMA NewResult ==
  ASSUME NEW out, NEW msgs, IsSeq(out), NEW id, NEW r,
         Results(out, id) = {}, Answer(msgs, id, r)
  PROVE  Answered(out \o msgs, id, r)
<1> DEFINE all == out \o msgs
           n   == Len(out)
           k   == Len(msgs)
           ex  == r.attr = "current_time" /\ r.value = "some"
<1>1. /\ IsSeq(msgs)
      /\ \A i \in 1..k : msgs[i].type = "cmdResult" => msgs[i].id = id /\ i = k
      /\ k = 0 => ex \/ ~Owed(r)
      /\ k # 0 => /\ msgs[k].type = "cmdResult"
                  /\ ex \/ Owed(r)
                  /\ r.command = "getAttribute"
                       => /\ k = 2 /\ msgs[1].type = "reportAttribute"
                          /\ msgs[1].attr = r.attr
  BY AnswerIs
<1>2. /\ n \in Nat /\ k \in Nat /\ DOMAIN out = 1..n /\ DOMAIN all = 1..(n + k)
      /\ \A i \in 1..n : all[i] = out[i]
      /\ \A i \in 1..k : all[n + i] = msgs[i]
  BY <1>1, SeqsJoin
<1>3. ASSUME ex PROVE Answered(all, id, r)
  BY <1>3 DEF Answered
<1> SUFFICES Answered(all, id, r)
  OBVIOUS
<1> HIDE DEF all, n, ex, k
<1>4. ASSUME NEW i \in Results(all, id) PROVE k # 0 /\ i = n + k
  <2>1. i \in 1..(n + k) /\ all[i].type = "cmdResult" /\ all[i].id = id
    BY <1>2 DEF Results
  <2>2. ~(i \in 1..n)
    BY <1>2, <2>1 DEF Results
  <2>3. i - n \in 1..k /\ i = n + (i - n)
    BY <1>2, <2>1, <2>2
  <2>4. msgs[i - n] = all[i]
    BY <1>2, <2>3
  <2>5. i - n = k
    BY <1>1, <2>1, <2>3, <2>4
  <2> QED
    BY <1>2, <2>3, <2>5
<1>5. CASE k = 0 /\ ~ex
  <2>1. Results(all, id) = {}
    BY <1>4, <1>5
  <2>2. Cardinality(Results(all, id)) = 0
    BY <2>1, FS_EmptySet
  <2>3. ~Owed(r)
    BY <1>1, <1>5
  <2> QED
    BY <2>1, <2>2, <2>3 DEF Answered
<1>6. CASE k # 0 /\ ~ex
  <2>1. /\ n + k \in 1..(n + k) /\ k \in 1..k /\ all[n + k] = msgs[k]
    BY <1>2, <1>6
  <2>2. n + k \in Results(all, id)
    BY <1>1, <1>2, <1>6, <2>1 DEF Results
  <2>3. Results(all, id) = {n + k}
    BY <1>4, <2>2
  <2>4. Cardinality(Results(all, id)) = 1
    BY <2>3, FS_Singleton
  <2>5. Owed(r)
    BY <1>1, <1>6
  <2>6. ASSUME r.command = "getAttribute", NEW i \in Results(all, id)
        PROVE  /\ i > 1 /\ all[i - 1].type = "reportAttribute"
               /\ all[i - 1].attr = r.attr
    <3>1. k = 2 /\ i = n + 2 /\ i - 1 = n + 1 /\ 1 \in 1..k
      BY <1>1, <1>2, <1>6, <2>3, <2>6
    <3>2. all[i - 1] = msgs[1]
      BY <1>2, <3>1
    <3> QED
      BY <1>1, <1>2, <1>6, <2>6, <3>1, <3>2
  <2> QED
    BY <2>4, <2>5, <2>6 DEF Answered
<1> QED
  BY <1>3, <1>5, <1>6

(* What a handler pushes is an answer to its message. *)
LEMMA HandlerAnswers ==
  ASSUME NEW id \in Nat, NEW i \in 1..Len(Requests),
         uproto_handler_cmd(id, Requests[i])
  PROVE  \E msgs : Answer(msgs, id, Requests[i]) /\ uproto_push_msg(msgs)
<1> DEFINE r == Requests[i]
<1>1. r.value \in {"none", "some"} \cup Values
  BY RequestIs
<1>2. uproto_handler_cmd(id, r)
  OBVIOUS
<1> HIDE DEF r
<1>3. {"none", "some"} \cap Values = {}
  BY UprotoAssumption
<1>4. CASE uproto_push_msg(<<>>)
           /\ ((r.attr = "current_time" /\ r.value = "some") \/ ~Owed(r))
  BY <1>4 DEF Answer, r
<1>5. CASE /\ \E code : uproto_push_msg(<<uproto_response_ucmd(id, code)>>)
           /\ (r.attr = "current_time" /\ r.value = "some") \/ Owed(r)
           /\ r.command # "getAttribute"
  BY <1>5 DEF Answer, r
<1>6. CASE (\E value : uproto_push_msg(GetMessages(id, r.attr, value))) /\ Owed(r)
  BY <1>6 DEF Answer, r
<1>7. CASE ~IsForUs(r)
  <2>1. ~Owed(r)
    BY <1>7 DEF IsForUs, Owed
  <2> QED
    BY <1>2, <1>4, <1>7, <2>1 DEF uproto_handler_cmd
<1>8. CASE IsForUs(r) /\ r.command \notin {"getAttribute", "setAttribute"}
  <2>1. ~Owed(r)
    BY <1>8 DEF Owed
  <2> QED
    BY <1>2, <1>4, <1>8, <2>1 DEF uproto_handler_cmd
<1>9. CASE IsForUs(r) /\ r.command = "getAttribute"
  <2>1. uproto_cmd_handler_attr_get(id, r)
    BY <1>2, <1>9 DEF uproto_handler_cmd
  <2>2. Owed(r) <=> r.attr \in Getters
    BY <1>9 DEF Owed, IsForUs
  <2>3. CASE r.attr \in Getters
    <3>1. \E value : uproto_push_msg(GetMessages(id, r.attr, value))
      BY <2>1, <2>3 DEF uproto_cmd_handler_attr_get
    <3> QED
      BY <1>6, <2>2, <2>3, <3>1
  <2>4. CASE r.attr \notin Getters
    <3>1. r.attr # "device_list"
      BY <2>4 DEF Getters
    <3>2. uproto_push_msg(<<>>)
      BY <2>1, <2>4, <3>1 DEF uproto_cmd_handler_attr_get
    <3> QED
      BY <1>4, <2>2, <2>4, <3>2
  <2> QED
    BY <2>3, <2>4
<1>10. CASE IsForUs(r) /\ r.command = "setAttribute"
  <2> DEFINE needs  == r.attr \in DOMAIN Setters /\ Setters[r.attr].needs
             result == <<uproto_response_ucmd(id, Setters[r.attr].code)>>
  <2>1. uproto_cmd_handler_attr_set(id, r)
    BY <1>2, <1>10 DEF uproto_handler_cmd
  <2>2. r.command # "getAttribute"
    BY <1>10
  <2>3. Owed(r) <=> /\ r.attr \in DOMAIN Setters
                    /\ r.value \in Values \/ r.attr \in NeedNoValue
    BY <1>10 DEF Owed, IsForUs, NeedNoValue
  <2>4. r.attr \in DOMAIN Setters => (needs <=> r.attr \notin NeedNoValue)
    <3>1. ASSUME NEW a \in DOMAIN Setters PROVE Setters[a].needs <=> a \notin NeedNoValue
      BY DEF Setters
    <3> QED
      BY <3>1
  <2>5. CASE r.attr \notin DOMAIN Setters \/ (needs /\ r.value = "none")
    <3>1. uproto_push_msg(<<>>)
      BY <2>1, <2>5 DEF uproto_cmd_handler_attr_set
    <3>2. ~Owed(r)
      BY <1>3, <2>3, <2>4, <2>5
    <3> QED
      BY <1>4, <3>1, <3>2
  <2>6. CASE /\ r.attr \in DOMAIN Setters /\ ~(needs /\ r.value = "none")
             /\ needs /\ r.value = "some"
    <3>1. ~Owed(r)
      BY <1>3, <2>3, <2>4, <2>6
    <3>2. \/ uproto_push_msg(<<>>)
          \/ r.attr = "current_time" /\ uproto_push_msg(result)
      BY <2>1, <2>6 DEF uproto_cmd_handler_attr_set
    <3> HIDE DEF needs
    <3> QED
      BY <1>4, <1>5, <2>2, <2>6, <3>1, <3>2
  <2>7. CASE /\ r.attr \in DOMAIN Setters /\ ~(needs /\ r.value = "none")
             /\ ~(needs /\ r.value = "some")
    <3>1. Owed(r)
      BY <1>1, <2>3, <2>4, <2>7
    <3>2. uproto_push_msg(result)
      BY <2>1, <2>7 DEF uproto_cmd_handler_attr_set
    <3> HIDE DEF needs
    <3> QED
      BY <1>5, <2>2, <3>1, <3>2
  <2> QED
    BY <2>5, <2>6, <2>7
<1> QED
  BY <1>7, <1>8, <1>9, <1>10

EachAnswered == \A id \in 1..came : Answered(sent \o msgq, id, Requests[id])

FatalIsLast == \A id \in 1..came : Fatal(Requests[id]) => ~alive /\ id = came

ResultInv ==
  /\ IsSeq(sent) /\ IsSeq(msgq) /\ came \in 0..Len(Requests)
  /\ \A i \in DOMAIN (sent \o msgq) :
       (sent \o msgq)[i].type = "cmdResult" => (sent \o msgq)[i].id \in 1..came
  /\ EachAnswered

LEMMA ResultInit == UprotoInit => ResultInv
<1> SUFFICES ASSUME UprotoInit PROVE ResultInv
  OBVIOUS
<1>1. sent = <<>> /\ msgq = <<>> /\ came = 0 /\ sent \o msgq = <<>>
  BY ConcatEmptySeq, EmptySeq DEF UprotoInit
<1>2. IsSeq(<<>>)
  BY EmptySeq DEF IsSeq
<1>3. Len(Requests) \in Nat
  BY UprotoAssumption, LenProperties
<1>4. DOMAIN (sent \o msgq) = {} /\ 1..came = {}
  BY <1>1
<1> QED
  BY <1>1, <1>2, <1>3, <1>4 DEF ResultInv, EachAnswered

LEMMA OneEach == EachAnswered /\ FatalIsLast => OneResultEach
BY DEF OneResultEach, EachAnswered, FatalIsLast, Answered, Results

(* The daemon takes no message after one that it dies of.                  *)
LEMMA FatalStaysLast ==
  ASSUME came \in Nat, FatalIsLast, [Next]_vars
  PROVE  FatalIsLast'
<1>1. CASE UNCHANGED vars
  BY <1>1 DEF vars, upvars, FatalIsLast
<1>2. CASE Next
  <2>1. ASSUME NEW id \in 1..came PROVE ~Fatal(Requests[id])
    BY <1>2 DEF Next, FatalIsLast
  <2>2. CASE UNCHANGED came
    BY <2>1, <2>2 DEF FatalIsLast
  <2>3. CASE ubus_receive_event
    <3>1. came' = came + 1 /\ alive' = ~CallsNull(Requests[came'])
      BY <2>3 DEF ubus_receive_event
    <3>2. ASSUME NEW r, Fatal(r) PROVE CallsNull(r)
      BY <3>2 DEF Fatal, CallsNull, IsForUs
    <3>3. ASSUME NEW id \in 1..came' PROVE id \in 1..came \/ id = came'
      BY <3>1
    <3> QED
      BY <2>1, <3>1, <3>2, <3>3 DEF FatalIsLast
  <2> QED
    BY <1>2, <2>2, <2>3
       DEF Next, Bus, App, Report, Change, Learn, uproto_run, cmd_in, upvars
<1> QED
  BY <1>1, <1>2

LEMMA SameResults ==
  ASSUME ResultInv, UNCHANGED <<came, sent \o msgq>>, IsSeq(sent'), IsSeq(msgq')
  PROVE  ResultInv'
<1>1. \A id \in 1..came : Answered(sent \o msgq, id, Requests[id])
  BY DEF ResultInv, EachAnswered
<1>2. came' = came /\ sent' \o msgq' = sent \o msgq
  OBVIOUS
<1>3. \A id \in 1..came' : Answered(sent' \o msgq', id, Requests[id])
  BY <1>1, <1>2
<1>4. EachAnswered'
  BY <1>3 DEF EachAnswered, Answered, Results
<1>5. \A i \in DOMAIN (sent' \o msgq') :
        (sent' \o msgq')[i].type = "cmdResult"
          => (sent' \o msgq')[i].id \in 1..came'
  BY <1>2 DEF ResultInv
<1>6. came' \in 0..Len(Requests)
  BY <1>2 DEF ResultInv
<1> QED
  BY <1>4, <1>5, <1>6 DEF ResultInv

(* A message comes: its handler answers it, and it alone. *)
LEMMA BusKeepsResults ==
  ASSUME ResultInv, ubus_receive_event
  PROVE  ResultInv'
<1>1. came < Len(Requests) /\ came' = came + 1 /\ sent' = sent
  BY DEF ubus_receive_event
<1>2. came \in Nat /\ came' \in 1..Len(Requests) /\ Len(Requests) \in Nat
  <2>1. Len(Requests) \in Nat
    BY UprotoAssumption, LenProperties
  <2> QED
    BY <1>1, <2>1 DEF ResultInv
<1>3. PICK id \in 1..Len(Requests) : id = came'
  BY <1>2
<1>4. uproto_handler_cmd(id, Requests[id])
  BY <1>3 DEF ubus_receive_event
<1>5. PICK msgs : Answer(msgs, id, Requests[id]) /\ uproto_push_msg(msgs)
  BY <1>2, <1>4, HandlerAnswers
<1> DEFINE out == sent \o msgq
           all == out \o msgs
<1>6. /\ IsSeq(msgs) /\ Len(msgs) \in Nat
      /\ \A i \in 1..Len(msgs) : msgs[i].type = "cmdResult" => msgs[i].id = id
  BY <1>5, AnswerIs
<1>7. msgq' = msgq \o msgs
  BY <1>5 DEF uproto_push_msg
<1>8. IsSeq(out) /\ IsSeq(msgq')
  BY <1>6, <1>7, SeqsJoin DEF ResultInv
<1>9. all = sent' \o msgq'
  <2>1. (sent \o msgq) \o msgs = sent \o (msgq \o msgs)
    <3>1. IsSeq(sent) /\ IsSeq(msgq) /\ IsSeq(msgs)
      BY <1>6 DEF ResultInv
    <3> QED
      BY ONLY <3>1, SeqsAssociate
  <2> QED
    BY <1>1, <1>7, <2>1
<1>10. /\ \A i \in DOMAIN out : out[i].type = "cmdResult" => out[i].id \in 1..came
       /\ \A j \in 1..came : Answered(out, j, Requests[j])
  BY DEF ResultInv, EachAnswered
<1>11. /\ DOMAIN out = 1..Len(out) /\ Len(out) \in Nat
       /\ DOMAIN all = 1..(Len(out) + Len(msgs))
       /\ \A i \in 1..Len(out) : all[i] = out[i]
       /\ \A i \in 1..Len(msgs) : all[Len(out) + i] = msgs[i]
  BY <1>6, <1>8, SeqsJoin
<1>12. Results(out, id) = {}
  <2>1. ~(id \in 1..came)
    BY <1>1, <1>2, <1>3
  <2> HIDE DEF out
  <2> QED
    BY <1>10, <2>1 DEF Results
<1>13. Answered(all, id, Requests[id])
  <2> HIDE DEF out
  <2> QED
    BY <1>5, <1>8, <1>12, NewResult
<1>14. ASSUME NEW j \in 1..came PROVE Answered(all, j, Requests[j])
  <2>1. j # id
    BY <1>1, <1>2, <1>3
  <2>2. Answered(out, j, Requests[j])
    BY <1>10
  <2>3. \A i \in 1..Len(msgs) : msgs[i].type = "cmdResult" => msgs[i].id # j
    BY <1>6, <2>1
  <2> HIDE DEF out
  <2> QED
    BY <1>6, <1>8, <2>2, <2>3, OldResults
<1>15. ASSUME NEW i \in DOMAIN all, all[i].type = "cmdResult"
       PROVE  all[i].id \in 1..came'
  <2> HIDE DEF out, all
  <2>1. CASE i \in 1..Len(out)
    BY <1>1, <1>2, <1>10, <1>11, <1>15, <2>1
  <2>2. CASE ~(i \in 1..Len(out))
    <3> DEFINE j == i - Len(out)
    <3>1. j \in 1..Len(msgs) /\ i = Len(out) + j
      BY <1>6, <1>11, <1>15, <2>2
    <3> HIDE DEF j
    <3>2. all[i] = msgs[j]
      BY <1>11, <3>1
    <3> QED
      BY <1>2, <1>3, <1>6, <1>15, <3>1, <3>2
  <2> QED
    BY <2>1, <2>2
<1> HIDE DEF all, out
<1>16. \A j \in 1..came' : Answered(sent' \o msgq', j, Requests[j])
  <2>1. \A j \in 1..came' : j = id \/ j \in 1..came
    BY <1>1, <1>2, <1>3
  <2> QED
    BY <1>9, <1>13, <1>14, <2>1
<1>17. EachAnswered'
  BY <1>16 DEF EachAnswered, Answered, Results
<1>18. came' \in 0..Len(Requests)
  BY <1>2
<1>19. IsSeq(sent')
  BY <1>1 DEF ResultInv
<1> QED
  BY <1>8, <1>9, <1>15, <1>17, <1>18, <1>19 DEF ResultInv

(* The timer fires: the first of the queue goes out. *)
LEMMA RunKeepsResults ==
  ASSUME ResultInv, uproto_run
  PROVE  ResultInv'
<1>1. UNCHANGED came
  BY DEF uproto_run
<1>2. CASE msgq = <<>>
  <2>1. UNCHANGED <<msgq, sent>>
    BY <1>2 DEF uproto_run
  <2> QED
    BY <1>1, <2>1, SameResults DEF ResultInv
<1>3. CASE msgq # <<>>
  <2> DEFINE m == Head(msgq)
             t == Tail(msgq)
  <2>1. sent' = Append(sent, m) /\ msgq' = t
    BY <1>3 DEF uproto_run
  <2>2. PICK S, T : sent \in Seq(S) /\ msgq \in Seq(T)
    BY DEF ResultInv, IsSeq
  <2> DEFINE U == S \cup T
  <2>3. sent \in Seq(U) /\ msgq \in Seq(U)
    BY <2>2
  <2> HIDE DEF U
  <2>4. m \in U /\ t \in Seq(U)
    BY <1>3, <2>3, HeadTailProperties
  <2>5. msgq = <<m>> \o t /\ Append(sent, m) = sent \o <<m>>
    BY <1>3, <2>3, <2>4
  <2> HIDE DEF m, t
  <2>6. <<m>> \in Seq(U)
    BY <2>4
  <2>7. (sent \o <<m>>) \o t = sent \o (<<m>> \o t)
    BY <2>3, <2>4, <2>6, ConcatAssociative
  <2>8. sent' \o msgq' = sent \o msgq
    BY <2>1, <2>5, <2>7
  <2>9. sent' \in Seq(U) /\ msgq' \in Seq(U)
    BY <2>1, <2>3, <2>4
  <2>10. IsSeq(sent') /\ IsSeq(msgq')
    BY <2>9 DEF IsSeq
  <2> QED
    BY <1>1, <2>8, <2>10, SameResults
<1> QED
  BY <1>2, <1>3

LEMMA StepKeepsResults ==
  ASSUME ResultInv, [Next]_vars
  PROVE  ResultInv'
<1>1. UNCHANGED upvars => ResultInv'
  BY SameResults DEF upvars, ResultInv
<1>2. Next => UNCHANGED upvars \/ ubus_receive_event \/ uproto_run
  BY DEF Next, Bus, cmd_in, App, Report, Learn, Change
<1> QED
  BY <1>1, <1>2, BusKeepsResults, RunKeepsResults DEF vars

(* Each message of the bus that the daemon can serve has its one result in *)
(* what has gone out and what waits to, with the report of a get directly  *)
(* before it, and no other message has one: the handlers of uproto.c push  *)
(* to the end and uproto_run takes from the front, one at a time.  A       *)
(* message whose handler is the NULL of uattrcmds is the last one.         *)
THEOREM ResultsAreOne == Spec => []OneResultEach
<1> DEFINE Inv == ResultInv /\ FatalIsLast
<1>1. Init => Inv
  <2>1. UprotoInit => FatalIsLast
    BY DEF UprotoInit, FatalIsLast
  <2> QED
    BY <2>1, ResultInit DEF Init
<1>2. Inv /\ [Next]_vars => Inv'
  <2>1. ResultInv => came \in Nat
    BY DEF ResultInv
  <2> QED
    BY <2>1, StepKeepsResults, FatalStaysLast
<1>3. Inv => OneResultEach
  BY OneEach DEF ResultInv
<1> HIDE DEF Inv
<1> QED
  BY <1>1, <1>2, <1>3, PTL DEF Spec

-----------------------------------------------------------------------------
(* The two kinds of hash maps of the store: that of the devices, and those *)
(* of their attributes.  (The proofs about maps have variables, which do   *)
(* not matter here.)                                                       *)
Kept == Values \cup {Uninit}

DevMap == INSTANCE StoreProofs
            WITH Keys <- Dids, Data <- Dids, Hashes <- {DevHash},
                 Initial <- DevSlots, map <- memory, walk <- memory,
                 at <- memory, due <- memory

AttrMap == INSTANCE StoreProofs
             WITH Keys <- Names, Data <- Kept, Hashes <- {AttrHash},
                  Initial <- AttrSlots, map <- memory, walk <- memory,
                  at <- memory, due <- memory

(* The tables are made with twice the slots that there can be entries.     *)
RoomForAll ==
  /\ 2 * Cardinality(Dids) <= hashmap_table_size_calc(DevSlots)
  /\ 2 * Cardinality(Names) <= hashmap_table_size_calc(AttrSlots)

(* A map is the same in either.                                            *)
LEMMA SameDevMap ==
  /\ \A m, k : DevMap!hashmap_get(m, k) = hashmap_get(m, k)
  /\ \A m, k, d : DevMap!hashmap_put(m, k, d) = hashmap_put(m, k, d)
  /\ \A m, k : DevMap!hashmap_remove(m, k) = hashmap_remove(m, k)
  /\ \A h, n : DevMap!hashmap_init(h, n) = hashmap_init(h, n)
<1>1. \A m : DevMap!Size(m) = Size(m)
  BY DEF DevMap!Size, Size, DevMap!Cardinality, Cardinality
<1>2. \A m, k : DevMap!Find(m, k) = Find(m, k)
  BY DEF DevMap!Find, Find, DevMap!Home, Home, DevMap!Min, Min, DevMap!Size,
     Size, DevMap!Cardinality, Cardinality, DevMap!SizeMod, SizeMod
<1>3. \A m, k : DevMap!hashmap_get(m, k) = hashmap_get(m, k)
  BY <1>2 DEF DevMap!hashmap_get, hashmap_get
<1>4. \A m, s : DevMap!hashmap_entry_remove(m, s) = hashmap_entry_remove(m, s)
  BY DEF DevMap!hashmap_entry_remove, hashmap_entry_remove, DevMap!Emptied,
     Emptied, DevMap!Shifted, Shifted, DevMap!IndexLE, IndexLE, DevMap!Home,
     Home, DevMap!Min, Min, DevMap!Empty, Empty, DevMap!Size, Size,
     DevMap!Cardinality, Cardinality, DevMap!SizeMod, SizeMod
<1>5. \A m, k : DevMap!hashmap_remove(m, k) = hashmap_remove(m, k)
  BY <1>2, <1>4 DEF DevMap!hashmap_remove, hashmap_remove, DevMap!Finds, Finds
<1>6. \A m, s : DevMap!hashmap_rehash(m, s) = hashmap_rehash(m, s)
  BY DEF DevMap!hashmap_rehash, hashmap_rehash, DevMap!Cleared, Cleared,
     DevMap!Empty, Empty, DevMap!Find, Find, DevMap!Home, Home, DevMap!Min,
     Min, DevMap!Size, Size, DevMap!Cardinality, Cardinality,
     DevMap!SizeMod, SizeMod
<1>7. \A m : DevMap!MakeRoom(m) = MakeRoom(m)
  BY <1>1, <1>6 DEF DevMap!MakeRoom, MakeRoom, DevMap!hashmap_table_min_size_calc,
     hashmap_table_min_size_calc
<1>8. \A m, s, k, d : DevMap!PutInto(m, s, k, d) = PutInto(m, s, k, d)
  BY DEF DevMap!PutInto, PutInto
<1>9. ASSUME NEW m, NEW k, NEW d
      PROVE  DevMap!hashmap_put(m, k, d) = hashmap_put(m, k, d)
  BY <1>1, <1>2, <1>6, <1>7, <1>8, Zenon
     DEF DevMap!hashmap_put, hashmap_put
<1>10. \A n : DevMap!hashmap_table_size_calc(n) = hashmap_table_size_calc(n)
  BY DEF DevMap!hashmap_table_size_calc, hashmap_table_size_calc,
     DevMap!hashmap_table_min_size_calc, hashmap_table_min_size_calc,
     DevMap!Min, Min, DevMap!Doublings, Doublings
<1>11. \A h, n : DevMap!hashmap_init(h, n) = hashmap_init(h, n)
  BY <1>10 DEF DevMap!hashmap_init, hashmap_init, DevMap!Cleared, Cleared,
     DevMap!Empty, Empty
<1> QED
  BY <1>3, <1>5, <1>9, <1>11

LEMMA SameAttrMap ==
  /\ \A m, k : AttrMap!hashmap_get(m, k) = hashmap_get(m, k)
  /\ \A m, k, d : AttrMap!hashmap_put(m, k, d) = hashmap_put(m, k, d)
  /\ \A m, k : AttrMap!hashmap_remove(m, k) = hashmap_remove(m, k)
  /\ \A h, n : AttrMap!hashmap_init(h, n) = hashmap_init(h, n)
<1>1. \A m : AttrMap!Size(m) = Size(m)
  BY DEF AttrMap!Size, Size, AttrMap!Cardinality, Cardinality
<1>2. \A m, k : AttrMap!Find(m, k) = Find(m, k)
  BY DEF AttrMap!Find, Find, AttrMap!Home, Home, AttrMap!Min, Min,
     AttrMap!Size, Size, AttrMap!Cardinality, Cardinality, AttrMap!SizeMod,
     SizeMod
<1>3. \A m, k : AttrMap!hashmap_get(m, k) = hashmap_get(m, k)
  BY <1>2 DEF AttrMap!hashmap_get, hashmap_get
<1>4. \A m, s : AttrMap!hashmap_entry_remove(m, s) = hashmap_entry_remove(m, s)
  BY DEF AttrMap!hashmap_entry_remove, hashmap_entry_remove,
     AttrMap!Emptied, Emptied, AttrMap!Shifted, Shifted, AttrMap!IndexLE,
     IndexLE, AttrMap!Home, Home, AttrMap!Min, Min, AttrMap!Empty, Empty,
     AttrMap!Size, Size, AttrMap!Cardinality, Cardinality, AttrMap!SizeMod,
     SizeMod
<1>5. \A m, k : AttrMap!hashmap_remove(m, k) = hashmap_remove(m, k)
  BY <1>2, <1>4 DEF AttrMap!hashmap_remove, hashmap_remove, AttrMap!Finds, Finds
<1>6. \A m, s : AttrMap!hashmap_rehash(m, s) = hashmap_rehash(m, s)
  BY DEF AttrMap!hashmap_rehash, hashmap_rehash, AttrMap!Cleared, Cleared,
     AttrMap!Empty, Empty, AttrMap!Find, Find, AttrMap!Home, Home,
     AttrMap!Min, Min, AttrMap!Size, Size, AttrMap!Cardinality, Cardinality,
     AttrMap!SizeMod, SizeMod
<1>7. \A m : AttrMap!MakeRoom(m) = MakeRoom(m)
  BY <1>1, <1>6 DEF AttrMap!MakeRoom, MakeRoom, AttrMap!hashmap_table_min_size_calc,
     hashmap_table_min_size_calc
<1>8. \A m, s, k, d : AttrMap!PutInto(m, s, k, d) = PutInto(m, s, k, d)
  BY DEF AttrMap!PutInto, PutInto
<1>9. ASSUME NEW m, NEW k, NEW d
      PROVE  AttrMap!hashmap_put(m, k, d) = hashmap_put(m, k, d)
  BY <1>1, <1>2, <1>6, <1>7, <1>8, Zenon
     DEF AttrMap!hashmap_put, hashmap_put
<1>10. \A n : AttrMap!hashmap_table_size_calc(n) = hashmap_table_size_calc(n)
  BY DEF AttrMap!hashmap_table_size_calc, hashmap_table_size_calc,
     AttrMap!hashmap_table_min_size_calc, hashmap_table_min_size_calc,
     AttrMap!Min, Min, AttrMap!Doublings, Doublings
<1>11. \A h, n : AttrMap!hashmap_init(h, n) = hashmap_init(h, n)
  BY <1>10 DEF AttrMap!hashmap_init, hashmap_init, AttrMap!Cleared, Cleared,
     AttrMap!Empty, Empty
<1> QED
  BY <1>3, <1>5, <1>9, <1>11

(* What is assumed of the maps is what is assumed here.                    *)
LEMMA CharIs ==
  /\ \A d \in Devices : AsChar(d) \in Dids
  /\ \A d \in Devices : AsChar(d) = d \/ AsChar(d) \notin Devices
  /\ \A d, e \in Devices : AsChar(d) = AsChar(e) => d = e
<1>1. Devices \subseteq 2..232
  BY ClassCmdAssumption
<1>2. \A d, e \in 2..232 : AsChar(d) = AsChar(e) => d = e
  BY DEF AsChar
<1>3. \A d \in 2..232 : AsChar(d) = d \/ AsChar(d) \notin 2..232
  BY DEF AsChar
<1>4. \A d \in Devices : AsChar(d) \in Dids
  BY DEF Dids
<1> QED
  BY <1>1, <1>2, <1>3, <1>4

LEMMA DevMapUse ==
  /\ DevMap!UseAssumption /\ DevMap!HashmapAssumption
  /\ RoomForAll => DevMap!Roomy(DevMap!TableSize)
<1>1. /\ IsFiniteSet(Dids) /\ NULL \notin Dids \cup Nat
      /\ DevSlots \in 1..256 /\ \A d \in Dids : DevHash[d] \in Nat
  <2>1. Devices \subseteq 2..232 /\ IsFiniteSet(Devices) /\ NULL \notin Int
    BY ClassCmdAssumption
  <2> DEFINE chars == {AsChar(d) : d \in Devices}
             f == [d \in Devices |-> AsChar(d)]
  <2>2. IsFiniteSet(chars)
    <3>1. f \in Surjection(Devices, chars)
      BY DEF Surjection
    <3> HIDE DEF f, chars
    <3> QED
      BY <2>1, <3>1, FS_Surjection, Zenon
  <2>3. Dids = Devices \cup chars
    BY DEF Dids
  <2>4. \A d \in 2..232 : d \in Int /\ AsChar(d) \in Int
    BY DEF AsChar
  <2>5. chars \subseteq Int /\ Devices \subseteq Int
    <3>1. \A d \in Devices : d \in 2..232
      BY <2>1
    <3>2. \A d \in Devices : d \in Int /\ AsChar(d) \in Int
      BY <2>4, <3>1, Zenon
    <3> QED
      BY <3>2
  <2> HIDE DEF chars
  <2>6. IsFiniteSet(Dids)
    BY <2>1, <2>2, <2>3, FS_Union
  <2>7. NULL \notin Dids \cup Nat
    <3>1. Dids \subseteq Int /\ Nat \subseteq Int
      BY <2>3, <2>5
    <3> QED
      BY <2>1, <3>1, Zenon
  <2> QED
    BY <2>6, <2>7, ClassCmdAssumption
<1>2. DevMap!IsFiniteSet(Dids) /\ DevMap!Cardinality(Dids) = Cardinality(Dids)
  BY <1>1 DEF DevMap!IsFiniteSet, IsFiniteSet, DevMap!Cardinality, Cardinality
<1>3. DevMap!HashmapAssumption
  BY HashmapAssumption DEF DevMap!Doublings, Doublings
<1>4. DevMap!UseAssumption
  BY <1>1, <1>2
<1>5. DevMap!TableSize = hashmap_table_size_calc(DevSlots)
  BY DEF DevMap!TableSize, DevMap!hashmap_table_size_calc, hashmap_table_size_calc,
     DevMap!hashmap_table_min_size_calc, hashmap_table_min_size_calc, DevMap!Min, Min,
     DevMap!Doublings, Doublings
<1>6. RoomForAll => DevMap!Roomy(DevMap!TableSize)
  BY <1>2, <1>5 DEF RoomForAll, DevMap!Roomy
<1> QED
  BY <1>3, <1>4, <1>6

LEMMA NamesAreFinite == IsFiniteSet(Names)
<1> DEFINE f == [row \in classes |-> row.name]
<1>1. IsFiniteSet(classes)
  BY ClassesAre
<1>2. f \in Surjection(classes, Names)
  BY DEF Surjection, Names
<1> HIDE DEF f
<1> QED
  BY <1>1, <1>2, FS_Surjection, Zenon

LEMMA AttrMapUse ==
  /\ AttrMap!UseAssumption /\ AttrMap!HashmapAssumption
  /\ RoomForAll => AttrMap!Roomy(AttrMap!TableSize)
<1>1. /\ IsFiniteSet(Names) /\ NULL \notin Names \cup Kept \cup Nat
      /\ AttrSlots \in 1..256 /\ \A n \in Names : AttrHash[n] \in Nat
  BY NamesAreFinite, ClassCmdAssumption DEF Kept
<1>2. AttrMap!IsFiniteSet(Names) /\ AttrMap!Cardinality(Names) = Cardinality(Names)
  BY <1>1 DEF AttrMap!IsFiniteSet, IsFiniteSet, AttrMap!Cardinality, Cardinality
<1>3. AttrMap!HashmapAssumption
  BY HashmapAssumption DEF AttrMap!Doublings, Doublings
<1>4. AttrMap!UseAssumption
  BY <1>1, <1>2
<1>5. AttrMap!TableSize = hashmap_table_size_calc(AttrSlots)
  BY DEF AttrMap!TableSize, AttrMap!hashmap_table_size_calc, hashmap_table_size_calc,
     AttrMap!hashmap_table_min_size_calc, hashmap_table_min_size_calc, AttrMap!Min, Min,
     AttrMap!Doublings, Doublings
<1>6. RoomForAll => AttrMap!Roomy(AttrMap!TableSize)
  BY <1>2, <1>5 DEF RoomForAll, AttrMap!Roomy
<1> QED
  BY <1>3, <1>4, <1>6

(* What the maps do, in the names of the store.                            *)
LEMMA DevMaps ==
  ASSUME RoomForAll
  PROVE  /\ hashmap_init(DevHash, DevSlots) \in DevMap!InOrder
         /\ \A d \in Dids : hashmap_get(hashmap_init(DevHash, DevSlots), d) = NULL
         /\ \A m \in DevMap!InOrder, d \in Dids : hashmap_get(m, d) = NULL =>
              /\ hashmap_put(m, d, d) \in DevMap!InOrder
              /\ \A e \in Dids : hashmap_get(hashmap_put(m, d, d), e) =
                                      IF e = d THEN d ELSE hashmap_get(m, e)
<1>1. /\ DevMap!UseAssumption /\ DevMap!HashmapAssumption
      /\ DevMap!Roomy(DevMap!TableSize)
  BY DevMapUse
<1> DEFINE i == DevMap!hashmap_init(DevHash, DevSlots)
<1>2. /\ i \in DevMap!InOrder
      /\ \A d \in Dids : DevMap!hashmap_get(i, d) = NULL
  BY <1>1, DevMap!FreshIs
<1>3. ASSUME NEW m \in DevMap!InOrder, NEW d \in Dids,
             DevMap!hashmap_get(m, d) = NULL
      PROVE  /\ DevMap!hashmap_put(m, d, d) \in DevMap!InOrder
             /\ \A e \in Dids : DevMap!hashmap_get(DevMap!hashmap_put(m, d, d), e) =
                                     IF e = d THEN d ELSE DevMap!hashmap_get(m, e)
  BY <1>1, <1>3, DevMap!AddedIs
<1>4. hashmap_init(DevHash, DevSlots) \in DevMap!InOrder
  BY <1>2, SameDevMap
<1>5. \A d \in Dids : hashmap_get(hashmap_init(DevHash, DevSlots), d) = NULL
  BY <1>2, SameDevMap
<1>6. ASSUME NEW m \in DevMap!InOrder, NEW d \in Dids, hashmap_get(m, d) = NULL
      PROVE  /\ hashmap_put(m, d, d) \in DevMap!InOrder
             /\ \A e \in Dids : hashmap_get(hashmap_put(m, d, d), e) =
                                     IF e = d THEN d ELSE hashmap_get(m, e)
  <2>1. DevMap!hashmap_get(m, d) = NULL
    BY <1>6, SameDevMap
  <2> QED
    BY <1>3, <2>1, SameDevMap
<1> QED
  BY <1>4, <1>5, <1>6

LEMMA AttrMaps ==
  ASSUME RoomForAll
  PROVE  /\ hashmap_init(AttrHash, AttrSlots) \in AttrMap!InOrder
         /\ \A n \in Names : hashmap_get(hashmap_init(AttrHash, AttrSlots), n) = NULL
         /\ \A m \in AttrMap!InOrder, n \in Names :
              hashmap_get(m, n) \in Kept \cup {NULL}
         /\ \A m \in AttrMap!InOrder, n \in Names, v \in Kept :
              /\ Replace(m, n, v) \in AttrMap!InOrder
              /\ \A k \in Names : hashmap_get(Replace(m, n, v), k) =
                                    IF k = n THEN v ELSE hashmap_get(m, k)
<1>1. /\ AttrMap!UseAssumption /\ AttrMap!HashmapAssumption
      /\ AttrMap!Roomy(AttrMap!TableSize)
  BY AttrMapUse
<1> DEFINE i == AttrMap!hashmap_init(AttrHash, AttrSlots)
<1>2. /\ i \in AttrMap!InOrder
      /\ \A n \in Names : AttrMap!hashmap_get(i, n) = NULL
  BY <1>1, AttrMap!FreshIs
<1>3. \A m \in AttrMap!InOrder, n \in Names :
        AttrMap!hashmap_get(m, n) \in Kept \cup {NULL}
  BY <1>1, AttrMap!GotIs
<1>4. ASSUME NEW m \in AttrMap!InOrder, NEW n \in Names, NEW v \in Kept
      PROVE  LET w == AttrMap!hashmap_put(AttrMap!hashmap_remove(m, n), n, v)
             IN  /\ w \in AttrMap!InOrder
                 /\ \A k \in Names : AttrMap!hashmap_get(w, k) =
                                       IF k = n THEN v ELSE AttrMap!hashmap_get(m, k)
  BY <1>1, AttrMap!ReplacedIs
<1>5. /\ hashmap_init(AttrHash, AttrSlots) \in AttrMap!InOrder
      /\ \A n \in Names : hashmap_get(hashmap_init(AttrHash, AttrSlots), n) = NULL
  BY <1>2, SameAttrMap
<1>6. \A m \in AttrMap!InOrder, n \in Names : hashmap_get(m, n) \in Kept \cup {NULL}
  BY <1>3, SameAttrMap
<1>7. ASSUME NEW m \in AttrMap!InOrder, NEW n \in Names, NEW v \in Kept
      PROVE  /\ Replace(m, n, v) \in AttrMap!InOrder
             /\ \A k \in Names : hashmap_get(Replace(m, n, v), k) =
                                   IF k = n THEN v ELSE hashmap_get(m, k)
  <2>1. AttrMap!hashmap_put(AttrMap!hashmap_remove(m, n), n, v) = Replace(m, n, v)
    BY SameAttrMap DEF Replace
  <2> QED
    BY <1>4, <2>1, SameAttrMap
<1> QED
  BY <1>5, <1>6, <1>7

-----------------------------------------------------------------------------
(* The store: a map for each device that has one. *)
Stores ==
  {m \in [devs : DevMap!InOrder, attrs : [Dids -> AttrMap!InOrder \cup {NULL}]] :
     \A d \in Dids : hashmap_get(m.devs, d) # NULL => m.attrs[d] \in AttrMap!InOrder}

LEMMA FreshStore ==
  ASSUME RoomForAll
  PROVE  /\ memory_module_init \in Stores
         /\ \A d \in Dids, n \in Names :
              memory_get_attr(memory_module_init, d, n) = NULL
<1> DEFINE devs == hashmap_init(DevHash, DevSlots)
           m == memory_module_init
<1>1. devs \in DevMap!InOrder /\ \A d \in Dids : hashmap_get(devs, d) = NULL
  BY DevMaps
<1>2. m = [devs |-> devs, attrs |-> [d \in Dids |-> NULL]]
  BY DEF memory_module_init
<1> HIDE DEF devs, m
<1>3. m.devs = devs /\ m \in Stores
  BY <1>1, <1>2 DEF Stores
<1> QED
  BY <1>1, <1>3 DEF memory_get_attr, m

LEMMA StoreHas ==
  ASSUME RoomForAll, NEW m \in Stores, NEW d \in Dids, NEW n \in Names
  PROVE  memory_get_attr(m, d, n) \in Kept \cup {NULL}
<1>1. hashmap_get(m.devs, d) # NULL => m.attrs[d] \in AttrMap!InOrder
  BY DEF Stores
<1> QED
  BY <1>1, AttrMaps DEF memory_get_attr

(* What is set is there, and the rest is as it was.                        *)
LEMMA SetAttrIs ==
  ASSUME RoomForAll, NEW m \in Stores, NEW d \in Dids, NEW n \in Names,
         NEW v \in Kept
  PROVE  LET w == memory_set_attr(m, d, n, v)
         IN  /\ w \in Stores
             /\ \A e \in Dids, k \in Names : memory_get_attr(w, e, k) =
                  IF e = d /\ k = n THEN v ELSE memory_get_attr(m, e, k)
<1> DEFINE new  == hashmap_get(m.devs, d) = NULL
           hm   == IF new THEN hashmap_init(AttrHash, AttrSlots) ELSE m.attrs[d]
           hm2  == Replace(hm, n, v)
           devs == IF new THEN hashmap_put(m.devs, d, d) ELSE m.devs
           attrs == [m.attrs EXCEPT ![d] = hm2]
           w    == memory_set_attr(m, d, n, v)
<1>1. /\ m.devs \in DevMap!InOrder /\ m.attrs \in [Dids -> AttrMap!InOrder \cup {NULL}]
      /\ \A e \in Dids : hashmap_get(m.devs, e) # NULL => m.attrs[e] \in AttrMap!InOrder
  BY DEF Stores
<1>2. d # NULL
  BY DevMapUse DEF DevMap!UseAssumption
<1>3. hm \in AttrMap!InOrder
  BY <1>1, AttrMaps
<1>4. \A k \in Names : hashmap_get(hm, k) = memory_get_attr(m, d, k)
  BY AttrMaps DEF memory_get_attr
<1> HIDE DEF hm
<1>5. /\ hm2 \in AttrMap!InOrder
      /\ \A k \in Names : hashmap_get(hm2, k) = IF k = n THEN v ELSE hashmap_get(hm, k)
  BY <1>3, AttrMaps
<1>6. /\ devs \in DevMap!InOrder /\ hashmap_get(devs, d) # NULL
      /\ \A e \in Dids : e # d => hashmap_get(devs, e) = hashmap_get(m.devs, e)
  BY <1>1, <1>2, DevMaps
<1>7. w = [devs |-> devs, attrs |-> attrs]
  BY DEF memory_set_attr, hm
<1> HIDE DEF hm2, devs, w
<1>8. /\ attrs \in [Dids -> AttrMap!InOrder \cup {NULL}] /\ attrs[d] = hm2
      /\ \A e \in Dids : e # d => attrs[e] = m.attrs[e]
  BY <1>1, <1>2, <1>5
<1> HIDE DEF attrs
<1>9. w.devs = devs /\ w.attrs = attrs
  BY <1>7
<1>10. ASSUME NEW e \in Dids, hashmap_get(w.devs, e) # NULL
       PROVE  w.attrs[e] \in AttrMap!InOrder
  BY <1>1, <1>5, <1>6, <1>8, <1>9, <1>10
<1>11. w \in Stores
  BY <1>6, <1>7, <1>8, <1>10 DEF Stores
<1>12. ASSUME NEW e \in Dids, NEW k \in Names
       PROVE  memory_get_attr(w, e, k) =
                IF e = d /\ k = n THEN v ELSE memory_get_attr(m, e, k)
  <2>1. CASE e = d
    BY <1>4, <1>5, <1>6, <1>8, <1>9, <2>1 DEF memory_get_attr
  <2>2. CASE e # d
    BY <1>6, <1>8, <1>9, <2>2 DEF memory_get_attr
  <2> QED
    BY <2>1, <2>2
<1> QED
  BY <1>11, <1>12 DEF w

(* What listing does: an attribute that is not in the memory may be loaded *)
(* from flash.                                                             *)
Fills(m, w) ==
  \A d \in Dids, n \in Names :
    \/ memory_get_attr(w, d, n) = memory_get_attr(m, d, n)
    \/ /\ memory_get_attr(m, d, n) = NULL /\ d \in Devices
       /\ memory_get_attr(w, d, n) = flash[<<d, n>>]

Filled(m) == {w \in Stores : Fills(m, w)}

LEMMA FlashHas ==
  ASSUME flash \in Files, NEW d \in Devices, NEW n \in Names
  PROVE  flash[<<d, n>>] \in Values \cup {NULL}
<1>1. flash \in [Devices \X Names -> Values \cup {NULL}]
  BY ClassCmdAssumption
<1> QED
  BY <1>1

LEMMA LoadedAttrFills ==
  ASSUME RoomForAll, flash \in Files, NEW m, NEW w \in Filled(m),
         NEW d \in Devices, NEW n \in Names
  PROVE  LoadedAttr(w, d, n) \in Filled(m)
<1>1. w \in Stores /\ Fills(m, w)
  BY DEF Filled
<1>2. CASE memory_get_attr(w, d, n) = NULL /\ flash_load_attr(d, n) # NULL
  <2> DEFINE v == flash_load_attr(d, n)
             x == memory_set_attr(w, d, n, v)
  <2>1. v \in Kept /\ v = flash[<<d, n>>]
    BY <1>2, FlashHas DEF flash_load_attr, Kept
  <2>2. LoadedAttr(w, d, n) = x
    BY <1>2 DEF LoadedAttr
  <2> HIDE DEF v
  <2>3. /\ x \in Stores
        /\ \A e \in Dids, k \in Names : memory_get_attr(x, e, k) =
             IF e = d /\ k = n THEN v ELSE memory_get_attr(w, e, k)
    <3>1. d \in Dids
      BY DEF Dids
    <3>2. LET y == memory_set_attr(w, d, n, v)
          IN  /\ y \in Stores
              /\ \A e \in Dids, k \in Names : memory_get_attr(y, e, k) =
                   IF e = d /\ k = n THEN v ELSE memory_get_attr(w, e, k)
      <4> HIDE DEF x
      <4> QED
        BY ONLY RoomForAll, <1>1, <2>1, <3>1, n \in Names, SetAttrIs
    <3> QED
      BY ONLY <3>2 DEF x
  <2> HIDE DEF x
  <2>4. Fills(m, x)
    <3> SUFFICES ASSUME NEW e \in Dids, NEW k \in Names
                 PROVE  \/ memory_get_attr(x, e, k) = memory_get_attr(m, e, k)
                        \/ /\ memory_get_attr(m, e, k) = NULL /\ e \in Devices
                           /\ memory_get_attr(x, e, k) = flash[<<e, k>>]
      BY DEF Fills
    <3>1. \/ memory_get_attr(w, e, k) = memory_get_attr(m, e, k)
          \/ /\ memory_get_attr(m, e, k) = NULL /\ e \in Devices
             /\ memory_get_attr(w, e, k) = flash[<<e, k>>]
      BY <1>1 DEF Fills
    <3>2. CASE e = d /\ k = n
      <4>1. memory_get_attr(x, e, k) = flash[<<e, k>>]
        BY <2>1, <2>3, <3>2
      <4>2. memory_get_attr(w, e, k) = NULL
        BY <1>2, <3>2
      <4> QED
        BY <3>1, <3>2, <4>1, <4>2
    <3>3. CASE ~(e = d /\ k = n)
      BY <2>3, <3>1, <3>3
    <3> QED
      BY <3>2, <3>3
  <2> QED
    BY <2>2, <2>3, <2>4 DEF Filled
<1>3. CASE ~(memory_get_attr(w, d, n) = NULL /\ flash_load_attr(d, n) # NULL)
  BY <1>3 DEF LoadedAttr
<1> QED
  BY <1>2, <1>3

LEMMA LoadedFills ==
  ASSUME RoomForAll, flash \in Files, NEW m, NEW w \in Filled(m), NEW d \in Devices
  PROVE  Loaded(w, d) \in Filled(m)
<1> DEFINE n == Len(Listed(d))
           V == Filled(m)
           step(x, i) == LoadedAttr(x, d, Listed(d)[i].name)
           G == [i \in 1..n |-> [x \in V |-> step(x, i)]]
           load == CHOOSE load : load =
                     [i \in 0..n |-> IF i = 0 THEN w ELSE step(load[i - 1], i)]
<1>1. Loaded(w, d) = load[n]
  BY DEF Loaded
<1> HIDE DEF load
<1>2. n \in Nat
  BY ListedAre
<1>3. \A i \in 1..n : Listed(d)[i].name \in Names
  BY ListedAre
<1> HIDE DEF n
<1>4. \A x \in V, i \in 1..n : step(x, i) \in V
  BY <1>3, LoadedAttrFills
<1>5. w \in V
  OBVIOUS
<1> HIDE DEF V, step
<1>6. G \in [1..n -> [V -> V]]
  BY <1>4
<1>7. PICK f : IsRun(f, V, n, w, G)
  <2> HIDE DEF G
  <2> QED
    BY <1>2, <1>5, <1>6, RunExists
<1>8. f = [i \in 0..n |-> IF i = 0 THEN w ELSE step(f[i - 1], i)]
  <2>1. /\ f \in [0..n -> V] /\ f[0] = w
        /\ \A i \in 1..n : f[i] = G[i][f[i - 1]]
    BY <1>7 DEF IsRun
  <2>2. ASSUME NEW i \in 1..n PROVE f[i] = step(f[i - 1], i)
    <3>1. i - 1 \in 0..n
      BY <1>2
    <3>2. f[i - 1] \in V
      BY <2>1, <3>1
    <3> QED
      BY <2>1, <3>2
  <2>3. \A i \in 0..n : f[i] = IF i = 0 THEN w ELSE step(f[i - 1], i)
    BY <1>2, <2>1, <2>2
  <2>4. f = [i \in 0..n |-> f[i]]
    BY <2>1
  <2>5. [i \in 0..n |-> f[i]] =
          [i \in 0..n |-> IF i = 0 THEN w ELSE step(f[i - 1], i)]
    BY <2>3
  <2> QED
    BY <2>4, <2>5, Zenon
<1>9. load = [i \in 0..n |-> IF i = 0 THEN w ELSE step(load[i - 1], i)]
  BY <1>8 DEF load
<1> DEFINE P == {i \in 0..n : load[i] \in V}
<1>10. 0 \in P
  BY <1>2, <1>5, <1>9
<1>11. ASSUME NEW i \in 1..n, i - 1 \in P PROVE i \in P
  <2>1. load[i] = step(load[i - 1], i)
    BY <1>2, <1>9
  <2> QED
    BY <1>2, <1>4, <1>11, <2>1
<1>12. n \in P
  <2> HIDE DEF P
  <2>1. 0..n \subseteq P
    BY <1>2, <1>10, <1>11, UpTo
  <2> QED
    BY <1>2, <2>1
<1> QED
  BY <1>1, <1>12 DEF V

LEMMA AllLoadedFills ==
  ASSUME RoomForAll, flash \in Files, NEW m \in Stores
  PROVE  AllLoaded(m) \in Filled(m)
<1> DEFINE n == Len(DevicesInOrder)
           V == Filled(m)
           step(x, i) == Loaded(x, DevicesInOrder[i])
           G == [i \in 1..n |-> [x \in V |-> step(x, i)]]
           load == CHOOSE load : load =
                     [i \in 0..n |-> IF i = 0 THEN m ELSE step(load[i - 1], i)]
<1>1. AllLoaded(m) = load[n]
  BY DEF AllLoaded
<1> HIDE DEF load
<1>2. n \in Nat
  BY InOrderIs, LenProperties
<1>3. \A i \in 1..n : DevicesInOrder[i] \in Devices
  BY InOrderIs, ElementOfSeq
<1> HIDE DEF n
<1>4. \A x \in V, i \in 1..n : step(x, i) \in V
  BY <1>3, LoadedFills
<1>5. m \in V
  BY DEF Filled, Fills
<1> HIDE DEF V, step
<1>6. G \in [1..n -> [V -> V]]
  BY <1>4
<1>7. PICK f : IsRun(f, V, n, m, G)
  <2> HIDE DEF G
  <2> QED
    BY <1>2, <1>5, <1>6, RunExists
<1>8. f = [i \in 0..n |-> IF i = 0 THEN m ELSE step(f[i - 1], i)]
  <2>1. /\ f \in [0..n -> V] /\ f[0] = m
        /\ \A i \in 1..n : f[i] = G[i][f[i - 1]]
    BY <1>7 DEF IsRun
  <2>2. ASSUME NEW i \in 1..n PROVE f[i] = step(f[i - 1], i)
    <3>1. i - 1 \in 0..n
      BY <1>2
    <3>2. f[i - 1] \in V
      BY <2>1, <3>1
    <3> QED
      BY <2>1, <3>2
  <2>3. \A i \in 0..n : f[i] = IF i = 0 THEN m ELSE step(f[i - 1], i)
    BY <1>2, <2>1, <2>2
  <2>4. f = [i \in 0..n |-> f[i]]
    BY <2>1
  <2>5. [i \in 0..n |-> f[i]] =
          [i \in 0..n |-> IF i = 0 THEN m ELSE step(f[i - 1], i)]
    BY <2>3
  <2> QED
    BY <2>4, <2>5, Zenon
<1>9. load = [i \in 0..n |-> IF i = 0 THEN m ELSE step(load[i - 1], i)]
  BY <1>8 DEF load
<1> DEFINE P == {i \in 0..n : load[i] \in V}
<1>10. 0 \in P
  BY <1>2, <1>5, <1>9
<1>11. ASSUME NEW i \in 1..n, i - 1 \in P PROVE i \in P
  <2>1. load[i] = step(load[i - 1], i)
    BY <1>2, <1>9
  <2> QED
    BY <1>2, <1>4, <1>11, <2>1
<1>12. n \in P
  <2> HIDE DEF P
  <2>1. 0..n \subseteq P
    BY <1>2, <1>10, <1>11, UpTo
  <2> QED
    BY <1>2, <2>1
<1> QED
  BY <1>1, <1>12 DEF V

-----------------------------------------------------------------------------
(* The store holds what was reported last. *)

StoreInv ==
  /\ ClassTypes
  /\ memory \in Stores /\ flash \in Files
  /\ \A d \in Devices, n \in Names : Formats(n) => told[<<d, n>>] # Uninit
  /\ StoreIsLastReport

LEMMA StoreInit == RoomForAll /\ ClassInit => StoreInv
<1> SUFFICES ASSUME RoomForAll, ClassInit PROVE StoreInv
  OBVIOUS
<1>1. ClassTypes
  BY SettleInit DEF SettleInv
<1>2. memory = memory_module_init /\ flash \in Files
  BY DEF ClassInit
<1>3. /\ memory \in Stores
      /\ \A d \in Dids, n \in Names : memory_get_attr(memory, d, n) = NULL
  BY <1>2, FreshStore
<1>4. \A d \in Devices, n \in Names : told[<<d, n>>] = NULL
  BY DEF ClassInit
<1>5. NULL # Uninit
  BY ClassCmdAssumption
<1>6. StoreIsLastReport
  BY <1>3, <1>4 DEF StoreIsLastReport, Dids
<1> QED
  BY <1>1, <1>2, <1>3, <1>4, <1>5, <1>6 DEF StoreInv

(* Listing loads only what was not reported.                               *)
LEMMA ListKeepsStore ==
  ASSUME RoomForAll, StoreInv, ClassTypes', zwave_device_list,
         UNCHANGED <<flash, told>>
  PROVE  StoreInv'
<1>1. memory' = AllLoaded(memory)
  BY DEF zwave_device_list
<1>2. memory \in Stores /\ flash \in Files
  BY DEF StoreInv
<1>3. memory' \in Stores /\ Fills(memory, memory')
  BY <1>1, <1>2, AllLoadedFills DEF Filled
<1>4. ASSUME NEW d \in Devices, NEW n \in Names
      PROVE  /\ told'[<<d, n>>] # NULL
                  => memory_get_attr(memory', AsChar(d), n) = told'[<<d, n>>]
             /\ told'[<<d, n>>] = NULL \/ AsChar(d) # d
                  => memory_get_attr(memory', d, n) \in {NULL, flash'[<<d, n>>]}
  <2>1. /\ told[<<d, n>>] # NULL
             => memory_get_attr(memory, AsChar(d), n) = told[<<d, n>>]
        /\ told[<<d, n>>] = NULL \/ AsChar(d) # d
             => memory_get_attr(memory, d, n) \in {NULL, flash[<<d, n>>]}
    BY DEF StoreInv, StoreIsLastReport
  <2>2. \A e \in Dids :
          \/ memory_get_attr(memory', e, n) = memory_get_attr(memory, e, n)
          \/ /\ memory_get_attr(memory, e, n) = NULL
             /\ memory_get_attr(memory', e, n) = flash[<<e, n>>]
    BY <1>3 DEF Fills
  <2>3. d \in Dids /\ AsChar(d) \in Dids
    BY CharIs DEF Dids
  <2> QED
    BY <2>1, <2>2, <2>3
<1>5. StoreIsLastReport'
  BY <1>4 DEF StoreIsLastReport
<1> QED
  BY <1>2, <1>3, <1>5 DEF StoreInv

(* A report is kept for its device and attribute, and for no other.        *)
LEMMA SaveKeepsStore ==
  ASSUME RoomForAll, StoreInv, ClassTypes', class_cmd_save
  PROVE  StoreInv'
<1> DEFINE r   == Head(air)
           row == CHOOSE x \in classes : x.name = r.name
           buf == IF row.report = "formats" THEN r.value ELSE Uninit
<1>1. /\ air # <<>> /\ UNCHANGED flash
      /\ memory' = memory_set_attr(memory, AsChar(r.dev), r.name, buf)
      /\ told' = [told EXCEPT ![<<r.dev, r.name>>] = buf]
  BY DEF class_cmd_save
<1>2. air \in Seq(Reports)
  BY DEF StoreInv, ClassTypes
<1>3. r \in Reports
  BY <1>1, <1>2, HeadTailProperties
<1>4. PICK d \in Devices, n \in Names : d = r.dev /\ n = r.name
  BY <1>3 DEF Reports
<1>5. r.value \in Values
  BY <1>3 DEF Reports
<1>6. row \in classes /\ row.name = n
  BY <1>4 DEF Names
<1>7. Formats(n) => buf = r.value
  BY <1>6, ClassesAre DEF Formats
<1>8. buf \in Kept
  BY <1>5 DEF Kept
<1> HIDE DEF buf, row, r
<1>9. /\ memory' = memory_set_attr(memory, AsChar(d), n, buf)
      /\ told' = [told EXCEPT ![<<d, n>>] = buf]
  BY <1>1, <1>4
<1>10. memory \in Stores /\ flash \in Files
  BY DEF StoreInv
<1>11. /\ memory' \in Stores
       /\ \A e \in Dids, k \in Names : memory_get_attr(memory', e, k) =
            IF e = AsChar(d) /\ k = n THEN buf ELSE memory_get_attr(memory, e, k)
  BY <1>8, <1>9, <1>10, CharIs, SetAttrIs
<1>12. told \in [Devices \X Names -> Values \cup {NULL, Uninit}]
  BY DEF StoreInv, ClassTypes
<1>13. ASSUME NEW e \in Devices, NEW k \in Names
       PROVE  told'[<<e, k>>] = IF e = d /\ k = n THEN buf ELSE told[<<e, k>>]
  BY <1>9, <1>12
<1>14. buf # NULL /\ (Formats(n) => buf # Uninit)
  BY <1>5, <1>7, <1>8, ClassCmdAssumption DEF Kept
<1>15. ASSUME NEW e \in Devices, NEW k \in Names
       PROVE  /\ told'[<<e, k>>] # NULL
                   => memory_get_attr(memory', AsChar(e), k) = told'[<<e, k>>]
              /\ told'[<<e, k>>] = NULL \/ AsChar(e) # e
                   => memory_get_attr(memory', e, k) \in {NULL, flash'[<<e, k>>]}
  <2>1. /\ told[<<e, k>>] # NULL
             => memory_get_attr(memory, AsChar(e), k) = told[<<e, k>>]
        /\ told[<<e, k>>] = NULL \/ AsChar(e) # e
             => memory_get_attr(memory, e, k) \in {NULL, flash[<<e, k>>]}
    BY DEF StoreInv, StoreIsLastReport
  <2>2. /\ e \in Dids /\ AsChar(e) \in Dids
        /\ AsChar(e) = AsChar(d) => e = d
        /\ e = AsChar(d) => d = e
    BY CharIs DEF Dids
  <2>3. CASE e = d /\ k = n
    <3>1. memory_get_attr(memory', AsChar(e), k) = buf /\ told'[<<e, k>>] = buf
      BY <1>11, <1>13, <2>2, <2>3
    <3>2. AsChar(e) # e => memory_get_attr(memory', e, k) = memory_get_attr(memory, e, k)
      BY <1>11, <2>2, <2>3
    <3> QED
      BY <1>1, <1>14, <2>1, <3>1, <3>2
  <2>4. CASE ~(e = d /\ k = n)
    <3>1. /\ memory_get_attr(memory', AsChar(e), k) = memory_get_attr(memory, AsChar(e), k)
          /\ memory_get_attr(memory', e, k) = memory_get_attr(memory, e, k)
          /\ told'[<<e, k>>] = told[<<e, k>>]
      BY <1>11, <1>13, <2>2, <2>4
    <3> QED
      BY <1>1, <2>1, <3>1
  <2> QED
    BY <2>3, <2>4
<1>16. StoreIsLastReport'
  BY <1>15 DEF StoreIsLastReport
<1>17. ASSUME NEW e \in Devices, NEW k \in Names, Formats(k)
       PROVE  told'[<<e, k>>] # Uninit
  BY <1>13, <1>14, <1>17 DEF StoreInv
<1>18. flash' \in Files
  BY <1>1, <1>10
<1> QED
  BY <1>11, <1>16, <1>17, <1>18 DEF StoreInv, Formats

(* Only a list and a report change the memory.                             *)
LEMMA MemoryChanges ==
  ASSUME [Next]_vars
  PROVE  \/ zwave_device_list /\ UNCHANGED <<flash, told>>
         \/ class_cmd_save
         \/ UNCHANGED <<memory, flash, told>>
<1>1. CASE cmd_in
  <2>1. UNCHANGED <<flash, told>>
    BY <1>1 DEF cmd_in
  <2>2. PICK line \in Lines :
          LET argv == parse_argv(line)
              cmd  == IF argv = <<>> THEN <<>> ELSE argv[1]
          IN  \/ cmd = <<"init">> /\ do_cmd_init
              \/ cmd = <<"list">> /\ zwave_device_list
              \/ cmd = <<"get">> /\ do_cmd_get(argv)
              \/ /\ cmd = <<"set">>
                 /\ \E value \in Values \cup {NULL} : do_cmd_set(argv, value)
              \/ /\ cmd \notin {<<"init">>, <<"list">>, <<"get">>, <<"set">>}
                 /\ NoCommand
    BY <1>1 DEF cmd_in
  <2> DEFINE argv == parse_argv(line)
  <2>3. \/ do_cmd_init \/ zwave_device_list \/ do_cmd_get(argv)
        \/ \E value \in Values \cup {NULL} : do_cmd_set(argv, value)
        \/ NoCommand
    BY <2>2, Zenon
  <2> HIDE DEF argv
  <2>4. do_cmd_get(argv) => UNCHANGED memory
    BY DEF do_cmd_get, PushCommand, NoCommand
  <2>5. \A value : do_cmd_set(argv, value) => UNCHANGED memory
    BY DEF do_cmd_set, PushCommand, NoCommand
  <2>6. zwave_device_list \/ UNCHANGED memory
    BY <2>3, <2>4, <2>5 DEF do_cmd_init, NoCommand
  <2> QED
    BY <2>1, <2>6
<1>2. CASE ubus_receive_event
  <2> DEFINE id == came + 1
             r  == Requests[id]
  <2>1. uproto_handler_cmd(id, r) /\ UNCHANGED <<flash, told>>
    BY <1>2 DEF ubus_receive_event
  <2> HIDE DEF id, r
  <2>2. uproto_cmd_handler_attr_get(id, r) => zwave_device_list \/ UNCHANGED memory
    BY DEF uproto_cmd_handler_attr_get, NoCommand
  <2>3. uproto_cmd_handler_attr_set(id, r) => UNCHANGED memory
    BY DEF uproto_cmd_handler_attr_set, NoCommand, zwave_device_light_onoff,
       PushCommand
  <2>4. zwave_device_list \/ UNCHANGED memory
    BY <2>1, <2>2, <2>3 DEF uproto_handler_cmd, NoCommand
  <2> QED
    BY <2>1, <2>4
<1>3. uproto_run \/ App \/ Learn \/ Change \/ UNCHANGED vars
        => UNCHANGED <<memory, flash, told>>
  BY DEF uproto_run, App, AppTakes, AppSends, Learn, ClassKnown, Change,
     DeviceChanges, vars, classvars, storevars
<1> QED
  BY <1>1, <1>2, <1>3 DEF Next, Bus, Report

LEMMA StepKeepsStore ==
  ASSUME RoomForAll, StoreInv, ClassTypes', [Next]_vars
  PROVE  StoreInv'
<1>1. CASE UNCHANGED <<memory, flash, told>>
  BY <1>1 DEF StoreInv, StoreIsLastReport
<1> QED
  BY <1>1, MemoryChanges, ListKeepsStore, SaveKeepsStore

(* The store holds, for every device and attribute, what was reported last *)
(* of it under the id as a char, or, if nothing was, what flash had or     *)
(* nothing: whatever the keys hash to, since a table that is at most half  *)
(* full is a dictionary.  Under an id that its char is not (class_cmd_save *)
(* is called with one), no report is ever found.                           *)
THEOREM StoreKeepsReports ==
  ASSUME RoomForAll
  PROVE  Spec => []StoreIsLastReport
<1> DEFINE Inv == SettleInv /\ came \in Nat /\ StoreInv
<1>1. Init => Inv
  BY SettleInit, CameIsNat, StoreInit DEF Init
<1>2. Inv /\ [Next]_vars => Inv'
  <2> SUFFICES ASSUME Inv, [Next]_vars PROVE Inv'
    OBVIOUS
  <2>1. (SettleInv /\ came \in Nat)'
    BY StepKeepsSettled, CameIsNat
  <2>2. ClassTypes'
    BY <2>1 DEF SettleInv
  <2> QED
    BY <2>1, <2>2, StepKeepsStore
<1>3. Inv => StoreIsLastReport
  BY DEF StoreInv
<1> HIDE DEF Inv
<1> QED
  BY <1>1, <1>2, <1>3, PTL DEF Spec

-----------------------------------------------------------------------------
(* What the cloud is told. *)
Written(out) == \A i \in DOMAIN out : IsList(out[i]) => IsWritten(out[i].value)

(* What is shown of an attribute was reported or read, and it is nothing   *)
(* only if flash has none and no report of it can be found.                *)
LEMMA StoredIsWritten ==
  ASSUME RoomForAll, StoreInv, NEW d \in Devices, NEW k \in Names, Formats(k)
  PROVE  /\ Stored(memory, d, k) \in (Values \cup {NULL, Uninit}) \ {Uninit}
         /\ Stored(memory, d, k) = NULL =>
              /\ flash[<<d, k>>] = NULL
              /\ told[<<d, k>>] = NULL \/ AsChar(d) # d
<1>1. /\ memory \in Stores /\ flash \in Files /\ told[<<d, k>>] # Uninit
      /\ told[<<d, k>>] # NULL
           => memory_get_attr(memory, AsChar(d), k) = told[<<d, k>>]
      /\ told[<<d, k>>] = NULL \/ AsChar(d) # d
           => memory_get_attr(memory, d, k) \in {NULL, flash[<<d, k>>]}
  BY DEF StoreInv, StoreIsLastReport
<1>2. /\ flash[<<d, k>>] \in Values \cup {NULL}
      /\ memory_get_attr(memory, d, k) \in Kept \cup {NULL}
  BY <1>1, FlashHas, StoreHas DEF Dids
<1>3. Uninit \notin Values \cup {NULL}
  BY ClassCmdAssumption
<1>4. memory_get_attr(memory, d, k) # Uninit
  BY <1>1, <1>2, <1>3
<1> QED
  BY <1>1, <1>2, <1>3, <1>4 DEF Stored, flash_load_attr, Kept

LEMMA ShownIsWritten ==
  ASSUME RoomForAll, StoreInv, NEW d \in Devices
  PROVE  /\ \A a \in Range(About(d).attrs) : a.value # Uninit
         /\ About(d).battery = Uninit =>
              /\ flash[<<d, "battery">>] = NULL
              /\ told[<<d, "battery">>] = NULL \/ AsChar(d) # d
<1> DEFINE S == {a \in [name : Names, value : Values \cup {NULL, Uninit}] :
                   a.value # Uninit}
           shown == Shown(memory, d)
           n == Len(Listed(d))
           q == [i \in DOMAIN shown |->
                   IF shown[i].name = "battery" THEN <<>> ELSE <<shown[i]>>]
<1>1. /\ n \in Nat /\ DOMAIN Listed(d) = 1..n
      /\ \A i \in 1..n : Listed(d)[i].name \in Names /\ Formats(Listed(d)[i].name)
  BY ListedAre DEF Formats
<1>2. ASSUME NEW k \in Names, Formats(k)
      PROVE  Stored(memory, d, k) \in (Values \cup {NULL, Uninit}) \ {Uninit}
  BY <1>2, StoredIsWritten
<1>3. DOMAIN shown = 1..n
  BY <1>1 DEF Shown
<1>4. ASSUME NEW i \in 1..n PROVE shown[i] \in S
  <2>1. shown[i] = [name |-> Listed(d)[i].name,
                    value |-> Stored(memory, d, Listed(d)[i].name)]
    BY <1>1 DEF Shown
  <2> QED
    BY <1>1, <1>2, <2>1
<1>5. \A a \in S : a.value # Uninit
  OBVIOUS
<1> DEFINE named == {a \in Range(shown) : a.name = "battery"}
           a0 == CHOOSE a \in Range(shown) : a.name = "battery"
<1>14. named # {} /\ a0.value = NULL =>
         /\ flash[<<d, "battery">>] = NULL
         /\ told[<<d, "battery">>] = NULL \/ AsChar(d) # d
  <2> SUFFICES ASSUME named # {}, a0.value = NULL
               PROVE  /\ flash[<<d, "battery">>] = NULL
                      /\ told[<<d, "battery">>] = NULL \/ AsChar(d) # d
    OBVIOUS
  <2>1. a0 \in Range(shown) /\ a0.name = "battery"
    OBVIOUS
  <2> HIDE DEF a0, shown
  <2>2. PICK i \in 1..n : a0 = shown[i]
    BY <1>3, <2>1 DEF Range
  <2>3. shown[i] = [name |-> Listed(d)[i].name,
                    value |-> Stored(memory, d, Listed(d)[i].name)]
    BY <1>1 DEF Shown, shown
  <2>4. Listed(d)[i].name = "battery" /\ Stored(memory, d, "battery") = NULL
    BY <2>1, <2>2, <2>3
  <2>5. "battery" \in Names /\ Formats("battery")
    BY <1>1, <2>4
  <2> QED
    BY <2>4, <2>5, StoredIsWritten
<1>15. ASSUME About(d).battery = Uninit
       PROVE  named # {} /\ a0.value = NULL
  <2>1. Level(shown) = Uninit
    BY <1>15 DEF About
  <2>2. 100 # Uninit
    BY ClassCmdAssumption
  <2>3. ~(\A a \in Range(shown) : a.name # "battery")
    BY <2>1, <2>2 DEF Level
  <2>4. Uninit = IF a0.value = NULL THEN Uninit ELSE a0.value
    <3> HIDE DEF shown
    <3> QED
      BY <2>1, <2>3 DEF Level
  <2>5. a0 \in Range(shown)
    <3> HIDE DEF shown
    <3> QED
      BY <2>3
  <2>6. PICK i \in 1..n : a0 = shown[i]
    <3> HIDE DEF a0, shown
    <3> QED
      BY <1>3, <2>5 DEF Range
  <2>7. a0.value # Uninit
    <3> HIDE DEF a0, shown, S
    <3> QED
      BY <1>4, <1>5, <2>6
  <2> HIDE DEF a0, shown
  <2> QED
    BY <2>3, <2>4, <2>7
<1>16. About(d).battery = Uninit =>
         /\ flash[<<d, "battery">>] = NULL
         /\ told[<<d, "battery">>] = NULL \/ AsChar(d) # d
  <2> HIDE DEF named, a0
  <2> QED
    BY <1>14, <1>15
<1> HIDE DEF S, shown, n, named, a0
<1>6. \A i \in 1..n : q[i] \in Seq(S)
  BY <1>3, <1>4
<1>7. q \in Seq(Seq(S))
  <2>1. q \in [1..n -> Seq(S)]
    BY <1>3, <1>6
  <2> HIDE DEF q
  <2> QED
    BY <1>1, <2>1
<1>8. ShownBut(shown, "battery") = FlattenSeq(q)
  BY DEF ShownBut
<1> HIDE DEF q
<1>9. FlattenSeq(q) \in Seq(S)
  BY <1>7, SeqJoins, FlattenIs
<1>10. About(d).attrs = FlattenSeq(q)
  BY <1>8 DEF About, shown
<1> DEFINE attrs == About(d).attrs
<1>11. attrs \in Seq(S)
  BY <1>9, <1>10
<1> HIDE DEF attrs
<1>12. \A i \in DOMAIN attrs : attrs[i] \in S
  BY <1>11
<1>13. \A a \in Range(attrs) : a \in S
  BY <1>12 DEF Range
<1> QED
  BY <1>5, <1>13, <1>16 DEF attrs

LEMMA DeviceListIsWritten ==
  ASSUME RoomForAll, StoreInv
  PROVE  IsWritten(DeviceList)
<1> SUFFICES ASSUME NEW about \in Range(DeviceList)
             PROVE  /\ \A a \in Range(about.attrs) : a.value # Uninit
                    /\ about.battery = Uninit =>
                         /\ flash[<<about.dev, "battery">>] = NULL
                         /\ \/ told[<<about.dev, "battery">>] = NULL
                            \/ AsChar(about.dev) # about.dev
  BY DEF IsWritten
<1>1. PICK i \in DOMAIN DeviceList : about = DeviceList[i]
  BY DEF Range
<1>2. i \in DOMAIN DevicesInOrder /\ about = About(DevicesInOrder[i])
  BY <1>1 DEF DeviceList
<1>3. DevicesInOrder[i] \in Devices
  BY <1>2, InOrderIs
<1>4. PICK d \in Devices : d = DevicesInOrder[i]
  BY <1>3
<1>5. about.dev = d
  BY <1>2, <1>4 DEF About
<1> QED
  BY <1>2, <1>4, <1>5, ShownIsWritten

(* A handler pushes no list of devices but that one.                       *)
LEMMA PushedIsWritten ==
  ASSUME RoomForAll, StoreInv, NEW id, NEW r, uproto_handler_cmd(id, r)
  PROVE  \E msgs : IsSeq(msgs) /\ Written(msgs) /\ uproto_push_msg(msgs)
<1>1. IsSeq(<<>>) /\ Written(<<>>)
  BY EmptySeq DEF IsSeq, Written
<1>2. ASSUME NEW code
      PROVE  /\ IsSeq(<<uproto_response_ucmd(id, code)>>)
             /\ Written(<<uproto_response_ucmd(id, code)>>)
  <2> DEFINE m == uproto_response_ucmd(id, code)
  <2>1. ~IsList(m)
    BY DEF IsList, uproto_response_ucmd
  <2> HIDE DEF m
  <2>2. /\ <<m>> \in Seq({m}) /\ DOMAIN <<m>> = {1} /\ <<m>>[1] = m
    OBVIOUS
  <2> QED
    BY <2>1, <2>2 DEF IsSeq, Written, m
<1>3. ASSUME NEW value, r.attr = "device_list" => IsWritten(value)
      PROVE  /\ IsSeq(GetMessages(id, r.attr, value))
             /\ Written(GetMessages(id, r.attr, value))
  <2> DEFINE m == uproto_report_umsg(r.attr, value)
             k == uproto_response_ucmd(id, 0)
  <2>1. ~IsList(k) /\ (IsList(m) => IsWritten(m.value))
    BY <1>3 DEF IsList, uproto_response_ucmd, uproto_report_umsg
  <2>2. GetMessages(id, r.attr, value) = <<m, k>>
    BY DEF GetMessages
  <2> HIDE DEF m, k
  <2>3. /\ <<m, k>> \in Seq({m, k}) /\ DOMAIN <<m, k>> = {1, 2}
        /\ <<m, k>>[1] = m /\ <<m, k>>[2] = k
    OBVIOUS
  <2> QED
    BY <2>1, <2>2, <2>3 DEF IsSeq, Written
<1>4. CASE uproto_push_msg(<<>>)
  BY <1>1, <1>4
<1>5. CASE \E code : uproto_push_msg(<<uproto_response_ucmd(id, code)>>)
  BY <1>2, <1>5
<1>6. CASE \E value : /\ uproto_push_msg(GetMessages(id, r.attr, value))
                      /\ r.attr = "device_list" => IsWritten(value)
  BY <1>3, <1>6
<1>7. uproto_cmd_handler_attr_get(id, r)
        => \/ uproto_push_msg(<<>>)
           \/ \E value : /\ uproto_push_msg(GetMessages(id, r.attr, value))
                         /\ r.attr = "device_list" => IsWritten(value)
  <2>1. IsWritten(DeviceList)
    BY DeviceListIsWritten
  <2> QED
    BY <2>1 DEF uproto_cmd_handler_attr_get
<1>8. uproto_cmd_handler_attr_set(id, r)
        => \/ uproto_push_msg(<<>>)
           \/ \E code : uproto_push_msg(<<uproto_response_ucmd(id, code)>>)
  BY DEF uproto_cmd_handler_attr_set
<1> QED
  BY <1>4, <1>5, <1>6, <1>7, <1>8 DEF uproto_handler_cmd

LEMMA PushIsWritten ==
  ASSUME RoomForAll, StoreInv, IsSeq(msgq), [Next]_vars,
         NEW i \in (Len(msgq) + 1)..Len(msgq'), IsList(msgq'[i])
  PROVE  IsWritten(msgq'[i].value)
<1>1. Len(msgq) \in Nat
  BY LenProperties DEF IsSeq
<1>2. CASE UNCHANGED msgq
  BY <1>1, <1>2
<1>3. CASE uproto_run /\ msgq # <<>>
  <2>1. msgq' = Tail(msgq)
    BY <1>3 DEF uproto_run
  <2>2. Len(msgq') = Len(msgq) - 1
    BY <1>3, <2>1, HeadTailProperties DEF IsSeq
  <2> QED
    BY <1>1, <2>2
<1>4. CASE ubus_receive_event
  <2>1. PICK id : uproto_handler_cmd(id, Requests[id])
    BY <1>4 DEF ubus_receive_event
  <2>2. PICK msgs : IsSeq(msgs) /\ Written(msgs) /\ uproto_push_msg(msgs)
    BY <2>1, PushedIsWritten
  <2> DEFINE all == msgq \o msgs
             j   == i - Len(msgq)
  <2>3. msgq' = all
    BY <2>2 DEF uproto_push_msg
  <2>4. /\ Len(msgs) \in Nat /\ DOMAIN msgs = 1..Len(msgs)
        /\ Len(all) = Len(msgq) + Len(msgs)
        /\ \A k \in 1..Len(msgs) : all[Len(msgq) + k] = msgs[k]
    BY <2>2, SeqsJoin
  <2> HIDE DEF all
  <2>5. j \in 1..Len(msgs) /\ i = Len(msgq) + j
    BY <1>1, <2>3, <2>4
  <2> HIDE DEF j
  <2>6. msgq'[i] = msgs[j]
    BY <2>3, <2>4, <2>5
  <2> QED
    BY <2>2, <2>4, <2>5, <2>6 DEF Written
<1>5. Next => UNCHANGED msgq \/ ubus_receive_event \/ uproto_run
  BY DEF Next, Bus, cmd_in, App, Report, Learn, Change, upvars
<1>6. uproto_run /\ msgq = <<>> => UNCHANGED msgq
  BY DEF uproto_run
<1> QED
  BY <1>2, <1>3, <1>4, <1>5, <1>6 DEF vars, upvars

(* No attribute that the cloud is told of a device is one that nothing was *)
(* written to: a row that is listed has a report function that formats, so *)
(* what the memory has of it was reported or read from flash.  The level   *)
(* of a battery is scanned from what was never written only where neither  *)
(* flash nor the memory has one (zwave.c:45).                              *)
THEOREM ListIsWritten ==
  ASSUME RoomForAll
  PROVE  Spec => NothingUnwrittenIsListed
<1> DEFINE Inv == SettleInv /\ StoreInv /\ ResultInv
<1>1. Init => Inv
  BY SettleInit, ResultInit, StoreInit DEF Init
<1>2. Inv /\ [Next]_vars => Inv'
  <2> SUFFICES ASSUME Inv, [Next]_vars PROVE Inv'
    OBVIOUS
  <2>1. came \in Nat
    BY DEF ResultInv
  <2>2. SettleInv'
    BY <2>1, StepKeepsSettled
  <2>3. ClassTypes'
    BY <2>2 DEF SettleInv
  <2> QED
    BY <2>2, <2>3, StepKeepsStore, StepKeepsResults
<1> DEFINE NewIsWritten ==
             \A i \in (Len(msgq) + 1)..Len(msgq') :
               IsList(msgq'[i]) => IsWritten(msgq'[i].value)
<1>3. Inv /\ [Next]_vars => [NewIsWritten]_vars
  <2> SUFFICES ASSUME Inv, [Next]_vars PROVE NewIsWritten
    OBVIOUS
  <2>1. IsSeq(msgq)
    BY DEF ResultInv
  <2> QED
    BY <2>1, PushIsWritten
<1> HIDE DEF Inv
<1> QED
  BY <1>1, <1>2, <1>3, PTL DEF Spec, NothingUnwrittenIsListed
=============================================================================
