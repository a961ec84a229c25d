--------------------------- MODULE SequenceFacts ---------------------------
(***************************************************************************)
(* Facts that several of the proofs use, on numbers, on functions that are *)
(* defined by recursion, and on sequences that are joined.  RunExists says *)
(* that there is a function that starts with b and goes on as told, which  *)
(* is how it is known what FlattenSeq and the like are; UpTo, that what    *)
(* holds at 0 and goes on from each number to the next holds of all.       *)
(***************************************************************************)
EXTENDS Naturals, Sequences, SequencesExt, FiniteSets, FiniteSetsExt,
        SequenceTheorems, FiniteSetTheorems, FunctionTheorems, TLAPS

(* A set of natural numbers that is not empty has a least one.             *)
LEMMA LeastNat ==
  ASSUME NEW S \in SUBSET Nat, S # {}
  PROVE  \E n \in S : \A m \in S : n <= m
<1>1. PICK n \in S : \A m \in S : <<m, n>> \notin OpToRel(<, Nat)
  BY NatLessThanWellFounded, WFMin
<1>2. \A m \in S : ~(m < n)
  BY <1>1 DEF OpToRel
<1> QED
  BY <1>2

(* Min of a set of numbers is the least of them.                           *)
LEMMA MinIs ==
  ASSUME NEW S \in SUBSET Nat, S # {}
  PROVE  Min(S) \in S /\ \A m \in S : Min(S) <= m
<1>1. \E n \in S : \A m \in S : n <= m
  BY LeastNat
<1> QED
  BY <1>1 DEF Min

(* Two functions that start the same and go on the same are the same.      *)
LEMMA SameUpTo ==
  ASSUME NEW N \in Nat, NEW f, NEW g, f[0] = g[0],
         \A n \in 1..N : f[n - 1] = g[n - 1] => f[n] = g[n]
  PROVE  \A n \in 0..N : f[n] = g[n]
<1> DEFINE S == {n \in 0..N : f[n] # g[n]}
<1>1. SUFFICES ASSUME S # {} PROVE FALSE
  OBVIOUS
<1>2. PICK n \in S : \A m \in S : n <= m
  <2>1. S \in SUBSET Nat
    OBVIOUS
  <2> HIDE DEF S
  <2> QED
    BY <1>1, <2>1, LeastNat
<1>3. n \in 0..N /\ f[n] # g[n] /\ n # 0
  <2>1. n \in 0..N /\ f[n] # g[n]
    BY <1>2, Zenon
  <2> QED
    BY <2>1
<1>4. n \in 1..N /\ n - 1 \in 0..N /\ n - 1 \notin S
  BY <1>2, <1>3
<1> QED
  BY <1>3, <1>4

(* What holds at 0 and goes on from each number to the next holds up to N. *)
LEMMA UpTo ==
  ASSUME NEW N \in Nat, NEW P, 0 \in P,
         \A i \in 1..N : i - 1 \in P => i \in P
  PROVE  0..N \subseteq P
<1> DEFINE S == (0..N) \ P
<1>1. SUFFICES ASSUME S # {} PROVE FALSE
  OBVIOUS
<1>2. PICK n \in S : \A m \in S : n <= m
  <2>1. S \in SUBSET Nat
    OBVIOUS
  <2> HIDE DEF S
  <2> QED
    BY <1>1, <2>1, LeastNat
<1>3. n \in 1..N /\ n - 1 \in 0..N /\ n - 1 \notin S
  BY <1>2
<1> QED
  BY <1>2, <1>3

(* From b on, n steps can be made in V, each as G says.                    *)
IsRun(f, V, n, b, G) ==
  /\ f \in [0..n -> V] /\ f[0] = b
  /\ \A i \in 1..n : f[i] = G[i][f[i - 1]]

LEMMA RunExists ==
  ASSUME NEW V, NEW n \in Nat, NEW b \in V, NEW G \in [1..n -> [V -> V]]
  PROVE  \E f : IsRun(f, V, n, b, G)
<1> DEFINE P == {i \in 0..n : \E f : IsRun(f, V, i, b, G)}
<1>1. 0 \in P
  <2> DEFINE f == [i \in 0..0 |-> b]
  <2>1. IsRun(f, V, 0, b, G)
    BY DEF IsRun
  <2> QED
    BY <2>1
<1>2. ASSUME NEW k \in 1..n, k - 1 \in P PROVE k \in P
  <2>1. PICK f : IsRun(f, V, k - 1, b, G)
    BY <1>2
  <2>2. k \in Nat /\ k - 1 \in 0..(k - 1) /\ 0 \in 0..(k - 1)
    OBVIOUS
  <2>3. f \in [0..(k - 1) -> V]
    BY <2>1 DEF IsRun
  <2> DEFINE next == G[k][f[k - 1]]
  <2>4. next \in V
    BY <2>2, <2>3
  <2> HIDE DEF next
  <2> DEFINE g == [i \in 0..k |-> IF i < k THEN f[i] ELSE next]
  <2>5. /\ g \in [0..k -> V] /\ g[k] = next
        /\ \A i \in 0..(k - 1) : g[i] = f[i]
    BY <2>2, <2>3, <2>4
  <2> HIDE DEF g
  <2>6. g[0] = b
    BY <2>1, <2>2, <2>5 DEF IsRun
  <2>7. ASSUME NEW i \in 1..k PROVE g[i] = G[i][g[i - 1]]
    <3>1. g[i - 1] = f[i - 1]
      BY <2>2, <2>5
    <3>2. CASE i < k
      <4>1. i \in 1..(k - 1) /\ g[i] = f[i]
        BY <2>2, <2>5, <3>2
      <4> QED
        BY <2>1, <3>1, <4>1 DEF IsRun
    <3>3. CASE i = k
      BY <2>5, <3>1, <3>3 DEF next
    <3> QED
      BY <2>2, <3>2, <3>3
  <2>8. IsRun(g, V, k, b, G)
    BY <2>5, <2>6, <2>7 DEF IsRun
  <2> QED
    BY <2>8
<1>3. 0..n \subseteq P
  <2> HIDE DEF P
  <2> QED
    BY <1>1, <1>2, UpTo
<1> QED
  BY <1>3

-----------------------------------------------------------------------------
(* Sequences, and two of them joined. *)

IsSeq(s) == \E S : s \in Seq(S)

LEMMA SeqsJoin ==
  ASSUME NEW s, NEW t, IsSeq(s), IsSeq(t)
  PROVE  /\ IsSeq(s \o t)
         /\ Len(s) \in Nat /\ Len(t) \in Nat
         /\ DOMAIN s = 1..Len(s) /\ DOMAIN t = 1..Len(t)
         /\ DOMAIN (s \o t) = 1..(Len(s) + Len(t))
         /\ \A i \in 1..Len(s) : (s \o t)[i] = s[i]
         /\ \A i \in 1..Len(t) : (s \o t)[Len(s) + i] = t[i]
<1>1. PICK S : s \in Seq(S)
  BY DEF IsSeq
<1>2. PICK T : t \in Seq(T)
  BY DEF IsSeq
<1> DEFINE U == S \cup T
<1>3. s \in Seq(U) /\ t \in Seq(U)
  BY <1>1, <1>2
<1> HIDE DEF U
<1>4. /\ s \o t \in Seq(U) /\ Len(s \o t) = Len(s) + Len(t)
      /\ Len(s) \in Nat /\ Len(t) \in Nat
      /\ \A i \in 1..(Len(s) + Len(t)) :
           (s \o t)[i] = IF i <= Len(s) THEN s[i] ELSE t[i - Len(s)]
  BY <1>3, ConcatProperties, LenProperties
<1>5. /\ DOMAIN s = 1..Len(s) /\ DOMAIN t = 1..Len(t)
      /\ DOMAIN (s \o t) = 1..Len(s \o t)
  BY <1>3, <1>4, LenProperties
<1>6. \A i \in 1..Len(s) : (s \o t)[i] = s[i]
  BY <1>4
<1>7. ASSUME NEW i \in 1..Len(t) PROVE (s \o t)[Len(s) + i] = t[i]
  <2>1. Len(s) + i \in 1..(Len(s) + Len(t)) /\ ~(Len(s) + i <= Len(s))
        /\ Len(s) + i - Len(s) = i
    BY <1>4
  <2> QED
    BY <1>4, <2>1
<1> QED
  BY <1>4, <1>5, <1>6, <1>7 DEF IsSeq

LEMMA SeqsAssociate ==
  ASSUME NEW s, NEW t, NEW u, IsSeq(s), IsSeq(t), IsSeq(u)
  PROVE  (s \o t) \o u = s \o (t \o u)
<1>1. PICK S, T, U : s \in Seq(S) /\ t \in Seq(T) /\ u \in Seq(U)
  BY DEF IsSeq
<1>2. \E V : s \in Seq(V) /\ t \in Seq(V) /\ u \in Seq(V)
  <2>1. s \in Seq(S \cup T \cup U) /\ t \in Seq(S \cup T \cup U)
        /\ u \in Seq(S \cup T \cup U)
    BY <1>1
  <2> QED
    BY <2>1
<1>3. PICK V : s \in Seq(V) /\ t \in Seq(V) /\ u \in Seq(V)
  BY <1>2
<1>4. s \in Seq(V) /\ t \in Seq(V) /\ u \in Seq(V)
  BY <1>3
<1> QED
  BY <1>4

LEMMA RemoveAtIs ==
  ASSUME NEW S, NEW s \in Seq(S), NEW i \in DOMAIN s
  PROVE  /\ RemoveAt(s, i) \in Seq(S)
         /\ \A j \in DOMAIN RemoveAt(s, i) :
              /\ (IF j < i THEN j ELSE j + 1) \in DOMAIN s \ {i}
              /\ RemoveAt(s, i)[j] = s[IF j < i THEN j ELSE j + 1]
<1> DEFINE a == SubSeq(s, 1, i - 1)
           b == SubSeq(s, i + 1, Len(s))
<1>1. Len(s) \in Nat /\ DOMAIN s = 1..Len(s) /\ i \in 1..Len(s)
  BY LenProperties
<1>2. /\ a \in Seq(S) /\ Len(a) = i - 1
      /\ \A j \in 1..(i - 1) : a[j] = s[j]
  <2>1. 1 \in 1..(Len(s) + 1) /\ i - 1 \in 0..Len(s)
    BY <1>1
  <2> QED
    BY <1>1, <2>1, SubSeqProperties
<1>3. /\ b \in Seq(S) /\ Len(b) = Len(s) - i
      /\ \A j \in 1..(Len(s) - i) : b[j] = s[j + i]
  <2>1. i + 1 \in 1..(Len(s) + 1) /\ Len(s) \in 0..Len(s)
    BY <1>1
  <2> QED
    BY <1>1, <2>1, SubSeqProperties
<1> HIDE DEF a, b
<1> DEFINE c == a \o b
           n == Len(s)
<1>4. /\ c \in Seq(S) /\ DOMAIN c = 1..(n - 1)
      /\ \A j \in 1..(n - 1) : c[j] = IF j < i THEN a[j] ELSE b[j - (i - 1)]
  <2>1. Len(a) + Len(b) = n - 1 /\ n \in Nat /\ i \in 1..n
    BY <1>1, <1>2, <1>3
  <2>2. /\ c \in Seq(S) /\ Len(c) = Len(a) + Len(b)
        /\ \A j \in 1..(Len(a) + Len(b)) :
             c[j] = IF j <= Len(a) THEN a[j] ELSE b[j - Len(a)]
    BY <1>2, <1>3, ConcatProperties
  <2>3. DOMAIN c = 1..Len(c)
    BY <2>2, LenProperties
  <2> HIDE DEF c, n
  <2>4. \A j \in 1..(n - 1) : j <= i - 1 <=> j < i
    BY <2>1
  <2> QED
    BY <1>2, <2>1, <2>2, <2>3, <2>4
<1>5. ASSUME NEW j \in 1..(n - 1)
      PROVE  /\ (IF j < i THEN j ELSE j + 1) \in DOMAIN s \ {i}
             /\ c[j] = s[IF j < i THEN j ELSE j + 1]
  <2> HIDE DEF c
  <2>1. CASE j < i
    <3>1. j \in 1..(i - 1) /\ j \in DOMAIN s \ {i}
      BY <1>1, <2>1
    <3> QED
      BY <1>2, <1>4, <2>1, <3>1
  <2>2. CASE ~(j < i)
    <3> DEFINE m == j - (i - 1)
    <3>1. m \in 1..(Len(s) - i) /\ m + i = j + 1 /\ j + 1 \in DOMAIN s \ {i}
      BY <1>1, <2>2
    <3>2. c[j] = b[m]
      BY <1>4, <2>2
    <3> HIDE DEF m
    <3>3. b[m] = s[m + i]
      BY <1>3, <3>1
    <3> QED
      BY <2>2, <3>1, <3>2, <3>3
  <2> QED
    BY <2>1, <2>2
<1>6. RemoveAt(s, i) = c
  BY DEF RemoveAt, a, b
<1> HIDE DEF c, n
<1> QED
  BY <1>4, <1>5, <1>6

-----------------------------------------------------------------------------
(* Sequences of sequences, and of the elements of a set. *)

(* Sequences that can be joined: C has the empty one and every two joined. *)
Joins(C) == <<>> \in C /\ \A s, t \in C : s \o t \in C

(* The first sequences joined, for 1, 2, ... of them.                      *)
IsFlat(f, q) ==
  /\ f[1] = q[1]
  /\ \A i \in 2..Len(q) : f[i] = f[i - 1] \o q[i]
  /\ FlattenSeq(q) = f[Len(q)]

LEMMA FlatRun ==
  ASSUME NEW C, Joins(C), NEW q \in Seq(C), Len(q) # 0
  PROVE  \E f \in [1..Len(q) -> C] : IsFlat(f, q)
<1> DEFINE n == Len(q)
           flatten == CHOOSE flatten : flatten = [i \in 1..n |->
                        IF i = 1 THEN q[i] ELSE flatten[i - 1] \o q[i]]
<1>1. n \in Nat /\ \A i \in 1..n : q[i] \in C
  BY LenProperties, ElementOfSeq
<1>2. n # 0
  OBVIOUS
<1>3. FlattenSeq(q) = flatten[n]
  BY <1>2 DEF FlattenSeq
<1>4. n - 1 \in Nat
  BY <1>1, <1>2
<1> DEFINE G == [i \in 1..(n - 1) |-> [c \in C |-> c \o q[i + 1]]]
<1> HIDE DEF n, flatten
<1>5. G \in [1..(n - 1) -> [C -> C]]
  <2>1. \A i \in 1..(n - 1) : q[i + 1] \in C
    BY <1>1, <1>4
  <2>2. \A i \in 1..(n - 1) : [c \in C |-> c \o q[i + 1]] \in [C -> C]
    BY <2>1 DEF Joins
  <2> QED
    BY <2>2
<1>6. q[1] \in C
  BY <1>1, <1>2
<1>7. PICK f : IsRun(f, C, n - 1, q[1], G)
  <2> HIDE DEF G
  <2> QED
    BY <1>4, <1>5, <1>6, RunExists
<1> DEFINE g == [i \in 1..n |-> f[i - 1]]
<1>8. g = [i \in 1..n |-> IF i = 1 THEN q[i] ELSE g[i - 1] \o q[i]]
  <2>1. ASSUME NEW i \in 1..n
        PROVE  f[i - 1] = IF i = 1 THEN q[i] ELSE g[i - 1] \o q[i]
    <3>1. CASE i = 1
      BY <1>7, <3>1 DEF IsRun
    <3>2. CASE i # 1
      <4>1. i - 1 \in 1..(n - 1) /\ i - 1 - 1 \in 0..(n - 1) /\ i - 1 \in 1..n
        BY <1>1, <3>2
      <4>2. f[i - 1] = G[i - 1][f[i - 1 - 1]] /\ f[i - 1 - 1] \in C
        BY <1>7, <4>1 DEF IsRun
      <4>3. f[i - 1] = f[i - 1 - 1] \o q[i - 1 + 1]
        BY <4>1, <4>2
      <4>4. g[i - 1] = f[i - 1 - 1] /\ i - 1 + 1 = i
        BY <4>1
      <4> QED
        BY <3>2, <4>3, <4>4
    <3> QED
      BY <3>1, <3>2
  <2> QED
    BY <2>1
<1>9. flatten = [i \in 1..n |-> IF i = 1 THEN q[i] ELSE flatten[i - 1] \o q[i]]
  BY <1>8 DEF flatten
<1> DEFINE P == {i \in 0..(n - 1) : flatten[i + 1] \in C}
<1>10. 0 \in P
  BY <1>1, <1>2, <1>4, <1>6, <1>9
<1>11. ASSUME NEW i \in 1..(n - 1), i - 1 \in P PROVE i \in P
  <2>1. i - 1 + 1 = i /\ i + 1 \in 1..n /\ i + 1 # 1 /\ i + 1 - 1 = i
    BY <1>1
  <2> DEFINE j == i + 1
  <2>2. j \in 1..n /\ j # 1 /\ j - 1 = i /\ i \in 0..(n - 1)
    BY <1>1, <2>1
  <2> HIDE DEF j
  <2>3. flatten[j] = flatten[i] \o q[j]
    BY <1>9, <2>2
  <2>4. flatten[i] \in C /\ q[j] \in C
    BY <1>1, <1>11, <2>1, <2>2
  <2>5. flatten[j] \in C
    BY <2>3, <2>4 DEF Joins
  <2> QED
    BY <2>2, <2>5 DEF j
<1>12. \A i \in 1..n : flatten[i] \in C
  <2> HIDE DEF P
  <2>1. 0..(n - 1) \subseteq P
    BY <1>4, <1>10, <1>11, UpTo
  <2>2. \A i \in 1..n : i - 1 \in 0..(n - 1) /\ i - 1 + 1 = i
    BY <1>1
  <2> QED
    BY <2>1, <2>2 DEF P
<1>13. flatten \in [1..n -> C] /\ flatten[1] = q[1]
       /\ \A i \in 2..n : flatten[i] = flatten[i - 1] \o q[i]
  <2>1. flatten \in [1..n -> C]
    BY <1>9, <1>12
  <2>2. 1 \in 1..n /\ \A i \in 2..n : i \in 1..n /\ i # 1
    BY <1>1, <1>2
  <2> QED
    BY <1>9, <2>1, <2>2
<1> QED
  BY <1>3, <1>13 DEF IsFlat, n

LEMMA FlattenIs ==
  ASSUME NEW C, Joins(C), NEW q \in Seq(C)
  PROVE  FlattenSeq(q) \in C
<1>1. Len(q) \in Nat
  BY LenProperties
<1>2. CASE Len(q) = 0
  BY <1>2, EmptySeq DEF FlattenSeq, Joins
<1>3. CASE Len(q) # 0
  <2>1. PICK f \in [1..Len(q) -> C] : IsFlat(f, q)
    BY <1>3, FlatRun
  <2>2. Len(q) \in 1..Len(q)
    BY <1>1, <1>3
  <2> QED
    BY <2>1, <2>2 DEF IsFlat
<1> QED
  BY <1>2, <1>3

(* What is joined has the elements of each.                                *)
LEMMA SeqJoins == ASSUME NEW S PROVE Joins(Seq(S))
  BY ConcatProperties, EmptySeq DEF Joins

LEMMA FlattenHas ==
  ASSUME NEW S, NEW q \in Seq(Seq(S)), NEW i \in DOMAIN q, NEW j \in DOMAIN q[i]
  PROVE  \E k \in DOMAIN FlattenSeq(q) : FlattenSeq(q)[k] = q[i][j]
<1> DEFINE n == Len(q)
           x == q[i][j]
           Has == {s \in Seq(S) : \E k \in DOMAIN s : s[k] = x}
           P == {m \in 0..n : \A f \in [1..n -> Seq(S)] :
                   IsFlat(f, q) /\ i <= m => f[m] \in Has}
<1>1. n \in Nat /\ i \in 1..n /\ \A m \in 1..n : q[m] \in Seq(S)
  BY LenProperties, ElementOfSeq
<1>2. q[i] \in Has
  BY <1>1
<1>3. \A s, t \in Seq(S) : s \in Has \/ t \in Has => s \o t \in Has
  <2> SUFFICES ASSUME NEW s \in Seq(S), NEW t \in Seq(S), s \in Has \/ t \in Has
               PROVE  s \o t \in Has
    OBVIOUS
  <2>1. /\ s \o t \in Seq(S) /\ Len(s) \in Nat /\ Len(t) \in Nat
        /\ DOMAIN s = 1..Len(s) /\ DOMAIN t = 1..Len(t)
        /\ DOMAIN (s \o t) = 1..(Len(s) + Len(t))
        /\ \A k \in 1..(Len(s) + Len(t)) :
             (s \o t)[k] = IF k <= Len(s) THEN s[k] ELSE t[k - Len(s)]
    BY ConcatProperties, LenProperties
  <2>2. CASE s \in Has
    <3>1. PICK k \in 1..Len(s) : s[k] = x
      BY <2>1, <2>2
    <3>2. k \in DOMAIN (s \o t) /\ (s \o t)[k] = x
      BY <2>1, <3>1
    <3> QED
      BY <2>1, <3>2
  <2>3. CASE t \in Has
    <3>1. PICK k \in 1..Len(t) : t[k] = x
      BY <2>1, <2>3
    <3>2. k + Len(s) \in DOMAIN (s \o t) /\ (s \o t)[k + Len(s)] = x
      BY <2>1, <3>1
    <3> QED
      BY <2>1, <3>2
  <2> QED
    BY <2>2, <2>3
<1>4. 0 \in P
  BY <1>1
<1>5. ASSUME NEW m \in 1..n, m - 1 \in P PROVE m \in P
  <2> SUFFICES ASSUME NEW f \in [1..n -> Seq(S)], IsFlat(f, q), i <= m
               PROVE  f[m] \in Has
    BY <1>1
  <2>1. m \in 0..n
    BY <1>1
  <2> HIDE DEF Has
  <2>2. CASE m = 1
    BY <1>1, <1>2, <2>2 DEF IsFlat
  <2>3. CASE m # 1
    <3>1. m \in 2..n /\ m - 1 \in 1..n
      BY <1>1, <2>3
    <3>2. f[m] = f[m - 1] \o q[m] /\ f[m - 1] \in Seq(S) /\ q[m] \in Seq(S)
      BY <1>1, <3>1 DEF IsFlat
    <3>3. i <= m - 1 \/ i = m
      BY <1>1, <3>1
    <3>4. f[m - 1] \in Has \/ q[m] \in Has
      BY <1>2, <1>5, <3>3
    <3> QED
      BY <1>3, <3>2, <3>4
  <2> QED
    BY <2>2, <2>3
<1>6. n \in P
  <2> HIDE DEF P, n
  <2>1. 0..n \subseteq P
    BY <1>1, <1>4, <1>5, UpTo
  <2> QED
    BY <1>1, <2>1
<1>7. n # 0 /\ Joins(Seq(S))
  BY <1>1, ConcatProperties, EmptySeq DEF Joins
<1>8. PICK f \in [1..n -> Seq(S)] : IsFlat(f, q)
  BY <1>7, FlatRun
<1>9. f[n] \in Has
  BY <1>1, <1>6, <1>8
<1> QED
  BY <1>8, <1>9 DEF IsFlat

(* A finite set as a sequence: of its elements, all of them.               *)
LEMMA SetToSeqIs ==
  ASSUME NEW S, IsFiniteSet(S)
  PROVE  /\ SetToSeq(S) \in Seq(S)
         /\ \A x \in S : \E i \in DOMAIN SetToSeq(S) : SetToSeq(S)[i] = x
<1> DEFINE n == Cardinality(S)
           f == SetToSeq(S)
<1>1. n \in Nat /\ ExistsBijection(1..n, S)
  BY FS_CardinalityType
<1>2. \E g \in [1..n -> S] : IsInjective(g)
  BY <1>1 DEF ExistsBijection, Bijection, Injection
<1>3. f \in [1..n -> S] /\ IsInjective(f)
  BY <1>2 DEF SetToSeq
<1>4. IsFiniteSet(1..n) /\ Cardinality(1..n) = n
  BY <1>1, FS_Interval
<1> HIDE DEF f, n
<1>5. f \in Injection(1..n, S)
  BY <1>3 DEF Injection
<1>6. f \in Surjection(1..n, S)
  BY <1>4, <1>5, FS_Injection DEF n
<1> QED
  BY <1>1, <1>3, <1>6 DEF Surjection, f

LEMMA MaxIs ==
  ASSUME NEW N \in Nat, NEW S \in SUBSET (0..N), S # {}
  PROVE  Max(S) \in S /\ \A m \in S : m <= Max(S)
<1> DEFINE T == {N - m : m \in S}
<1>1. \E n \in T : \A m \in T : n <= m
  <2>1. \A m \in S : N - m \in Nat
    OBVIOUS
  <2>2. T \in SUBSET Nat /\ T # {}
    BY <2>1
  <2> HIDE DEF T
  <2> QED
    BY <2>2, LeastNat
<1>2. \E n \in S : \A m \in S : m <= n
  <2>1. PICK k \in S : \A m \in T : N - k <= m
    BY <1>1
  <2>2. \A m \in S : N - m \in T /\ m \in 0..N
    OBVIOUS
  <2> HIDE DEF T
  <2>3. \A m \in S : m <= k
    BY <2>1, <2>2
  <2> QED
    BY <2>3
<1> QED
  BY <1>2 DEF Max

(* A sequence joined to the others. *)
LEMMA FlattenAppend ==
  ASSUME NEW C, Joins(C), NEW q \in Seq(C), NEW x \in C
  PROVE  FlattenSeq(Append(q, x)) = IF q = <<>> THEN x ELSE FlattenSeq(q) \o x
<1> DEFINE n == Len(q)
           r == Append(q, x)
<1>1. /\ n \in Nat /\ r \in Seq(C) /\ Len(r) = n + 1 /\ r[n + 1] = x
      /\ \A i \in 1..n : r[i] = q[i]
      /\ q # <<>> => n # 0
  BY EmptySeq, LenProperties, AppendProperties
<1>2. PICK g \in [1..Len(r) -> C] : IsFlat(g, r)
  <2> HIDE DEF r, n
  <2>1. Len(r) # 0
    BY <1>1
  <2> QED
    BY <1>1, <2>1, FlatRun
<1> DEFINE k == n + 1
<1>3. CASE q = <<>>
  <2>1. n = 0
    BY <1>3
  <2> HIDE DEF n, r
  <2> QED
    BY <1>1, <1>2, <1>3, <2>1 DEF IsFlat, r
<1>4. CASE q # <<>>
  <2>1. PICK f \in [1..n -> C] : IsFlat(f, q)
    BY <1>1, <1>4, FlatRun
  <2>2. /\ f[1] = q[1] /\ \A i \in 2..n : f[i] = f[i - 1] \o q[i]
        /\ FlattenSeq(q) = f[n]
    BY <2>1 DEF IsFlat
  <2> HIDE DEF n, r
  <2>3. /\ g[1] = r[1] /\ \A i \in 2..k : g[i] = g[i - 1] \o r[i]
        /\ FlattenSeq(r) = g[k]
    BY <1>1, <1>2 DEF IsFlat
  <2> DEFINE P == {i \in 0..(n - 1) : g[i + 1] = f[i + 1]}
  <2>4. n \in Nat \ {0} /\ 1 \in 1..n /\ 0 \in 0..(n - 1) /\ 0 + 1 = 1
    BY <1>1, <1>4
  <2>5. g[1] = f[1]
    BY <1>1, <2>2, <2>3, <2>4
  <2>6. 0 \in P
    BY <2>4, <2>5
  <2>7. ASSUME NEW i \in 1..(n - 1), i - 1 \in P PROVE i \in P
    <3> DEFINE j == i + 1
    <3>1. /\ j \in 2..n /\ j \in 2..k /\ j \in 1..n /\ j - 1 = i
          /\ i - 1 + 1 = i /\ i \in 0..(n - 1)
      BY <2>4
    <3>2. g[i] = f[i]
      BY <2>7, <3>1
    <3> HIDE DEF j, k
    <3>3. g[j] = g[j - 1] \o r[j] /\ f[j] = f[j - 1] \o q[j]
      BY <2>2, <2>3, <3>1
    <3>4. g[j] = f[j]
      BY <1>1, <3>1, <3>2, <3>3
    <3> QED
      BY <3>1, <3>4 DEF j
  <2>8. 0..(n - 1) \subseteq P
    <3>1. n - 1 \in Nat
      BY <2>4
    <3> HIDE DEF P
    <3> QED
      BY <2>6, <2>7, <3>1, UpTo
  <2>9. g[n] = f[n]
    <3>1. n - 1 \in 0..(n - 1) /\ n - 1 + 1 = n
      BY <2>4
    <3> QED
      BY <2>8, <3>1
  <2>10. k \in 2..k /\ k - 1 = n /\ r[k] = x
    BY <1>1, <2>4
  <2> HIDE DEF k
  <2>11. g[k] = g[n] \o x
    BY <2>3, <2>10
  <2> QED
    BY <1>4, <2>2, <2>3, <2>9, <2>11 DEF r
<1> QED
  BY <1>3, <1>4

LEMMA FlattenJoin ==
  ASSUME NEW S, NEW s \in Seq(Seq(S)), NEW t \in Seq(Seq(S))
  PROVE  FlattenSeq(s \o t) = FlattenSeq(s) \o FlattenSeq(t)
<1> DEFINE n == Len(t)
           upto(k) == SubSeq(t, 1, k)
           P == {k \in 0..n : FlattenSeq(s \o upto(k)) = FlattenSeq(s) \o FlattenSeq(upto(k))}
<1>1. n \in Nat /\ Joins(Seq(S)) /\ FlattenSeq(s) \in Seq(S)
  BY LenProperties, SeqJoins, FlattenIs
<1>2. \A u \in Seq(S) : /\ u \o <<>> = u /\ <<>> \o u = u
  BY ConcatEmptySeq
<1>3. FlattenSeq(<<>>) = <<>>
  BY DEF FlattenSeq
<1>4. \A u \in Seq(Seq(S)), x \in Seq(S) : FlattenSeq(Append(u, x)) = FlattenSeq(u) \o x
  <2> TAKE u \in Seq(Seq(S)), x \in Seq(S)
  <2>1. FlattenSeq(Append(u, x)) = IF u = <<>> THEN x ELSE FlattenSeq(u) \o x
    BY <1>1, FlattenAppend
  <2> QED
    BY <1>2, <1>3, <2>1
<1>5. 0 \in P
  <2>1. upto(0) = <<>> /\ s \o <<>> = s /\ 0 \in 0..n
    BY <1>1, SubSeqEmpty, ConcatEmptySeq
  <2> QED
    BY <1>1, <1>2, <1>3, <2>1
<1>6. ASSUME NEW k \in 1..n, k - 1 \in P PROVE k \in P
  <2> DEFINE u == upto(k - 1)
             x == t[k]
  <2>1. x \in Seq(S) /\ u \in Seq(Seq(S)) /\ upto(k) = Append(u, x) /\ k \in 0..n
    <3>1. /\ k \in 1..Len(t) /\ 1 \in 1..Len(t) /\ k \in 1..k /\ k \in 0..n
          /\ k - 1 \in Int /\ \A i \in 1..(k - 1) : i \in 1..Len(t)
      BY <1>1
    <3>2. \A i \in 1..Len(t) : t[i] \in Seq(S)
      BY ElementOfSeq
    <3>3. x \in Seq(S) /\ u \in Seq(Seq(S))
      BY <3>1, <3>2, SubSeqProperties
    <3>4. upto(k) = u \o <<x>>
      BY <3>1, SubSeqRecursiveSecond
    <3> HIDE DEF u, x, upto
    <3> QED
      BY <3>1, <3>3, <3>4, AppendIsConcat
  <2>2. FlattenSeq(s \o u) = FlattenSeq(s) \o FlattenSeq(u)
    BY <1>6
  <2> HIDE DEF u, x, upto
  <2>3. s \o Append(u, x) = Append(s \o u, x) /\ s \o u \in Seq(Seq(S))
    <3> DEFINE y == <<x>>
    <3>1. s \o u \in Seq(Seq(S)) /\ y \in Seq(Seq(S))
      BY <2>1, ConcatProperties
    <3>2. Append(u, x) = u \o y /\ Append(s \o u, x) = (s \o u) \o y
      BY <2>1, <3>1, AppendIsConcat
    <3> HIDE DEF y
    <3>3. (s \o u) \o y = s \o (u \o y)
      <4>1. u \in Seq(Seq(S)) /\ y \in Seq(Seq(S))
        BY <2>1, <3>1
      <4> HIDE DEF n, P
      <4> QED
        BY <4>1
    <3> QED
      BY <3>1, <3>2, <3>3
  <2>4. FlattenSeq(s \o upto(k)) = (FlattenSeq(s) \o FlattenSeq(u)) \o x
    <3>1. FlattenSeq(Append(s \o u, x)) = FlattenSeq(s \o u) \o x
      BY <1>4, <2>1, <2>3
    <3> QED
      BY <2>1, <2>2, <2>3, <3>1
  <2>5. FlattenSeq(s) \o FlattenSeq(upto(k)) = FlattenSeq(s) \o (FlattenSeq(u) \o x)
    BY <1>4, <2>1
  <2>6. (FlattenSeq(s) \o FlattenSeq(u)) \o x = FlattenSeq(s) \o (FlattenSeq(u) \o x)
    <3> DEFINE a == FlattenSeq(s)
               b == FlattenSeq(u)
    <3>1. a \in Seq(S) /\ b \in Seq(S) /\ x \in Seq(S)
      BY <1>1, <2>1, FlattenIs
    <3> HIDE DEF a, b, n, P
    <3>2. (a \o b) \o x = a \o (b \o x)
      BY <3>1
    <3> QED
      BY <3>2 DEF a, b
  <2> QED
    BY <2>1, <2>4, <2>5, <2>6
<1>7. 0..n \subseteq P
  <2> HIDE DEF P, n
  <2> QED
    BY <1>1, <1>5, <1>6, UpTo
<1>8. n \in P /\ upto(n) = t
  BY <1>1, <1>7, SubSeqFull
<1> QED
  BY <1>8
=============================================================================
