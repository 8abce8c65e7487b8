--------------------------- MODULE Tables_proofs -----------------------------
(***************************************************************************)
(* Theorems about Tables: its chains hold together, next knows the keys it *)
(* has returned, the length is a border, and the table implements the map  *)
(* of TableMap.                                                            *)
(***************************************************************************)
EXTENDS Tables, FiniteSetTheorems, Induction, TLAPS

NodeRec == [key : Value, dead : BOOLEAN, val : Value, next : Int]

\* The positions in the hash part.
Pos(tb) == 1..Len(tb.node)

\* The chain that goes through i goes on, at Succ(tb, i).
Linked(tb, i) == tb.node[i].next # 0
Succ(tb, i) == i + tb.node[i].next

\* Down the chain from a, i is met before any other node of M.
Closed(tb, S, M) == \A j \in S : j \notin M /\ Linked(tb, j) => Succ(tb, j) \in S
Via(tb, a, i, M) == \A S \in SUBSET Pos(tb) : a \in S /\ Closed(tb, S, M) => i \in S

\* The nodes that have or had key k.
KeyAt(tb, k) == {j \in Pos(tb) : tb.node[j].key = k}

-----------------------------------------------------------------------------
(* The invariant *)

Shape(tb) == tb \in Table /\ tb.lastfree \in 0..Len(tb.node)

\* Every value is that of its key.
OwnValues(tb) ==
  /\ \A i \in 1..Len(tb.array) : tb.array[i] # nil => tb.array[i] = [tt |-> "int", h |-> i]
  /\ \A i \in Pos(tb) : tb.node[i].val # nil => tb.node[i].val = tb.node[i].key /\ ~tb.node[i].dead

\* A free node is in no chain, and getfreepos still finds it.
FreeNodes(tb) ==
  \A i \in Pos(tb) : tb.node[i].key = nil => ~Linked(tb, i) /\ tb.node[i].val = nil /\ i <= tb.lastfree

\* A key that belongs to the array part is not in the hash part.
Apart(tb) == \A i \in Pos(tb) : tb.node[i].key # nil => ~InArray(tb, tb.node[i].key)

\* Chains do not leave the hash part, nor lead to free nodes, nor meet.
LinksOK(tb) ==
  /\ \A i \in Pos(tb) : Linked(tb, i) => Succ(tb, i) \in Pos(tb) /\ tb.node[Succ(tb, i)].key # nil
  /\ \A i, j \in Pos(tb) : Linked(tb, i) /\ Linked(tb, j) /\ Succ(tb, i) = Succ(tb, j) => i = j

\* Chains end: the nodes have ranks that grow along them.
Ranks(tb, r) == r \in [Pos(tb) -> Nat] /\ \A i \in Pos(tb) : Linked(tb, i) => r[i] < r[Succ(tb, i)]
Acyclic(tb) == \E r : Ranks(tb, r)

\* A key that is not dead is met first down the chain of its main position; and if it is not at its
\* main position, the key there is.
Live(tb, i) == tb.node[i].key # nil /\ ~tb.node[i].dead
Main(tb, i) == mainposition(tb, tb.node[i].key)
Found(tb) ==
  \A i \in Pos(tb) : Live(tb, i) => Via(tb, Main(tb, i), i, KeyAt(tb, tb.node[i].key))
Home(tb) ==
  \A i \in Pos(tb) : Live(tb, i) /\ Main(tb, i) # i =>
    tb.node[Main(tb, i)].key # nil /\ Main(tb, Main(tb, i)) = Main(tb, i)

Good(tb) ==
  /\ Shape(tb) /\ OwnValues(tb) /\ FreeNodes(tb) /\ Apart(tb)
  /\ LinksOK(tb) /\ Acyclic(tb) /\ Found(tb) /\ Home(tb)

-----------------------------------------------------------------------------
(* Keys and tables *)

LEMMA StoredIs ==
  ASSUME NEW k \in Stored
  PROVE  /\ k # nil /\ k.h \in Int /\ k.tt \in {"int", "flt", "str", "obj"} /\ k \in Value
         /\ k.tt = "int" => k = [tt |-> "int", h |-> k.h] /\ k.h <= MAXINTEGER
         /\ Normal(k) = k
<1>1. PICK x \in Keys : k = Normal(x)
  BY DEF Stored
<1>2. x \in [tt : {"int", "flt", "integral", "str", "obj"}, h : Int]
  BY TablesAssumption
<1>3. x.tt \in {"int", "integral"} => x.h <= MAXINTEGER
  BY TablesAssumption
<1>4. CASE x.tt = "integral"
  <2>1. k = [tt |-> "int", h |-> x.h]
    BY <1>1, <1>2, <1>4 DEF Normal
  <2>2. k # nil
    BY <2>1, TablesAssumption
  <2> QED
    BY <1>2, <1>3, <1>4, <2>1, <2>2 DEF Normal, Value
<1>5. CASE x.tt # "integral"
  <2>1. k = x /\ x = [tt |-> x.tt, h |-> x.h]
    BY <1>1, <1>2, <1>5 DEF Normal
  <2>2. k # nil
    BY <1>2, <2>1, TablesAssumption
  <2> QED
    BY <1>2, <1>3, <1>5, <2>1, <2>2 DEF Normal, Value
<1> QED
  BY <1>4, <1>5

LEMMA ValueIs ==
  ASSUME NEW v \in Value
  PROVE  v = nil \/ v \in Stored
  BY DEF Value

LEMMA TableIs ==
  ASSUME NEW tb, Shape(tb)
  PROVE  /\ tb \in Table /\ tb.array \in Seq(Value) /\ tb.node \in Seq(NodeRec)
         /\ Len(tb.array) \in Nat /\ Len(tb.node) \in Nat /\ tb.lastfree \in 0..Len(tb.node)
         /\ DOMAIN tb.node = Pos(tb)
         /\ \A i \in Pos(tb) : tb.node[i] \in NodeRec /\ i \in Nat
         /\ \A i \in 1..Len(tb.array) : tb.array[i] \in Value
<1>1. tb \in [array : Seq(Value), lastfree : Nat, node : Seq(NodeRec)] /\ tb.lastfree \in 0..Len(tb.node)
  BY DEF Shape, Table, NodeRec
<1> DEFINE a == tb.array
           n == tb.node
<1>2. a \in Seq(Value) /\ n \in Seq(NodeRec)
  BY <1>1
<1> HIDE DEF a, n
<1>3. /\ Len(a) \in Nat /\ Len(n) \in Nat /\ DOMAIN n = 1..Len(n)
      /\ \A i \in 1..Len(n) : n[i] \in NodeRec /\ i \in Nat
      /\ \A i \in 1..Len(a) : a[i] \in Value
  BY <1>2
<1> QED
  BY <1>1, <1>2, <1>3 DEF Shape, Pos, a, n

\* What a node has.
LEMMA NodeIs ==
  ASSUME NEW tb, Shape(tb), NEW i \in Pos(tb)
  PROVE  /\ tb.node[i].key \in Value /\ tb.node[i].dead \in BOOLEAN /\ tb.node[i].val \in Value
         /\ tb.node[i].next \in Int
         /\ tb.node[i].key # nil => tb.node[i].key \in Stored
<1>1. tb.node[i] \in NodeRec
  BY TableIs
<1> QED
  BY <1>1 DEF NodeRec, Value

\* The main position of a key depends on the size of the hash part only.
LEMMA MainIn ==
  ASSUME NEW tb, Shape(tb), tb.node # <<>>, NEW k \in Stored
  PROVE  mainposition(tb, k) \in Pos(tb)
<1>1. Len(tb.node) \in Nat /\ Len(tb.node) # 0
  BY TableIs
<1>2. k.h \in Int
  BY StoredIs
<1> DEFINE n == Len(tb.node)
           x == k.h
<1>3. n \in Nat /\ n # 0 /\ x \in Int
  BY <1>1, <1>2
<1> HIDE DEF n, x
<1>4. (x % n) + 1 \in 1..n
  BY <1>3
<1>5. n # 1 => (x % (n - 1)) + 1 \in 1..n
  <2>1. SUFFICES ASSUME n # 1 PROVE (x % (n - 1)) + 1 \in 1..n
    OBVIOUS
  <2>2. PICK m \in Nat : m = n - 1 /\ m > 0
    BY <1>3, <2>1
  <2>3. (x % m) \in 0..(m - 1)
    BY <1>3, <2>2
  <2> QED
    BY <1>3, <2>2, <2>3
<1>6. 1 \in 1..n
  BY <1>3
<1> QED
  BY <1>4, <1>5, <1>6 DEF mainposition, hashmod, hashpow2, sizenode, Pos, n, x

LEMMA MainSame ==
  ASSUME NEW tb, Shape(tb), NEW u, Shape(u), Len(u.node) = Len(tb.node), NEW k
  PROVE  mainposition(u, k) = mainposition(tb, k)
<1>1. sizenode(u) = sizenode(tb)
  <2>1. u.node = <<>> <=> tb.node = <<>>
    BY TableIs
  <2> QED
    BY <2>1 DEF sizenode
<1> QED
  BY <1>1 DEF mainposition, hashmod, hashpow2

-----------------------------------------------------------------------------
(* Down a chain *)

\* What to[left][q] of Walk is.
Steps(tb, M, w) ==
  /\ w \in [Nat -> [Pos(tb) -> Pos(tb)]]
  /\ \A q \in Pos(tb) : w[0][q] = q
  /\ \A n \in Nat, q \in Pos(tb) :
       w[n + 1][q] = IF q \in M \/ ~Linked(tb, q) THEN q ELSE w[n][Succ(tb, q)]

LEMMA WalkIs ==
  ASSUME NEW tb, Shape(tb), LinksOK(tb), NEW M
  PROVE  \E w : Steps(tb, M, w) /\ \A p : Walk(tb, p, M) = w[Len(tb.node)][p]
<1> DEFINE P == Pos(tb)
           S == [P -> P]
           Id == [q \in P |-> q]
           H(f) == [q \in P |-> IF q \in M \/ ~Linked(tb, q) THEN q ELSE f[Succ(tb, q)]]
           h == [x \in Nat \X S |-> H(x[2])]
           E(w) == w = [left \in Nat |->
                          [q \in DOMAIN tb.node |->
                            IF q \in M \/ tb.node[q].next = 0 \/ left = 0 THEN q
                            ELSE w[left - 1][q + tb.node[q].next]]]
<1>1. \A f \in S : H(f) \in S
  BY DEF LinksOK
<1>2. Id \in S /\ h \in [Nat \X S -> S]
  BY <1>1
<1>3. PICK w \in [Nat -> S] : w[0] = Id /\ \A n \in Nat : w[n + 1] = h[<<n, w[n]>>]
  <2> HIDE DEF h, S, Id
  <2>1. Iterates(S, Id, h) # {}
    BY <1>2, RecursionOnNat
  <2> QED
    BY <2>1 DEF Iterates
<1>4. \A n \in Nat : w[n + 1] = H(w[n])
  <2> TAKE n \in Nat
  <2>1. h[<<n, w[n]>>] = H(<<n, w[n]>>[2])
    BY <1>3
  <2> QED
    BY <1>3, <2>1
<1>5. DOMAIN tb.node = P
  BY TableIs
<1>6. E(w)
  <2>1. ASSUME NEW n \in Nat
        PROVE  w[n] = [q \in P |-> IF q \in M \/ ~Linked(tb, q) \/ n = 0 THEN q
                                   ELSE w[n - 1][Succ(tb, q)]]
    <3>1. CASE n = 0
      BY <1>3, <3>1
    <3>2. CASE n # 0
      <4>1. n - 1 \in Nat /\ (n - 1) + 1 = n
        BY <3>2
      <4>2. w[(n - 1) + 1] = H(w[n - 1])
        <5> HIDE DEF H
        <5> QED
          BY <1>4, <4>1
      <4> QED
        BY <3>2, <4>1, <4>2
    <3> QED
      BY <3>1, <3>2
  <2>2. w = [n \in Nat |-> w[n]]
    BY <1>3
  <2> QED
    BY <1>5, <2>1, <2>2 DEF Linked, Succ
<1> HIDE DEF E
<1>7. \E v : E(v)
  BY <1>6
<1> DEFINE v == CHOOSE v : E(v)
<1>8. E(v)
  BY <1>7
<1> HIDE DEF v
<1>9. \A p : Walk(tb, p, M) = v[Len(tb.node)][p]
  BY DEF Walk, v, E
<1>10. \A n \in Nat : v[n] = [q \in P |-> IF q \in M \/ ~Linked(tb, q) \/ n = 0 THEN q
                                          ELSE v[n - 1][Succ(tb, q)]]
  BY <1>5, <1>8 DEF E, Linked, Succ
<1>11. \A q \in P : v[0][q] = q
  BY <1>10
<1>12. \A n \in Nat, q \in P : v[n + 1][q] = IF q \in M \/ ~Linked(tb, q) THEN q ELSE v[n][Succ(tb, q)]
  <2> TAKE n \in Nat, q \in P
  <2>1. n + 1 \in Nat /\ n + 1 # 0 /\ (n + 1) - 1 = n
    OBVIOUS
  <2>2. v[n + 1] = [x \in P |-> IF x \in M \/ ~Linked(tb, x) \/ n + 1 = 0 THEN x
                                ELSE v[(n + 1) - 1][Succ(tb, x)]]
    BY <1>10, <2>1
  <2> QED
    BY <2>1, <2>2
<1>13. v \in [Nat -> S]
  <2> DEFINE G == {n \in Nat : v[n] \in S}
  <2>1. 0 \in G
    <3>1. v[0] = [q \in P |-> IF q \in M \/ ~Linked(tb, q) \/ 0 = 0 THEN q ELSE v[0 - 1][Succ(tb, q)]]
      BY <1>10
    <3>2. v[0] = Id
      BY <3>1
    <3> QED
      BY <1>2, <3>2
  <2>2. ASSUME NEW n \in Nat, n \in G PROVE n + 1 \in G
    <3>1. n + 1 \in Nat /\ n + 1 # 0 /\ (n + 1) - 1 = n
      OBVIOUS
    <3>2. v[n + 1] = [q \in P |-> IF q \in M \/ ~Linked(tb, q) \/ n + 1 = 0 THEN q
                                  ELSE v[(n + 1) - 1][Succ(tb, q)]]
      BY <1>10, <3>1
    <3>3. v[n + 1] = H(v[n])
      BY <3>1, <3>2
    <3>4. v[n] \in S
      BY <2>2
    <3>5. H(v[n]) \in S
      <4> HIDE DEF H, S
      <4> QED
        BY <1>1, <3>4
    <3> QED
      BY <3>3, <3>5
  <2>3. Nat \subseteq G
    <3> HIDE DEF G
    <3> QED
      BY <2>1, <2>2, NatInd
  <2>4. v = [n \in Nat |-> v[n]]
    BY <1>8 DEF E
  <2> QED
    BY <2>3, <2>4
<1>14. Steps(tb, M, v)
  BY <1>11, <1>12, <1>13 DEF Steps
<1> QED
  BY <1>9, <1>14

\* There are fewer nodes above the next node than above this one.
LEMMA FewerAbove ==
  ASSUME NEW tb, Shape(tb), LinksOK(tb), NEW r, Ranks(tb, r), NEW q \in Pos(tb)
  PROVE  LET Above(x) == {y \in Pos(tb) : r[y] > r[x]} IN
         /\ Cardinality(Above(q)) \in Nat /\ Cardinality(Above(q)) <= Len(tb.node)
         /\ Linked(tb, q) => Cardinality(Above(Succ(tb, q))) < Cardinality(Above(q))
<1> DEFINE Above(x) == {y \in Pos(tb) : r[y] > r[x]}
<1>1. IsFiniteSet(Pos(tb)) /\ Cardinality(Pos(tb)) = Len(tb.node)
  <2>1. PICK n \in Nat : n = Len(tb.node)
    BY TableIs
  <2>2. IsFiniteSet(1..n) /\ Cardinality(1..n) = IF 1 > n THEN 0 ELSE n - 1 + 1
    <3>1. 1 \in Int /\ n \in Int
      OBVIOUS
    <3> QED
      BY <3>1, FS_Interval
  <2>3. (IF 1 > n THEN 0 ELSE n - 1 + 1) = n
    OBVIOUS
  <2> QED
    BY <2>1, <2>2, <2>3 DEF Pos
<1>2. \A x : /\ IsFiniteSet(Above(x)) /\ Cardinality(Above(x)) \in Nat
             /\ Cardinality(Above(x)) <= Len(tb.node)
  <2> TAKE x
  <2>1. Above(x) \in SUBSET Pos(tb)
    OBVIOUS
  <2> HIDE DEF Above
  <2> QED
    BY <1>1, <2>1, FS_Subset, FS_CardinalityType
<1>3. ASSUME Linked(tb, q) PROVE Cardinality(Above(Succ(tb, q))) < Cardinality(Above(q))
  <2> DEFINE s == Succ(tb, q)
  <2>1. s \in Pos(tb) /\ r[q] < r[s]
    BY <1>3 DEF LinksOK, Ranks
  <2>2. r \in [Pos(tb) -> Nat]
    BY DEF Ranks
  <2> HIDE DEF s
  <2>3. \A y \in Pos(tb) : r[y] \in Nat
    BY <2>2
  <2>4. r[q] \in Nat /\ r[s] \in Nat
    BY <2>1, <2>3
  <2>5. Above(s) \in SUBSET Above(q)
    BY <2>1, <2>3, <2>4
  <2>6. s \in Above(q)
    BY <2>1, <2>4
  <2>7. s \notin Above(s)
    BY <2>4
  <2>9. Above(s) # Above(q)
    <3> HIDE DEF Above
    <3> QED
      BY <2>6, <2>7
  <2>8. Cardinality(Above(s)) <= Cardinality(Above(q)) /\ Cardinality(Above(s)) # Cardinality(Above(q))
    <3>1. IsFiniteSet(Above(q))
      BY <1>2
    <3> HIDE DEF Above
    <3> QED
      BY <2>5, <2>9, <3>1, FS_Subset
  <2>10. Cardinality(Above(s)) \in Nat /\ Cardinality(Above(q)) \in Nat
    BY <1>2
  <2>11. Cardinality(Above(s)) < Cardinality(Above(q))
    <3> HIDE DEF Above
    <3> QED
      BY <2>8, <2>10
  <2> QED
    BY <2>11 DEF s
<1> QED
  BY <1>2, <1>3

\* Via, one node on.
LEMMA ViaNext ==
  ASSUME NEW tb, Shape(tb), LinksOK(tb), NEW M, NEW q \in Pos(tb), NEW i, Via(tb, q, i, M)
  PROVE  /\ q \in M \/ ~Linked(tb, q) => i = q
         /\ q \notin M /\ Linked(tb, q) /\ i # q => Succ(tb, q) \in Pos(tb) /\ Via(tb, Succ(tb, q), i, M)
<1>1. ASSUME q \in M \/ ~Linked(tb, q) PROVE i = q
  <2>1. Closed(tb, {q}, M)
    BY <1>1 DEF Closed
  <2> QED
    BY <2>1 DEF Via
<1>2. ASSUME q \notin M, Linked(tb, q), i # q PROVE Succ(tb, q) \in Pos(tb) /\ Via(tb, Succ(tb, q), i, M)
  <2>1. Succ(tb, q) \in Pos(tb)
    BY <1>2 DEF LinksOK
  <2>2. ASSUME NEW S \in SUBSET Pos(tb), Succ(tb, q) \in S, Closed(tb, S, M) PROVE i \in S
    <3>1. Closed(tb, S \cup {q}, M)
      BY <2>2 DEF Closed
    <3>2. S \cup {q} \in SUBSET Pos(tb) /\ q \in S \cup {q}
      OBVIOUS
    <3>3. i \in S \cup {q}
      BY <3>1, <3>2 DEF Via
    <3> QED
      BY <1>2, <3>3
  <2> QED
    BY <2>1, <2>2 DEF Via
<1> QED
  BY <1>1, <1>2

\* Walk finds the first node of M: there are enough steps to get to it.
LEMMA WalkTo ==
  ASSUME NEW tb, Shape(tb), LinksOK(tb), Acyclic(tb), NEW M, NEW a \in Pos(tb), NEW i \in Pos(tb),
         i \in M, Via(tb, a, i, M)
  PROVE  Walk(tb, a, M) = i
<1>1. PICK w : Steps(tb, M, w) /\ \A p : Walk(tb, p, M) = w[Len(tb.node)][p]
  BY WalkIs
<1>2. PICK r : Ranks(tb, r)
  BY DEF Acyclic
<1> DEFINE Above(x) == {y \in Pos(tb) : r[y] > r[x]}
           size(x) == Cardinality(Above(x))
           G == {n \in Nat : \A q \in Pos(tb) : size(q) <= n /\ Via(tb, q, i, M) => w[n][q] = i}
<1>3. \A q \in Pos(tb) : /\ size(q) \in Nat /\ size(q) <= Len(tb.node)
                         /\ Linked(tb, q) => size(Succ(tb, q)) < size(q)
  BY <1>2, FewerAbove
<1> HIDE DEF size
<1>4. \A q \in Pos(tb) : Linked(tb, q) => Succ(tb, q) \in Pos(tb) /\ size(Succ(tb, q)) \in Nat
  BY <1>3 DEF LinksOK
<1>5. 0 \in G
  <2>1. ASSUME NEW q \in Pos(tb), size(q) <= 0, Via(tb, q, i, M) PROVE w[0][q] = i
    <3>1. ~Linked(tb, q)
      <4> SUFFICES ASSUME Linked(tb, q) PROVE FALSE
        OBVIOUS
      <4>1. size(Succ(tb, q)) < size(q) /\ size(Succ(tb, q)) \in Nat /\ size(q) \in Nat
        BY <1>3, <1>4
      <4> QED
        BY <2>1, <4>1
    <3>2. i = q
      BY <2>1, <3>1, ViaNext
    <3> QED
      BY <1>1, <3>2 DEF Steps
  <2> QED
    BY <2>1
<1>6. ASSUME NEW n \in Nat, n \in G PROVE n + 1 \in G
  <2>1. ASSUME NEW q \in Pos(tb), size(q) <= n + 1, Via(tb, q, i, M) PROVE w[n + 1][q] = i
    <3>1. w[n + 1][q] = IF q \in M \/ ~Linked(tb, q) THEN q ELSE w[n][Succ(tb, q)]
      BY <1>1 DEF Steps
    <3>2. CASE q \in M \/ ~Linked(tb, q)
      BY <2>1, <3>1, <3>2, ViaNext
    <3>3. CASE q \notin M /\ Linked(tb, q)
      <4>1. i # q
        BY <3>3
      <4>2. Succ(tb, q) \in Pos(tb) /\ Via(tb, Succ(tb, q), i, M)
        BY <2>1, <3>3, <4>1, ViaNext
      <4>3. size(Succ(tb, q)) <= n
        <5>1. size(Succ(tb, q)) < size(q) /\ size(Succ(tb, q)) \in Nat /\ size(q) \in Nat
          BY <1>3, <1>4, <3>3
        <5> QED
          BY <2>1, <5>1
      <4>4. w[n][Succ(tb, q)] = i
        BY <1>6, <4>2, <4>3
      <4> QED
        BY <3>1, <3>3, <4>4
    <3> QED
      BY <3>2, <3>3
  <2> QED
    BY <2>1
<1>7. Nat \subseteq G
  <2> HIDE DEF G
  <2> QED
    BY <1>5, <1>6, NatInd
<1>8. Len(tb.node) \in Nat
  BY TableIs
<1>9. w[Len(tb.node)][a] = i
  BY <1>3, <1>7, <1>8
<1> QED
  BY <1>1, <1>9

\* What is met first among more nodes is met first among fewer.
LEMMA ViaFewer ==
  ASSUME NEW tb, NEW M, NEW K, K \subseteq M, NEW a, NEW i, Via(tb, a, i, M)
  PROVE  Via(tb, a, i, K)
<1>1. \A S : Closed(tb, S, K) => Closed(tb, S, M)
  BY DEF Closed
<1> QED
  BY <1>1 DEF Via

-----------------------------------------------------------------------------
(* Reading *)

\* Where a key is that is met first.
LEMMA PositionIs ==
  ASSUME NEW tb, Shape(tb), LinksOK(tb), Acyclic(tb), NEW k \in Stored, NEW i \in Pos(tb),
         tb.node[i].key = k, Via(tb, mainposition(tb, k), i, KeyAt(tb, k))
  PROVE  /\ Position(tb, k, TRUE) = i
         /\ ~tb.node[i].dead => Position(tb, k, FALSE) = i
<1> DEFINE M(dead) == {j \in DOMAIN tb.node : tb.node[j].key = k /\ (dead \/ ~tb.node[j].dead)}
           a == mainposition(tb, k)
<1>1. DOMAIN tb.node = Pos(tb) /\ tb.node # <<>>
  <2>1. Len(tb.node) \in Nat /\ DOMAIN tb.node = Pos(tb)
    BY TableIs
  <2> QED
    BY <2>1 DEF Pos
<1>2. a \in Pos(tb)
  BY <1>1, MainIn
<1>3. ASSUME NEW d \in BOOLEAN, i \in M(d) PROVE Position(tb, k, d) = i
  <2>1. M(d) \subseteq KeyAt(tb, k)
    BY <1>1 DEF KeyAt
  <2> HIDE DEF M, a
  <2>2. Via(tb, a, i, M(d))
    <3>1. Via(tb, a, i, KeyAt(tb, k))
      BY DEF a
    <3> QED
      BY <2>1, <3>1, ViaFewer
  <2>3. Walk(tb, a, M(d)) = i
    BY <1>2, <1>3, <2>2, WalkTo
  <2> QED
    BY <1>3, <2>3 DEF Position, M, a
<1>4. i \in M(TRUE)
  BY <1>1
<1>5. ~tb.node[i].dead => i \in M(FALSE)
  BY <1>1
<1> HIDE DEF M
<1> QED
  BY <1>3, <1>4, <1>5

\* If there is one it is a node with that key.
LEMMA PositionIn ==
  ASSUME NEW tb, Shape(tb), NEW k, NEW d \in BOOLEAN, Position(tb, k, d) # 0
  PROVE  /\ Position(tb, k, d) \in Pos(tb) /\ tb.node[Position(tb, k, d)].key = k
         /\ d \/ ~tb.node[Position(tb, k, d)].dead
<1> DEFINE M == {j \in DOMAIN tb.node : tb.node[j].key = k /\ (d \/ ~tb.node[j].dead)}
           p == Walk(tb, mainposition(tb, k), M)
<1>1. Position(tb, k, d) = p /\ p \in M
  BY DEF Position
<1>2. DOMAIN tb.node = Pos(tb)
  BY TableIs
<1> HIDE DEF p
<1> QED
  BY <1>1, <1>2

\* A live key is where it is found, and in no other node.
LEMMA LiveFound ==
  ASSUME NEW tb, Good(tb), NEW i \in Pos(tb), Live(tb, i)
  PROVE  /\ Position(tb, tb.node[i].key, FALSE) = i /\ Position(tb, tb.node[i].key, TRUE) = i
         /\ tb.node[i].key \in Stored /\ i \in Nat /\ i # 0
<1> DEFINE k == tb.node[i].key
<1>1. Shape(tb) /\ LinksOK(tb) /\ Acyclic(tb) /\ Found(tb)
  BY DEF Good
<1>2. k \in Stored /\ i \in Nat /\ i # 0
  <2>1. i \in Nat /\ i # 0
    BY DEF Pos
  <2>2. k # nil => k \in Stored
    BY <1>1, NodeIs
  <2> QED
    BY <2>1, <2>2 DEF Live
<1>3. Via(tb, mainposition(tb, k), i, KeyAt(tb, k)) /\ ~tb.node[i].dead
  BY <1>1 DEF Found, Live, Main
<1> QED
  BY <1>1, <1>2, <1>3, PositionIs

LEMMA LiveOnce ==
  ASSUME NEW tb, Good(tb), NEW i \in Pos(tb), NEW j \in Pos(tb), Live(tb, i), Live(tb, j),
         tb.node[i].key = tb.node[j].key
  PROVE  i = j
<1>1. Position(tb, tb.node[i].key, FALSE) = i
  BY LiveFound
<1>2. Position(tb, tb.node[j].key, FALSE) = j
  BY LiveFound
<1> QED
  BY <1>1, <1>2

\* The keys that have a value.
Present(tb) == {x \in Stored : \/ InArray(tb, x) /\ tb.array[x.h] # nil
                               \/ \E i \in Pos(tb) : tb.node[i].key = x /\ tb.node[i].val # nil}

\* A node with a value has a live key.
LEMMA UsedIsLive ==
  ASSUME NEW tb, Good(tb), NEW i \in Pos(tb), tb.node[i].val # nil
  PROVE  /\ Live(tb, i) /\ tb.node[i].val = tb.node[i].key /\ tb.node[i].key \in Stored
         /\ ~InArray(tb, tb.node[i].key)
<1>1. Shape(tb) /\ OwnValues(tb) /\ FreeNodes(tb) /\ Apart(tb)
  BY DEF Good
<1>2. tb.node[i].key # nil
  BY <1>1 DEF FreeNodes
<1>3. tb.node[i].key \in Stored
  BY <1>1, <1>2, NodeIs
<1> QED
  BY <1>1, <1>2, <1>3 DEF OwnValues, Live, Apart

\* luaH_get finds what there is.
LEMMA GetIs ==
  ASSUME NEW tb, Good(tb), NEW x \in Stored
  PROVE  luaH_get(tb, x) = IF x \in Present(tb) THEN x ELSE nil
<1>0. Shape(tb) /\ OwnValues(tb)
  BY DEF Good
<1>1. CASE InArray(tb, x)
  <2>1. x.tt = "int" /\ x.h \in 1..Len(tb.array) /\ x = [tt |-> "int", h |-> x.h]
    BY <1>1, StoredIs DEF InArray
  <2>2. tb.array[x.h] # nil => tb.array[x.h] = x
    BY <1>0, <2>1 DEF OwnValues
  <2>3. \A i \in Pos(tb) : tb.node[i].val # nil => tb.node[i].key # x
    BY <1>1, UsedIsLive
  <2> QED
    BY <1>1, <2>2, <2>3 DEF luaH_get, Present
<1>2. CASE ~InArray(tb, x)
  <2> DEFINE p == Position(tb, x, FALSE)
  <2>1. ASSUME NEW i \in Pos(tb), tb.node[i].key = x, tb.node[i].val # nil
        PROVE  p = i /\ p # 0 /\ tb.node[p].val = x
    <3>1. Live(tb, i) /\ tb.node[i].val = x
      BY <2>1, UsedIsLive
    <3>2. p = i /\ i # 0
      BY <2>1, <3>1, LiveFound
    <3> QED
      BY <3>1, <3>2
  <2>2. p # 0 => p \in Pos(tb) /\ tb.node[p].key = x
    BY <1>0, PositionIn
  <2>3. luaH_get(tb, x) = IF p = 0 THEN nil ELSE tb.node[p].val
    BY <1>2 DEF luaH_get
  <2>4. x \in Present(tb) <=> \E i \in Pos(tb) : tb.node[i].key = x /\ tb.node[i].val # nil
    BY <1>2 DEF Present
  <2> HIDE DEF p
  <2> QED
    BY <2>1, <2>2, <2>3, <2>4
<1> QED
  BY <1>1, <1>2

-----------------------------------------------------------------------------
(* Changing a value *)

\* The same keys in the same chains, though some may be dead now.
SameKeys(tb, u) ==
  /\ Len(u.array) = Len(tb.array) /\ Len(u.node) = Len(tb.node)
  /\ \A i \in Pos(tb) : /\ u.node[i].key = tb.node[i].key /\ u.node[i].next = tb.node[i].next
                        /\ ~u.node[i].dead => ~tb.node[i].dead

\* Via depends on the chains only.
LEMMA ViaSame ==
  ASSUME NEW tb, NEW u, Len(u.node) = Len(tb.node),
         \A i \in Pos(tb) : u.node[i].next = tb.node[i].next,
         NEW a, NEW i, NEW M, Via(tb, a, i, M)
  PROVE  Via(u, a, i, M)
<1>1. Pos(u) = Pos(tb)
  BY DEF Pos
<1>2. \A S \in SUBSET Pos(tb) : Closed(u, S, M) => Closed(tb, S, M)
  <2> SUFFICES ASSUME NEW S \in SUBSET Pos(tb), Closed(u, S, M) PROVE Closed(tb, S, M)
    OBVIOUS
  <2>1. \A j \in S : u.node[j].next = tb.node[j].next
    OBVIOUS
  <2> QED
    BY <2>1 DEF Closed, Linked, Succ
<1> QED
  BY <1>1, <1>2 DEF Via

LEMMA SameKeysGood ==
  ASSUME NEW tb, Good(tb), NEW u, Shape(u), SameKeys(tb, u), OwnValues(u), FreeNodes(u)
  PROVE  Good(u) /\ Pos(u) = Pos(tb)
<1>1. Shape(tb) /\ LinksOK(tb) /\ Acyclic(tb) /\ Found(tb) /\ Home(tb) /\ Apart(tb)
  BY DEF Good
<1>2. Pos(u) = Pos(tb) /\ Len(u.node) = Len(tb.node) /\ Len(u.array) = Len(tb.array)
  BY DEF Pos, SameKeys
<1>3. \A i \in Pos(tb) : /\ u.node[i].key = tb.node[i].key /\ u.node[i].next = tb.node[i].next
                         /\ ~u.node[i].dead => ~tb.node[i].dead
  BY DEF SameKeys
<1>4. \A k : mainposition(u, k) = mainposition(tb, k)
  BY <1>1, <1>2, MainSame
<1>5. \A i \in Pos(tb) : (Linked(u, i) <=> Linked(tb, i)) /\ Succ(u, i) = Succ(tb, i)
  BY <1>3 DEF Linked, Succ
<1>6. \A i \in Pos(tb) : Main(u, i) = Main(tb, i)
  BY <1>3, <1>4 DEF Main
<1>7. \A i \in Pos(tb) : Live(u, i) => Live(tb, i)
  BY <1>3 DEF Live
<1>8. Apart(u)
  BY <1>1, <1>2, <1>3 DEF Apart, InArray
<1>9. LinksOK(u)
  BY <1>1, <1>2, <1>3, <1>5 DEF LinksOK
<1>10. Acyclic(u)
  BY <1>1, <1>2, <1>5 DEF Acyclic, Ranks
<1>11. Found(u)
  <2> SUFFICES ASSUME NEW i \in Pos(tb), Live(u, i)
               PROVE  Via(u, Main(u, i), i, KeyAt(u, u.node[i].key))
    BY <1>2 DEF Found
  <2>1. Via(tb, Main(tb, i), i, KeyAt(tb, tb.node[i].key))
    BY <1>1, <1>7 DEF Found
  <2>2. KeyAt(u, u.node[i].key) = KeyAt(tb, tb.node[i].key)
    BY <1>2, <1>3 DEF KeyAt
  <2>3. Via(tb, Main(u, i), i, KeyAt(u, u.node[i].key))
    BY <1>6, <2>1, <2>2
  <2> QED
    BY <1>2, <1>3, <2>3, ViaSame
<1>12. Home(u)
  <2> SUFFICES ASSUME NEW i \in Pos(tb), Live(u, i), Main(u, i) # i
               PROVE  u.node[Main(u, i)].key # nil /\ Main(u, Main(u, i)) = Main(u, i)
    BY <1>2 DEF Home
  <2>1. /\ Main(tb, i) # i /\ Live(tb, i) /\ Main(u, i) = Main(tb, i)
    BY <1>6, <1>7
  <2>2. tb.node[Main(tb, i)].key # nil /\ Main(tb, Main(tb, i)) = Main(tb, i)
    BY <1>1, <2>1 DEF Home
  <2>3. Main(tb, i) \in Pos(tb)
    <3>1. tb.node[i].key \in Stored /\ tb.node # <<>>
      <4>1. tb.node[i].key \in Stored
        BY <1>1, <2>1, NodeIs DEF Live
      <4>2. Len(tb.node) \in Nat /\ Len(tb.node) # 0
        BY <1>1, TableIs DEF Pos
      <4> QED
        BY <4>1, <4>2
    <3> QED
      BY <1>1, <3>1, MainIn DEF Main
  <2> QED
    BY <1>3, <1>6, <2>1, <2>2, <2>3
<1> QED
  BY <1>2, <1>8, <1>9, <1>10, <1>11, <1>12 DEF Good

\* The value of k is v now, and nothing else has changed.
ValueIsPut(tb, u, k, v) ==
  /\ Good(u) /\ SameKeys(tb, u)
  /\ \A i \in Pos(tb) : (u.node[i].dead <=> tb.node[i].dead) /\ (u.node[i].val = tb.node[i].val \/ tb.node[i].key = k)
  /\ Present(u) = (Present(tb) \ {k}) \cup (IF v = nil THEN {} ELSE {k})

LEMMA PutStep ==
  ASSUME NEW tb, Good(tb), NEW k \in Stored, IsThere(tb, k), NEW v \in {k, nil}
  PROVE  ValueIsPut(tb, Put(tb, k, v), k, v)
<1> DEFINE u == Put(tb, k, v)
           p == Position(tb, k, FALSE)
<1>1. Shape(tb) /\ OwnValues(tb) /\ FreeNodes(tb) /\ tb \in Table
  BY DEF Good, Shape
<1>2. v \in Value /\ k # nil /\ k \in Value
  BY StoredIs DEF Value
<1>3. /\ tb.array \in Seq(Value) /\ tb.node \in Seq(NodeRec)
      /\ Len(tb.array) \in Nat /\ Len(tb.node) \in Nat /\ tb.lastfree \in 0..Len(tb.node)
      /\ DOMAIN tb.node = Pos(tb) /\ tb.lastfree \in Nat
  BY <1>1, TableIs DEF Table
<1>4. CASE InArray(tb, k)
  <2>1. k.tt = "int" /\ k.h \in 1..Len(tb.array) /\ k = [tt |-> "int", h |-> k.h]
    BY <1>4, StoredIs DEF InArray
  <2> DEFINE a == [tb.array EXCEPT ![k.h] = v]
  <2>2. a \in Seq(Value) /\ Len(a) = Len(tb.array)
    BY <1>2, <1>3, <2>1
  <2>3. \A i \in 1..Len(tb.array) : a[i] = IF i = k.h THEN v ELSE tb.array[i]
    BY <1>3, <2>1
  <2>4. u = [tb EXCEPT !.array = a]
    BY <1>4 DEF Put
  <2> HIDE DEF a
  <2>5. u.array = a /\ u.node = tb.node /\ u.lastfree = tb.lastfree /\ u \in Table
    BY <1>1, <2>2, <2>4 DEF Table
  <2> HIDE DEF u
  <2>6. Shape(u) /\ SameKeys(tb, u) /\ Pos(u) = Pos(tb)
    BY <1>3, <2>2, <2>5 DEF Shape, SameKeys, Pos
  <2>7. OwnValues(u)
    BY <1>1, <2>1, <2>2, <2>3, <2>5, <2>6 DEF OwnValues
  <2>8. FreeNodes(u)
    BY <1>1, <2>5, <2>6 DEF FreeNodes, Linked
  <2>9. Good(u)
    BY <2>6, <2>7, <2>8, SameKeysGood
  <2>10. ASSUME NEW x \in Stored
         PROVE  x \in Present(u) <=> (x \in Present(tb) /\ x # k) \/ (x = k /\ v # nil)
    <3>1. InArray(u, x) <=> InArray(tb, x)
      BY <2>2, <2>5 DEF InArray
    <3>2. CASE InArray(tb, x)
      <4>1. x.tt = "int" /\ x.h \in 1..Len(tb.array) /\ x = [tt |-> "int", h |-> x.h]
        BY <3>2, StoredIs DEF InArray
      <4>2. x = k <=> x.h = k.h
        BY <2>1, <4>1
      <4>3. \A i \in Pos(tb) : tb.node[i].val # nil => tb.node[i].key # x
        BY <3>2, UsedIsLive
      <4>4. u.array[x.h] = IF x = k THEN v ELSE tb.array[x.h]
        BY <2>3, <2>5, <4>1, <4>2
      <4> QED
        BY <2>5, <2>6, <3>1, <3>2, <4>3, <4>4 DEF Present
    <3>3. CASE ~InArray(tb, x)
      <4>1. x # k
        BY <1>4, <3>3
      <4> QED
        BY <2>5, <2>6, <3>1, <3>3, <4>1 DEF Present
    <3> QED
      BY <3>2, <3>3
  <2>11. Present(u) \subseteq Stored /\ Present(tb) \subseteq Stored
    BY DEF Present
  <2>12. Present(u) = (Present(tb) \ {k}) \cup (IF v = nil THEN {} ELSE {k})
    BY <2>10, <2>11
  <2>13. \A i \in Pos(tb) : u.node[i] = tb.node[i]
    BY <2>5
  <2> QED
    BY <2>6, <2>9, <2>12, <2>13 DEF ValueIsPut, u
<1>5. CASE ~InArray(tb, k)
  <2>1. p \in Pos(tb) /\ tb.node[p].key = k /\ ~tb.node[p].dead
    BY <1>1, <1>5, PositionIn DEF IsThere
  <2> DEFINE c == [tb.node[p] EXCEPT !.val = v]
             n == [tb.node EXCEPT ![p] = c]
  <2>2. u = [tb EXCEPT !.node = n]
    BY <1>5 DEF Put
  <2> HIDE DEF p
  <2>3. c \in NodeRec /\ c.key = k /\ c.next = tb.node[p].next /\ c.val = v /\ c.dead = tb.node[p].dead
    <3>1. tb.node[p] \in NodeRec
      BY <1>1, <2>1, TableIs
    <3> QED
      BY <1>2, <2>1, <3>1 DEF NodeRec
  <2> HIDE DEF c
  <2>4. n \in Seq(NodeRec) /\ Len(n) = Len(tb.node)
    BY <1>3, <2>1, <2>3
  <2>5. \A i \in Pos(tb) : n[i] = IF i = p THEN c ELSE tb.node[i]
    BY <1>3, <2>1
  <2> HIDE DEF n
  <2>6. u.array = tb.array /\ u.node = n /\ u.lastfree = tb.lastfree /\ u \in Table
    BY <1>1, <2>2, <2>4 DEF Table, NodeRec
  <2> HIDE DEF u
  <2>7. Pos(u) = Pos(tb)
    BY <2>4, <2>6 DEF Pos
  <2>8. \A i \in Pos(tb) : /\ u.node[i].key = tb.node[i].key /\ u.node[i].next = tb.node[i].next
                           /\ u.node[i].dead = tb.node[i].dead
                           /\ u.node[i].val = IF i = p THEN v ELSE tb.node[i].val
    BY <2>1, <2>3, <2>5, <2>6
  <2>9. Shape(u) /\ SameKeys(tb, u)
    BY <1>3, <2>4, <2>6, <2>8 DEF Shape, SameKeys
  <2>10. OwnValues(u)
    <3>1. \A i \in Pos(tb) : u.node[i].val # nil => u.node[i].val = u.node[i].key /\ ~u.node[i].dead
      BY <1>1, <2>1, <2>8 DEF OwnValues
    <3> QED
      BY <1>1, <2>6, <2>7, <3>1 DEF OwnValues
  <2>11. FreeNodes(u)
    BY <1>1, <1>2, <2>1, <2>6, <2>7, <2>8 DEF FreeNodes, Linked
  <2>12. Good(u)
    BY <2>9, <2>10, <2>11, SameKeysGood
  <2>13. ASSUME NEW x \in Stored
         PROVE  x \in Present(u) <=> (x \in Present(tb) /\ x # k) \/ (x = k /\ v # nil)
    <3>1. InArray(u, x) <=> InArray(tb, x)
      BY <2>6 DEF InArray
    <3>2. CASE x = k
      <4>1. \A i \in Pos(tb) : u.node[i].val # nil /\ u.node[i].key = k => i = p
        <5> SUFFICES ASSUME NEW i \in Pos(tb), u.node[i].val # nil, u.node[i].key = k, i # p PROVE FALSE
          OBVIOUS
        <5>1. tb.node[i].val # nil /\ tb.node[i].key = k
          BY <2>8
        <5>2. Live(tb, i)
          BY <5>1, UsedIsLive
        <5>3. Live(tb, p)
          BY <1>2, <2>1 DEF Live
        <5> QED
          BY <2>1, <5>1, <5>2, <5>3, LiveOnce
      <4>2. x \in Present(u) <=> \E i \in Pos(tb) : u.node[i].key = x /\ u.node[i].val # nil
        BY <1>5, <2>7, <3>1, <3>2 DEF Present
      <4>3. u.node[p].key = k /\ u.node[p].val = v
        BY <2>1, <2>8
      <4> QED
        BY <2>1, <3>2, <4>1, <4>2, <4>3
    <3>3. CASE x # k
      <4>1. \A i \in Pos(tb) : tb.node[i].key = x => u.node[i].val = tb.node[i].val
        BY <2>1, <2>8, <3>3
      <4>2. \A i \in Pos(tb) : (u.node[i].key = x /\ u.node[i].val # nil) <=> (tb.node[i].key = x /\ tb.node[i].val # nil)
        BY <2>8, <4>1
      <4> QED
        BY <2>6, <2>7, <3>1, <3>3, <4>2 DEF Present
    <3> QED
      BY <3>2, <3>3
  <2>14. Present(u) \subseteq Stored /\ Present(tb) \subseteq Stored
    BY DEF Present
  <2>15. Present(u) = (Present(tb) \ {k}) \cup (IF v = nil THEN {} ELSE {k})
    BY <2>13, <2>14
  <2>16. \A i \in Pos(tb) : (u.node[i].dead <=> tb.node[i].dead) /\ (u.node[i].val = tb.node[i].val \/ tb.node[i].key = k)
    BY <2>1, <2>8
  <2> QED
    BY <2>9, <2>12, <2>15, <2>16 DEF ValueIsPut, u
<1> QED
  BY <1>4, <1>5

-----------------------------------------------------------------------------
(* A new key *)

\* The free position that getfreepos finds is the last one.
LEMMA FreePos ==
  ASSUME NEW tb, Good(tb)
  PROVE  LET f == getfreepos(tb) IN
         /\ f = 0 => \A i \in Pos(tb) : tb.node[i].key # nil
         /\ f # 0 => /\ f \in Pos(tb) /\ tb.node[f].key = nil /\ f - 1 \in 0..Len(tb.node)
                     /\ \A i \in Pos(tb) : tb.node[i].key = nil => i <= f
<1> DEFINE F == {i \in 1..tb.lastfree : tb.node[i].key = nil}
           f == getfreepos(tb)
<1>1. Shape(tb) /\ FreeNodes(tb)
  BY DEF Good
<1>2. Len(tb.node) \in Nat /\ tb.lastfree \in 0..Len(tb.node) /\ tb.lastfree \in Nat
  BY <1>1, TableIs
<1>3. \A i \in Pos(tb) : tb.node[i].key = nil => i \in F
  BY <1>1, <1>2 DEF FreeNodes, Pos
<1>4. F \in SUBSET Nat /\ \A i \in F : i <= tb.lastfree
  BY <1>2
<1>5. \A i \in F : i \in Pos(tb) /\ tb.node[i].key = nil /\ i # 0 /\ i - 1 \in 0..Len(tb.node)
  BY <1>2 DEF Pos
<1>6. F = {} => f = 0
  BY DEF getfreepos
<1>7. F # {} => f = Max(F)
  BY DEF getfreepos
<1> HIDE DEF F, f
<1>8. ASSUME F # {} PROVE f \in F /\ \A i \in F : i <= f
  <2>1. PICK m \in F : \A i \in F : i <= m
    BY <1>2, <1>4, <1>8, GreatestOf
  <2>2. \A i \in F : m >= i
    BY <1>4, <2>1
  <2>3. Max(F) \in F /\ \A i \in F : Max(F) >= i
    BY <2>2 DEF Max
  <2>4. \A i \in F : i <= f
    BY <1>4, <1>7, <1>8, <2>3
  <2> QED
    BY <1>7, <1>8, <2>3, <2>4
<1>9. f # 0 => F # {}
  BY <1>6
<1>10. f = 0 => F = {}
  BY <1>5, <1>8
<1>11. f = 0 => \A i \in Pos(tb) : tb.node[i].key # nil
  BY <1>3, <1>10
<1>12. f # 0 => /\ f \in Pos(tb) /\ tb.node[f].key = nil /\ f - 1 \in 0..Len(tb.node)
               /\ \A i \in Pos(tb) : tb.node[i].key = nil => i <= f
  BY <1>3, <1>5, <1>8, <1>9
<1> QED
  BY <1>11, <1>12 DEF f

\* A table with other nodes.
WithNodes(tb, n, l) == [array |-> tb.array, lastfree |-> l, node |-> n]

Updated(tb, n, l) == [tb EXCEPT !.lastfree = l, !.node = n]

LEMMA WithNodesExcept ==
  ASSUME NEW tb \in Table, NEW n, NEW l
  PROVE  /\ [tb EXCEPT !.node = n] = WithNodes(tb, n, tb.lastfree)
         /\ [tb EXCEPT !.lastfree = l] = WithNodes(tb, tb.node, l)
<1>1. tb \in [array : Seq(Value), lastfree : Nat, node : Seq(NodeRec)]
  BY DEF Table, NodeRec
<1>2. PICK a, f, m : tb = [array |-> a, lastfree |-> f, node |-> m]
  BY <1>1
<1>3. tb.array = a /\ tb.lastfree = f /\ tb.node = m
  BY <1>2
<1>4. [tb EXCEPT !.node = n] = [array |-> a, lastfree |-> f, node |-> n]
  BY <1>2
<1>6. [tb EXCEPT !.lastfree = l] = [array |-> a, lastfree |-> l, node |-> m]
  BY <1>2
<1> QED
  BY <1>3, <1>4, <1>6 DEF WithNodes

LEMMA UpdatedIs ==
  ASSUME NEW tb \in Table, NEW n, NEW l
  PROVE  Updated(tb, n, l) = WithNodes(tb, n, l)
<1>1. tb \in [array : Seq(Value), lastfree : Nat, node : Seq(NodeRec)]
  BY DEF Table, NodeRec
<1>2. PICK a, f, m : tb = [array |-> a, lastfree |-> f, node |-> m]
  BY <1>1
<1> DEFINE x == [tb EXCEPT !.lastfree = l]
<1>3. x = [array |-> a, lastfree |-> l, node |-> m]
  BY <1>2
<1> HIDE DEF x
<1>4. [x EXCEPT !.node = n] = [array |-> a, lastfree |-> l, node |-> n]
  BY <1>3
<1>5. Updated(tb, n, l) = [array |-> a, lastfree |-> l, node |-> n]
  BY <1>4, Zenon DEF x, Updated
<1>6. tb.array = a
  BY <1>2
<1> QED
  BY <1>5, <1>6 DEF WithNodes

LEMMA WithNodesIs ==
  ASSUME NEW tb, Shape(tb), NEW n \in Seq(NodeRec), Len(n) = Len(tb.node), NEW l \in 0..Len(tb.node)
  PROVE  LET u == WithNodes(tb, n, l) IN
         /\ Shape(u) /\ u.array = tb.array /\ u.node = n /\ u.lastfree = l /\ Pos(u) = Pos(tb)
         /\ \A k : mainposition(u, k) = mainposition(tb, k)
         /\ \A k : InArray(u, k) <=> InArray(tb, k)
<1> DEFINE u == WithNodes(tb, n, l)
<1>1. tb \in [array : Seq(Value), lastfree : Nat, node : Seq(NodeRec)] /\ Len(tb.node) \in Nat
  BY TableIs DEF Table, NodeRec
<1>2. u.array = tb.array /\ u.node = n /\ u.lastfree = l /\ u \in Table
  <2>1. l \in Nat
    BY <1>1
  <2>2. u = [array |-> tb.array, lastfree |-> l, node |-> n]
    BY <1>1 DEF WithNodes
  <2>3. Table = [array : Seq(Value), lastfree : Nat, node : Seq(NodeRec)]
    BY DEF Table, NodeRec
  <2>4. tb.array \in Seq(Value)
    BY <1>1
  <2> HIDE DEF u
  <2> QED
    BY <2>1, <2>2, <2>3, <2>4
<1> HIDE DEF u
<1>3. Shape(u) /\ Pos(u) = Pos(tb)
  BY <1>2 DEF Shape, Pos
<1>4. \A k : mainposition(u, k) = mainposition(tb, k)
  BY <1>2, <1>3, MainSame
<1>5. \A k : InArray(u, k) <=> InArray(tb, k)
  BY <1>2 DEF InArray
<1> QED
  BY <1>2, <1>3, <1>4, <1>5 DEF u

\* The key k is in node p, and every other node is one of those there were.
Fresh(tb, u, k, p) ==
  /\ u.node[p].key = k /\ ~u.node[p].dead /\ u.node[p].val = nil
  /\ \A i \in Pos(tb) \ {p} : u.node[i].key # nil =>
       \E j \in Pos(tb) : /\ u.node[i].key = tb.node[j].key /\ u.node[i].val = tb.node[j].val
                          /\ u.node[i].dead = tb.node[j].dead
  /\ \A j \in Pos(tb) : tb.node[j].val # nil =>
       \E i \in Pos(tb) \ {p} : u.node[i].key = tb.node[j].key /\ u.node[i].val = tb.node[j].val
Added(tb, u, k) ==
  /\ Good(u) /\ u.array = tb.array /\ Len(u.node) = Len(tb.node)
  /\ \E p \in Pos(tb) : Fresh(tb, u, k, p)

\* No live node has a key that is not there.
LEMMA NotThere ==
  ASSUME NEW tb, Good(tb), NEW k \in Stored, ~IsThere(tb, k)
  PROVE  ~InArray(tb, k) /\ \A i \in Pos(tb) : Live(tb, i) => tb.node[i].key # k
<1>1. ASSUME NEW i \in Pos(tb), Live(tb, i), tb.node[i].key = k PROVE FALSE
  <2>1. Position(tb, k, FALSE) = i /\ i # 0
    BY <1>1, LiveFound
  <2> QED
    BY <2>1 DEF IsThere
<1> QED
  BY <1>1 DEF IsThere

\* The main position has no value: its key gives way.
LEMMA StoreStep ==
  ASSUME NEW tb, Good(tb), NEW k \in Stored, ~IsThere(tb, k), tb.node # <<>>,
         tb.node[mainposition(tb, k)].val = nil
  PROVE  Added(tb, Store(tb, mainposition(tb, k), k), k)
<1> DEFINE mp == mainposition(tb, k)
           c == [tb.node[mp] EXCEPT !.key = k, !.dead = FALSE]
           n == [tb.node EXCEPT ![mp] = c]
           u == WithNodes(tb, n, tb.lastfree)
<1>1. /\ Shape(tb) /\ OwnValues(tb) /\ FreeNodes(tb) /\ Apart(tb) /\ LinksOK(tb) /\ Acyclic(tb)
      /\ Found(tb) /\ Home(tb)
  BY DEF Good
<1>2. mp \in Pos(tb) /\ tb.node[mp] \in NodeRec /\ tb.node \in Seq(NodeRec) /\ tb.lastfree \in 0..Len(tb.node)
      /\ DOMAIN tb.node = Pos(tb) /\ tb \in Table
  BY <1>1, MainIn, TableIs
<1>3. k # nil /\ k \in Value
  BY StoredIs
<1>4. Store(tb, mp, k) = u
  <2>1. Store(tb, mp, k) = [tb EXCEPT !.node = n]
    BY DEF Store
  <2> HIDE DEF n
  <2> QED
    BY <1>2, <2>1, WithNodesExcept
<1>5. c \in NodeRec /\ c.key = k /\ c.dead = FALSE /\ c.val = nil /\ c.next = tb.node[mp].next
  BY <1>2, <1>3 DEF NodeRec
<1>6. n \in Seq(NodeRec) /\ Len(n) = Len(tb.node) /\ \A i \in Pos(tb) : n[i] = IF i = mp THEN c ELSE tb.node[i]
  <2> HIDE DEF mp, c
  <2> QED
    BY <1>2, <1>5
<1> HIDE DEF n
<1>7. /\ Shape(u) /\ u.array = tb.array /\ u.node = n /\ u.lastfree = tb.lastfree /\ Pos(u) = Pos(tb)
      /\ \A x : mainposition(u, x) = mainposition(tb, x)
      /\ \A x : InArray(u, x) <=> InArray(tb, x)
  BY <1>1, <1>2, <1>6, WithNodesIs
<1> HIDE DEF u
<1>8. \A i \in Pos(tb) : /\ i # mp => u.node[i] = tb.node[i]
                         /\ u.node[i].next = tb.node[i].next /\ u.node[i].val = tb.node[i].val
  BY <1>5, <1>6, <1>7
<1>9. u.node[mp].key = k /\ u.node[mp].dead = FALSE /\ u.node[mp].val = nil
  BY <1>2, <1>5, <1>6, <1>7
<1>10. \A i \in Pos(tb) : (Linked(u, i) <=> Linked(tb, i)) /\ Succ(u, i) = Succ(tb, i)
  BY <1>8 DEF Linked, Succ
<1>11. ~InArray(tb, k) /\ \A i \in Pos(tb) : Live(tb, i) => tb.node[i].key # k
  BY NotThere
<1>12. Main(u, mp) = mp /\ \A i \in Pos(tb) : i # mp => Main(u, i) = Main(tb, i) /\ (Live(u, i) <=> Live(tb, i))
  BY <1>7, <1>8, <1>9 DEF Main, Live
<1> HIDE DEF mp
<1>13. OwnValues(u)
  BY <1>1, <1>7, <1>8, <1>9 DEF OwnValues
<1>14. FreeNodes(u)
  BY <1>1, <1>3, <1>7, <1>8, <1>9, <1>10 DEF FreeNodes
<1>15. Apart(u)
  BY <1>1, <1>7, <1>8, <1>9, <1>11 DEF Apart
<1>16. LinksOK(u)
  <2>1. ASSUME NEW i \in Pos(tb), Linked(u, i) PROVE Succ(u, i) \in Pos(tb) /\ u.node[Succ(u, i)].key # nil
    <3>1. Succ(tb, i) \in Pos(tb) /\ tb.node[Succ(tb, i)].key # nil
      BY <1>1, <1>10, <2>1 DEF LinksOK
    <3> QED
      BY <1>3, <1>8, <1>9, <1>10, <3>1
  <2> QED
    BY <1>1, <1>7, <1>10, <2>1 DEF LinksOK
<1>17. Acyclic(u)
  BY <1>1, <1>7, <1>10 DEF Acyclic, Ranks
<1>18. Found(u)
  <2> SUFFICES ASSUME NEW i \in Pos(tb), Live(u, i) PROVE Via(u, Main(u, i), i, KeyAt(u, u.node[i].key))
    BY <1>7 DEF Found
  <2>1. CASE i = mp
    BY <1>12, <2>1 DEF Via
  <2>2. CASE i # mp
    <3>1. Live(tb, i) /\ u.node[i].key = tb.node[i].key /\ Main(u, i) = Main(tb, i)
      BY <1>8, <1>12, <2>2
    <3>2. KeyAt(u, u.node[i].key) \subseteq KeyAt(tb, tb.node[i].key)
      BY <1>7, <1>8, <1>9, <1>11, <3>1 DEF KeyAt
    <3>3. Via(tb, Main(tb, i), i, KeyAt(tb, tb.node[i].key))
      BY <1>1, <3>1 DEF Found
    <3>4. Via(tb, Main(u, i), i, KeyAt(u, u.node[i].key))
      BY <3>1, <3>2, <3>3, ViaFewer
    <3> QED
      BY <1>6, <1>7, <1>8, <3>4, ViaSame
  <2> QED
    BY <2>1, <2>2
<1>19. Home(u)
  <2> SUFFICES ASSUME NEW i \in Pos(tb), Live(u, i), Main(u, i) # i
               PROVE  u.node[Main(u, i)].key # nil /\ Main(u, Main(u, i)) = Main(u, i)
    BY <1>7 DEF Home
  <2>1. i # mp /\ Live(tb, i) /\ Main(u, i) = Main(tb, i)
    BY <1>12
  <2>2. tb.node[Main(tb, i)].key # nil /\ Main(tb, Main(tb, i)) = Main(tb, i)
    BY <1>1, <2>1 DEF Home
  <2>3. Main(tb, i) \in Pos(tb)
    <3>1. tb.node[i].key \in Stored
      BY <1>1, <2>1, NodeIs DEF Live
    <3> QED
      BY <1>1, <3>1, MainIn DEF Main
  <2> QED
    BY <1>3, <1>8, <1>9, <1>12, <2>1, <2>2, <2>3
<1>20. Fresh(tb, u, k, mp)
  <2>1. ASSUME NEW j \in Pos(tb), tb.node[j].val # nil
        PROVE  \E i \in Pos(tb) \ {mp} : u.node[i].key = tb.node[j].key /\ u.node[i].val = tb.node[j].val
    <3>1. j # mp
      BY <2>1 DEF mp
    <3> QED
      BY <1>8, <3>1
  <2>2. \A i \in Pos(tb) \ {mp} : u.node[i] = tb.node[i]
    BY <1>8
  <2> QED
    BY <1>9, <2>1, <2>2 DEF Fresh
<1>21. Good(u)
  BY <1>7, <1>13, <1>14, <1>15, <1>16, <1>17, <1>18, <1>19 DEF Good
<1>22. Added(tb, u, k)
  BY <1>2, <1>6, <1>7, <1>20, <1>21 DEF Added
<1> QED
  BY <1>4, <1>22 DEF mp

LEMMA NodePut ==
  ASSUME NEW n \in Seq(NodeRec), NEW p \in 1..Len(n), NEW c \in NodeRec
  PROVE  /\ [n EXCEPT ![p] = c] \in Seq(NodeRec) /\ Len([n EXCEPT ![p] = c]) = Len(n)
         /\ \A i \in 1..Len(n) : [n EXCEPT ![p] = c][i] = IF i = p THEN c ELSE n[i]
  OBVIOUS

\* What Store(LinkAfter(tb, mp, f), f, k) is.
Inserted(tb, u, mp, f, k) ==
  /\ Shape(u) /\ u.array = tb.array /\ u.lastfree = f - 1 /\ Len(u.node) = Len(tb.node) /\ Pos(u) = Pos(tb)
  /\ \A x : mainposition(u, x) = mainposition(tb, x)
  /\ \A x : InArray(u, x) <=> InArray(tb, x)
  /\ \A i \in Pos(tb) \ {mp, f} : u.node[i] = tb.node[i]
  /\ u.node[mp].key = tb.node[mp].key /\ u.node[mp].val = tb.node[mp].val
  /\ u.node[mp].dead = tb.node[mp].dead /\ u.node[mp].next = f - mp
  /\ u.node[f].key = k /\ ~u.node[f].dead /\ u.node[f].val = tb.node[f].val
  /\ u.node[f].next = IF tb.node[mp].next = 0 THEN 0 ELSE mp + tb.node[mp].next - f

LEMMA InsertedIs ==
  ASSUME NEW tb, Shape(tb), NEW k \in Stored, NEW mp \in Pos(tb), NEW f \in Pos(tb), mp # f
  PROVE  Inserted(tb, Store(LinkAfter(tb, mp, f), f, k), mp, f, k)
<1> DEFINE m == tb.node
           e == IF m[mp].next = 0 THEN 0 ELSE mp + m[mp].next - f
           c1 == [m[f] EXCEPT !.next = e]
           n1 == [m EXCEPT ![f] = c1]
           c2 == [n1[mp] EXCEPT !.next = f - mp]
           n2 == [n1 EXCEPT ![mp] = c2]
           x == WithNodes(tb, n2, f - 1)
           c3 == [n2[f] EXCEPT !.key = k, !.dead = FALSE]
           n3 == [n2 EXCEPT ![f] = c3]
           u == WithNodes(x, n3, f - 1)
<1>1. /\ tb \in Table /\ m \in Seq(NodeRec) /\ m[mp] \in NodeRec /\ m[f] \in NodeRec
      /\ mp \in 1..Len(m) /\ f \in 1..Len(m) /\ Len(m) \in Nat
  BY TableIs DEF Pos
<1>2. f - 1 \in 0..Len(m) /\ f - mp \in Int /\ e \in Int /\ k \in Value
  <2>1. m[mp].next \in Int
    BY <1>1 DEF NodeRec
  <2>2. k \in Value
    BY StoredIs
  <2> QED
    BY <1>1, <2>1, <2>2
<1>3. LinkAfter(tb, mp, f) = x
  <2>1. LinkAfter(tb, mp, f) = Updated(tb, n2, f - 1)
    BY DEF LinkAfter, Updated
  <2> HIDE DEF n2
  <2> QED
    <3>1. tb \in Table
      BY <1>1
    <3>2. Updated(tb, n2, f - 1) = WithNodes(tb, n2, f - 1)
      BY <3>1, UpdatedIs
    <3> QED
      BY <2>1, <3>2
<1>4. c1 \in NodeRec /\ c1.key = m[f].key /\ c1.val = m[f].val /\ c1.dead = m[f].dead /\ c1.next = e
  <2> HIDE DEF e
  <2> QED
    BY <1>1, <1>2 DEF NodeRec
<1> HIDE DEF c1
<1>5. n1 \in Seq(NodeRec) /\ Len(n1) = Len(m) /\ \A i \in 1..Len(m) : n1[i] = IF i = f THEN c1 ELSE m[i]
  BY <1>1, <1>4, NodePut
<1> HIDE DEF n1
<1>6. n1[mp] = m[mp]
  BY <1>1, <1>5
<1>7. /\ c2 \in NodeRec /\ c2.key = m[mp].key /\ c2.val = m[mp].val /\ c2.dead = m[mp].dead
      /\ c2.next = f - mp
  BY <1>1, <1>2, <1>6 DEF NodeRec
<1> HIDE DEF c2
<1>8. n2 \in Seq(NodeRec) /\ Len(n2) = Len(m) /\ \A i \in 1..Len(m) : n2[i] = IF i = mp THEN c2 ELSE n1[i]
  BY <1>1, <1>5, <1>7, NodePut
<1> HIDE DEF n2
<1>9. /\ Shape(x) /\ x.array = tb.array /\ x.node = n2 /\ x.lastfree = f - 1 /\ Pos(x) = Pos(tb)
      /\ \A y : mainposition(x, y) = mainposition(tb, y)
      /\ \A y : InArray(x, y) <=> InArray(tb, y)
  BY <1>1, <1>2, <1>8, WithNodesIs
<1>10. n2[f] = c1
  BY <1>1, <1>5, <1>8
<1>11. Store(x, f, k) = u
  <2>1. Store(x, f, k) = [x EXCEPT !.node = n3]
    <3>1. Store(x, f, k) = [x EXCEPT !.node[f] = [x.node[f] EXCEPT !.key = k, !.dead = FALSE]]
      BY DEF Store
    <3>2. Store(x, f, k) = [x EXCEPT !.node = [x.node EXCEPT ![f] = [x.node[f] EXCEPT !.key = k, !.dead = FALSE]]]
      BY <3>1
    <3> HIDE DEF x
    <3> QED
      BY <1>9, <3>2
  <2>2. x \in Table
    BY <1>9 DEF Shape
  <2> HIDE DEF n3, x
  <2> QED
    BY <1>9, <2>1, <2>2, WithNodesExcept
<1>12. c3 \in NodeRec /\ c3.key = k /\ c3.val = m[f].val /\ c3.dead = FALSE /\ c3.next = e
  <2> HIDE DEF e
  <2> QED
    BY <1>2, <1>4, <1>10 DEF NodeRec
<1> HIDE DEF c3
<1>13. n3 \in Seq(NodeRec) /\ Len(n3) = Len(m) /\ \A i \in 1..Len(m) : n3[i] = IF i = f THEN c3 ELSE n2[i]
  BY <1>1, <1>8, <1>12, NodePut
<1> HIDE DEF n3, x
<1>14. /\ Shape(u) /\ u.array = tb.array /\ u.node = n3 /\ u.lastfree = f - 1 /\ Pos(u) = Pos(tb)
       /\ \A y : mainposition(u, y) = mainposition(tb, y)
       /\ \A y : InArray(u, y) <=> InArray(tb, y)
  <2>1. n3 \in Seq(NodeRec) /\ Len(n3) = Len(x.node) /\ f - 1 \in 0..Len(x.node)
    BY <1>2, <1>8, <1>9, <1>13
  <2>2. /\ Shape(u) /\ u.array = x.array /\ u.node = n3 /\ u.lastfree = f - 1 /\ Pos(u) = Pos(x)
        /\ \A y : mainposition(u, y) = mainposition(x, y)
        /\ \A y : InArray(u, y) <=> InArray(x, y)
    BY <1>9, <2>1, WithNodesIs
  <2> QED
    BY <1>9, <2>2
<1>15. \A i \in Pos(tb) : u.node[i] = IF i = f THEN c3 ELSE IF i = mp THEN c2 ELSE m[i]
  BY <1>5, <1>8, <1>13, <1>14 DEF Pos
<1>16. Inserted(tb, u, mp, f, k)
  <2> HIDE DEF u, m
  <2>1. \A i \in Pos(tb) \ {mp, f} : u.node[i] = tb.node[i]
    BY <1>15 DEF m
  <2>2. u.node[mp] = c2 /\ u.node[f] = c3
    BY <1>15
  <2>3. Len(u.node) = Len(tb.node)
    BY <1>13, <1>14 DEF m
  <2> QED
    BY <1>7, <1>12, <1>14, <2>1, <2>2, <2>3 DEF Inserted, m
<1> HIDE DEF u
<1> QED
  BY <1>3, <1>11, <1>16

LEMMA LinkAfterStep ==
  ASSUME NEW tb, Good(tb), NEW k \in Stored, ~IsThere(tb, k), NEW f \in Pos(tb),
         tb.node[f].key = nil, \A i \in Pos(tb) : tb.node[i].key = nil => i <= f,
         tb.node[mainposition(tb, k)].val # nil, Main(tb, mainposition(tb, k)) = mainposition(tb, k)
  PROVE  Added(tb, Store(LinkAfter(tb, mainposition(tb, k), f), f, k), k)
<1> DEFINE mp == mainposition(tb, k)
           u == Store(LinkAfter(tb, mp, f), f, k)
<1>1. /\ Shape(tb) /\ OwnValues(tb) /\ FreeNodes(tb) /\ Apart(tb) /\ LinksOK(tb) /\ Acyclic(tb)
      /\ Found(tb) /\ Home(tb)
  BY DEF Good
<1>2. mp \in Pos(tb)
  <2>1. tb.node # <<>>
    BY <1>1, TableIs DEF Pos
  <2> QED
    BY <1>1, <2>1, MainIn
<1>3. k # nil
  BY StoredIs
<1>4. tb.node[mp].key # nil /\ ~Linked(tb, f) /\ tb.node[f].val = nil
  BY <1>1, <1>2 DEF FreeNodes
<1>5. f # mp
  BY <1>4
<1>6. Inserted(tb, u, mp, f, k)
  BY <1>1, <1>2, <1>5, InsertedIs
<1> HIDE DEF u
<1>7. ~InArray(tb, k) /\ \A i \in Pos(tb) : Live(tb, i) => tb.node[i].key # k
  BY NotThere
<1>8. mp \in Int /\ f \in Int
  BY <1>2, TableIs, <1>1
<1>9. \A i \in Pos(tb) : Linked(tb, i) => Succ(tb, i) # f
  BY <1>1 DEF LinksOK
<1>10. /\ Linked(u, mp) /\ Succ(u, mp) = f /\ (Linked(u, f) <=> Linked(tb, mp))
       /\ Linked(u, f) => Succ(u, f) = Succ(tb, mp)
       /\ \A i \in Pos(tb) \ {mp, f} : (Linked(u, i) <=> Linked(tb, i)) /\ Succ(u, i) = Succ(tb, i)
  <2>1. tb.node[mp].next \in Int
    BY <1>1, <1>2, NodeIs
  <2>2. Linked(u, mp) /\ Succ(u, mp) = f
    BY <1>5, <1>6, <1>8 DEF Linked, Succ, Inserted
  <2>3. CASE tb.node[mp].next = 0
    <3>1. ~Linked(u, f) /\ ~Linked(tb, mp)
      BY <1>6, <2>3 DEF Linked, Inserted
    <3> QED
      BY <1>6, <2>2, <3>1 DEF Linked, Succ, Inserted
  <2>4. CASE tb.node[mp].next # 0
    <3>1. Linked(tb, mp) /\ mp + tb.node[mp].next # f
      BY <1>2, <1>9, <2>4 DEF Linked, Succ
    <3>2. u.node[f].next = mp + tb.node[mp].next - f
      BY <1>6, <2>4 DEF Inserted
    <3>3. u.node[f].next # 0 /\ f + u.node[f].next = mp + tb.node[mp].next
      BY <1>8, <2>1, <3>1, <3>2
    <3> QED
      BY <1>6, <2>2, <3>1, <3>3 DEF Linked, Succ, Inserted
  <2> QED
    BY <2>3, <2>4
<1>11. \A i \in Pos(tb) \ {f} : /\ u.node[i].key = tb.node[i].key /\ u.node[i].val = tb.node[i].val
                                /\ u.node[i].dead = tb.node[i].dead
  BY <1>6 DEF Inserted
<1>12. u.node[f].key = k /\ ~u.node[f].dead /\ u.node[f].val = nil /\ u.lastfree = f - 1
  BY <1>4, <1>6 DEF Inserted
<1>13. /\ Shape(u) /\ u.array = tb.array /\ Len(u.node) = Len(tb.node) /\ Pos(u) = Pos(tb)
       /\ \A x : mainposition(u, x) = mainposition(tb, x)
       /\ \A x : InArray(u, x) <=> InArray(tb, x)
  BY <1>6 DEF Inserted
<1>14. Main(u, f) = mp /\ \A i \in Pos(tb) \ {f} : Main(u, i) = Main(tb, i) /\ (Live(u, i) <=> Live(tb, i))
  BY <1>11, <1>12, <1>13 DEF Main, Live
<1>15. OwnValues(u)
  <2>1. \A i \in Pos(tb) : u.node[i].val # nil => u.node[i].val = u.node[i].key /\ ~u.node[i].dead
    BY <1>1, <1>11, <1>12 DEF OwnValues
  <2> QED
    BY <1>1, <1>13, <2>1 DEF OwnValues
<1>16. FreeNodes(u)
  <2> SUFFICES ASSUME NEW i \in Pos(tb), u.node[i].key = nil
               PROVE  ~Linked(u, i) /\ u.node[i].val = nil /\ i <= u.lastfree
    BY <1>13 DEF FreeNodes
  <2>1. i # f /\ i # mp /\ tb.node[i].key = nil
    BY <1>3, <1>4, <1>11, <1>12
  <2>2. ~Linked(tb, i) /\ tb.node[i].val = nil /\ i <= f
    BY <1>1, <2>1 DEF FreeNodes
  <2>3. i <= f - 1
    <3>1. i \in Nat
      BY <1>1, TableIs
    <3> QED
      BY <1>8, <2>1, <2>2, <3>1
  <2> QED
    BY <1>10, <1>11, <1>12, <2>1, <2>2, <2>3
<1>17. Apart(u)
  <2> SUFFICES ASSUME NEW i \in Pos(tb), u.node[i].key # nil PROVE ~InArray(tb, u.node[i].key)
    BY <1>13 DEF Apart
  <2> QED
    BY <1>1, <1>7, <1>11, <1>12 DEF Apart
<1> HIDE DEF mp
<1>18. LinksOK(u)
  <2>1. ASSUME NEW i \in Pos(tb), Linked(u, i) PROVE Succ(u, i) \in Pos(tb) /\ u.node[Succ(u, i)].key # nil
    <3>1. CASE i = mp
      BY <1>3, <1>10, <1>12, <3>1
    <3>2. CASE i # mp
      <4> DEFINE j == IF i = f THEN mp ELSE i
      <4>1. j \in Pos(tb) /\ Linked(tb, j) /\ Succ(u, i) = Succ(tb, j)
        BY <1>2, <1>10, <2>1, <3>2
      <4>2. Succ(tb, j) \in Pos(tb) /\ tb.node[Succ(tb, j)].key # nil /\ Succ(tb, j) # f
        <5> HIDE DEF j
        <5> QED
          BY <1>1, <4>1 DEF LinksOK
      <4> QED
        BY <1>11, <4>1, <4>2
    <3> QED
      BY <3>1, <3>2
  <2>2. ASSUME NEW i \in Pos(tb), NEW j \in Pos(tb), Linked(u, i), Linked(u, j), Succ(u, i) = Succ(u, j)
        PROVE  i = j
    <3>1. ASSUME NEW a \in Pos(tb), NEW b \in Pos(tb), Linked(tb, a), Linked(tb, b), Succ(tb, a) = Succ(tb, b)
          PROVE  a = b
      BY <1>1, <3>1 DEF LinksOK
    <3>2. \A a \in Pos(tb) : Linked(tb, a) => Succ(tb, a) # f
      BY <1>9
    <3> QED
      BY <1>2, <1>10, <2>2, <3>1, <3>2
  <2> QED
    BY <1>13, <2>1, <2>2 DEF LinksOK
<1>19. Acyclic(u)
  <2>1. PICK r : Ranks(tb, r)
    BY <1>1 DEF Acyclic
  <2> DEFINE s == [x \in Pos(tb) |-> IF x = f THEN 2 * r[mp] + 1 ELSE 2 * r[x]]
  <2>2. r \in [Pos(tb) -> Nat]
    BY <2>1 DEF Ranks
  <2>3. s \in [Pos(tb) -> Nat]
    BY <1>2, <2>2
  <2>4. ASSUME NEW i \in Pos(tb), Linked(u, i) PROVE s[i] < s[Succ(u, i)]
    <3>1. CASE i = mp
      <4>1. s[mp] = 2 * r[mp] /\ s[f] = 2 * r[mp] + 1
        BY <1>2, <1>5
      <4> QED
        BY <1>2, <1>10, <2>2, <3>1, <4>1
    <3>2. CASE i = f
      <4>1. Linked(tb, mp) /\ Succ(u, f) = Succ(tb, mp)
        BY <1>10, <2>4, <3>2
      <4>2. r[mp] < r[Succ(tb, mp)] /\ Succ(tb, mp) \in Pos(tb) /\ Succ(tb, mp) # f
        BY <1>1, <1>2, <1>9, <2>1, <4>1 DEF Ranks, LinksOK
      <4>3. r[mp] \in Nat /\ r[Succ(tb, mp)] \in Nat
        BY <1>2, <2>2, <4>2
      <4>4. s[f] = 2 * r[mp] + 1 /\ s[Succ(tb, mp)] = 2 * r[Succ(tb, mp)]
        BY <4>2
      <4>5. 2 * r[mp] + 1 < 2 * r[Succ(tb, mp)]
        BY <4>2, <4>3
      <4> QED
        BY <3>2, <4>1, <4>4, <4>5
    <3>3. CASE i # mp /\ i # f
      <4>1. Linked(tb, i) /\ Succ(u, i) = Succ(tb, i)
        BY <1>10, <2>4, <3>3
      <4>2. r[i] < r[Succ(tb, i)] /\ Succ(tb, i) \in Pos(tb) /\ Succ(tb, i) # f
        BY <1>1, <1>9, <2>1, <4>1 DEF Ranks, LinksOK
      <4>3. r[i] \in Nat /\ r[Succ(tb, i)] \in Nat
        BY <2>2, <4>2
      <4>4. s[i] = 2 * r[i] /\ s[Succ(tb, i)] = 2 * r[Succ(tb, i)]
        BY <3>3, <4>2
      <4>5. 2 * r[i] < 2 * r[Succ(tb, i)]
        BY <4>2, <4>3
      <4> QED
        BY <4>1, <4>4, <4>5
    <3> QED
      BY <3>1, <3>2, <3>3
  <2> HIDE DEF s
  <2>5. Ranks(u, s)
    BY <1>13, <2>3, <2>4 DEF Ranks
  <2> QED
    BY <2>5 DEF Acyclic
<1>20. Found(u)
  <2> SUFFICES ASSUME NEW i \in Pos(tb), Live(u, i), NEW S \in SUBSET Pos(tb), Main(u, i) \in S,
                      Closed(u, S, KeyAt(u, u.node[i].key))
               PROVE  i \in S
    BY <1>13 DEF Found, Via
  <2> DEFINE M == KeyAt(u, u.node[i].key)
  <2>1. CASE i = f
    <3>1. mp \in S /\ mp \notin M
      <4>1. Live(tb, mp)
        BY <1>1, <1>2, <1>4, UsedIsLive DEF mp
      <4>2. tb.node[mp].key # k
        BY <1>2, <1>7, <4>1
      <4> QED
        BY <1>2, <1>5, <1>11, <1>12, <1>14, <2>1, <4>2 DEF KeyAt
    <3> QED
      BY <1>10, <2>1, <3>1 DEF Closed
  <2>2. CASE i # f
    <3>1. Live(tb, i) /\ u.node[i].key = tb.node[i].key /\ Main(u, i) = Main(tb, i)
      BY <1>11, <1>14, <2>2
    <3>2. M = KeyAt(tb, tb.node[i].key) /\ f \notin M
      <4>1. tb.node[i].key # nil /\ tb.node[i].key # k
        BY <1>7, <3>1 DEF Live
      <4> QED
        BY <1>11, <1>12, <1>13, <3>1, <4>1 DEF KeyAt
    <3> HIDE DEF M
    <3>3. Closed(tb, S, M)
      <4> SUFFICES ASSUME NEW j \in S, j \notin M, Linked(tb, j) PROVE Succ(tb, j) \in S
        BY DEF Closed
      <4>1. j # f
        BY <1>4
      <4>2. CASE j = mp
        <5>1. f \in S
          BY <1>10, <4>2 DEF Closed, M
        <5> QED
          BY <1>10, <3>2, <4>2, <5>1 DEF Closed, M
      <4>3. CASE j # mp
        BY <1>10, <4>1, <4>3 DEF Closed, M
      <4> QED
        BY <4>2, <4>3
    <3>4. Via(tb, Main(tb, i), i, M)
      BY <1>1, <3>1, <3>2 DEF Found
    <3> QED
      BY <3>1, <3>3, <3>4 DEF Via
  <2> QED
    BY <2>1, <2>2
<1>21. Home(u)
  <2> SUFFICES ASSUME NEW i \in Pos(tb), Live(u, i), Main(u, i) # i
               PROVE  u.node[Main(u, i)].key # nil /\ Main(u, Main(u, i)) = Main(u, i)
    BY <1>13 DEF Home
  <2>1. CASE i = f
    <3>1. Main(tb, mp) = mp
      BY DEF mp
    <3> QED
      BY <1>2, <1>4, <1>5, <1>11, <1>14, <2>1, <3>1
  <2>2. CASE i # f
    <3>1. Live(tb, i) /\ Main(u, i) = Main(tb, i)
      BY <1>14, <2>2
    <3>2. tb.node[Main(tb, i)].key # nil /\ Main(tb, Main(tb, i)) = Main(tb, i)
      BY <1>1, <3>1 DEF Home
    <3>3. Main(tb, i) \in Pos(tb)
      <4>1. tb.node[i].key \in Stored
        BY <1>1, <3>1, NodeIs DEF Live
      <4>2. tb.node # <<>>
        BY <1>1, TableIs DEF Pos
      <4> QED
        BY <1>1, <4>1, <4>2, MainIn DEF Main
    <3>4. Main(tb, i) # f
      BY <3>2
    <3> QED
      BY <1>11, <1>14, <3>1, <3>2, <3>3, <3>4
  <2> QED
    BY <2>1, <2>2
<1>22. Fresh(tb, u, k, f)
  <2>1. ASSUME NEW j \in Pos(tb), tb.node[j].val # nil
        PROVE  \E i \in Pos(tb) \ {f} : u.node[i].key = tb.node[j].key /\ u.node[i].val = tb.node[j].val
    <3>1. j # f
      BY <1>4, <2>1
    <3> QED
      BY <1>11, <3>1
  <2> QED
    BY <1>11, <1>12, <2>1 DEF Fresh
<1>23. Good(u)
  BY <1>13, <1>15, <1>16, <1>17, <1>18, <1>19, <1>20, <1>21 DEF Good
<1>24. Added(tb, u, k)
  BY <1>13, <1>22, <1>23 DEF Added
<1> QED
  BY <1>24 DEF u, mp

\* What Store(Move(tb, mp, f), mp, k) is, when prev is the node before mp.
Displaced(tb, u, mp, f, prev, k) ==
  /\ Shape(u) /\ u.array = tb.array /\ u.lastfree = f - 1 /\ Len(u.node) = Len(tb.node) /\ Pos(u) = Pos(tb)
  /\ \A x : mainposition(u, x) = mainposition(tb, x)
  /\ \A x : InArray(u, x) <=> InArray(tb, x)
  /\ \A i \in Pos(tb) \ {mp, f, prev} : u.node[i] = tb.node[i]
  /\ u.node[prev].key = tb.node[prev].key /\ u.node[prev].val = tb.node[prev].val
  /\ u.node[prev].dead = tb.node[prev].dead /\ u.node[prev].next = f - prev
  /\ u.node[f].key = tb.node[mp].key /\ u.node[f].val = tb.node[mp].val
  /\ u.node[f].dead = tb.node[mp].dead
  /\ u.node[f].next = IF tb.node[mp].next = 0 THEN 0 ELSE tb.node[mp].next + mp - f
  /\ u.node[mp].key = k /\ ~u.node[mp].dead /\ u.node[mp].val = nil /\ u.node[mp].next = 0

LEMMA DisplacedIs ==
  ASSUME NEW tb, Shape(tb), NEW k \in Stored, NEW mp \in Pos(tb), NEW f \in Pos(tb), NEW prev \in Pos(tb),
         mp # f, prev # f, prev # mp, Previous(tb, mainposition(tb, tb.node[mp].key), mp) = prev
  PROVE  Displaced(tb, Store(Move(tb, mp, f), mp, k), mp, f, prev, k)
<1> DEFINE m == tb.node
           e == IF m[mp].next = 0 THEN 0 ELSE m[mp].next + mp - f
           c1 == [m[prev] EXCEPT !.next = f - prev]
           n1 == [m EXCEPT ![prev] = c1]
           c2 == [m[mp] EXCEPT !.next = e]
           n2 == [n1 EXCEPT ![f] = c2]
           n3 == [n2 EXCEPT ![mp] = Node]
           x == WithNodes(tb, n3, f - 1)
           c4 == [n3[mp] EXCEPT !.key = k, !.dead = FALSE]
           n4 == [n3 EXCEPT ![mp] = c4]
           u == WithNodes(x, n4, f - 1)
<1>1. /\ tb \in Table /\ m \in Seq(NodeRec) /\ m[mp] \in NodeRec /\ m[f] \in NodeRec /\ m[prev] \in NodeRec
      /\ mp \in 1..Len(m) /\ f \in 1..Len(m) /\ prev \in 1..Len(m) /\ Len(m) \in Nat
  BY TableIs DEF Pos
<1>2. f - 1 \in 0..Len(m) /\ f - prev \in Int /\ e \in Int /\ k \in Value
  <2>1. m[mp].next \in Int
    BY <1>1 DEF NodeRec
  <2>2. k \in Value
    BY StoredIs
  <2> QED
    BY <1>1, <2>1, <2>2
<1>3. Move(tb, mp, f) = x
  <2>1. Move(tb, mp, f) = Updated(tb, n3, f - 1)
    BY DEF Move, Updated
  <2>2. tb \in Table
    BY <1>1
  <2> HIDE DEF n3
  <2>3. Updated(tb, n3, f - 1) = WithNodes(tb, n3, f - 1)
    BY <2>2, UpdatedIs
  <2> QED
    BY <2>1, <2>3
<1>4. c1 \in NodeRec /\ c1.key = m[prev].key /\ c1.val = m[prev].val /\ c1.dead = m[prev].dead /\ c1.next = f - prev
  BY <1>1, <1>2 DEF NodeRec
<1> HIDE DEF c1
<1>5. n1 \in Seq(NodeRec) /\ Len(n1) = Len(m) /\ \A i \in 1..Len(m) : n1[i] = IF i = prev THEN c1 ELSE m[i]
  BY <1>1, <1>4, NodePut
<1> HIDE DEF n1
<1>6. c2 \in NodeRec /\ c2.key = m[mp].key /\ c2.val = m[mp].val /\ c2.dead = m[mp].dead /\ c2.next = e
  <2> HIDE DEF e
  <2> QED
    BY <1>1, <1>2 DEF NodeRec
<1> HIDE DEF c2
<1>7. n2 \in Seq(NodeRec) /\ Len(n2) = Len(m) /\ \A i \in 1..Len(m) : n2[i] = IF i = f THEN c2 ELSE n1[i]
  BY <1>1, <1>5, <1>6, NodePut
<1> HIDE DEF n2
<1>8. Node \in NodeRec /\ Node.key = nil /\ Node.dead = FALSE /\ Node.val = nil /\ Node.next = 0
  BY DEF Node, NodeRec, Value
<1>9. n3 \in Seq(NodeRec) /\ Len(n3) = Len(m) /\ \A i \in 1..Len(m) : n3[i] = IF i = mp THEN Node ELSE n2[i]
  BY <1>1, <1>7, <1>8, NodePut
<1> HIDE DEF n3
<1>10. /\ Shape(x) /\ x.array = tb.array /\ x.node = n3 /\ x.lastfree = f - 1 /\ Pos(x) = Pos(tb)
       /\ \A y : mainposition(x, y) = mainposition(tb, y)
       /\ \A y : InArray(x, y) <=> InArray(tb, y)
  BY <1>1, <1>2, <1>9, WithNodesIs
<1>11. n3[mp] = Node
  BY <1>1, <1>9
<1>12. Store(x, mp, k) = u
  <2>1. Store(x, mp, k) = [x EXCEPT !.node = n4]
    <3>1. Store(x, mp, k) = [x EXCEPT !.node[mp] = [x.node[mp] EXCEPT !.key = k, !.dead = FALSE]]
      BY DEF Store
    <3>2. Store(x, mp, k) = [x EXCEPT !.node = [x.node EXCEPT ![mp] = [x.node[mp] EXCEPT !.key = k, !.dead = FALSE]]]
      BY <3>1
    <3> HIDE DEF x
    <3> QED
      BY <1>10, <3>2
  <2>2. x \in Table
    BY <1>10 DEF Shape
  <2> HIDE DEF n4, x
  <2> QED
    BY <1>10, <2>1, <2>2, WithNodesExcept
<1>13. c4 \in NodeRec /\ c4.key = k /\ c4.val = nil /\ c4.dead = FALSE /\ c4.next = 0
  BY <1>2, <1>8, <1>11 DEF NodeRec
<1> HIDE DEF c4
<1>14. n4 \in Seq(NodeRec) /\ Len(n4) = Len(m) /\ \A i \in 1..Len(m) : n4[i] = IF i = mp THEN c4 ELSE n3[i]
  BY <1>1, <1>9, <1>13, NodePut
<1> HIDE DEF n4, x
<1>15. /\ Shape(u) /\ u.array = tb.array /\ u.node = n4 /\ u.lastfree = f - 1 /\ Pos(u) = Pos(tb)
       /\ \A y : mainposition(u, y) = mainposition(tb, y)
       /\ \A y : InArray(u, y) <=> InArray(tb, y)
  <2>1. n4 \in Seq(NodeRec) /\ Len(n4) = Len(x.node) /\ f - 1 \in 0..Len(x.node)
    BY <1>2, <1>9, <1>10, <1>14
  <2>2. /\ Shape(u) /\ u.array = x.array /\ u.node = n4 /\ u.lastfree = f - 1 /\ Pos(u) = Pos(x)
        /\ \A y : mainposition(u, y) = mainposition(x, y)
        /\ \A y : InArray(u, y) <=> InArray(x, y)
    BY <1>10, <2>1, WithNodesIs
  <2> QED
    BY <1>10, <2>2
<1>16. \A i \in Pos(tb) : u.node[i] = IF i = mp THEN c4 ELSE IF i = f THEN c2 ELSE IF i = prev THEN c1 ELSE m[i]
  BY <1>5, <1>7, <1>9, <1>14, <1>15 DEF Pos
<1>17. Displaced(tb, u, mp, f, prev, k)
  <2> HIDE DEF u, m
  <2>1. \A i \in Pos(tb) \ {mp, f, prev} : u.node[i] = tb.node[i]
    BY <1>16 DEF m
  <2>2. u.node[mp] = c4 /\ u.node[f] = c2 /\ u.node[prev] = c1
    BY <1>16
  <2>3. Len(u.node) = Len(tb.node)
    BY <1>14, <1>15 DEF m
  <2> QED
    BY <1>4, <1>6, <1>13, <1>15, <2>1, <2>2, <2>3 DEF Displaced, m
<1> HIDE DEF u
<1> QED
  BY <1>3, <1>12, <1>17

\* The walk from the main position of the node at mp stops at the node before it.
LEMMA PreviousIs ==
  ASSUME NEW tb, Good(tb), NEW mp \in Pos(tb), Live(tb, mp), Main(tb, mp) # mp
  PROVE  \E prev \in Pos(tb) : /\ Linked(tb, prev) /\ Succ(tb, prev) = mp /\ prev # mp
                               /\ Previous(tb, Main(tb, mp), mp) = prev
<1> DEFINE a == Main(tb, mp)
           K == KeyAt(tb, tb.node[mp].key)
           M == {p \in DOMAIN tb.node : p + tb.node[p].next = mp}
<1>1. /\ Shape(tb) /\ LinksOK(tb) /\ Acyclic(tb) /\ Found(tb)
  BY DEF Good
<1>2. DOMAIN tb.node = Pos(tb) /\ tb.node # <<>>
  <2>1. DOMAIN tb.node = Pos(tb) /\ Len(tb.node) \in Nat
    BY <1>1, TableIs
  <2> QED
    BY <2>1 DEF Pos
<1>3. a \in Pos(tb)
  <2>1. tb.node[mp].key \in Stored
    BY <1>1, NodeIs DEF Live
  <2> QED
    BY <1>1, <1>2, <2>1, MainIn DEF Main
<1>4. Via(tb, a, mp, K)
  BY <1>1 DEF Found
<1>5. a # mp
  OBVIOUS
<1> HIDE DEF a, K
<1>6. PICK prev \in Pos(tb) : Linked(tb, prev) /\ Succ(tb, prev) = mp /\ prev # mp
  <2> DEFINE S == Pos(tb) \ {mp}
  <2>1. ~Closed(tb, S, K)
    BY <1>3, <1>4, <1>5 DEF Via
  <2>2. PICK j \in S : Linked(tb, j) /\ Succ(tb, j) \notin S
    BY <2>1 DEF Closed
  <2> QED
    BY <1>1, <2>2 DEF LinksOK
<1>7. \A p \in M : p # mp => p \in Pos(tb) /\ Linked(tb, p) /\ Succ(tb, p) = mp
  <2> SUFFICES ASSUME NEW p \in M, p # mp PROVE p \in Pos(tb) /\ Linked(tb, p) /\ Succ(tb, p) = mp
    OBVIOUS
  <2>1. p \in Pos(tb) /\ p + tb.node[p].next = mp /\ p \in Nat
    BY <1>1, <1>2, TableIs
  <2>2. tb.node[p].next # 0
    BY <2>1
  <2> QED
    BY <2>1, <2>2 DEF Linked, Succ
<1>8. prev \in M
  BY <1>2, <1>6 DEF Succ
<1> HIDE DEF M
<1>9. Via(tb, a, prev, M)
  <2> SUFFICES ASSUME NEW S \in SUBSET Pos(tb), a \in S, Closed(tb, S, M), prev \notin S PROVE FALSE
    BY DEF Via
  <2> DEFINE U == S \ {mp}
  <2>1. Closed(tb, U, K)
    <3> SUFFICES ASSUME NEW j \in U, Linked(tb, j) PROVE Succ(tb, j) \in U
      BY DEF Closed
    <3>1. j \notin M
      <4> SUFFICES ASSUME j \in M PROVE FALSE
        OBVIOUS
      <4>1. Succ(tb, j) = mp /\ j \in Pos(tb)
        BY <1>7
      <4>2. j = prev
        BY <1>1, <1>6, <4>1 DEF LinksOK
      <4> QED
        BY <4>2
    <3>2. Succ(tb, j) \in S
      BY <3>1 DEF Closed
    <3>3. Succ(tb, j) # mp
      <4> SUFFICES ASSUME Succ(tb, j) = mp PROVE FALSE
        OBVIOUS
      <4>1. j = prev
        BY <1>1, <1>6 DEF LinksOK
      <4> QED
        BY <4>1
    <3> QED
      BY <3>2, <3>3
  <2>2. mp \in U
    BY <1>4, <1>5, <2>1 DEF Via
  <2> QED
    BY <2>2
<1>10. Walk(tb, a, M) = prev
  BY <1>1, <1>3, <1>8, <1>9, WalkTo
<1>11. Previous(tb, a, mp) = prev
  BY <1>10 DEF Previous, M
<1> QED
  BY <1>6, <1>11 DEF a

LEMMA MoveStep ==
  ASSUME NEW tb, Good(tb), NEW k \in Stored, ~IsThere(tb, k), NEW f \in Pos(tb),
         tb.node[f].key = nil, \A i \in Pos(tb) : tb.node[i].key = nil => i <= f,
         tb.node[mainposition(tb, k)].val # nil, Main(tb, mainposition(tb, k)) # mainposition(tb, k)
  PROVE  Added(tb, Store(Move(tb, mainposition(tb, k), f), mainposition(tb, k), k), k)
<1> DEFINE mp == mainposition(tb, k)
           u == Store(Move(tb, mp, f), mp, k)
<1>1. /\ Shape(tb) /\ OwnValues(tb) /\ FreeNodes(tb) /\ Apart(tb) /\ LinksOK(tb) /\ Acyclic(tb)
      /\ Found(tb) /\ Home(tb)
  BY DEF Good
<1>2. mp \in Pos(tb) /\ tb.node # <<>>
  <2>1. tb.node # <<>>
    BY <1>1, TableIs DEF Pos
  <2> QED
    BY <1>1, <2>1, MainIn
<1>3. k # nil
  BY StoredIs
<1>4. tb.node[mp].key # nil /\ ~Linked(tb, f) /\ Live(tb, mp)
  BY <1>1, <1>2, UsedIsLive DEF FreeNodes
<1>5. f # mp
  BY <1>4
<1>6. PICK prev \in Pos(tb) : /\ Linked(tb, prev) /\ Succ(tb, prev) = mp /\ prev # mp
                              /\ Previous(tb, Main(tb, mp), mp) = prev
  BY <1>2, <1>4, PreviousIs
<1>7. prev # f
  BY <1>4, <1>6
<1>8. Displaced(tb, u, mp, f, prev, k)
  <2>1. Previous(tb, mainposition(tb, tb.node[mp].key), mp) = prev
    BY <1>6 DEF Main
  <2> HIDE DEF mp
  <2> QED
    BY <1>1, <1>2, <1>5, <1>6, <1>7, <2>1, DisplacedIs
<1> HIDE DEF u
<1>9. ~InArray(tb, k) /\ \A i \in Pos(tb) : Live(tb, i) => tb.node[i].key # k
  BY NotThere
<1>10. mp \in Int /\ f \in Int /\ prev \in Int
  BY <1>1, <1>2, TableIs
<1>11. \A i \in Pos(tb) : Linked(tb, i) => Succ(tb, i) # f /\ Succ(tb, i) \in Pos(tb)
  BY <1>1 DEF LinksOK
<1>12. \A i \in Pos(tb) : Linked(tb, i) /\ Succ(tb, i) = mp => i = prev
  BY <1>1, <1>6 DEF LinksOK
<1>13. Linked(tb, mp) => Succ(tb, mp) # mp
  BY <1>2, <1>6, <1>12
<1>14. /\ Linked(u, prev) /\ Succ(u, prev) = f /\ ~Linked(u, mp)
       /\ Linked(u, f) <=> Linked(tb, mp)
       /\ Linked(u, f) => Succ(u, f) = Succ(tb, mp)
       /\ \A i \in Pos(tb) \ {mp, f, prev} : (Linked(u, i) <=> Linked(tb, i)) /\ Succ(u, i) = Succ(tb, i)
  <2>1. tb.node[mp].next \in Int
    BY <1>1, <1>2, NodeIs
  <2>2. Linked(u, prev) /\ Succ(u, prev) = f /\ ~Linked(u, mp)
    BY <1>7, <1>8, <1>10 DEF Linked, Succ, Displaced
  <2>3. CASE tb.node[mp].next = 0
    <3>1. ~Linked(u, f) /\ ~Linked(tb, mp)
      BY <1>8, <2>3 DEF Linked, Displaced
    <3> QED
      BY <1>8, <2>2, <3>1 DEF Linked, Succ, Displaced
  <2>4. CASE tb.node[mp].next # 0
    <3>1. Linked(tb, mp) /\ mp + tb.node[mp].next # f
      BY <1>2, <1>11, <2>4 DEF Linked, Succ
    <3>2. u.node[f].next = tb.node[mp].next + mp - f
      BY <1>8, <2>4 DEF Displaced
    <3>3. u.node[f].next # 0 /\ f + u.node[f].next = mp + tb.node[mp].next
      BY <1>10, <2>1, <3>1, <3>2
    <3> QED
      BY <1>8, <2>2, <3>1, <3>3 DEF Linked, Succ, Displaced
  <2> QED
    BY <2>3, <2>4
<1>15. /\ \A i \in Pos(tb) \ {mp, f} : /\ u.node[i].key = tb.node[i].key /\ u.node[i].val = tb.node[i].val
                                       /\ u.node[i].dead = tb.node[i].dead
       /\ u.node[f].key = tb.node[mp].key /\ u.node[f].val = tb.node[mp].val
       /\ u.node[f].dead = tb.node[mp].dead
  BY <1>8 DEF Displaced
<1>16. u.node[mp].key = k /\ ~u.node[mp].dead /\ u.node[mp].val = nil /\ u.lastfree = f - 1
  BY <1>8 DEF Displaced
<1>17. /\ Shape(u) /\ u.array = tb.array /\ Len(u.node) = Len(tb.node) /\ Pos(u) = Pos(tb)
       /\ \A x : mainposition(u, x) = mainposition(tb, x)
       /\ \A x : InArray(u, x) <=> InArray(tb, x)
  BY <1>8 DEF Displaced
<1>18. Main(u, mp) = mp /\ Main(u, f) = Main(tb, mp)
       /\ \A i \in Pos(tb) \ {mp, f} : Main(u, i) = Main(tb, i) /\ (Live(u, i) <=> Live(tb, i))
  BY <1>15, <1>16, <1>17 DEF Main, Live
<1>19. OwnValues(u)
  <2>1. \A i \in Pos(tb) : u.node[i].val # nil => u.node[i].val = u.node[i].key /\ ~u.node[i].dead
    BY <1>1, <1>2, <1>15, <1>16 DEF OwnValues
  <2> QED
    BY <1>1, <1>17, <2>1 DEF OwnValues
<1>20. FreeNodes(u)
  <2> SUFFICES ASSUME NEW i \in Pos(tb), u.node[i].key = nil
               PROVE  ~Linked(u, i) /\ u.node[i].val = nil /\ i <= u.lastfree
    BY <1>17 DEF FreeNodes
  <2>1. i # f /\ i # mp /\ tb.node[i].key = nil
    BY <1>3, <1>4, <1>15, <1>16
  <2>2. ~Linked(tb, i) /\ tb.node[i].val = nil /\ i <= f
    BY <1>1, <2>1 DEF FreeNodes
  <2>3. i <= f - 1
    <3>1. i \in Nat
      BY <1>1, TableIs
    <3> QED
      BY <1>10, <2>1, <2>2, <3>1
  <2>4. i # prev
    BY <1>6, <2>2
  <2> QED
    BY <1>14, <1>15, <1>16, <2>1, <2>2, <2>3, <2>4
<1>21. Apart(u)
  <2> SUFFICES ASSUME NEW i \in Pos(tb), u.node[i].key # nil PROVE ~InArray(tb, u.node[i].key)
    BY <1>17 DEF Apart
  <2> QED
    BY <1>1, <1>2, <1>9, <1>15, <1>16 DEF Apart
<1>22. LinksOK(u)
  <2>1. ASSUME NEW i \in Pos(tb), Linked(u, i) PROVE Succ(u, i) \in Pos(tb) /\ u.node[Succ(u, i)].key # nil
    <3>1. CASE i = prev
      BY <1>4, <1>14, <1>15, <3>1
    <3>2. CASE i # prev
      <4> DEFINE j == IF i = f THEN mp ELSE i
      <4>1. j \in Pos(tb) /\ Linked(tb, j) /\ Succ(u, i) = Succ(tb, j) /\ j # prev
        BY <1>2, <1>6, <1>14, <2>1, <3>2
      <4> HIDE DEF j
      <4>2. Succ(tb, j) \in Pos(tb) /\ tb.node[Succ(tb, j)].key # nil /\ Succ(tb, j) # f /\ Succ(tb, j) # mp
        BY <1>1, <1>11, <1>12, <4>1 DEF LinksOK
      <4> QED
        BY <1>15, <4>1, <4>2
    <3> QED
      BY <3>1, <3>2
  <2>2. ASSUME NEW i \in Pos(tb), NEW j \in Pos(tb), Linked(u, i), Linked(u, j), Succ(u, i) = Succ(u, j)
        PROVE  i = j
    <3>1. ASSUME NEW a \in Pos(tb), NEW b \in Pos(tb), Linked(tb, a), Linked(tb, b), Succ(tb, a) = Succ(tb, b)
          PROVE  a = b
      BY <1>1, <3>1 DEF LinksOK
    <3> HIDE DEF mp
    <3>2. i # mp /\ j # mp
      BY <1>14, <2>2
    <3>3. CASE i = prev \/ j = prev
      BY <1>2, <1>11, <1>14, <2>2, <3>2, <3>3
    <3>4. CASE i # prev /\ j # prev
      BY <1>2, <1>14, <2>2, <3>1, <3>2, <3>4
    <3> QED
      BY <3>3, <3>4
  <2> QED
    BY <1>17, <2>1, <2>2 DEF LinksOK
<1>23. Acyclic(u)
  <2>1. PICK r : Ranks(tb, r)
    BY <1>1 DEF Acyclic
  <2> DEFINE s == [x \in Pos(tb) |-> IF x = f THEN r[mp] ELSE r[x]]
  <2>2. r \in [Pos(tb) -> Nat]
    BY <2>1 DEF Ranks
  <2>3. s \in [Pos(tb) -> Nat]
    BY <1>2, <2>2
  <2> HIDE DEF mp
  <2>4. ASSUME NEW i \in Pos(tb), Linked(u, i) PROVE s[i] < s[Succ(u, i)]
    <3>1. CASE i = prev
      <4>1. r[prev] < r[mp]
        BY <1>6, <2>1 DEF Ranks
      <4> QED
        BY <1>7, <1>14, <3>1, <4>1
    <3>2. CASE i # prev
      <4> DEFINE j == IF i = f THEN mp ELSE i
      <4>1. j \in Pos(tb) /\ Linked(tb, j) /\ Succ(u, i) = Succ(tb, j) /\ s[i] = r[j]
        BY <1>2, <1>14, <2>4, <3>2
      <4> HIDE DEF j
      <4>2. Succ(tb, j) \in Pos(tb) /\ Succ(tb, j) # f /\ r[j] < r[Succ(tb, j)]
        BY <1>11, <2>1, <4>1 DEF Ranks
      <4> QED
        BY <4>1, <4>2
    <3> QED
      BY <3>1, <3>2
  <2> HIDE DEF s
  <2>5. Ranks(u, s)
    BY <1>17, <2>3, <2>4 DEF Ranks
  <2> QED
    BY <2>5 DEF Acyclic
<1>24. ASSUME NEW i \in Pos(tb), Live(tb, i)
       PROVE  /\ Main(tb, i) \in Pos(tb) /\ Main(tb, i) # f
              /\ Main(tb, i) # mp
              /\ Main(tb, i) # i => tb.node[Main(tb, i)].key # nil /\ Main(tb, Main(tb, i)) = Main(tb, i)
  <2>1. Main(tb, i) \in Pos(tb)
    <3>1. tb.node[i].key \in Stored
      BY <1>1, <1>24, NodeIs DEF Live
    <3> QED
      BY <1>1, <1>2, <3>1, MainIn DEF Main
  <2>2. Main(tb, i) # i => tb.node[Main(tb, i)].key # nil /\ Main(tb, Main(tb, i)) = Main(tb, i)
    BY <1>1, <1>24 DEF Home
  <2>3. i # f
    BY <1>24 DEF Live
  <2> HIDE DEF mp
  <2>4. Main(tb, mp) # mp
    BY DEF mp
  <2> QED
    BY <2>1, <2>2, <2>3, <2>4
<1>25. Main(tb, mp) # mp
  OBVIOUS
<1> HIDE DEF mp
<1>26. Found(u)
  <2> SUFFICES ASSUME NEW i \in Pos(tb), Live(u, i), NEW S \in SUBSET Pos(tb), Main(u, i) \in S,
                      Closed(u, S, KeyAt(u, u.node[i].key))
               PROVE  i \in S
    BY <1>17 DEF Found, Via
  <2>1. CASE i = mp
    BY <1>18, <2>1
  <2>2. CASE i # mp
    <3> DEFINE i0 == IF i = f THEN mp ELSE i
               M == KeyAt(tb, tb.node[i0].key)
               N == KeyAt(u, u.node[i].key)
               T == (S \ {f, mp}) \cup (IF f \in S THEN {mp} ELSE {})
    <3>1. i0 \in Pos(tb) /\ Live(tb, i0) /\ u.node[i].key = tb.node[i0].key /\ Main(u, i) = Main(tb, i0)
      BY <1>2, <1>4, <1>15, <1>18, <2>2
    <3>2. (f \in N <=> mp \in M) /\ mp \notin N /\ \A j \in Pos(tb) \ {f, mp} : j \in N <=> j \in M
      <4>1. tb.node[i0].key # k
        BY <1>9, <3>1
      <4> HIDE DEF i0
      <4> QED
        BY <1>2, <1>15, <1>16, <1>17, <3>1, <4>1 DEF KeyAt
    <3> HIDE DEF N, M
    <3>3. Main(tb, i0) \in T /\ T \in SUBSET Pos(tb)
      <4>1. Main(tb, i0) # f /\ Main(tb, i0) # mp /\ Main(tb, i0) \in S
        <5> HIDE DEF i0
        <5> QED
          BY <1>24, <3>1
      <4> QED
        BY <1>2, <4>1
    <3>4. Closed(tb, T, M)
      <4> SUFFICES ASSUME NEW j \in T, j \notin M, Linked(tb, j) PROVE Succ(tb, j) \in T
        BY DEF Closed
      <4> HIDE DEF i0
      <4>1. CASE j = mp
        <5>1. f \in S /\ f \notin N /\ Linked(u, f) /\ Succ(u, f) = Succ(tb, mp)
          BY <1>14, <3>2, <4>1
        <5>2. Succ(tb, mp) \in S
          BY <5>1 DEF Closed, N
        <5> QED
          BY <1>2, <1>11, <1>13, <4>1, <5>2
      <4>2. CASE j # mp
        <5>1. j \in S /\ j # f /\ j \in Pos(tb)
          BY <4>2
        <5>2. j \notin N
          BY <3>2, <4>2, <5>1
        <5>3. CASE j = prev
          <6>1. f \in S
            BY <1>14, <5>1, <5>2, <5>3 DEF Closed, N
          <6> QED
            BY <1>6, <5>3, <6>1
        <5>4. CASE j # prev
          <6>1. Linked(u, j) /\ Succ(u, j) = Succ(tb, j)
            BY <1>14, <4>2, <5>1, <5>4
          <6>2. Succ(tb, j) \in S
            BY <5>1, <5>2, <6>1 DEF Closed, N
          <6> QED
            BY <1>11, <1>12, <5>1, <5>4, <6>2
        <5> QED
          BY <5>3, <5>4
      <4> QED
        BY <4>1, <4>2
    <3>5. Via(tb, Main(tb, i0), i0, M)
      <4> HIDE DEF i0
      <4> QED
        BY <1>1, <3>1 DEF Found, M
    <3>6. i0 \in T
      <4> HIDE DEF i0, T
      <4> QED
        BY <3>3, <3>4, <3>5 DEF Via
    <3> QED
      BY <2>2, <3>6
  <2> QED
    BY <2>1, <2>2
<1>27. Home(u)
  <2> SUFFICES ASSUME NEW i \in Pos(tb), Live(u, i), Main(u, i) # i
               PROVE  u.node[Main(u, i)].key # nil /\ Main(u, Main(u, i)) = Main(u, i)
    BY <1>17 DEF Home
  <2> DEFINE i0 == IF i = f THEN mp ELSE i
  <2>1. i # mp
    BY <1>18
  <2>2. i0 \in Pos(tb) /\ Live(tb, i0) /\ Main(u, i) = Main(tb, i0) /\ Main(tb, i0) # i0
    BY <1>2, <1>4, <1>18, <1>25, <2>1
  <2> HIDE DEF i0
  <2>3. /\ Main(tb, i0) \in Pos(tb) /\ Main(tb, i0) # f /\ Main(tb, i0) # mp
        /\ tb.node[Main(tb, i0)].key # nil /\ Main(tb, Main(tb, i0)) = Main(tb, i0)
    BY <1>24, <2>2
  <2> QED
    BY <1>15, <1>18, <2>2, <2>3
<1>28. Fresh(tb, u, k, mp)
  <2>1. ASSUME NEW i \in Pos(tb) \ {mp}, u.node[i].key # nil
        PROVE  \E j \in Pos(tb) : /\ u.node[i].key = tb.node[j].key /\ u.node[i].val = tb.node[j].val
                                  /\ u.node[i].dead = tb.node[j].dead
    BY <1>2, <1>15
  <2>2. ASSUME NEW j \in Pos(tb), tb.node[j].val # nil
        PROVE  \E i \in Pos(tb) \ {mp} : u.node[i].key = tb.node[j].key /\ u.node[i].val = tb.node[j].val
    <3>1. CASE j = mp
      BY <1>5, <1>15, <3>1
    <3>2. CASE j # mp
      <4>1. j # f
        BY <1>1, <2>2 DEF FreeNodes
      <4> QED
        BY <1>15, <3>2, <4>1
    <3> QED
      BY <3>1, <3>2
  <2> QED
    BY <1>16, <2>1, <2>2 DEF Fresh
<1>29. Good(u)
  BY <1>17, <1>19, <1>20, <1>21, <1>22, <1>23, <1>26, <1>27 DEF Good
<1>30. Added(tb, u, k)
  BY <1>2, <1>17, <1>28, <1>29 DEF Added
<1> QED
  BY <1>30 DEF u, mp

-----------------------------------------------------------------------------
(* Counting *)

LEMMA InjBound ==
  ASSUME NEW S, NEW T, IsFiniteSet(S), IsFiniteSet(T), NEW f \in [S -> T],
         \A x, y \in S : f[x] = f[y] => x = y
  PROVE  Cardinality(S) <= Cardinality(T)
<1>1. Cardinality(S) \in Nat /\ Cardinality(T) \in Nat
  BY FS_CardinalityType
<1>2. ~(Cardinality(T) < Cardinality(S))
  BY FS_PigeonHole
<1> QED
  BY <1>1, <1>2

LEMMA ImageBound ==
  ASSUME NEW S, IsFiniteSet(S), NEW f, f \in [S -> {f[x] : x \in S}], NEW T, T \subseteq {f[x] : x \in S}
  PROVE  IsFiniteSet(T) /\ Cardinality(T) <= Cardinality(S)
<1> DEFINE U == {f[x] : x \in S}
<1>1. f \in Surjection(S, U)
  BY DEF Surjection
<1> HIDE DEF U
<1>2. IsFiniteSet(U) /\ Cardinality(U) <= Cardinality(S)
  BY <1>1, FS_Surjection
<1>3. T \in SUBSET U
  BY DEF U
<1>4. IsFiniteSet(T) /\ Cardinality(T) <= Cardinality(U)
  BY <1>2, <1>3, FS_Subset
<1>5. Cardinality(T) \in Nat /\ Cardinality(U) \in Nat /\ Cardinality(S) \in Nat
  BY <1>2, <1>4, FS_CardinalityType
<1> QED
  BY <1>2, <1>4, <1>5

LEMMA UpTo ==
  ASSUME NEW n \in Nat
  PROVE  IsFiniteSet(1..n) /\ Cardinality(1..n) = n
<1>1. 1 \in Int /\ n \in Int
  OBVIOUS
<1>2. IsFiniteSet(1..n) /\ Cardinality(1..n) = IF 1 > n THEN 0 ELSE n - 1 + 1
  BY <1>1, FS_Interval
<1>3. (IF 1 > n THEN 0 ELSE n - 1 + 1) = n
  OBVIOUS
<1> QED
  BY <1>2, <1>3

-----------------------------------------------------------------------------
(* luaH_set *)

\* Every node that is not free has a value.
AllUsed(tb) == \A i \in Pos(tb) : tb.node[i].key # nil => tb.node[i].val # nil

LEMMA NewKeyStep ==
  ASSUME NEW tb, Good(tb), NEW k \in Stored, ~IsThere(tb, k)
  PROVE  LET new == newkey(tb, k) IN
         /\ new.full \in BOOLEAN
         /\ ~new.full => Added(tb, new.t, k)
         /\ new.full => /\ Good(new.t) /\ new.t.array = tb.array /\ new.t.node = tb.node
                        /\ \A i \in Pos(tb) : tb.node[i].key # nil
<1> DEFINE mp == mainposition(tb, k)
           taken == tb.node = <<>> \/ tb.node[mp].val # nil
           f == IF tb.node = <<>> THEN 0 ELSE getfreepos(tb)
           new == newkey(tb, k)
<1>1. /\ f = 0 => \A i \in Pos(tb) : tb.node[i].key # nil
      /\ f # 0 => /\ f \in Pos(tb) /\ tb.node[f].key = nil /\ f - 1 \in 0..Len(tb.node)
                  /\ \A i \in Pos(tb) : tb.node[i].key = nil => i <= f
  <2>1. CASE tb.node = <<>>
    BY <2>1 DEF Pos
  <2>2. CASE tb.node # <<>>
    BY <2>2, FreePos
  <2> QED
    BY <2>1, <2>2
<1> HIDE DEF f
<1>2. CASE ~taken
  <2>1. new = [full |-> FALSE, t |-> Store(tb, mp, k)]
    BY <1>2 DEF newkey
  <2>2. Added(tb, Store(tb, mp, k), k)
    BY <1>2, StoreStep
  <2> HIDE DEF new
  <2> QED
    BY <2>1, <2>2 DEF new
<1>3. CASE taken /\ f = 0
  <2>1. new = [full |-> TRUE, t |-> [tb EXCEPT !.lastfree = 0]]
    BY <1>3 DEF newkey, f
  <2> DEFINE u == [tb EXCEPT !.lastfree = 0]
  <2>2. Shape(tb) /\ OwnValues(tb) /\ FreeNodes(tb) /\ tb \in Table
    BY DEF Good, Shape
  <2>3. tb.node \in Seq(NodeRec) /\ 0 \in 0..Len(tb.node) /\ Len(tb.node) \in Nat
    BY <2>2, TableIs
  <2>4. u = WithNodes(tb, tb.node, 0)
    BY <2>2, WithNodesExcept
  <2>5. Shape(u) /\ u.array = tb.array /\ u.node = tb.node /\ u.lastfree = 0 /\ Pos(u) = Pos(tb)
    BY <2>2, <2>3, <2>4, WithNodesIs
  <2> HIDE DEF u
  <2>6. SameKeys(tb, u) /\ OwnValues(u)
    BY <2>2, <2>5 DEF SameKeys, OwnValues
  <2>7. FreeNodes(u)
    BY <1>1, <1>3, <2>5 DEF FreeNodes
  <2>8. Good(u)
    BY <2>5, <2>6, <2>7, SameKeysGood
  <2>9. new.full = TRUE /\ new.t = u
    BY <2>1 DEF u
  <2> HIDE DEF new
  <2> QED
    BY <1>1, <1>3, <2>5, <2>8, <2>9 DEF new
<1>4. CASE taken /\ f # 0
  <2>1. tb.node # <<>> /\ tb.node[mp].val # nil
    BY <1>4 DEF f
  <2>2. new = [full |-> FALSE, t |-> IF mainposition(tb, tb.node[mp].key) # mp THEN Store(Move(tb, mp, f), mp, k)
                                     ELSE Store(LinkAfter(tb, mp, f), f, k)]
    BY <1>4 DEF newkey, f
  <2>3. CASE Main(tb, mp) # mp
    <3>1. Added(tb, Store(Move(tb, mp, f), mp, k), k)
      BY <1>1, <1>4, <2>1, <2>3, MoveStep
    <3>2. new.full = FALSE /\ new.t = Store(Move(tb, mp, f), mp, k)
      BY <2>2, <2>3 DEF Main
    <3> HIDE DEF new, mp
    <3> QED
      BY <3>1, <3>2 DEF new
  <2>4. CASE Main(tb, mp) = mp
    <3>1. Added(tb, Store(LinkAfter(tb, mp, f), f, k), k)
      BY <1>1, <1>4, <2>1, <2>4, LinkAfterStep
    <3>2. new.full = FALSE /\ new.t = Store(LinkAfter(tb, mp, f), f, k)
      BY <2>2, <2>4 DEF Main
    <3> HIDE DEF new, mp
    <3> QED
      BY <3>1, <3>2 DEF new
  <2> QED
    BY <2>3, <2>4
<1> QED
  BY <1>2, <1>3, <1>4

\* Adding a key changes the values of none.
LEMMA AddedIs ==
  ASSUME NEW tb, Good(tb), NEW k \in Stored, ~IsThere(tb, k), NEW u, Added(tb, u, k)
  PROVE  /\ IsThere(u, k) /\ Present(u) = Present(tb) /\ Pos(u) = Pos(tb)
         /\ AllUsed(tb) => /\ \A i \in Pos(u) : u.node[i].key \notin {nil, k} => u.node[i].val # nil
                           /\ \A i, j \in Pos(u) : u.node[i].key = k /\ u.node[j].key = k => i = j
<1>1. Good(u) /\ u.array = tb.array /\ Pos(u) = Pos(tb)
  BY DEF Added, Pos
<1>2. PICK p \in Pos(tb) : Fresh(tb, u, k, p)
  BY DEF Added
<1>3. k # nil
  BY StoredIs
<1>4. IsThere(u, k)
  <2>1. Live(u, p) /\ u.node[p].key = k
    BY <1>2, <1>3 DEF Fresh, Live
  <2>2. Position(u, k, FALSE) = p /\ p # 0
    BY <1>1, <2>1, LiveFound
  <2> QED
    BY <2>2 DEF IsThere
<1>5. ~InArray(tb, k) /\ \A i \in Pos(tb) : Live(tb, i) => tb.node[i].key # k
  BY NotThere
<1>6. ASSUME NEW x PROVE InArray(u, x) <=> InArray(tb, x)
  BY <1>1 DEF InArray
<1>7. ASSUME NEW x
      PROVE  (\E i \in Pos(u) : u.node[i].key = x /\ u.node[i].val # nil)
               <=> (\E j \in Pos(tb) : tb.node[j].key = x /\ tb.node[j].val # nil)
  <2>1. ASSUME NEW i \in Pos(u), u.node[i].key = x, u.node[i].val # nil
        PROVE  \E j \in Pos(tb) : tb.node[j].key = x /\ tb.node[j].val # nil
    <3>1. i # p /\ u.node[i].key # nil
      BY <1>1, <1>2, <2>1, UsedIsLive DEF Fresh, Live
    <3> QED
      BY <1>1, <1>2, <2>1, <3>1 DEF Fresh
  <2>2. ASSUME NEW j \in Pos(tb), tb.node[j].key = x, tb.node[j].val # nil
        PROVE  \E i \in Pos(u) : u.node[i].key = x /\ u.node[i].val # nil
    BY <1>1, <1>2, <2>2 DEF Fresh
  <2> QED
    BY <2>1, <2>2
<1>8. Present(u) = Present(tb)
  BY <1>1, <1>6, <1>7 DEF Present
<1>9. ASSUME AllUsed(tb)
      PROVE  /\ \A i \in Pos(u) : u.node[i].key \notin {nil, k} => u.node[i].val # nil
             /\ \A i \in Pos(u) : u.node[i].key = k => i = p
  <2> SUFFICES ASSUME NEW i \in Pos(u), u.node[i].key # nil, i # p
               PROVE  u.node[i].val # nil /\ u.node[i].key # k
    BY <1>2, <1>3 DEF Fresh
  <2>1. PICK j \in Pos(tb) : u.node[i].key = tb.node[j].key /\ u.node[i].val = tb.node[j].val
    BY <1>1, <1>2 DEF Fresh
  <2>2. tb.node[j].val # nil
    BY <1>9, <2>1 DEF AllUsed
  <2>3. Live(tb, j)
    BY <2>2, UsedIsLive
  <2> QED
    BY <1>5, <2>1, <2>2, <2>3
<1> QED
  BY <1>1, <1>4, <1>8, <1>9

\* The value of k is v, and the parts keep their sizes.
Entered(tb, u, k, v) ==
  /\ Good(u) /\ Len(u.array) = Len(tb.array) /\ Len(u.node) = Len(tb.node)
  /\ Present(u) = (Present(tb) \ {k}) \cup (IF v = nil THEN {} ELSE {k})
  /\ AllUsed(tb) /\ v # nil => AllUsed(u)

LEMMA ThereStep ==
  ASSUME NEW tb, Good(tb), NEW k \in Stored, IsThere(tb, k), NEW v \in {k, nil}
  PROVE  Entered(tb, Put(tb, k, v), k, v)
<1> DEFINE u == Put(tb, k, v)
<1>1. ValueIsPut(tb, u, k, v)
  BY PutStep
<1> HIDE DEF u
<1>2. /\ Good(u) /\ Len(u.array) = Len(tb.array) /\ Len(u.node) = Len(tb.node) /\ Pos(u) = Pos(tb)
      /\ Present(u) = (Present(tb) \ {k}) \cup (IF v = nil THEN {} ELSE {k})
  BY <1>1 DEF ValueIsPut, SameKeys, Pos
<1>3. ASSUME AllUsed(tb), v # nil, NEW i \in Pos(u), u.node[i].key # nil PROVE u.node[i].val # nil
  <2>1. /\ u.node[i].key = tb.node[i].key
        /\ u.node[i].dead <=> tb.node[i].dead
        /\ u.node[i].val = tb.node[i].val \/ tb.node[i].key = k
    BY <1>1, <1>2 DEF ValueIsPut, SameKeys
  <2>2. tb.node[i].val # nil
    BY <1>2, <1>3, <2>1 DEF AllUsed
  <2>3. CASE tb.node[i].key # k
    BY <2>1, <2>2, <2>3
  <2>4. CASE tb.node[i].key = k
    <3>1. k \in Present(u)
      BY <1>2, <1>3
    <3>2. ~InArray(u, k)
      <4>1. ~InArray(tb, k)
        BY <1>2, <2>2, <2>4, UsedIsLive
      <4> QED
        BY <1>2, <4>1 DEF InArray
    <3>3. PICK j \in Pos(u) : u.node[j].key = k /\ u.node[j].val # nil
      BY <3>1, <3>2 DEF Present
    <3>4. Live(u, j)
      BY <1>2, <3>3, UsedIsLive
    <3>5. Live(u, i)
      <4>1. Live(tb, i)
        BY <1>2, <2>2, UsedIsLive
      <4> QED
        BY <2>1, <4>1 DEF Live
    <3>6. i = j
      BY <1>2, <2>1, <2>4, <3>3, <3>4, <3>5, LiveOnce
    <3> QED
      BY <3>3, <3>6
  <2> QED
    BY <2>3, <2>4
<1>4. AllUsed(tb) /\ v # nil => AllUsed(u)
  BY <1>3 DEF AllUsed
<1>5. Entered(tb, u, k, v)
  BY <1>2, <1>4 DEF Entered
<1> QED
  BY <1>5 DEF u

LEMMA NewStep ==
  ASSUME NEW tb, Good(tb), NEW k \in Stored, ~IsThere(tb, k), NEW v \in {k, nil}, ~newkey(tb, k).full
  PROVE  Entered(tb, Put(newkey(tb, k).t, k, v), k, v)
<1> DEFINE x == newkey(tb, k).t
           u == Put(x, k, v)
<1>1. Added(tb, x, k)
  BY NewKeyStep
<1> HIDE DEF x
<1>2. /\ Good(x) /\ IsThere(x, k) /\ Present(x) = Present(tb) /\ x.array = tb.array
      /\ Len(x.node) = Len(tb.node)
  BY <1>1, AddedIs DEF Added
<1>3. ValueIsPut(x, u, k, v)
  BY <1>2, PutStep
<1> HIDE DEF u
<1>4. /\ Good(u) /\ Len(u.array) = Len(tb.array) /\ Len(u.node) = Len(tb.node) /\ Pos(u) = Pos(x)
      /\ Present(u) = (Present(tb) \ {k}) \cup (IF v = nil THEN {} ELSE {k})
  BY <1>2, <1>3 DEF ValueIsPut, SameKeys, Pos
<1>5. ASSUME AllUsed(tb), v # nil, NEW i \in Pos(u), u.node[i].key # nil PROVE u.node[i].val # nil
  <2>1. /\ \A j \in Pos(x) : x.node[j].key \notin {nil, k} => x.node[j].val # nil
        /\ \A j, l \in Pos(x) : x.node[j].key = k /\ x.node[l].key = k => j = l
    BY <1>1, <1>5, AddedIs
  <2>2. \A j \in Pos(u) : /\ u.node[j].key = x.node[j].key
                          /\ u.node[j].val = x.node[j].val \/ x.node[j].key = k
    BY <1>3, <1>4 DEF ValueIsPut, SameKeys
  <2>3. CASE x.node[i].key # k
    BY <1>4, <1>5, <2>1, <2>2, <2>3
  <2>4. CASE x.node[i].key = k
    <3>1. k \in Present(u)
      BY <1>4, <1>5
    <3>2. ~InArray(u, k)
      <4>1. ~InArray(tb, k)
        BY NotThere
      <4> QED
        BY <1>4, <4>1 DEF InArray
    <3>3. PICK j \in Pos(u) : u.node[j].key = k /\ u.node[j].val # nil
      BY <3>1, <3>2 DEF Present
    <3>4. i = j
      BY <1>4, <2>1, <2>2, <2>4, <3>3
    <3> QED
      BY <3>3, <3>4
  <2> QED
    BY <2>3, <2>4
<1>6. AllUsed(tb) /\ v # nil => AllUsed(u)
  BY <1>5 DEF AllUsed
<1>7. Entered(tb, u, k, v)
  BY <1>4, <1>6 DEF Entered
<1> QED
  BY <1>7 DEF u, x

LEMMA ReinsertStep ==
  ASSUME NEW tb, Good(tb), NEW k \in Stored, NEW v \in {k, nil}, NEW e, e.key = k, e.val = v,
         IsThere(tb, k) \/ ~newkey(tb, k).full
  PROVE  Entered(tb, Reinsert(tb, e), k, v)
<1>1. CASE IsThere(tb, k)
  <2>1. Reinsert(tb, e) = Put(tb, k, v)
    BY <1>1 DEF Reinsert
  <2> QED
    BY <1>1, <2>1, ThereStep
<1>2. CASE ~IsThere(tb, k)
  <2>1. Reinsert(tb, e) = Put(newkey(tb, k).t, k, v)
    BY <1>2 DEF Reinsert
  <2> QED
    BY <1>2, <2>1, NewStep
<1> QED
  BY <1>1, <1>2

\* There is room: the keys that the hash part has to hold, those of H, are not more than its nodes.
HashBound(tb, H) == \A x \in Present(tb) : InArray(tb, x) \/ x \in H

LEMMA Room ==
  ASSUME NEW tb, Good(tb), AllUsed(tb), NEW k \in Stored, ~IsThere(tb, k), NEW H, IsFiniteSet(H),
         HashBound(tb, H), k \in H, Cardinality(H) <= Len(tb.node)
  PROVE  ~newkey(tb, k).full
<1> SUFFICES ASSUME newkey(tb, k).full PROVE FALSE
  OBVIOUS
<1>1. \A i \in Pos(tb) : tb.node[i].key # nil
  BY NewKeyStep
<1> DEFINE G == H \ {k}
           f == [i \in Pos(tb) |-> tb.node[i].key]
<1>2. Len(tb.node) \in Nat
  BY TableIs DEF Good
<1>3. IsFiniteSet(Pos(tb)) /\ Cardinality(Pos(tb)) = Len(tb.node)
  BY <1>2, UpTo DEF Pos
<1>4. IsFiniteSet(G) /\ Cardinality(G) = Cardinality(H) - 1 /\ Cardinality(H) \in Nat
  <2>1. Cardinality(H) \in Nat
    BY FS_CardinalityType
  <2> QED
    BY <2>1, FS_RemoveElement
<1>5. \A i \in Pos(tb) : Live(tb, i) /\ tb.node[i].val # nil /\ ~InArray(tb, tb.node[i].key) /\ tb.node[i].key \in Stored
  BY <1>1, UsedIsLive DEF AllUsed
<1>6. f \in [Pos(tb) -> G]
  <2> SUFFICES ASSUME NEW i \in Pos(tb) PROVE tb.node[i].key \in H /\ tb.node[i].key # k
    OBVIOUS
  <2>1. tb.node[i].key \in Present(tb)
    BY <1>5 DEF Present
  <2>2. tb.node[i].key # k
    BY <1>5, NotThere
  <2> QED
    BY <1>5, <2>1, <2>2 DEF HashBound
<1>7. \A i, j \in Pos(tb) : f[i] = f[j] => i = j
  BY <1>5, LiveOnce
<1> HIDE DEF f, G
<1>8. Cardinality(Pos(tb)) <= Cardinality(G)
  BY <1>3, <1>4, <1>6, <1>7, InjBound
<1> QED
  BY <1>2, <1>3, <1>4, <1>8

-----------------------------------------------------------------------------
(* luaH_resize *)

\* The entries es, numbered from 1 to n, have their own keys; those of H go to the hash part.
Entries(es, n, na, H) ==
  \A i \in 1..n : es[i].val # nil =>
    /\ es[i].key \in Stored /\ es[i].val = es[i].key
    /\ ~(es[i].key.tt = "int" /\ es[i].key.h \in 1..na) => es[i].key \in H

\* A table that is being filled.
Filling(tb, na, size, H) ==
  Good(tb) /\ AllUsed(tb) /\ Len(tb.array) = na /\ Len(tb.node) = size /\ HashBound(tb, H)

LEMMA FillStep ==
  ASSUME NEW tb, NEW na, NEW size, NEW H, IsFiniteSet(H), Cardinality(H) <= size, Filling(tb, na, size, H),
         NEW n \in Nat, NEW es, Entries(es, n, na, H), NEW i \in 1..n, es[i].val # nil
  PROVE  /\ Filling(Reinsert(tb, es[i]), na, size, H)
         /\ Present(Reinsert(tb, es[i])) = Present(tb) \cup {es[i].key}
<1> DEFINE k == es[i].key
           u == Reinsert(tb, es[i])
<1>1. k \in Stored /\ es[i].val = k /\ (~(k.tt = "int" /\ k.h \in 1..na) => k \in H) /\ k # nil
  BY StoredIs DEF Entries
<1>2. Good(tb) /\ AllUsed(tb) /\ Len(tb.array) = na /\ Len(tb.node) = size /\ HashBound(tb, H)
  BY DEF Filling
<1>3. IsThere(tb, k) \/ ~newkey(tb, k).full
  <2> SUFFICES ASSUME ~IsThere(tb, k) PROVE ~newkey(tb, k).full
    OBVIOUS
  <2>1. k \in H
    BY <1>1, <1>2 DEF IsThere, InArray
  <2> HIDE DEF k
  <2> QED
    BY <1>1, <1>2, <2>1, Room
<1>4. Entered(tb, u, k, k)
  <2> DEFINE e == es[i]
  <2>1. e.key = k /\ e.val = k
    BY <1>1
  <2> HIDE DEF k, e
  <2>2. Entered(tb, Reinsert(tb, e), k, k)
    BY <1>1, <1>2, <1>3, <2>1, ReinsertStep
  <2> QED
    BY <2>2 DEF e
<1> HIDE DEF u
<1>5. /\ Good(u) /\ AllUsed(u) /\ Len(u.array) = na /\ Len(u.node) = size
      /\ Present(u) = (Present(tb) \ {k}) \cup {k}
  BY <1>1, <1>2, <1>4 DEF Entered
<1>6. HashBound(u, H)
  <2> SUFFICES ASSUME NEW x \in Present(u), ~InArray(u, x) PROVE x \in H
    BY DEF HashBound
  <2>1. ~InArray(tb, x)
    BY <1>2, <1>5 DEF InArray
  <2>2. CASE x = k
    BY <1>1, <1>2, <2>1, <2>2 DEF InArray
  <2>3. CASE x # k
    BY <1>2, <1>5, <2>1, <2>3 DEF HashBound
  <2> QED
    BY <2>2, <2>3
<1>7. Filling(u, na, size, H)
  BY <1>5, <1>6 DEF Filling
<1> QED
  BY <1>5, <1>7 DEF u

LEMMA ReinsertAllIs ==
  ASSUME NEW tb, NEW na, NEW size, NEW H, IsFiniteSet(H), Cardinality(H) <= size, Filling(tb, na, size, H),
         NEW es, Len(es) \in Nat, Entries(es, Len(es), na, H)
  PROVE  /\ Filling(ReinsertAll(tb, es), na, size, H)
         /\ Present(ReinsertAll(tb, es))
              = Present(tb) \cup {es[i].key : i \in {j \in 1..Len(es) : es[j].val # nil}}
<1> DEFINE n == Len(es)
           S == {x \in Table : Filling(x, na, size, H)}
           h == [y \in Nat \X S |-> IF y[1] + 1 \in 1..n /\ es[y[1] + 1].val # nil
                                    THEN Reinsert(y[2], es[y[1] + 1]) ELSE y[2]]
           E(w) == w = [i \in 0..n |-> IF i = 0 THEN tb
                                       ELSE IF es[i].val = nil THEN w[i - 1] ELSE Reinsert(w[i - 1], es[i])]
           Keys0(i) == {es[j].key : j \in {l \in 1..i : es[l].val # nil}}
<1>1. \A x \in S, i \in 1..n : es[i].val # nil =>
        Reinsert(x, es[i]) \in S /\ Present(Reinsert(x, es[i])) = Present(x) \cup {es[i].key}
  <2> TAKE x \in S, i \in 1..n
  <2> HAVE es[i].val # nil
  <2>1. Filling(Reinsert(x, es[i]), na, size, H) /\ Present(Reinsert(x, es[i])) = Present(x) \cup {es[i].key}
    BY FillStep
  <2> QED
    BY <2>1 DEF Filling, Good, Shape
<1>2. tb \in S
  BY DEF Filling, Good, Shape
<1>3. h \in [Nat \X S -> S]
  <2> HIDE DEF S
  <2> SUFFICES ASSUME NEW i \in Nat, NEW x \in S, i + 1 \in 1..n, es[i + 1].val # nil
               PROVE  Reinsert(x, es[i + 1]) \in S
    OBVIOUS
  <2> QED
    BY <1>1
<1>4. PICK w \in [Nat -> S] : w[0] = tb /\ \A i \in Nat : w[i + 1] = h[<<i, w[i]>>]
  <2> HIDE DEF h, S
  <2>1. Iterates(S, tb, h) # {}
    BY <1>2, <1>3, RecursionOnNat
  <2> QED
    BY <2>1 DEF Iterates
<1> HIDE DEF S
<1>5. E([i \in 0..n |-> w[i]])
  <2> DEFINE v == [i \in 0..n |-> w[i]]
  <2>1. ASSUME NEW i \in 0..n
        PROVE  v[i] = IF i = 0 THEN tb
                      ELSE IF es[i].val = nil THEN v[i - 1] ELSE Reinsert(v[i - 1], es[i])
    <3>1. CASE i = 0
      BY <1>4, <3>1
    <3>2. CASE i # 0
      <4>1. i - 1 \in Nat /\ i - 1 \in 0..n /\ (i - 1) + 1 = i /\ i \in 1..n
        BY <3>2
      <4>2. w[(i - 1) + 1] = h[<<i - 1, w[i - 1]>>]
        <5> HIDE DEF h
        <5> QED
          BY <1>4, <4>1
      <4>3. w[i - 1] \in S
        BY <1>4, <4>1
      <4>4. h[<<i - 1, w[i - 1]>>] = IF es[i].val # nil THEN Reinsert(w[i - 1], es[i]) ELSE w[i - 1]
        BY <4>1, <4>3
      <4>5. v[i] = w[i] /\ v[i - 1] = w[i - 1]
        BY <4>1
      <4> HIDE DEF v, h
      <4> QED
        BY <3>2, <4>1, <4>2, <4>4, <4>5
    <3> QED
      BY <3>1, <3>2
  <2> QED
    BY <2>1
<1> HIDE DEF E
<1> DEFINE v == CHOOSE v : E(v)
<1>6. E(v)
  BY <1>5
<1> HIDE DEF v
<1>7. ReinsertAll(tb, es) = v[n]
  BY DEF ReinsertAll, v, E
<1>8. \A i \in 0..n : v[i] = IF i = 0 THEN tb
                             ELSE IF es[i].val = nil THEN v[i - 1] ELSE Reinsert(v[i - 1], es[i])
  BY <1>6 DEF E
<1> DEFINE G == {i \in Nat : i <= n => v[i] \in S /\ Present(v[i]) = Present(tb) \cup Keys0(i)}
<1>9. 0 \in G
  <2>1. v[0] = tb
    BY <1>8
  <2>2. Keys0(0) = {}
    OBVIOUS
  <2> HIDE DEF Keys0
  <2> QED
    BY <1>2, <2>1, <2>2
<1>10. ASSUME NEW i \in Nat, i \in G PROVE i + 1 \in G
  <2> SUFFICES ASSUME i + 1 <= n
               PROVE  v[i + 1] \in S /\ Present(v[i + 1]) = Present(tb) \cup Keys0(i + 1)
    OBVIOUS
  <2>1. i + 1 \in 1..n /\ i + 1 \in 0..n /\ i + 1 # 0 /\ (i + 1) - 1 = i /\ i <= n
    OBVIOUS
  <2>2. v[i + 1] = IF es[i + 1].val = nil THEN v[i] ELSE Reinsert(v[i], es[i + 1])
    BY <1>8, <2>1
  <2>3. v[i] \in S /\ Present(v[i]) = Present(tb) \cup Keys0(i)
    BY <1>10, <2>1
  <2>4. \A j : j \in 1..(i + 1) <=> j \in 1..i \/ j = i + 1
    OBVIOUS
  <2>5. CASE es[i + 1].val = nil
    <3>1. Keys0(i + 1) = Keys0(i)
      <4>1. {l \in 1..(i + 1) : es[l].val # nil} = {l \in 1..i : es[l].val # nil}
        BY <2>4, <2>5
      <4> QED
        BY <4>1
    <3> QED
      BY <2>2, <2>3, <2>5, <3>1
  <2>6. CASE es[i + 1].val # nil
    <3>1. Keys0(i + 1) = Keys0(i) \cup {es[i + 1].key}
      <4>1. {l \in 1..(i + 1) : es[l].val # nil} = {l \in 1..i : es[l].val # nil} \cup {i + 1}
        BY <2>4, <2>6
      <4> QED
        BY <4>1
    <3> HIDE DEF Keys0
    <3>2. Reinsert(v[i], es[i + 1]) \in S /\ Present(Reinsert(v[i], es[i + 1])) = Present(v[i]) \cup {es[i + 1].key}
      BY <1>1, <2>1, <2>3, <2>6
    <3> QED
      BY <2>2, <2>3, <2>6, <3>1, <3>2
  <2> QED
    BY <2>5, <2>6
<1>11. Nat \subseteq G
  <2> HIDE DEF G
  <2> QED
    BY <1>9, <1>10, NatInd
<1>12. v[n] \in S /\ Present(v[n]) = Present(tb) \cup Keys0(n)
  <2>1. n \in G
    BY <1>11
  <2> HIDE DEF Keys0
  <2> QED
    BY <2>1
<1> QED
  BY <1>7, <1>12 DEF S

LEMMA Shift ==
  ASSUME NEW a \in Nat, NEW m \in Nat
  PROVE  /\ \A j \in 1..(a + m) : /\ j \in Nat /\ j # 0
                                  /\ ~(j <= a) => j - a \in 1..m /\ (j - a) + a = j
         /\ \A i \in 1..m : i + a \in 1..(a + m) /\ ~(i + a <= a) /\ (i + a) - a = i
         /\ \A i \in 1..a : i \in 1..(a + m) /\ i <= a
  OBVIOUS

\* The entry at index j that has a value has its own, and next finds its key there.
LEMMA UsedEntry ==
  ASSUME NEW tb, Good(tb), NEW j \in InUse(tb)
  PROVE  /\ j \in Nat /\ j # 0 /\ Entry(tb, j).key \in Stored /\ Entry(tb, j).val = Entry(tb, j).key
         /\ Entry(tb, j).key \in Present(tb)
         /\ InArray(tb, Entry(tb, j).key) <=> j <= Len(tb.array)
         /\ j <= Len(tb.array) => Entry(tb, j).key = [tt |-> "int", h |-> j]
         /\ findindex(tb, Entry(tb, j).key) = j
<1>1. Shape(tb) /\ OwnValues(tb)
  BY DEF Good
<1>2. Len(tb.array) \in Nat /\ Len(tb.node) \in Nat /\ \A i \in 1..Len(tb.array) : tb.array[i] \in Value
  BY <1>1, TableIs
<1>3. j \in 1..(Len(tb.array) + Len(tb.node)) /\ Entry(tb, j).val # nil
  BY DEF InUse
<1>4. j \in Nat /\ j # 0
  BY <1>2, <1>3, Shift
<1>5. CASE j <= Len(tb.array)
  <2> DEFINE k == [tt |-> "int", h |-> j]
  <2>1. Entry(tb, j) = [key |-> k, val |-> tb.array[j]]
    BY <1>5 DEF Entry
  <2>2. Entry(tb, j).key = k /\ Entry(tb, j).val = tb.array[j]
    BY <2>1
  <2>3. j \in 1..Len(tb.array)
    BY <1>2, <1>4, <1>5
  <2>4. tb.array[j] = k /\ tb.array[j] \in Value /\ tb.array[j] # nil
    BY <1>1, <1>2, <1>3, <2>2, <2>3 DEF OwnValues
  <2>5. k \in Stored /\ k # nil
    BY <2>4, ValueIs
  <2>6. InArray(tb, k) /\ k.h = j
    BY <2>3 DEF InArray
  <2>7. findindex(tb, k) = j
    BY <2>5, <2>6 DEF findindex
  <2>8. k \in Present(tb)
    BY <2>4, <2>5, <2>6 DEF Present
  <2> QED
    BY <1>4, <1>5, <2>2, <2>4, <2>5, <2>6, <2>7, <2>8
<1>6. CASE ~(j <= Len(tb.array))
  <2> DEFINE i == j - Len(tb.array)
             k == tb.node[i].key
  <2>1. i \in Pos(tb) /\ i + Len(tb.array) = j
    <3> DEFINE a == Len(tb.array)
               m == Len(tb.node)
    <3>1. a \in Nat /\ m \in Nat /\ j \in 1..(a + m) /\ ~(j <= a)
      BY <1>2, <1>3, <1>6
    <3> HIDE DEF a, m
    <3>2. j - a \in 1..m /\ (j - a) + a = j
      BY <3>1, Shift
    <3> QED
      BY <3>2 DEF a, m, Pos
  <2>2. Entry(tb, j) = [key |-> k, val |-> tb.node[i].val]
    BY <1>6 DEF Entry
  <2>3. Entry(tb, j).key = k /\ Entry(tb, j).val = tb.node[i].val
    BY <2>2
  <2> HIDE DEF i
  <2>4. Live(tb, i) /\ tb.node[i].val = k /\ k \in Stored /\ ~InArray(tb, k) /\ tb.node[i].val # nil
    BY <1>3, <2>1, <2>3, UsedIsLive
  <2>5. k # nil
    BY <2>4, StoredIs
  <2>6. Position(tb, k, TRUE) = i /\ i # 0
    BY <2>1, <2>4, LiveFound
  <2>7. findindex(tb, k) = j
    BY <2>1, <2>4, <2>5, <2>6 DEF findindex
  <2>8. k \in Present(tb)
    BY <2>1, <2>4 DEF Present
  <2> QED
    BY <1>4, <1>6, <2>3, <2>4, <2>7, <2>8
<1> QED
  BY <1>5, <1>6

\* Every key with a value has an entry.
LEMMA PresentEntry ==
  ASSUME NEW tb, Good(tb), NEW x \in Present(tb)
  PROVE  \E j \in InUse(tb) : Entry(tb, j).key = x
<1>1. Len(tb.array) \in Nat /\ Len(tb.node) \in Nat /\ x \in Stored
  BY TableIs DEF Good, Present
<1>2. CASE InArray(tb, x) /\ tb.array[x.h] # nil
  <2>1. x = [tt |-> "int", h |-> x.h] /\ x.h \in 1..Len(tb.array)
    BY <1>1, <1>2, StoredIs DEF InArray
  <2>2. x.h <= Len(tb.array) /\ x.h \in 1..(Len(tb.array) + Len(tb.node))
    BY <1>1, <2>1, Shift
  <2>3. Entry(tb, x.h) = [key |-> x, val |-> tb.array[x.h]]
    BY <2>1, <2>2 DEF Entry
  <2>4. Entry(tb, x.h).key = x /\ Entry(tb, x.h).val # nil
    BY <1>2, <2>3
  <2>5. x.h \in InUse(tb)
    BY <2>2, <2>4 DEF InUse
  <2> QED
    BY <2>4, <2>5
<1>3. CASE \E i \in Pos(tb) : tb.node[i].key = x /\ tb.node[i].val # nil
  <2>1. PICK i \in Pos(tb) : tb.node[i].key = x /\ tb.node[i].val # nil
    BY <1>3
  <2> DEFINE j == i + Len(tb.array)
  <2>2. /\ j \in 1..(Len(tb.array) + Len(tb.node)) /\ ~(j <= Len(tb.array)) /\ j - Len(tb.array) = i
    BY <1>1, <2>1, Shift DEF Pos
  <2> HIDE DEF j
  <2>3. Entry(tb, j) = [key |-> x, val |-> tb.node[i].val]
    BY <2>1, <2>2 DEF Entry
  <2>4. Entry(tb, j).key = x /\ Entry(tb, j).val # nil
    BY <2>1, <2>3
  <2>5. j \in InUse(tb)
    BY <2>2, <2>4 DEF InUse
  <2> QED
    BY <2>4, <2>5
<1> QED
  BY <1>2, <1>3 DEF Present

\* What luaH_resize enters anew: all but what stays in the array part.
LEMMA MovingIs ==
  ASSUME NEW tb, Good(tb), NEW na \in Nat
  PROVE  LET es == Moving(tb, na)
             Stays(x) == InArray(tb, x) /\ x.h <= na
         IN /\ Len(es) \in Nat
            /\ \A i \in 1..Len(es) : es[i].val # nil => es[i].key \in Stored /\ es[i].val = es[i].key
            /\ {es[i].key : i \in {j \in 1..Len(es) : es[j].val # nil}} = {x \in Present(tb) : ~Stays(x)}
<1> DEFINE es == Moving(tb, na)
           Stays(x) == InArray(tb, x) /\ x.h <= na
           a == Len(tb.array)
           m == Len(tb.node)
           slice == IF na < a THEN a - na ELSE 0
           n == slice + m
           at(i) == IF i <= slice THEN na + i ELSE a + m + slice + 1 - i
<1>1. a \in Nat /\ m \in Nat
  BY TableIs DEF Good
<1> HIDE DEF a, m
<1>2. slice \in Nat /\ n \in Nat /\ (slice = 0 \/ (na < a /\ slice = a - na))
  BY <1>1
<1>3. es = [i \in 1..n |-> IF i <= slice THEN Entry(tb, na + i) ELSE Entry(tb, a + m + slice + 1 - i)]
  BY DEF Moving, a, m
<1>4. Len(es) = n /\ \A i \in 1..n : es[i] = Entry(tb, at(i))
  <2> HIDE DEF n, slice
  <2>1. \A i \in 1..n : es[i] = Entry(tb, at(i))
    BY <1>3
  <2> DEFINE V == {es[i] : i \in 1..n}
  <2>2. es \in [1..n -> V]
    BY <1>3
  <2> HIDE DEF es, V
  <2>3. es \in Seq(V) /\ Len(es) = n
    BY <1>2, <2>2
  <2> QED
    BY <2>1, <2>3 DEF es
<1> HIDE DEF es
<1>5. ASSUME NEW i \in 1..n PROVE at(i) \in 1..(a + m) /\ ~(at(i) <= a /\ at(i) <= na)
  BY <1>1, <1>2
<1>6. ASSUME NEW j \in 1..(a + m), ~(j <= a /\ j <= na) PROVE \E i \in 1..n : at(i) = j
  <2>1. CASE j <= a
    <3>1. j - na \in 1..n /\ j - na <= slice /\ na + (j - na) = j
      BY <1>1, <1>2, <1>6, <2>1
    <3>2. at(j - na) = j
      BY <3>1
    <3> QED
      BY <3>1, <3>2
  <2>2. CASE ~(j <= a)
    <3> DEFINE i == a + m + slice + 1 - j
    <3>1. i \in 1..n /\ ~(i <= slice) /\ a + m + slice + 1 - i = j
      BY <1>1, <1>2, <2>2
    <3>2. at(i) = j
      BY <3>1
    <3> QED
      BY <3>1, <3>2
  <2> QED
    BY <2>1, <2>2
<1> HIDE DEF at, n, slice
<1>7. ASSUME NEW i \in 1..n, es[i].val # nil
      PROVE  /\ es[i].key \in Stored /\ es[i].val = es[i].key /\ es[i].key \in Present(tb)
             /\ ~Stays(es[i].key)
  <2>1. at(i) \in InUse(tb) /\ es[i] = Entry(tb, at(i))
    BY <1>4, <1>5, <1>7 DEF InUse, a, m
  <2> DEFINE j == at(i)
  <2> HIDE DEF j
  <2>2. /\ es[i].key \in Stored /\ es[i].val = es[i].key /\ es[i].key \in Present(tb)
        /\ InArray(tb, es[i].key) <=> j <= a
        /\ j <= a => es[i].key = [tt |-> "int", h |-> j]
    BY <2>1, UsedEntry DEF j, a
  <2>3. ~(j <= a /\ j <= na)
    BY <1>5 DEF j
  <2>4. ~Stays(es[i].key)
    <3> SUFFICES ASSUME InArray(tb, es[i].key), es[i].key.h <= na PROVE FALSE
      OBVIOUS
    <3>1. j <= a /\ es[i].key.h = j
      BY <2>2
    <3> QED
      BY <2>3, <3>1
  <2> QED
    BY <2>2, <2>4
<1>8. ASSUME NEW x \in Present(tb), ~Stays(x)
      PROVE  \E i \in {j \in 1..n : es[j].val # nil} : es[i].key = x
  <2>1. PICK j \in InUse(tb) : Entry(tb, j).key = x
    BY PresentEntry
  <2>2. /\ j \in 1..(a + m) /\ Entry(tb, j).val # nil
        /\ InArray(tb, x) <=> j <= a
        /\ j <= a => x = [tt |-> "int", h |-> j]
    BY <2>1, UsedEntry DEF InUse, a, m
  <2>3. ~(j <= a /\ j <= na)
    <3> SUFFICES ASSUME j <= a, j <= na PROVE FALSE
      OBVIOUS
    <3>1. InArray(tb, x) /\ x.h = j
      BY <2>2
    <3> QED
      BY <1>8, <3>1
  <2>4. PICK i \in 1..n : at(i) = j
    BY <1>6, <2>2, <2>3
  <2> QED
    BY <1>4, <2>1, <2>2, <2>4
<1> HIDE DEF Stays
<1>9. {es[i].key : i \in {j \in 1..n : es[j].val # nil}} = {x \in Present(tb) : ~Stays(x)}
  BY <1>7, <1>8
<1> QED
  BY <1>2, <1>4, <1>7, <1>9 DEF es, Stays

\* An array part, and a hash part that is empty.
LEMMA EmptyHash ==
  ASSUME NEW a \in Seq(Value), \A i \in 1..Len(a) : a[i] # nil => a[i] = [tt |-> "int", h |-> i],
         NEW size \in Nat
  PROVE  LET tb == [array |-> a, node |-> [i \in 1..size |-> Node], lastfree |-> size] IN
         /\ Good(tb) /\ AllUsed(tb) /\ Len(tb.node) = size /\ tb.array = a
         /\ Present(tb) = {x \in Stored : x.tt = "int" /\ x.h \in 1..Len(a) /\ a[x.h] # nil}
<1> DEFINE n == [i \in 1..size |-> Node]
           tb == [array |-> a, node |-> n, lastfree |-> size]
<1>1. Node \in NodeRec /\ Node.key = nil /\ Node.dead = FALSE /\ Node.val = nil /\ Node.next = 0
  BY DEF Node, NodeRec, Value
<1>2. n \in Seq(NodeRec) /\ Len(n) = size /\ \A i \in 1..size : n[i] = Node
  <2>1. n \in [1..size -> NodeRec] /\ \A i \in 1..size : n[i] = Node
    BY <1>1
  <2> HIDE DEF n
  <2> QED
    BY <2>1
<1> HIDE DEF n
<1>3. tb.array = a /\ tb.node = n /\ tb.lastfree = size /\ tb \in Table
  BY <1>2 DEF Table, NodeRec
<1> HIDE DEF tb
<1>4. Pos(tb) = 1..size /\ \A i \in Pos(tb) : tb.node[i] = Node
  BY <1>2, <1>3 DEF Pos
<1>5. Shape(tb)
  BY <1>2, <1>3 DEF Shape
<1>6. OwnValues(tb)
  BY <1>1, <1>3, <1>4 DEF OwnValues
<1>7. FreeNodes(tb)
  BY <1>1, <1>3, <1>4 DEF FreeNodes, Linked
<1>8. Apart(tb) /\ Found(tb) /\ Home(tb) /\ AllUsed(tb)
  BY <1>1, <1>4 DEF Apart, Found, Home, AllUsed, Live
<1>9. LinksOK(tb)
  BY <1>1, <1>4 DEF LinksOK, Linked
<1>10. Acyclic(tb)
  <2> DEFINE r == [i \in Pos(tb) |-> 0]
  <2>1. Ranks(tb, r)
    BY <1>1, <1>4 DEF Ranks, Linked
  <2> QED
    BY <2>1 DEF Acyclic
<1>11. Present(tb) = {x \in Stored : x.tt = "int" /\ x.h \in 1..Len(a) /\ a[x.h] # nil}
  BY <1>1, <1>3, <1>4 DEF Present, InArray
<1>12. Good(tb)
  BY <1>5, <1>6, <1>7, <1>8, <1>9, <1>10 DEF Good
<1> QED
  BY <1>2, <1>3, <1>8, <1>11, <1>12 DEF tb, n

LEMMA TwoTo ==
  /\ twoto[0] = 1 /\ twoto \in [Nat -> Nat]
  /\ \A n \in Nat : twoto[n + 1] = 2 * twoto[n] /\ twoto[n] > 0 /\ twoto[n] >= n
<1> DEFINE E(w) == w = [n \in Nat |-> IF n = 0 THEN 1 ELSE 2 * w[n - 1]]
           h == [x \in Nat \X Nat |-> 2 * x[2]]
<1>1. h \in [Nat \X Nat -> Nat]
  OBVIOUS
<1>2. PICK w \in [Nat -> Nat] : w[0] = 1 /\ \A n \in Nat : w[n + 1] = h[<<n, w[n]>>]
  <2> HIDE DEF h
  <2>1. Iterates(Nat, 1, h) # {}
    BY <1>1, RecursionOnNat
  <2> QED
    BY <2>1 DEF Iterates
<1>3. \A n \in Nat : w[n + 1] = 2 * w[n]
  BY <1>2
<1>4. E(w)
  <2>1. ASSUME NEW n \in Nat PROVE w[n] = IF n = 0 THEN 1 ELSE 2 * w[n - 1]
    <3>1. CASE n = 0
      BY <1>2, <3>1
    <3>2. CASE n # 0
      <4>1. n - 1 \in Nat /\ (n - 1) + 1 = n
        BY <3>2
      <4>2. w[(n - 1) + 1] = 2 * w[n - 1]
        BY <1>3, <4>1
      <4> QED
        BY <3>2, <4>1, <4>2
    <3> QED
      BY <3>1, <3>2
  <2>2. w = [n \in Nat |-> w[n]]
    BY <1>2
  <2> QED
    BY <2>1, <2>2
<1> HIDE DEF E
<1>5. E(twoto)
  <2>1. twoto = CHOOSE v : E(v)
    BY DEF twoto, E
  <2> QED
    BY <1>4, <2>1
<1>6. twoto = [n \in Nat |-> IF n = 0 THEN 1 ELSE 2 * twoto[n - 1]]
  BY <1>5 DEF E
<1>7. twoto[0] = 1
  BY <1>6
<1>8. \A n \in Nat : twoto[n + 1] = 2 * twoto[n]
  <2> TAKE n \in Nat
  <2>1. n + 1 \in Nat /\ n + 1 # 0 /\ (n + 1) - 1 = n
    OBVIOUS
  <2>2. twoto[n + 1] = 2 * twoto[(n + 1) - 1]
    BY <1>6, <2>1
  <2> QED
    BY <2>1, <2>2
<1> DEFINE G == {n \in Nat : twoto[n] \in Nat /\ twoto[n] > 0 /\ twoto[n] >= n}
<1>9. 0 \in G
  BY <1>7
<1>10. ASSUME NEW n \in Nat, n \in G PROVE n + 1 \in G
  <2>1. twoto[n + 1] = 2 * twoto[n] /\ twoto[n] \in Nat /\ twoto[n] > 0 /\ twoto[n] >= n
    BY <1>8, <1>10
  <2> QED
    BY <2>1
<1>11. Nat \subseteq G
  <2> HIDE DEF G
  <2> QED
    BY <1>9, <1>10, NatInd
<1>12. twoto \in [Nat -> Nat]
  <2>1. \A n \in Nat : twoto[n] \in Nat
    BY <1>11
  <2>2. twoto = [n \in Nat |-> twoto[n]]
    BY <1>6
  <2> QED
    BY <2>1, <2>2
<1> QED
  BY <1>7, <1>8, <1>11, <1>12

LEMMA TwoToMono ==
  ASSUME NEW i \in Nat, NEW j \in Nat, i <= j
  PROVE  twoto[i] <= twoto[j]
<1> DEFINE G == {d \in Nat : twoto[i] <= twoto[i + d]}
<1>1. 0 \in G
  <2>1. i + 0 = i /\ twoto[i] \in Nat
    BY TwoTo
  <2> QED
    BY <2>1
<1>2. ASSUME NEW d \in Nat, d \in G PROVE d + 1 \in G
  <2>1. i + d \in Nat /\ i + (d + 1) = (i + d) + 1
    OBVIOUS
  <2>2. twoto[(i + d) + 1] = 2 * twoto[i + d] /\ twoto[i + d] \in Nat /\ twoto[i] \in Nat
    BY <2>1, TwoTo
  <2>3. twoto[i] <= twoto[i + d]
    BY <1>2
  <2> QED
    BY <2>1, <2>2, <2>3
<1>3. Nat \subseteq G
  <2> HIDE DEF G
  <2> QED
    BY <1>1, <1>2, NatInd
<1>4. j - i \in Nat /\ i + (j - i) = j
  OBVIOUS
<1> QED
  BY <1>3, <1>4

\* The least power of two that is not less.
LEMMA CeilIs ==
  ASSUME NEW x \in Nat
  PROVE  /\ CeilLog2(x) \in Nat /\ twoto[CeilLog2(x)] >= x
         /\ \A i \in Nat : CeilLog2(x) <= i <=> x <= twoto[i]
<1> DEFINE S == {n \in 0..x : twoto[n] >= x}
<1>1. x \in S
  BY TwoTo
<1>2. S \in SUBSET Nat /\ S # {}
  BY <1>1
<1>3. PICK m \in S : \A n \in S : m <= n
  <2> HIDE DEF S
  <2> QED
    BY <1>2, LeastOf
<1>4. CeilLog2(x) \in S /\ \A n \in S : CeilLog2(x) <= n
  <2>1. CeilLog2(x) = Min(S)
    BY DEF CeilLog2
  <2> HIDE DEF S
  <2> QED
    BY <1>3, <2>1 DEF Min
<1> DEFINE c == CeilLog2(x)
<1> HIDE DEF c
<1>5. c \in Nat /\ c <= x /\ twoto[c] >= x /\ twoto[c] \in Nat
  BY <1>4, TwoTo DEF c
<1>6. ASSUME NEW i \in Nat, x <= twoto[i] PROVE c <= i
  <2>1. CASE i <= x
    <3>1. i \in S
      BY <1>6, <2>1, TwoTo
    <3> QED
      BY <1>4, <3>1 DEF c
  <2>2. CASE ~(i <= x)
    BY <1>5, <2>2
  <2> QED
    BY <2>1, <2>2
<1>7. ASSUME NEW i \in Nat, c <= i PROVE x <= twoto[i]
  <2>1. twoto[c] <= twoto[i] /\ twoto[i] \in Nat
    BY <1>5, <1>7, TwoToMono, TwoTo
  <2> QED
    BY <1>5, <2>1
<1> QED
  BY <1>5, <1>6, <1>7 DEF c

LEMMA ResizedIs ==
  ASSUME NEW a \in Seq(Value), NEW n \in Nat
  PROVE  /\ Resized(a, n) \in Seq(Value) /\ Len(Resized(a, n)) = n
         /\ \A i \in 1..n : Resized(a, n)[i] = IF i <= Len(a) THEN a[i] ELSE nil
<1> DEFINE r == Resized(a, n)
<1>1. r \in [1..n -> Value]
  <2>1. nil \in Value
    BY DEF Value
  <2>2. ASSUME NEW i \in 1..n, i <= Len(a) PROVE a[i] \in Value
    <3>1. i \in 1..Len(a)
      BY <2>2
    <3> QED
      BY <3>1
  <2> QED
    BY <2>1, <2>2 DEF Resized
<1>2. \A i \in 1..n : r[i] = IF i <= Len(a) THEN a[i] ELSE nil
  BY DEF Resized
<1> HIDE DEF r
<1>3. r \in Seq(Value) /\ Len(r) = n
  BY <1>1
<1> QED
  BY <1>2, <1>3 DEF r

\* When the allocation fails the table is what it was.
LEMMA ResizeFails ==
  ASSUME NEW tb, Good(tb), NEW na \in Nat, NEW nh \in Nat
  PROVE  luaH_resize(tb, na, nh, TRUE) = tb
<1> DEFINE m == IF na > Len(tb.array) THEN na ELSE Len(tb.array)
           grown == Resized(tb.array, m)
           r == Resized(grown, Len(tb.array))
<1>1. tb \in Table /\ tb.array \in Seq(Value) /\ Len(tb.array) \in Nat
  BY TableIs DEF Good
<1>2. PICK a, f, n : tb = [array |-> a, lastfree |-> f, node |-> n]
  BY <1>1 DEF Table
<1>3. a \in Seq(Value) /\ Len(a) \in Nat /\ tb.array = a
  BY <1>1, <1>2
<1>4. m \in Nat /\ m >= Len(a)
  BY <1>1, <1>3
<1> HIDE DEF m
<1>5. grown \in Seq(Value) /\ Len(grown) = m /\ \A i \in 1..m : grown[i] = IF i <= Len(a) THEN a[i] ELSE nil
  BY <1>3, <1>4, ResizedIs
<1> HIDE DEF grown
<1>6. r \in Seq(Value) /\ Len(r) = Len(a) /\ \A i \in 1..Len(a) : r[i] = IF i <= m THEN grown[i] ELSE nil
  BY <1>1, <1>3, <1>5, ResizedIs
<1> HIDE DEF r
<1>7. \A i \in 1..Len(a) : r[i] = a[i]
  <2> TAKE i \in 1..Len(a)
  <2>1. i \in 1..m /\ i <= m /\ i <= Len(a)
    BY <1>3, <1>4
  <2> QED
    BY <1>5, <1>6, <2>1
<1>8. r = a
  BY <1>3, <1>6, <1>7
<1>9. luaH_resize(tb, na, nh, TRUE) = [tb EXCEPT !.array = r]
  BY DEF luaH_resize, r, grown, m
<1>10. [tb EXCEPT !.array = r] = tb
  BY <1>2, <1>8
<1> QED
  BY <1>9, <1>10

\* Nothing is lost when the entries move between the parts.
LEMMA ResizeStep ==
  ASSUME NEW tb, Good(tb), NEW na \in Nat, NEW nh \in Nat, NEW H, IsFiniteSet(H), Cardinality(H) <= nh,
         \A x \in Present(tb) : x \in H \/ (x.tt = "int" /\ x.h \in 1..na)
  PROVE  LET u == luaH_resize(tb, na, nh, FALSE) IN
         /\ Good(u) /\ AllUsed(u) /\ Present(u) = Present(tb) /\ Len(u.array) = na
         /\ Cardinality(H) <= Len(u.node) /\ HashBound(u, H)
<1> DEFINE size == IF nh = 0 THEN 0 ELSE twoto[CeilLog2(nh)]
           a == Resized(tb.array, na)
           new == [array |-> a, node |-> [i \in 1..size |-> Node], lastfree |-> size]
           es == Moving(tb, na)
           Stays(x) == InArray(tb, x) /\ x.h <= na
           u == luaH_resize(tb, na, nh, FALSE)
<1>1. size \in Nat /\ size >= nh
  <2>1. CeilLog2(nh) \in Nat /\ twoto[CeilLog2(nh)] >= nh
    BY CeilIs
  <2>2. twoto[CeilLog2(nh)] \in Nat
    BY <2>1, TwoTo
  <2> QED
    BY <2>1, <2>2
<1>2. u = ReinsertAll(new, es)
  BY DEF luaH_resize
<1> HIDE DEF size, u
<1>3. tb.array \in Seq(Value) /\ Len(tb.array) \in Nat /\ OwnValues(tb)
  BY TableIs DEF Good
<1>4. a \in Seq(Value) /\ Len(a) = na /\ \A i \in 1..na : a[i] = IF i <= Len(tb.array) THEN tb.array[i] ELSE nil
  BY <1>3, ResizedIs
<1> HIDE DEF a
<1>5. \A i \in 1..na : a[i] # nil => i \in 1..Len(tb.array) /\ a[i] = tb.array[i] /\ a[i] = [tt |-> "int", h |-> i]
  <2> TAKE i \in 1..na
  <2> HAVE a[i] # nil
  <2>1. i <= Len(tb.array) /\ a[i] = tb.array[i]
    BY <1>4
  <2>2. i \in 1..Len(tb.array)
    BY <1>3, <2>1
  <2> QED
    BY <1>3, <2>1, <2>2 DEF OwnValues
<1>6. /\ Good(new) /\ AllUsed(new) /\ Len(new.node) = size /\ new.array = a
      /\ Present(new) = {x \in Stored : x.tt = "int" /\ x.h \in 1..Len(a) /\ a[x.h] # nil}
  <2>1. \A i \in 1..Len(a) : a[i] # nil => a[i] = [tt |-> "int", h |-> i]
    BY <1>4, <1>5
  <2> QED
    BY <1>1, <1>4, <2>1, EmptyHash
<1> HIDE DEF new
<1>7. /\ Len(es) \in Nat
      /\ \A i \in 1..Len(es) : es[i].val # nil => es[i].key \in Stored /\ es[i].val = es[i].key
      /\ {es[i].key : i \in {j \in 1..Len(es) : es[j].val # nil}} = {x \in Present(tb) : ~Stays(x)}
  BY MovingIs
<1> HIDE DEF es
<1>8. Present(new) = {x \in Present(tb) : Stays(x)}
  <2>1. ASSUME NEW x \in Stored PROVE x \in Present(new) <=> x \in Present(tb) /\ Stays(x)
    <3>1. x \in Present(new) <=> x.tt = "int" /\ x.h \in 1..na /\ a[x.h] # nil
      BY <1>4, <1>6
    <3>2. ASSUME x.tt = "int", x.h \in 1..na, a[x.h] # nil PROVE x \in Present(tb) /\ Stays(x)
      <4>1. x.h \in 1..Len(tb.array) /\ tb.array[x.h] # nil /\ x.h <= na
        <5> DEFINE i == x.h
        <5>1. i \in 1..na /\ a[i] # nil
          BY <3>2
        <5> HIDE DEF i
        <5>2. i \in 1..Len(tb.array) /\ a[i] = tb.array[i]
          BY <1>5, <5>1
        <5> QED
          BY <5>1, <5>2 DEF i
      <4> QED
        BY <3>2, <4>1 DEF Present, InArray
    <3>3. ASSUME x \in Present(tb), Stays(x) PROVE x.tt = "int" /\ x.h \in 1..na /\ a[x.h] # nil
      <4>1. tb.array[x.h] # nil
        BY <3>3, UsedIsLive DEF Present
      <4>2. x.tt = "int" /\ x.h \in 1..Len(tb.array) /\ x.h <= Len(tb.array) /\ x.h \in 1..na
        BY <1>3, <3>3 DEF InArray
      <4> QED
        BY <1>4, <4>1, <4>2
    <3> QED
      BY <3>1, <3>2, <3>3
  <2>2. Present(new) \subseteq Stored /\ Present(tb) \subseteq Stored
    BY DEF Present
  <2> HIDE DEF Stays
  <2> QED
    BY <2>1, <2>2
<1>9. Filling(new, na, size, H)
  <2>1. HashBound(new, H)
    <3> SUFFICES ASSUME NEW x \in Present(new) PROVE InArray(new, x)
      BY DEF HashBound
    <3> QED
      BY <1>6 DEF InArray
  <2> QED
    BY <1>4, <1>6, <2>1 DEF Filling
<1>10. Entries(es, Len(es), na, H)
  <2> SUFFICES ASSUME NEW i \in 1..Len(es), es[i].val # nil,
                      ~(es[i].key.tt = "int" /\ es[i].key.h \in 1..na)
               PROVE  es[i].key \in H
    BY <1>7 DEF Entries
  <2>1. es[i].key \in Present(tb)
    BY <1>7
  <2> QED
    BY <2>1
<1>11. Cardinality(H) <= size
  <2>1. Cardinality(H) \in Nat
    BY FS_CardinalityType
  <2> QED
    BY <1>1, <2>1
<1>12. /\ Filling(u, na, size, H)
       /\ Present(u) = Present(new) \cup {es[i].key : i \in {j \in 1..Len(es) : es[j].val # nil}}
  BY <1>2, <1>7, <1>9, <1>10, <1>11, ReinsertAllIs
<1>13. Present(u) = Present(tb)
  <2> HIDE DEF Stays
  <2> QED
    BY <1>7, <1>8, <1>12
<1> QED
  BY <1>11, <1>12, <1>13 DEF Filling, u

-----------------------------------------------------------------------------
(* rehash *)

\* A sum of the counts of computesizes is the number of indices up to a power of two.
LEMMA SumIs ==
  ASSUME NEW I \in SUBSET (Nat \ {0}), IsFiniteSet(I), NEW i \in 0..MAXABITS
  PROVE  SumTo([j \in 0..MAXABITS |-> Cardinality({k \in I : CeilLog2(k) = j})], i)
           = Cardinality({k \in I : k <= twoto[i]})
<1> DEFINE B(j) == {k \in I : CeilLog2(k) = j}
           C(j) == {k \in I : CeilLog2(k) <= j}
           n == [j \in 0..MAXABITS |-> Cardinality(B(j))]
           h == [y \in Nat \X Nat |-> IF y[1] + 1 \in 0..i THEN y[2] + n[y[1] + 1] ELSE y[2]]
           E(w) == w = [j \in 0..i |-> IF j = 0 THEN n[0] ELSE w[j - 1] + n[j]]
<1>0. MAXABITS \in Nat /\ i \in Nat /\ i <= MAXABITS
  BY TablesAssumption
<1>1. \A j : /\ IsFiniteSet(B(j)) /\ IsFiniteSet(C(j)) /\ Cardinality(B(j)) \in Nat /\ Cardinality(C(j)) \in Nat
  <2> TAKE j
  <2>1. B(j) \in SUBSET I /\ C(j) \in SUBSET I
    OBVIOUS
  <2> HIDE DEF B, C
  <2>2. IsFiniteSet(B(j)) /\ IsFiniteSet(C(j))
    BY <2>1, FS_Subset
  <2> QED
    BY <2>2, FS_CardinalityType
<1>2. \A k \in I : CeilLog2(k) \in Nat
  BY CeilIs
<1>3. n[0] = Cardinality(B(0)) /\ \A j \in 0..i : n[j] = Cardinality(B(j))
  <2> HIDE DEF B
  <2> QED
    BY <1>0
<1> HIDE DEF n
<1>4. n[0] \in Nat /\ \A j \in 0..i : n[j] \in Nat
  <2> HIDE DEF B, C
  <2> QED
    BY <1>0, <1>1, <1>3
<1>5. h \in [Nat \X Nat -> Nat]
  <2> SUFFICES ASSUME NEW j \in Nat, NEW x \in Nat, j + 1 \in 0..i PROVE x + n[j + 1] \in Nat
    OBVIOUS
  <2> QED
    BY <1>4
<1>6. PICK w \in [Nat -> Nat] : w[0] = n[0] /\ \A j \in Nat : w[j + 1] = h[<<j, w[j]>>]
  <2> HIDE DEF h
  <2>1. Iterates(Nat, n[0], h) # {}
    BY <1>4, <1>5, RecursionOnNat
  <2> QED
    BY <2>1 DEF Iterates
<1>7. E([j \in 0..i |-> w[j]])
  <2> DEFINE v == [j \in 0..i |-> w[j]]
  <2>1. ASSUME NEW j \in 0..i PROVE v[j] = IF j = 0 THEN n[0] ELSE v[j - 1] + n[j]
    <3>1. CASE j = 0
      BY <1>6, <3>1
    <3>2. CASE j # 0
      <4>1. j - 1 \in Nat /\ j - 1 \in 0..i /\ (j - 1) + 1 = j /\ w[j - 1] \in Nat
        BY <1>0, <1>6, <3>2
      <4>2. w[(j - 1) + 1] = h[<<j - 1, w[j - 1]>>]
        <5> HIDE DEF h
        <5> QED
          BY <1>6, <4>1
      <4>3. h[<<j - 1, w[j - 1]>>] = w[j - 1] + n[j]
        BY <4>1
      <4>4. v[j] = w[j] /\ v[j - 1] = w[j - 1]
        BY <4>1
      <4> HIDE DEF v, h
      <4> QED
        BY <3>2, <4>1, <4>2, <4>3, <4>4
    <3> QED
      BY <3>1, <3>2
  <2> QED
    BY <2>1
<1> HIDE DEF E
<1> DEFINE v == CHOOSE v : E(v)
<1>8. E(v)
  BY <1>7
<1> HIDE DEF v
<1>9. SumTo(n, i) = v[i]
  BY DEF SumTo, v, E
<1>10. \A j \in 0..i : v[j] = IF j = 0 THEN n[0] ELSE v[j - 1] + n[j]
  BY <1>8 DEF E
<1> DEFINE G == {j \in Nat : j <= i => v[j] = Cardinality(C(j))}
<1>11. 0 \in G
  <2>1. B(0) = C(0)
    <3>1. ASSUME NEW k \in I PROVE CeilLog2(k) = 0 <=> CeilLog2(k) <= 0
      <4>1. CeilLog2(k) \in Nat
        BY <1>2
      <4> QED
        BY <4>1
    <3> QED
      BY <3>1
  <2>2. v[0] = n[0]
    BY <1>0, <1>10
  <2> HIDE DEF B, C
  <2> QED
    BY <1>3, <2>1, <2>2
<1>12. ASSUME NEW j \in Nat, j \in G PROVE j + 1 \in G
  <2> SUFFICES ASSUME j + 1 <= i PROVE v[j + 1] = Cardinality(C(j + 1))
    OBVIOUS
  <2>1. j + 1 \in 0..i /\ j + 1 # 0 /\ (j + 1) - 1 = j /\ j <= i
    BY <1>0
  <2>2. v[j + 1] = v[j] + n[j + 1]
    BY <1>10, <2>1
  <2>3. v[j] = Cardinality(C(j))
    BY <1>12, <2>1
  <2>4. C(j + 1) = C(j) \cup B(j + 1) /\ C(j) \cap B(j + 1) = {}
    <3>1. ASSUME NEW k \in I
          PROVE  /\ CeilLog2(k) <= j + 1 <=> (CeilLog2(k) <= j \/ CeilLog2(k) = j + 1)
                 /\ ~(CeilLog2(k) <= j /\ CeilLog2(k) = j + 1)
      <4>1. CeilLog2(k) \in Nat
        BY <1>2
      <4> QED
        BY <4>1
    <3> QED
      BY <3>1
  <2> HIDE DEF B, C
  <2>5. Cardinality(C(j) \cup B(j + 1)) = Cardinality(C(j)) + Cardinality(B(j + 1)) - Cardinality(C(j) \cap B(j + 1))
    BY <1>1, FS_Union
  <2>6. Cardinality(C(j) \cap B(j + 1)) = 0
    BY <2>4, FS_EmptySet
  <2>7. Cardinality(C(j)) \in Nat /\ Cardinality(B(j + 1)) \in Nat
    BY <1>1
  <2>8. Cardinality(C(j + 1)) = Cardinality(C(j)) + Cardinality(B(j + 1))
    <3>1. Cardinality(C(j + 1)) = Cardinality(C(j) \cup B(j + 1))
      BY <2>4
    <3>2. PICK x \in Nat, y \in Nat : x = Cardinality(C(j)) /\ y = Cardinality(B(j + 1))
      BY <2>7
    <3>3. Cardinality(C(j) \cup B(j + 1)) = x + y - 0
      BY <2>5, <2>6, <3>2
    <3> QED
      BY <3>1, <3>2, <3>3
  <2> QED
    BY <1>3, <2>1, <2>2, <2>3, <2>8
<1>13. Nat \subseteq G
  <2> HIDE DEF G
  <2> QED
    BY <1>11, <1>12, NatInd
<1>14. v[i] = Cardinality(C(i))
  <2> HIDE DEF C
  <2> QED
    BY <1>0, <1>13
<1>15. C(i) = {k \in I : k <= twoto[i]}
  BY <1>0, CeilIs
<1> QED
  BY <1>9, <1>14, <1>15 DEF n

\* computesizes puts na of the indices into the array part: those that fit.
LEMMA SizesAre ==
  ASSUME NEW I \in SUBSET (Nat \ {0}), IsFiniteSet(I)
  PROVE  LET s == computesizes([j \in 0..MAXABITS |-> Cardinality({k \in I : CeilLog2(k) = j})]) IN
         /\ s.asize \in Nat /\ s.asize <= twoto[MAXABITS]
         /\ s.na = Cardinality({k \in I : k <= s.asize})
<1> DEFINE n == [j \in 0..MAXABITS |-> Cardinality({k \in I : CeilLog2(k) = j})]
           P == {i \in 0..MAXABITS : /\ SumTo(n, MAXABITS) > twoto[i] \div 2
                                     /\ n[i] > 0 /\ SumTo(n, i) > twoto[i] \div 2}
           s == computesizes(n)
<1>0. MAXABITS \in Nat
  BY TablesAssumption
<1>1. s = IF P = {} THEN [asize |-> 0, na |-> 0] ELSE [asize |-> twoto[Max(P)], na |-> SumTo(n, Max(P))]
  BY DEF computesizes
<1>2. P \in SUBSET Nat /\ \A i \in P : i \in 0..MAXABITS /\ i <= MAXABITS
  BY <1>0
<1>3. \A i \in 0..MAXABITS : SumTo(n, i) = Cardinality({k \in I : k <= twoto[i]})
  BY SumIs
<1> HIDE DEF P, n, s
<1>4. CASE P = {}
  <2>1. s.asize = 0 /\ s.na = 0
    BY <1>1, <1>4
  <2>2. {k \in I : k <= 0} = {}
    <3>1. ASSUME NEW k \in I PROVE ~(k <= 0)
      <4>1. k \in Nat /\ k # 0
        OBVIOUS
      <4> QED
        BY <4>1
    <3> QED
      BY <3>1
  <2>3. Cardinality({}) = 0 /\ twoto[MAXABITS] \in Nat
    BY <1>0, FS_EmptySet, TwoTo
  <2>4. {k \in I : k <= s.asize} = {}
    BY <2>1, <2>2
  <2>5. s.na = Cardinality({k \in I : k <= s.asize})
    BY <2>1, <2>3, <2>4
  <2>6. s.asize \in Nat /\ s.asize <= twoto[MAXABITS]
    BY <2>1, <2>3
  <2> QED
    BY <2>5, <2>6 DEF s, n
<1>5. CASE P # {}
  <2>1. PICK m \in P : \A i \in P : i <= m
    BY <1>0, <1>2, <1>5, GreatestOf
  <2>2. Max(P) \in P
    <3>1. \A i \in P : m >= i
      BY <1>2, <2>1
    <3> QED
      BY <2>1, <3>1 DEF Max
  <2> DEFINE x == Max(P)
  <2>3. s.asize = twoto[x] /\ s.na = SumTo(n, x)
    BY <1>1, <1>5
  <2> HIDE DEF x
  <2>4. x \in 0..MAXABITS /\ x \in Nat /\ x <= MAXABITS
    BY <1>2, <2>2 DEF x
  <2>5. twoto[x] \in Nat /\ twoto[x] <= twoto[MAXABITS]
    BY <1>0, <2>4, TwoTo, TwoToMono
  <2>6. s.na = Cardinality({k \in I : k <= s.asize})
    BY <1>3, <2>3, <2>4
  <2> QED
    BY <2>3, <2>5, <2>6 DEF s, n
<1> QED
  BY <1>4, <1>5

\* A table in which k has room: H has all the keys that belong to the hash part.
HasRoom(u, k) ==
  \E H : /\ IsFiniteSet(H) /\ Cardinality(H) <= Len(u.node) /\ HashBound(u, H)
         /\ InArray(u, k) \/ k \in H

LEMMA RehashStep ==
  ASSUME NEW tb, Good(tb), NEW ek \in Stored
  PROVE  /\ LET u == rehash(tb, ek, FALSE) IN
            Good(u) /\ AllUsed(u) /\ Present(u) = Present(tb) /\ HasRoom(u, ek) /\ Len(u.array) <= twoto[MAXABITS]
         /\ rehash(tb, ek, TRUE) = tb
<1> DEFINE U == InUse(tb)
           P == Present(tb)
           Q == P \cup {ek}
           I == IndicesInUse(tb, ek)
           s == computesizes(nums(tb, ek))
           A == {x \in Q : x.tt = "int" /\ x.h \in 1..s.asize}
           H == Q \ A
           total == Cardinality(U) + 1
           nh == total - s.na
<1>0. MAXABITS \in Nat /\ twoto[MAXABITS] \in Nat
  BY TablesAssumption, TwoTo
<1>1. IsFiniteSet(U) /\ Cardinality(U) \in Nat
  <2>1. PICK n \in Nat : n = Len(tb.array) + Len(tb.node)
    <3>1. PICK a \in Nat, m \in Nat : a = Len(tb.array) /\ m = Len(tb.node)
      BY TableIs DEF Good
    <3>2. a + m \in Nat
      OBVIOUS
    <3> QED
      BY <3>1, <3>2
  <2>2. U \in SUBSET (1..n)
    BY <2>1 DEF InUse
  <2> HIDE DEF U
  <2> QED
    BY <2>2, UpTo, FS_Subset, FS_CardinalityType
<1>2. P \subseteq Stored /\ {Entry(tb, j).key : j \in U} = P
  <2>1. P \subseteq Stored
    BY DEF Present
  <2>2. \A j \in U : Entry(tb, j).key \in P
    BY UsedEntry
  <2>3. \A x \in P : \E j \in U : Entry(tb, j).key = x
    BY PresentEntry
  <2> HIDE DEF U, P
  <2> QED
    BY <2>1, <2>2, <2>3
<1>3. IsFiniteSet(P) /\ Cardinality(P) <= Cardinality(U)
  <2> DEFINE f == [j \in U |-> Entry(tb, j).key]
  <2>1. f \in [U -> {f[j] : j \in U}] /\ P \subseteq {f[j] : j \in U}
    BY <1>2
  <2> HIDE DEF f, U, P
  <2> QED
    BY <1>1, <2>1, ImageBound
<1>4. IsFiniteSet(Q) /\ Cardinality(Q) \in Nat /\ Cardinality(Q) <= total
  <2> HIDE DEF P, U
  <2>1. IsFiniteSet(Q) /\ Cardinality(Q) = IF ek \in P THEN Cardinality(P) ELSE Cardinality(P) + 1
    BY <1>3, FS_AddElement
  <2>2. Cardinality(P) \in Nat
    BY <1>3, FS_CardinalityType
  <2>3. Cardinality(Q) <= total /\ Cardinality(Q) \in Nat
    BY <1>1, <1>3, <2>1, <2>2
  <2> QED
    BY <2>1, <2>3
<1>5. Q \subseteq Stored
  BY <1>2
<1>6. I = {arrayindex(k) : k \in Q} \ {0}
  <2>1. {ek} \cup {Entry(tb, i).key : i \in InUse(tb)} = Q
    BY <1>2
  <2> QED
    BY <2>1 DEF IndicesInUse
<1> HIDE DEF U, P, Q
<1>7. \A j \in I : [tt |-> "int", h |-> j] \in Q /\ j \in 1..twoto[MAXABITS]
  <2> SUFFICES ASSUME NEW k \in Q, arrayindex(k) # 0
               PROVE  [tt |-> "int", h |-> arrayindex(k)] \in Q /\ arrayindex(k) \in 1..twoto[MAXABITS]
    BY <1>6
  <2>1. k.tt = "int" /\ arrayindex(k) = k.h /\ k.h \in 1..twoto[MAXABITS]
    BY DEF arrayindex
  <2>2. k = [tt |-> "int", h |-> k.h]
    BY <1>5, <2>1, StoredIs
  <2> QED
    BY <2>1, <2>2
<1>8. I \in SUBSET (Nat \ {0}) /\ IsFiniteSet(I)
  <2>1. I \in SUBSET (1..twoto[MAXABITS])
    BY <1>7
  <2> HIDE DEF I
  <2>2. IsFiniteSet(I)
    BY <1>0, <2>1, UpTo, FS_Subset
  <2> QED
    BY <1>0, <2>1, <2>2
<1>9. s.asize \in Nat /\ s.asize <= twoto[MAXABITS] /\ s.na = Cardinality({k \in I : k <= s.asize})
  <2>1. nums(tb, ek) = [j \in 0..MAXABITS |-> Cardinality({k \in I : CeilLog2(k) = j})]
    BY DEF nums
  <2> HIDE DEF I
  <2> QED
    BY <1>8, <2>1, SizesAre
<1> HIDE DEF s, I
<1>10. IsFiniteSet(A) /\ Cardinality(A) \in Nat /\ IsFiniteSet(H) /\ Cardinality(H) = Cardinality(Q) - Cardinality(A)
  <2>1. A \in SUBSET Q /\ Q \cap A = A
    OBVIOUS
  <2> HIDE DEF A
  <2>2. IsFiniteSet(A)
    BY <1>4, <2>1, FS_Subset
  <2>3. IsFiniteSet(Q \ A) /\ Cardinality(Q \ A) = Cardinality(Q) - Cardinality(Q \cap A)
    BY <1>4, FS_Difference
  <2> QED
    BY <2>1, <2>2, <2>3, FS_CardinalityType
<1>11. s.na \in Nat /\ s.na <= Cardinality(A)
  <2> DEFINE S == {k \in I : k <= s.asize}
             f == [k \in S |-> [tt |-> "int", h |-> k]]
  <2>1. S \in SUBSET I
    OBVIOUS
  <2>2. f \in [S -> A]
    <3> SUFFICES ASSUME NEW k \in S PROVE [tt |-> "int", h |-> k] \in A
      OBVIOUS
    <3>1. [tt |-> "int", h |-> k] \in Q /\ k \in Nat \ {0} /\ k <= s.asize
      BY <1>7, <1>8
    <3>2. k \in 1..s.asize
      BY <1>9, <3>1
    <3> QED
      BY <3>1, <3>2
  <2>3. \A k, l \in S : f[k] = f[l] => k = l
    <3> SUFFICES ASSUME NEW k \in S, NEW l \in S, f[k] = f[l] PROVE k = l
      OBVIOUS
    <3>1. f[k].h = k /\ f[l].h = l
      OBVIOUS
    <3> QED
      BY <3>1
  <2>5. s.na = Cardinality(S)
    BY <1>9
  <2> HIDE DEF S, f, A
  <2>4. IsFiniteSet(S)
    BY <1>8, <2>1, FS_Subset
  <2> QED
    BY <1>10, <2>2, <2>3, <2>4, <2>5, InjBound, FS_CardinalityType
<1>12. Cardinality(A) <= Cardinality(Q)
  <2>1. A \in SUBSET Q
    OBVIOUS
  <2> HIDE DEF A
  <2> QED
    BY <1>4, <2>1, FS_Subset
<1>13. nh \in Nat /\ Cardinality(H) <= nh
  <2> HIDE DEF A, H
  <2>1. total \in Nat
    BY <1>1
  <2> HIDE DEF total
  <2> QED
    BY <1>4, <1>10, <1>11, <1>12, <2>1
<1>14. \A fails : rehash(tb, ek, fails) = luaH_resize(tb, s.asize, nh, fails)
  BY DEF rehash, s, U
<1>15. rehash(tb, ek, TRUE) = tb
  <2> HIDE DEF nh
  <2> QED
    BY <1>9, <1>13, <1>14, ResizeFails
<1> DEFINE u == rehash(tb, ek, FALSE)
<1>16. \A x \in Present(tb) : x \in H \/ (x.tt = "int" /\ x.h \in 1..s.asize)
  BY DEF P, Q
<1>17. ek \in H \/ (ek.tt = "int" /\ ek.h \in 1..s.asize)
  BY DEF Q
<1>18. /\ Good(u) /\ AllUsed(u) /\ Present(u) = Present(tb) /\ Len(u.array) = s.asize
       /\ Cardinality(H) <= Len(u.node) /\ HashBound(u, H)
  <2>1. u = luaH_resize(tb, s.asize, nh, FALSE)
    BY <1>14
  <2> HIDE DEF H, nh, u
  <2> QED
    BY <1>9, <1>10, <1>13, <1>16, <2>1, ResizeStep
<1>19. HasRoom(u, ek)
  <2>1. InArray(u, ek) \/ ek \in H
    BY <1>17, <1>18 DEF InArray
  <2> HIDE DEF H, u
  <2> QED
    BY <1>10, <1>18, <2>1 DEF HasRoom
<1> QED
  BY <1>9, <1>15, <1>18, <1>19

-----------------------------------------------------------------------------
(* luaV_settable *)

\* The only key whose value an assignment changes is its own.
LEMMA SetStep ==
  ASSUME NEW tb, Good(tb), NEW k \in Stored, NEW v \in {k, nil}, NEW fails \in BOOLEAN
  PROVE  LET u == Set(tb, k, v, fails) IN
         /\ Good(u)
         /\ IsThere(tb, k) => u = Put(tb, k, v)
         /\ \/ Present(u) = (Present(tb) \ {k}) \cup (IF v = nil THEN {} ELSE {k})
            \/ fails /\ Present(u) = Present(tb)
<1> DEFINE new == newkey(tb, k)
           u == Set(tb, k, v, fails)
<1>1. CASE IsThere(tb, k)
  <2>1. u = Put(tb, k, v)
    BY <1>1 DEF Set
  <2>2. Entered(tb, u, k, v)
    BY <1>1, <2>1, ThereStep
  <2> HIDE DEF u
  <2> QED
    BY <2>1, <2>2 DEF Entered, u
<1>2. CASE ~IsThere(tb, k) /\ ~new.full
  <2>1. u = Put(new.t, k, v)
    BY <1>2 DEF Set
  <2>2. Entered(tb, u, k, v)
    BY <1>2, <2>1, NewStep
  <2> HIDE DEF u
  <2> QED
    BY <1>2, <2>2 DEF Entered, u
<1>3. CASE ~IsThere(tb, k) /\ new.full
  <2> DEFINE x == new.t
             grown == rehash(x, k, fails)
             e == [key |-> k, val |-> v]
  <2>1. u = IF fails THEN grown ELSE Reinsert(grown, e)
    BY <1>3 DEF Set
  <2>2. Good(x) /\ x.array = tb.array /\ x.node = tb.node
    BY <1>3, NewKeyStep
  <2> HIDE DEF x
  <2>3. Present(x) = Present(tb)
    BY <2>2 DEF Present, InArray, Pos
  <2>4. CASE fails
    <3>1. grown = x
      BY <2>2, <2>4, RehashStep
    <3>2. u = x
      BY <2>1, <2>4, <3>1
    <3> HIDE DEF u
    <3> QED
      BY <1>3, <2>2, <2>3, <2>4, <3>2 DEF u
  <2>5. CASE ~fails
    <3>1. grown = rehash(x, k, FALSE)
      BY <2>5
    <3> HIDE DEF grown
    <3>2. Good(grown) /\ AllUsed(grown) /\ Present(grown) = Present(x) /\ HasRoom(grown, k)
      BY <2>2, <3>1, RehashStep
    <3>3. IsThere(grown, k) \/ ~newkey(grown, k).full
      <4> SUFFICES ASSUME ~IsThere(grown, k) PROVE ~newkey(grown, k).full
        OBVIOUS
      <4>1. PICK H : /\ IsFiniteSet(H) /\ Cardinality(H) <= Len(grown.node) /\ HashBound(grown, H)
                     /\ InArray(grown, k) \/ k \in H
        BY <3>2 DEF HasRoom
      <4>2. k \in H
        BY <4>1 DEF IsThere
      <4> QED
        BY <3>2, <4>1, <4>2, Room
    <3>4. e.key = k /\ e.val = v
      OBVIOUS
    <3> HIDE DEF e
    <3>5. Entered(grown, Reinsert(grown, e), k, v)
      BY <3>2, <3>3, <3>4, ReinsertStep
    <3>6. u = Reinsert(grown, e)
      BY <2>1, <2>5
    <3> HIDE DEF u
    <3> QED
      BY <1>3, <2>3, <3>2, <3>5, <3>6 DEF Entered, u
  <2> QED
    BY <2>4, <2>5
<1>4. new.full \in BOOLEAN \/ IsThere(tb, k)
  BY NewKeyStep
<1> QED
  BY <1>1, <1>2, <1>3

LEMMA PresentThere ==
  ASSUME NEW tb, Good(tb), NEW x \in Present(tb)
  PROVE  IsThere(tb, x)
<1>1. CASE InArray(tb, x)
  BY <1>1 DEF IsThere
<1>2. CASE ~InArray(tb, x)
  <2>1. PICK i \in Pos(tb) : tb.node[i].key = x /\ tb.node[i].val # nil
    BY <1>2 DEF Present
  <2>2. Live(tb, i)
    BY <2>1, UsedIsLive
  <2>3. Position(tb, x, FALSE) = i /\ i # 0
    BY <2>1, <2>2, LiveFound
  <2> QED
    BY <2>3 DEF IsThere
<1> QED
  BY <1>1, <1>2

-----------------------------------------------------------------------------
(* Traversals *)

\* next knows where the key x is, or was.
KnownAt(tb, x) ==
  x # nil => \/ InArray(tb, x)
             \/ \E i \in Pos(tb) : tb.node[i].key = x /\ Via(tb, mainposition(tb, x), i, KeyAt(tb, x))

LEMMA KnownIs ==
  ASSUME NEW tb, Good(tb), NEW x \in Value, KnownAt(tb, x)
  PROVE  findindex(tb, x) \in Nat
<1>1. Shape(tb) /\ LinksOK(tb) /\ Acyclic(tb) /\ Len(tb.array) \in Nat
  BY TableIs DEF Good
<1>2. CASE x = nil
  BY <1>2 DEF findindex
<1>3. CASE x # nil /\ InArray(tb, x)
  <2>1. findindex(tb, x) = x.h /\ x.h \in 1..Len(tb.array)
    BY <1>3 DEF findindex, InArray
  <2> QED
    BY <1>1, <2>1
<1>4. CASE x # nil /\ ~InArray(tb, x)
  <2>1. PICK i \in Pos(tb) : tb.node[i].key = x /\ Via(tb, mainposition(tb, x), i, KeyAt(tb, x))
    BY <1>4 DEF KnownAt
  <2>2. x \in Stored
    BY <1>4, ValueIs
  <2>3. Position(tb, x, TRUE) = i
    BY <1>1, <2>1, <2>2, PositionIs
  <2>4. i \in Nat /\ i # 0
    BY <2>1 DEF Pos
  <2>5. findindex(tb, x) = i + Len(tb.array)
    BY <1>4, <2>3, <2>4 DEF findindex
  <2> QED
    BY <1>1, <2>4, <2>5
<1> QED
  BY <1>2, <1>3, <1>4

\* next knows the keys that have values.
LEMMA PresentKnown ==
  ASSUME NEW tb, Good(tb), NEW x \in Present(tb)
  PROVE  KnownAt(tb, x) /\ x \in Value
<1>1. x \in Value
  BY DEF Present, Value
<1>2. ASSUME ~InArray(tb, x)
      PROVE  \E i \in Pos(tb) : tb.node[i].key = x /\ Via(tb, mainposition(tb, x), i, KeyAt(tb, x))
  <2>1. PICK i \in Pos(tb) : tb.node[i].key = x /\ tb.node[i].val # nil
    BY <1>2 DEF Present
  <2>2. Live(tb, i)
    BY <2>1, UsedIsLive
  <2> QED
    BY <2>1, <2>2 DEF Good, Found, Main
<1> QED
  BY <1>1, <1>2 DEF KnownAt

\* Keys keep their places when values change and when keys die.
LEMMA KeepsPlaces ==
  ASSUME NEW tb, Good(tb), NEW u, Good(u), SameKeys(tb, u), NEW x \in Value, KnownAt(tb, x)
  PROVE  KnownAt(u, x) /\ findindex(u, x) = findindex(tb, x)
<1>1. /\ Shape(tb) /\ LinksOK(tb) /\ Acyclic(tb)
      /\ Shape(u) /\ LinksOK(u) /\ Acyclic(u)
  BY DEF Good
<1>2. Len(u.array) = Len(tb.array) /\ Len(u.node) = Len(tb.node) /\ Pos(u) = Pos(tb)
  BY DEF SameKeys, Pos
<1>3. InArray(u, x) <=> InArray(tb, x)
  BY <1>2 DEF InArray
<1>4. CASE x = nil \/ InArray(tb, x)
  BY <1>3, <1>4 DEF KnownAt, findindex
<1>5. CASE x # nil /\ ~InArray(tb, x)
  <2>1. PICK i \in Pos(tb) : tb.node[i].key = x /\ Via(tb, mainposition(tb, x), i, KeyAt(tb, x))
    BY <1>5 DEF KnownAt
  <2>2. x \in Stored
    BY <1>5, ValueIs
  <2>3. mainposition(u, x) = mainposition(tb, x) /\ KeyAt(u, x) = KeyAt(tb, x) /\ u.node[i].key = x
    BY <1>1, <1>2, <2>1, MainSame DEF SameKeys, KeyAt
  <2>4. \A j \in Pos(tb) : u.node[j].next = tb.node[j].next
    BY DEF SameKeys
  <2>5. Via(u, mainposition(u, x), i, KeyAt(u, x))
    BY <1>2, <2>1, <2>3, <2>4, ViaSame
  <2>6. Position(tb, x, TRUE) = i
    BY <1>1, <2>1, <2>2, PositionIs
  <2>7. Position(u, x, TRUE) = i
    BY <1>1, <1>2, <2>2, <2>3, <2>5, PositionIs
  <2>8. findindex(u, x) = findindex(tb, x)
    BY <1>2, <1>3, <1>5, <2>6, <2>7 DEF findindex
  <2> QED
    BY <1>2, <2>3, <2>5, <2>8 DEF KnownAt
<1> QED
  BY <1>4, <1>5

\* The entries in use, when no key has got a value, are among those that were.
LEMMA Places ==
  ASSUME NEW tb, Good(tb), NEW u, Good(u), SameKeys(tb, u), Present(u) \subseteq Present(tb),
         NEW j \in InUse(u)
  PROVE  j \in InUse(tb) /\ Entry(u, j).key = Entry(tb, j).key
<1> DEFINE x == Entry(u, j).key
<1>1. x \in Present(tb) /\ findindex(u, x) = j
  BY UsedEntry
<1> HIDE DEF x
<1>2. PICK i \in InUse(tb) : Entry(tb, i).key = x
  BY <1>1, PresentEntry
<1>3. findindex(tb, x) = i
  BY <1>2, UsedEntry
<1>4. findindex(u, x) = findindex(tb, x)
  BY <1>1, PresentKnown, KeepsPlaces
<1> QED
  BY <1>1, <1>2, <1>3, <1>4 DEF x

Trav(tr) ==
  /\ tr.on \in BOOLEAN /\ tr.keys \subseteq Stored /\ tr.last \in Value
  /\ tr = [on |-> tr.on, keys |-> tr.keys, last |-> tr.last]
  /\ ~tr.on => tr = Idle

\* The keys that a traversal has returned are those up to the last one.
Ordered(tb, tr) ==
  \A j \in InUse(tb) : Entry(tb, j).key \in tr.keys <=> j <= findindex(tb, tr.last)
Going(tb, tr) == Trav(tr) /\ KnownAt(tb, tr.last) /\ (tr.on => Ordered(tb, tr))

IInv == Good(t) /\ Going(t, trav)

LEMMA GoingIdle ==
  ASSUME NEW tb
  PROVE  Going(tb, Idle)
<1>1. Idle.on = FALSE /\ Idle.keys = {} /\ Idle.last = nil /\ Idle = [on |-> FALSE, keys |-> {}, last |-> nil]
  BY DEF Idle
<1>2. nil \in Value
  BY DEF Value
<1> QED
  BY <1>1, <1>2 DEF Going, Trav, KnownAt

\* A traversal goes on while fields are cleared and changed and keys die.
LEMMA GoingOn ==
  ASSUME NEW tb, Good(tb), NEW u, Good(u), SameKeys(tb, u), Present(u) \subseteq Present(tb),
         NEW tr, Going(tb, tr)
  PROVE  Going(u, tr)
<1>1. Trav(tr) /\ KnownAt(tb, tr.last) /\ tr.last \in Value
  BY DEF Going, Trav
<1>2. KnownAt(u, tr.last) /\ findindex(u, tr.last) = findindex(tb, tr.last)
  BY <1>1, KeepsPlaces
<1>3. ASSUME tr.on, NEW j \in InUse(u)
      PROVE  Entry(u, j).key \in tr.keys <=> j <= findindex(u, tr.last)
  <2>1. j \in InUse(tb) /\ Entry(u, j).key = Entry(tb, j).key
    BY Places
  <2>2. Entry(tb, j).key \in tr.keys <=> j <= findindex(tb, tr.last)
    BY <1>3, <2>1 DEF Going, Ordered
  <2> QED
    BY <1>2, <2>1, <2>2
<1> QED
  BY <1>1, <1>2, <1>3 DEF Going, Ordered

-----------------------------------------------------------------------------
(* The invariant of the specification *)

\* At the start the table is empty and nothing traverses it (lua_createtable with no sizes).
LEMMA InitInv ==
  ASSUME Init
  PROVE  IInv
<1> DEFINE e == [array |-> <<>>, node |-> [i \in 1..0 |-> Node], lastfree |-> 0]
<1>1. <<>> \in Seq(Value) /\ \A i \in 1..Len(<<>>) : <<>>[i] # nil => <<>>[i] = [tt |-> "int", h |-> i]
  OBVIOUS
<1>2. Good(e)
  BY <1>1, EmptyHash, 0 \in Nat
<1>3. [i \in 1..0 |-> Node] = <<>>
  OBVIOUS
<1>4. t = e
  BY <1>3 DEF Init
<1>5. trav = Idle
  BY DEF Init
<1> QED
  BY <1>2, <1>4, <1>5, GoingIdle DEF IInv

\* An assignment while a traversal goes on only clears or changes entries that are there
\* (luaV_settable, luaH_set); at other times it may do anything that keeps the table good.
LEMMA AssignStep ==
  ASSUME IInv, NEW k \in Keys, NEW v \in {Normal(k), nil}, NEW fails \in BOOLEAN, Assign(k, v, fails)
  PROVE  IInv'
<1> DEFINE n == Normal(k)
<1>1. n \in Stored
  BY DEF Stored
<1>2. v \in {n, nil}
  OBVIOUS
<1>3. t' = Set(t, n, v, fails) /\ trav' = trav /\ (trav.on => luaH_get(t, n) # nil)
  BY DEF Assign, Get
<1>4. Good(t) /\ Going(t, trav) /\ Trav(trav)
  BY DEF IInv, Going
<1> HIDE DEF n
<1>5. Good(t')
  BY <1>1, <1>2, <1>3, <1>4, SetStep
<1>6. CASE ~trav.on
  <2>1. trav = Idle
    BY <1>6, <1>4 DEF Trav
  <2> QED
    BY <2>1, <1>3, <1>5, GoingIdle DEF IInv
<1>7. CASE trav.on
  <2>1. n \in Present(t)
    BY <1>1, <1>3, <1>4, <1>7, GetIs
  <2>2. IsThere(t, n)
    BY <2>1, <1>4, PresentThere
  <2>3. t' = Put(t, n, v)
    BY <1>1, <1>2, <1>3, <1>4, <2>2, SetStep
  <2>4. ValueIsPut(t, t', n, v)
    BY <2>2, <2>3, <1>1, <1>2, <1>4, PutStep
  <2>5. SameKeys(t, t') /\ Present(t') \subseteq Present(t)
    BY <2>4, <2>1 DEF ValueIsPut
  <2>6. Going(t', trav)
    BY <2>5, <1>4, <1>5, GoingOn
  <2> QED
    BY <2>6, <1>3, <1>5 DEF IInv
<1> QED
  BY <1>6, <1>7

\* OP_SETLIST: the keys of the hash part have room in a hash part of the same size.
LEMMA HashKeys ==
  ASSUME NEW tb, Good(tb)
  PROVE  LET H == {x \in Present(tb) : ~InArray(tb, x)} IN IsFiniteSet(H) /\ Cardinality(H) <= Len(tb.node)
<1> DEFINE H == {x \in Present(tb) : ~InArray(tb, x)}
           f == [i \in Pos(tb) |-> tb.node[i].key]
<1>1. Len(tb.node) \in Nat
  BY TableIs DEF Good
<1>2. IsFiniteSet(Pos(tb)) /\ Cardinality(Pos(tb)) = Len(tb.node)
  BY <1>1, UpTo DEF Pos
<1>3. H \subseteq {f[i] : i \in Pos(tb)}
  BY DEF Present
<1>4. f \in [Pos(tb) -> {f[i] : i \in Pos(tb)}]
  OBVIOUS
<1> HIDE DEF f, H
<1>5. IsFiniteSet(H) /\ Cardinality(H) <= Cardinality(Pos(tb))
  BY <1>2, <1>3, <1>4, ImageBound
<1> QED
  BY <1>5, <1>2 DEF H

LEMMA SetlistStep ==
  ASSUME IInv, NEW n \in Nat, NEW fails \in BOOLEAN, Setlist(n, fails)
  PROVE  /\ IInv' /\ Present(t') = Present(t)
<1> DEFINE H == {x \in Present(t) : ~InArray(t, x)}
<1>1. Good(t) /\ Going(t, trav) /\ Trav(trav)
  BY DEF IInv, Going
<1>2. ~trav.on /\ trav' = trav /\ n > Len(t.array) /\ t' = luaH_resize(t, n, Len(t.node), fails)
  BY DEF Setlist
<1>3. trav' = Idle
  BY <1>1, <1>2 DEF Trav
<1>4. IsFiniteSet(H) /\ Cardinality(H) <= Len(t.node)
  BY <1>1, HashKeys
<1>5. Len(t.node) \in Nat /\ Len(t.array) \in Nat
  BY <1>1, TableIs DEF Good
<1>6. ASSUME NEW x \in Present(t)
      PROVE  x \in H \/ (x.tt = "int" /\ x.h \in 1..n)
  <2>1. CASE InArray(t, x)
    <3> DEFINE i == x.h
               a == Len(t.array)
    <3>1. x.tt = "int" /\ i \in 1..a
      BY <2>1 DEF InArray
    <3>2. a \in Nat /\ n > a
      BY <1>5, <1>2
    <3> HIDE DEF i, a
    <3>3. i \in 1..n
      BY <3>1, <3>2
    <3> QED
      BY <3>1, <3>3 DEF i
  <2>2. CASE ~InArray(t, x)
    BY <2>2
  <2> QED
    BY <2>1, <2>2
<1> HIDE DEF H
<1>7. Good(t') /\ Present(t') = Present(t)
  <2>1. CASE fails
    <3>1. t' = t
      BY <2>1, <1>1, <1>2, <1>5, ResizeFails
    <3> QED
      BY <3>1, <1>1
  <2>2. CASE ~fails
    <3>1. t' = luaH_resize(t, n, Len(t.node), FALSE)
      BY <2>2, <1>2
    <3> QED
      BY <3>1, <1>1, <1>4, <1>5, <1>6, ResizeStep
  <2> QED
    BY <2>1, <2>2
<1>8. Going(t', trav')
  BY <1>3, GoingIdle
<1> QED
  BY <1>7, <1>8 DEF IInv

\* traversestrongtable: a dead key stays where it is, and its entry is empty.
LEMMA CollectStep ==
  ASSUME IInv, NEW k \in Keys, Collect(k)
  PROVE  IInv' /\ Present(t') = Present(t)
<1> DEFINE P == {i \in DOMAIN t.node : t.node[i].key = k /\ t.node[i].val = nil}
           n == [i \in DOMAIN t.node |-> IF i \in P THEN [t.node[i] EXCEPT !.dead = TRUE] ELSE t.node[i]]
<1>1. Good(t) /\ Shape(t) /\ Going(t, trav)
  BY DEF IInv, Good
<1>2. t' = [t EXCEPT !.node = n] /\ trav' = trav
  BY DEF Collect
<1>3. /\ t \in Table /\ t.node \in Seq(NodeRec) /\ t.array \in Seq(Value) /\ DOMAIN t.node = Pos(t)
      /\ Len(t.node) \in Nat /\ t.lastfree \in 0..Len(t.node)
  BY <1>1, TableIs
<1>4. ASSUME NEW i \in Pos(t)
      PROVE  /\ n[i] \in NodeRec /\ n[i].key = t.node[i].key /\ n[i].val = t.node[i].val
             /\ n[i].next = t.node[i].next
             /\ i \notin P => n[i].dead = t.node[i].dead
             /\ ~n[i].dead => ~t.node[i].dead
  <2>1. t.node[i] \in NodeRec /\ i \in DOMAIN t.node
    BY <1>1, <1>3, TableIs
  <2>2. n[i] = IF i \in P THEN [t.node[i] EXCEPT !.dead = TRUE] ELSE t.node[i]
    BY <2>1
  <2> HIDE DEF n, P
  <2>3. CASE i \in P
    BY <2>1, <2>2, <2>3 DEF NodeRec
  <2>4. CASE i \notin P
    BY <2>1, <2>2, <2>4
  <2> QED
    BY <2>3, <2>4
<1>5. n \in Seq(NodeRec) /\ Len(n) = Len(t.node)
  <2>1. DOMAIN n = 1..Len(t.node)
    BY <1>3 DEF Pos
  <2>2. n \in [1..Len(t.node) -> NodeRec]
    BY <2>1, <1>4, <1>3 DEF Pos
  <2> HIDE DEF n
  <2> QED
    BY <2>2, <1>3
<1>6. ASSUME NEW i \in P
      PROVE  t.node[i].val = nil
  OBVIOUS
<1> HIDE DEF n, P
<1>7. t' = WithNodes(t, n, t.lastfree)
  BY <1>2, <1>3, WithNodesExcept
<1>8. /\ Shape(t') /\ t'.array = t.array /\ t'.node = n /\ t'.lastfree = t.lastfree /\ Pos(t') = Pos(t)
      /\ \A x : InArray(t', x) <=> InArray(t, x)
  BY <1>1, <1>3, <1>5, <1>7, WithNodesIs
<1>9. SameKeys(t, t')
  BY <1>4, <1>5, <1>8 DEF SameKeys
<1>10. OwnValues(t')
  <2>1. OwnValues(t)
    BY <1>1 DEF Good
  <2>2. ASSUME NEW i \in Pos(t), n[i].val # nil
        PROVE  n[i].val = n[i].key /\ ~n[i].dead
    BY <2>1, <2>2, <1>4, <1>6 DEF OwnValues
  <2> QED
    BY <2>1, <2>2, <1>8 DEF OwnValues
<1>11. FreeNodes(t')
  <2>1. FreeNodes(t)
    BY <1>1 DEF Good
  <2> QED
    BY <2>1, <1>4, <1>8 DEF FreeNodes, Linked
<1>12. Good(t')
  BY <1>1, <1>8, <1>9, <1>10, <1>11, SameKeysGood
<1>13. Present(t') = Present(t)
  BY <1>4, <1>8 DEF Present
<1>14. Going(t', trav)
  BY <1>1, <1>9, <1>12, <1>13, GoingOn
<1> QED
  BY <1>2, <1>12, <1>13, <1>14 DEF IInv

\* luaH_next finds the next entry in use, in the order of the places.
LEMMA NextIs ==
  ASSUME NEW tb, Good(tb), NEW x \in Value, KnownAt(tb, x)
  PROVE  LET k == luaH_next(tb, x) IN
         \/ k = nil /\ \A j \in InUse(tb) : j <= findindex(tb, x)
         \/ \E m \in InUse(tb) : /\ k = Entry(tb, m).key /\ ~(m <= findindex(tb, x))
                                 /\ \A j \in InUse(tb) : j <= findindex(tb, x) <=> j < m
<1> DEFINE f == findindex(tb, x)
           U == InUse(tb)
           I == {i \in (f + 1)..(Len(tb.array) + Len(tb.node)) : Entry(tb, i).val # nil}
           k == luaH_next(tb, x)
<1>1. f \in Nat
  BY KnownIs
<1>2. k = IF I = {} THEN nil ELSE Entry(tb, Min(I)).key
  BY DEF luaH_next
<1>3. \A j \in U : j \in Nat /\ j # 0
  BY UsedEntry
<1>4. \A j : j \in I <=> j \in U /\ ~(j <= f)
  <2>1. Len(tb.array) \in Nat /\ Len(tb.node) \in Nat
    BY TableIs DEF Good
  <2> DEFINE n == Len(tb.array) + Len(tb.node)
  <2>4. \A a, b \in Nat : a + b \in Nat
    OBVIOUS
  <2>2. n \in Nat
    BY <2>1, <2>4, Zenon
  <2> HIDE DEF n, f
  <2>3. \A j : j \in (f + 1)..n <=> j \in 1..n /\ ~(j <= f)
    BY <2>2, <1>1
  <2> USE DEF n
  <2> QED
    BY <2>3 DEF InUse
<1> HIDE DEF I, U, f, k
<1>5. CASE I = {}
  BY <1>2, <1>4, <1>5 DEF U, f, k
<1>6. CASE I # {}
  <2>1. I \subseteq Nat
    BY <1>3, <1>4
  <2>2. Min(I) \in I /\ \A j \in I : Min(I) <= j
    BY <1>6, <2>1, LeastOf DEF Min
  <2> DEFINE m == Min(I)
  <2>3. m \in U /\ ~(m <= f) /\ k = Entry(tb, m).key /\ m \in Nat
    BY <2>2, <1>2, <1>3, <1>4, <1>6
  <2>4. ASSUME NEW j \in U
        PROVE  j <= f <=> j < m
    <3>1. j \in Nat
      BY <1>3
    <3>2. ~(j <= f) => m <= j
      BY <1>4, <2>2
    <3> HIDE DEF m
    <3> QED
      BY <3>1, <3>2, <2>3, <1>1
  <2> HIDE DEF m
  <2> QED
    BY <2>3, <2>4 DEF U, f, k
<1> QED
  BY <1>5, <1>6

\* The keys that the traversal has returned, and the last of them.
After(r, k) == [r EXCEPT !.keys = @ \cup {k}, !.last = k]
Visiting(r, k) == [on |-> r.on, keys |-> r.keys \cup {k}, last |-> k]
LEMMA Returned ==
  ASSUME NEW r, r = [on |-> r.on, keys |-> r.keys, last |-> r.last], NEW k
  PROVE  After(r, k) = Visiting(r, k)
<1> DEFINE L == r.keys \cup {k}
           s == [r EXCEPT !.keys = L]
<1>1. PICK on, K, l : r = [keys |-> K, last |-> l, on |-> on]
  OBVIOUS
<1>2. r.on = on /\ r.keys = K /\ r.last = l
  BY <1>1
<1> HIDE DEF L
<1>3. s = [keys |-> L, last |-> l, on |-> on]
  BY <1>1
<1> HIDE DEF s
<1>4. [s EXCEPT !.last = k] = [keys |-> L, last |-> k, on |-> on]
  BY <1>3
<1>5. [keys |-> L, last |-> k, on |-> on] = [on |-> on, keys |-> L, last |-> k]
  OBVIOUS
<1>6. [r EXCEPT !.keys = L, !.last = k] = [on |-> on, keys |-> L, last |-> k]
  BY <1>4, <1>5, Zenon DEF s
<1> QED
  BY <1>2, <1>6, Zenon DEF L, After, Visiting

\* next returns an entry not visited before, or has visited them all.
LEMMA NextStep ==
  ASSUME IInv, NextKey
  PROVE  /\ IInv'
         /\ LET k == luaH_next(t, trav.last) IN
            IF k = nil THEN trav' = Idle /\ Present(t) \subseteq trav.keys
            ELSE /\ k \in Present(t) \ trav.keys
                 /\ trav' = [on |-> trav.on, keys |-> trav.keys \cup {k}, last |-> k]
<1> DEFINE x == trav.last
           k == luaH_next(t, x)
           f == findindex(t, x)
           new == [on |-> trav.on, keys |-> trav.keys \cup {k}, last |-> k]
<1>1. /\ Good(t) /\ Going(t, trav) /\ Trav(trav) /\ x \in Value /\ KnownAt(t, x) /\ trav.keys \subseteq Stored
      /\ trav = [on |-> trav.on, keys |-> trav.keys, last |-> trav.last]
  BY DEF IInv, Going, Trav
<1>2. trav.on /\ t' = t /\ trav' = IF k = nil THEN Idle ELSE [trav EXCEPT !.keys = @ \cup {k}, !.last = k]
  BY DEF NextKey
<1>3. \A j \in InUse(t) : Entry(t, j).key \in trav.keys <=> j <= f
  BY <1>1, <1>2 DEF Going, Ordered
<1>4. \/ k = nil /\ \A j \in InUse(t) : j <= f
      \/ \E m \in InUse(t) : /\ k = Entry(t, m).key /\ ~(m <= f)
                             /\ \A j \in InUse(t) : j <= f <=> j < m
  BY <1>1, NextIs
<1>5. [trav EXCEPT !.keys = @ \cup {k}, !.last = k] = new
  <2> HIDE DEF k
  <2>1. After(trav, k) = Visiting(trav, k)
    BY <1>1, Returned DEF Trav
  <2> QED
    BY <2>1 DEF After, Visiting
<1> HIDE DEF k, f, x
<1>6. CASE k = nil
  <2>1. \A j \in InUse(t) : j <= f
    <3>1. \A m \in InUse(t) : Entry(t, m).key # nil
      BY <1>1, UsedEntry, StoredIs
    <3> QED
      BY <3>1, <1>4, <1>6
  <2>2. Present(t) \subseteq trav.keys
    BY <1>1, <1>3, <2>1, PresentEntry
  <2>3. trav' = Idle
    BY <1>2, <1>6
  <2>4. IInv'
    BY <2>3, <1>1, <1>2, GoingIdle DEF IInv
  <2> QED
    BY <2>2, <2>3, <2>4, <1>6 DEF k, x
<1>7. CASE k # nil
  <2>1. PICK m \in InUse(t) : /\ k = Entry(t, m).key /\ ~(m <= f)
                              /\ \A j \in InUse(t) : j <= f <=> j < m
    BY <1>4, <1>7
  <2>2. k \in Present(t) /\ k \in Stored /\ findindex(t, k) = m
    BY <1>1, <2>1, UsedEntry
  <2>3. k \notin trav.keys
    BY <1>3, <2>1
  <2>4. trav' = new
    BY <1>2, <1>5, <1>7
  <2>5. ASSUME NEW j \in InUse(t)
        PROVE  Entry(t, j).key \in trav.keys \cup {k} <=> j <= m
    <3>1. findindex(t, Entry(t, j).key) = j /\ j \in Nat /\ m \in Nat
      BY <1>1, UsedEntry
    <3>2. Entry(t, j).key = k <=> j = m
      BY <3>1, <2>1, <2>2
    <3>3. Entry(t, j).key \in trav.keys <=> j < m
      BY <1>3, <2>1
    <3>4. j <= m <=> j < m \/ j = m
      BY <3>1
    <3> QED
      BY <3>2, <3>3, <3>4
  <2>6. KnownAt(t, k) /\ k \in Value
    BY <1>1, <2>2, PresentKnown
  <2>7. new.on = trav.on /\ new.keys = trav.keys \cup {k} /\ new.last = k
    OBVIOUS
  <2>12. new = [on |-> new.on, keys |-> new.keys, last |-> new.last]
    OBVIOUS
  <2> HIDE DEF new
  <2>13. new.on \in BOOLEAN /\ new.on
    BY <1>1, <1>2, <2>7, Zenon DEF Trav
  <2>14. new.keys \subseteq Stored /\ new.last \in Value
    BY <1>1, <2>2, <2>6, <2>7
  <2>8. Trav(new)
    BY <2>12, <2>13, <2>14, Zenon DEF Trav
  <2>9. Ordered(t, new)
    BY <2>2, <2>5, <2>7 DEF Ordered
  <2>10. Going(t, new)
    BY <2>6, <2>7, <2>8, <2>9 DEF Going
  <2>11. IInv'
    BY <2>4, <2>10, <1>1, <1>2 DEF IInv
  <2> QED
    BY <2>2, <2>3, <2>4, <2>11, <1>7 DEF k, x, new
<1> QED
  BY <1>6, <1>7

\* A traversal starts before the first entry.
LEMMA FirstStep ==
  ASSUME IInv, First
  PROVE  IInv' /\ trav' = [on |-> TRUE, keys |-> {}, last |-> nil] /\ trav = Idle
<1> DEFINE new == [on |-> TRUE, keys |-> {}, last |-> nil]
<1>1. Good(t) /\ Trav(trav) /\ ~trav.on /\ t' = t
  BY DEF IInv, Going, First
<1>2. trav' = new /\ trav = Idle
  BY <1>1 DEF First, Trav, Idle
<1>3. Trav(new) /\ KnownAt(t, nil)
  BY DEF Trav, KnownAt, Value
<1>4. findindex(t, nil) = 0
  BY DEF findindex
<1>5. Ordered(t, new)
  <2>1. ASSUME NEW j \in InUse(t)
        PROVE  ~(j <= 0)
    <3>1. j \in Nat /\ j # 0
      BY <1>1, UsedEntry
    <3> QED
      BY <3>1
  <2> QED
    BY <2>1, <1>4 DEF Ordered
<1>6. Going(t, new)
  BY <1>3, <1>5 DEF Going
<1> QED
  BY <1>1, <1>2, <1>6 DEF IInv

LEMMA Step ==
  ASSUME IInv, [Next]_vars
  PROVE  IInv'
<1>1. ASSUME NEW k \in Keys, NEW fails \in BOOLEAN, Assign(k, Normal(k), fails) \/ Assign(k, nil, fails)
      PROVE  IInv'
  BY <1>1, AssignStep
<1>2. ASSUME NEW n \in 1..twoto[MAXABITS], NEW fails \in BOOLEAN, Setlist(n, fails)
      PROVE  IInv'
  <2>1. n \in Nat
    BY TwoTo, TablesAssumption
  <2> QED
    BY <1>2, <2>1, SetlistStep
<1>3. ASSUME NEW k \in Keys, Collect(k)
      PROVE  IInv'
  BY <1>3, CollectStep
<1>4. ASSUME First \/ NextKey
      PROVE  IInv'
  BY <1>4, FirstStep, NextStep
<1>5. ASSUME UNCHANGED vars
      PROVE  IInv'
  BY <1>5 DEF IInv, vars
<1> QED
  BY <1>1, <1>2, <1>3, <1>4, <1>5 DEF Next

\* Every reachable table and traversal satisfies the inductive invariant.
THEOREM Invariant == Spec => []IInv
<1>1. Init => IInv
  BY InitInv
<1>2. IInv /\ [Next]_vars => IInv'
  BY Step
<1> QED
  BY <1>1, <1>2, PTL DEF Spec

\* The links lead to nodes in use, the free nodes are those that getfreepos finds, and an entry
\* holds its own value (ltable.c: luaH_newkey, luaH_resize), whatever a program assigns.
THEOREM TableWellFormed == Spec => []WellFormed
<1>1. IInv => WellFormed
  <2> SUFFICES ASSUME IInv PROVE WellFormed
    OBVIOUS
  <2>1. Shape(t) /\ OwnValues(t) /\ FreeNodes(t) /\ LinksOK(t)
    BY DEF IInv, Good
  <2>2. DOMAIN t.node = Pos(t)
    BY <2>1, TableIs
  <2>3. t \in Table /\ t.lastfree \in 0..Len(t.node)
    BY <2>1 DEF Shape
  <2>4. ASSUME NEW i \in Pos(t)
        PROVE  LET n == t.node[i] IN
               /\ n.next # 0 => i + n.next \in Pos(t) /\ t.node[i + n.next].key # nil
               /\ n.val # nil => ~n.dead /\ n.val = n.key
               /\ n.key = nil => n.next = 0 /\ n.val = nil /\ i <= t.lastfree
    BY <2>1 DEF OwnValues, FreeNodes, LinksOK, Linked, Succ
  <2> QED
    BY <2>2, <2>3, <2>4 DEF WellFormed
<1> QED
  BY <1>1, Invariant, PTL

\* next always knows the key it returned, even after its entry was cleared, its key died or was
\* entered again, and finds every entry in use at its own place (findindex, luaH_next).
THEOREM NextAlwaysKnows == Spec => []NextKnowsKey
<1>1. IInv => NextKnowsKey
  <2> SUFFICES ASSUME IInv PROVE NextKnowsKey
    OBVIOUS
  <2>1. Good(t) /\ KnownAt(t, trav.last) /\ trav.last \in Value
    BY DEF IInv, Going, Trav
  <2>2. findindex(t, trav.last) >= 0
    <3>1. findindex(t, trav.last) \in Nat
      BY <2>1, KnownIs
    <3> QED
      BY <3>1
  <2>3. ASSUME NEW i \in DOMAIN t.node, t.node[i].val # nil
        PROVE  findindex(t, t.node[i].key) = i + Len(t.array)
    <3>1. i \in Pos(t) /\ Len(t.array) \in Nat
      BY <2>1, TableIs DEF Good
    <3>2. /\ Live(t, i) /\ t.node[i].key \in Stored /\ ~InArray(t, t.node[i].key)
      BY <2>1, <2>3, <3>1, UsedIsLive
    <3>3. Position(t, t.node[i].key, TRUE) = i /\ i # 0
      BY <2>1, <3>1, <3>2, LiveFound
    <3>4. t.node[i].key # nil
      BY <3>2, StoredIs
    <3> QED
      BY <3>2, <3>3, <3>4 DEF findindex
  <2> QED
    BY <2>2, <2>3 DEF NextKnowsKey
<1> QED
  BY <1>1, Invariant, PTL

-----------------------------------------------------------------------------
(* The length operator *)

\* A step that is repeated from a stays in the set that it maps to itself.
LEMMA Repeated ==
  ASSUME NEW S, NEW a \in S, NEW f \in [S -> S]
  PROVE  \E w \in [Nat -> S] : w = [s \in Nat |-> IF s = 0 THEN a ELSE f[w[s - 1]]]
<1> DEFINE h == [y \in Nat \X S |-> f[y[2]]]
<1>1. h \in [Nat \X S -> S]
  OBVIOUS
<1>2. PICK w \in [Nat -> S] : w[0] = a /\ \A n \in Nat : w[n + 1] = h[<<n, w[n]>>]
  <2> HIDE DEF h
  <2>1. Iterates(S, a, h) # {}
    BY <1>1, RecursionOnNat
  <2> QED
    BY <2>1 DEF Iterates
<1>3. \A n \in Nat : w[n + 1] = f[w[n]]
  BY <1>2
<1>4. ASSUME NEW s \in Nat
      PROVE  w[s] = IF s = 0 THEN a ELSE f[w[s - 1]]
  <2>1. CASE s = 0
    BY <1>2, <2>1
  <2>2. CASE s # 0
    <3>1. s - 1 \in Nat /\ (s - 1) + 1 = s
      BY <2>2
    <3>2. w[(s - 1) + 1] = f[w[s - 1]]
      BY <1>3, <3>1
    <3> QED
      BY <2>2, <3>1, <3>2
  <2> QED
    BY <2>1, <2>2
<1>5. w = [s \in Nat |-> w[s]]
  BY <1>2
<1>6. w = [s \in Nat |-> IF s = 0 THEN a ELSE f[w[s - 1]]]
  BY <1>4, <1>5
<1> QED
  BY <1>2, <1>6

Has(tb, i) == getint(tb, i) # nil
Border(tb, i) == i \in Nat /\ (i = 0 \/ Has(tb, i)) /\ ~Has(tb, i + 1)

\* No integer above LUA_MAXINTEGER is a key.
LEMMA HasIs ==
  ASSUME NEW tb, Good(tb), NEW i \in Int, Has(tb, i)
  PROVE  i <= MAXINTEGER
<1> DEFINE x == [tt |-> "int", h |-> i]
           p == Position(tb, x, FALSE)
<1>1. luaH_get(tb, x) # nil
  BY DEF Has, getint
<1>2. x.tt = "int" /\ x.h = i /\ x # nil
  BY TablesAssumption
<1>3. x \in Value
  <2>1. CASE InArray(tb, x)
    <3>1. i \in 1..Len(tb.array) /\ tb.array[i] # nil
      BY <2>1, <1>1, <1>2 DEF InArray, luaH_get
    <3>2. tb.array[i] = x /\ tb.array[i] \in Value
      BY <3>1, TableIs DEF Good, OwnValues
    <3> QED
      BY <3>2
  <2>2. CASE ~InArray(tb, x)
    <3>1. p # 0 /\ tb.node[p].val # nil
      <4> HIDE DEF x
      <4> QED
        BY <2>2, <1>1 DEF luaH_get
    <3>2. p \in Pos(tb) /\ tb.node[p].key = x
      <4> HIDE DEF x
      <4> QED
        BY <3>1, PositionIn DEF Good
    <3> HIDE DEF p, x
    <3> QED
      BY <3>2, NodeIs DEF Good
  <2> QED
    BY <2>1, <2>2
<1> HIDE DEF x
<1> QED
  BY <1>2, <1>3, ValueIs, StoredIs

\* At the end of the array part.
LEMMA HasLast ==
  ASSUME NEW tb, Good(tb)
  PROVE  /\ Len(tb.array) \in Nat
         /\ Len(tb.array) > 0 => (Has(tb, Len(tb.array)) <=> tb.array[Len(tb.array)] # nil)
         /\ tb.node = <<>> => ~Has(tb, Len(tb.array) + 1)
<1> DEFINE n == Len(tb.array)
<1>1. n \in Nat
  BY TableIs DEF Good
<1>2. ASSUME n > 0
      PROVE  Has(tb, n) <=> tb.array[n] # nil
  <2>1. n \in 1..n
    <3> HIDE DEF n
    <3> QED
      BY <1>1, <1>2
  <2> QED
    BY <2>1 DEF Has, getint, luaH_get, InArray
<1>3. ASSUME tb.node = <<>>
      PROVE  ~Has(tb, n + 1)
  <2> DEFINE x == [tt |-> "int", h |-> n + 1]
  <2>1. n + 1 \notin 1..n
    <3> HIDE DEF n
    <3> QED
      BY <1>1
  <2>2. ~InArray(tb, x)
    BY <2>1 DEF InArray
  <2>3. Position(tb, x, FALSE) = 0
    BY <1>3 DEF Position
  <2> HIDE DEF x
  <2>4. luaH_get(tb, x) = nil
    BY <2>2, <2>3 DEF luaH_get
  <2> QED
    BY <2>4 DEF Has, getint, x
<1> QED
  BY <1>1, <1>2, <1>3

Bracket(tb, w) == w \in Nat \X Nat /\ w[1] < w[2] /\ (w[1] = 0 \/ Has(tb, w[1]))

\* The interval of the binary search gets shorter and still holds a border.
LEMMA HalveStep ==
  ASSUME NEW tb, NEW w, Bracket(tb, w), ~Has(tb, w[2])
  PROVE  LET u == Halve(tb, w[1], w[2]) IN
         /\ Bracket(tb, u) /\ ~Has(tb, u[2])
         /\ w[2] - w[1] = 1 => u = w
         /\ w[2] - w[1] # 1 => u[2] - u[1] < w[2] - w[1]
<1>1. PICK i \in Nat, j \in Nat : w = <<i, j>>
  BY DEF Bracket
<1>2. w[1] = i /\ w[2] = j /\ i < j /\ (i = 0 \/ Has(tb, i)) /\ ~Has(tb, j)
  BY <1>1 DEF Bracket
<1> DEFINE m == (i + j) \div 2
           u == Halve(tb, i, j)
<1>3. CASE j - i = 1
  <2>1. u = <<i, j>>
    BY <1>3 DEF Halve
  <2> QED
    BY <2>1, <1>1, <1>2, <1>3 DEF Bracket
<1>4. CASE j - i # 1
  <2>1. m \in Nat /\ i < m /\ m < j /\ ~(j - i <= 1)
    BY <1>2, <1>4
  <2>2. u = IF ~Has(tb, m) THEN <<i, m>> ELSE <<m, j>>
    BY <2>1 DEF Halve, Has
  <2> HIDE DEF m, u
  <2>3. CASE Has(tb, m)
    <3>1. u = <<m, j>> /\ j - m < j - i
      BY <2>1, <2>2, <2>3
    <3> QED
      BY <3>1, <2>1, <2>3, <1>2, <1>4 DEF Bracket, u
  <2>4. CASE ~Has(tb, m)
    <3>1. u = <<i, m>> /\ m - i < j - i
      BY <2>1, <2>2, <2>4
    <3> QED
      BY <3>1, <2>1, <2>4, <1>2, <1>4 DEF Bracket, u
  <2> QED
    BY <2>3, <2>4
<1> QED
  BY <1>3, <1>4

\* The binary search between a present index, or 0, and an absent one ends at a border.
LEMMA BinaryIs ==
  ASSUME NEW tb, NEW i0 \in Nat, NEW j0 \in Nat, Bracket(tb, <<i0, j0>>), ~Has(tb, j0)
  PROVE  Border(tb, binary(tb, i0, j0))
<1> DEFINE S == {w \in Nat \X Nat : Bracket(tb, w) /\ ~Has(tb, w[2])}
           a == <<i0, j0>>
           f == [w \in S |-> Halve(tb, w[1], w[2])]
           E(v) == v = [s \in Nat |-> IF s = 0 THEN a ELSE Halve(tb, v[s - 1][1], v[s - 1][2])]
<1>1. \A w : w \in S <=> Bracket(tb, w) /\ ~Has(tb, w[2])
  BY DEF Bracket
<1>2. a \in S
  BY <1>1
<1>3. f \in [S -> S]
  <2>1. ASSUME NEW w \in S PROVE Halve(tb, w[1], w[2]) \in S
    <3> HIDE DEF S
    <3> QED
      BY <1>1, HalveStep
  <2> HIDE DEF S
  <2> QED
    BY <2>1
<1>4. \A w \in S : f[w] = Halve(tb, w[1], w[2])
  OBVIOUS
<1> HIDE DEF f, S, a
<1>5. PICK w0 \in [Nat -> S] : w0 = [s \in Nat |-> IF s = 0 THEN a ELSE f[w0[s - 1]]]
  BY <1>2, <1>3, Repeated
<1>6. E(w0)
  <2>1. ASSUME NEW s \in Nat
        PROVE  (IF s = 0 THEN a ELSE f[w0[s - 1]])
                 = IF s = 0 THEN a ELSE Halve(tb, w0[s - 1][1], w0[s - 1][2])
    <3>1. CASE s = 0
      BY <3>1
    <3>2. CASE s # 0
      <4>1. s - 1 \in Nat
        BY <3>2
      <4>2. w0[s - 1] \in S
        BY <4>1
      <4> QED
        BY <3>2, <4>2, <1>4
    <3> QED
      BY <3>1, <3>2
  <2>2. [s \in Nat |-> IF s = 0 THEN a ELSE f[w0[s - 1]]]
          = [s \in Nat |-> IF s = 0 THEN a ELSE Halve(tb, w0[s - 1][1], w0[s - 1][2])]
    BY <2>1
  <2> QED
    BY <1>5, <2>2
<1> HIDE DEF E
<1> DEFINE v == CHOOSE v : E(v)
<1>7. E(v)
  BY <1>6
<1> HIDE DEF v
<1>8. binary(tb, i0, j0) = v[j0][1]
  BY DEF binary, v, E, a
<1>9. v[0] = a
  BY <1>7 DEF E
<1>10. ASSUME NEW s \in Nat PROVE v[s + 1] = Halve(tb, v[s][1], v[s][2])
  <2>1. s + 1 \in Nat /\ s + 1 # 0 /\ (s + 1) - 1 = s
    OBVIOUS
  <2>2. v[s + 1] = Halve(tb, v[(s + 1) - 1][1], v[(s + 1) - 1][2])
    BY <1>7, <2>1 DEF E
  <2> QED
    BY <2>1, <2>2
<1> DEFINE Near(w, s) == w[2] - w[1] = 1 \/ w[2] - w[1] + s <= j0
           G == {s \in Nat : v[s] \in S /\ Near(v[s], s)}
<1>11. 0 \in G
  BY <1>2, <1>9 DEF a
<1>12. ASSUME NEW s \in Nat, s \in G
       PROVE  s + 1 \in G
  <2> DEFINE w == v[s]
             u == v[s + 1]
  <2>1. w \in S /\ Near(w, s)
    BY <1>12
  <2>2. u = Halve(tb, w[1], w[2])
    BY <1>10
  <2>3. /\ Bracket(tb, u) /\ ~Has(tb, u[2])
        /\ w[2] - w[1] = 1 => u = w
        /\ w[2] - w[1] # 1 => u[2] - u[1] < w[2] - w[1]
    BY <2>1, <2>2, <1>1, HalveStep
  <2>4. u \in S
    BY <2>3, <1>1
  <2>5. Near(u, s + 1)
    <3>1. CASE w[2] - w[1] = 1
      BY <3>1, <2>3
    <3>2. CASE w[2] - w[1] # 1
      <4>1. w[2] - w[1] + s <= j0 /\ u[2] - u[1] < w[2] - w[1]
        BY <3>2, <2>1, <2>3
      <4>2. w[1] \in Nat /\ w[2] \in Nat /\ u[1] \in Nat /\ u[2] \in Nat
        BY <2>1, <2>3, <1>1 DEF Bracket
      <4> HIDE DEF w, u
      <4>3. u[2] - u[1] + (s + 1) <= j0
        BY <4>1, <4>2
      <4> QED
        BY <4>3
    <3> QED
      BY <3>1, <3>2
  <2> QED
    BY <2>4, <2>5
<1>13. Nat \subseteq G
  <2> HIDE DEF G
  <2> QED
    BY <1>11, <1>12, NatInd
<1>14. v[j0] \in S /\ Near(v[j0], j0)
  BY <1>13
<1> DEFINE i == v[j0][1]
           j == v[j0][2]
<1>15. i \in Nat /\ j \in Nat /\ i < j /\ (i = 0 \/ Has(tb, i)) /\ ~Has(tb, j)
  BY <1>14, <1>1 DEF Bracket
<1>16. j - i = 1 \/ j - i + j0 <= j0
  BY <1>14
<1> HIDE DEF i, j
<1>17. j = i + 1
  BY <1>15, <1>16
<1> QED
  BY <1>8, <1>15, <1>17 DEF Border, i

\* Doubling starts from a border candidate and keeps it.
LEMMA DoubleStep ==
  ASSUME NEW tb, NEW w, Bracket(tb, w)
  PROVE  Bracket(tb, Double(tb, w[1], w[2]))
<1>1. PICK i \in Nat, j \in Nat : w = <<i, j>>
  BY DEF Bracket
<1>2. w[1] = i /\ w[2] = j /\ i < j /\ (i = 0 \/ Has(tb, i))
  BY <1>1 DEF Bracket
<1>3. Double(tb, i, j) = <<i, j>> \/ (Double(tb, i, j) = <<j, 2 * j>> /\ Has(tb, j))
  BY DEF Double, Has
<1>4. 2 * j \in Nat /\ j < 2 * j
  BY <1>2
<1> QED
  BY <1>1, <1>2, <1>3, <1>4 DEF Bracket

\* unbound_search: by the binary search, or by counting up to the first absent index.
LEMMA UnboundIs ==
  ASSUME NEW tb, Good(tb), NEW j0 \in Nat, j0 = 0 \/ Has(tb, j0)
  PROVE  Border(tb, unbound_search(tb, j0))
<1> DEFINE S == {w \in Nat \X Nat : Bracket(tb, w)}
           a == <<j0, j0 + 1>>
           f == [w \in S |-> Double(tb, w[1], w[2])]
           E(v) == v = [s \in Nat |-> IF s = 0 THEN a ELSE Double(tb, v[s - 1][1], v[s - 1][2])]
<1>1. \A w : w \in S <=> Bracket(tb, w)
  BY DEF Bracket
<1>2. a \in S
  BY <1>1 DEF Bracket
<1>3. f \in [S -> S]
  <2>1. ASSUME NEW w \in S PROVE Double(tb, w[1], w[2]) \in S
    <3> HIDE DEF S
    <3> QED
      BY <1>1, DoubleStep
  <2> HIDE DEF S
  <2> QED
    BY <2>1
<1>4. \A w \in S : f[w] = Double(tb, w[1], w[2])
  OBVIOUS
<1> HIDE DEF f, S, a
<1>5. PICK w0 \in [Nat -> S] : w0 = [s \in Nat |-> IF s = 0 THEN a ELSE f[w0[s - 1]]]
  BY <1>2, <1>3, Repeated
<1>6. E(w0)
  <2>1. ASSUME NEW s \in Nat
        PROVE  (IF s = 0 THEN a ELSE f[w0[s - 1]])
                 = IF s = 0 THEN a ELSE Double(tb, w0[s - 1][1], w0[s - 1][2])
    <3>1. CASE s = 0
      BY <3>1
    <3>2. CASE s # 0
      <4>1. s - 1 \in Nat
        BY <3>2
      <4>2. w0[s - 1] \in S
        BY <4>1
      <4> QED
        BY <3>2, <4>2, <1>4
    <3> QED
      BY <3>1, <3>2
  <2>2. [s \in Nat |-> IF s = 0 THEN a ELSE f[w0[s - 1]]]
          = [s \in Nat |-> IF s = 0 THEN a ELSE Double(tb, w0[s - 1][1], w0[s - 1][2])]
    BY <2>1
  <2> QED
    BY <1>5, <2>2
<1> HIDE DEF E
<1> DEFINE v == CHOOSE v : E(v)
<1>7. E(v)
  BY <1>6
<1> HIDE DEF v
<1> DEFINE found == v[MAXINTEGER]
           N == {i \in 1..(MAXINTEGER + 1) : getint(tb, i) = nil}
<1>8. unbound_search(tb, j0) = IF getint(tb, found[2]) = nil THEN binary(tb, found[1], found[2]) ELSE Min(N) - 1
  BY DEF unbound_search, v, E, a
<1>9. v[0] = a
  BY <1>7 DEF E
<1>10. ASSUME NEW s \in Nat PROVE v[s + 1] = Double(tb, v[s][1], v[s][2])
  <2>1. s + 1 \in Nat /\ s + 1 # 0 /\ (s + 1) - 1 = s
    OBVIOUS
  <2>2. v[s + 1] = Double(tb, v[(s + 1) - 1][1], v[(s + 1) - 1][2])
    BY <1>7, <2>1 DEF E
  <2> QED
    BY <2>1, <2>2
<1> DEFINE G == {s \in Nat : v[s] \in S}
<1>11. Nat \subseteq G
  <2>1. 0 \in G
    BY <1>2, <1>9
  <2>2. ASSUME NEW s \in Nat, s \in G PROVE s + 1 \in G
    <3>1. Bracket(tb, v[s])
      BY <2>2, <1>1
    <3>2. Bracket(tb, v[s + 1])
      BY <3>1, <1>10, DoubleStep
    <3> QED
      BY <3>2, <1>1
  <2> HIDE DEF G
  <2> QED
    BY <2>1, <2>2, NatInd
<1>12. Bracket(tb, found)
  <2>1. MAXINTEGER \in Nat
    BY TablesAssumption
  <2> QED
    BY <2>1, <1>1, <1>11
<1>13. found = <<found[1], found[2]>> /\ found[1] \in Nat /\ found[2] \in Nat
  BY <1>12 DEF Bracket
<1>14. CASE getint(tb, found[2]) = nil
  <2>1. ~Has(tb, found[2])
    BY <1>14 DEF Has
  <2> HIDE DEF found
  <2> DEFINE p == found[1]
             q == found[2]
  <2>2. Bracket(tb, <<p, q>>) /\ ~Has(tb, q) /\ p \in Nat /\ q \in Nat
    BY <2>1, <1>12, <1>13
  <2> HIDE DEF p, q
  <2>3. Border(tb, binary(tb, p, q))
    BY <2>2, BinaryIs
  <2> QED
    BY <2>3, <1>8, <1>14 DEF p, q
<1>15. CASE getint(tb, found[2]) # nil
  <2>1. N \subseteq Nat /\ N # {}
    <3>1. MAXINTEGER \in Nat
      BY TablesAssumption
    <3>2. MAXINTEGER + 1 \in 1..(MAXINTEGER + 1) /\ MAXINTEGER + 1 \in Int /\ ~(MAXINTEGER + 1 <= MAXINTEGER)
      BY <3>1
    <3>3. ~Has(tb, MAXINTEGER + 1)
      BY <3>2, HasIs
    <3>4. MAXINTEGER + 1 \in N
      BY <3>2, <3>3 DEF Has
    <3> QED
      BY <3>1, <3>4
  <2> DEFINE m == Min(N)
  <2>2. m \in N /\ \A i \in N : m <= i
    <3> HIDE DEF N
    <3> QED
      BY <2>1, LeastOf DEF Min
  <2> HIDE DEF m
  <2>3. m \in 1..(MAXINTEGER + 1) /\ ~Has(tb, m) /\ MAXINTEGER \in Nat
    BY <2>2, TablesAssumption DEF Has
  <2>4. m - 1 \in Nat /\ (m - 1) + 1 = m
    BY <2>3
  <2>5. m - 1 = 0 \/ Has(tb, m - 1)
    <3>1. CASE m - 1 # 0
      <4>1. m - 1 \in 1..(MAXINTEGER + 1) /\ ~(m <= m - 1)
        BY <2>3, <2>4, <3>1
      <4>2. m - 1 \notin N
        BY <4>1, <2>2
      <4> QED
        BY <4>1, <4>2 DEF Has
    <3> QED
      BY <3>1
  <2>6. unbound_search(tb, j0) = m - 1
    BY <1>8, <1>15 DEF m
  <2> QED
    BY <2>3, <2>4, <2>5, <2>6 DEF Border
<1> QED
  BY <1>14, <1>15

\* luaH_getn.
LEMMA GetnIs ==
  ASSUME NEW tb, Good(tb)
  PROVE  Border(tb, luaH_getn(tb))
<1> DEFINE n == Len(tb.array)
           out == n > 0 /\ tb.array[n] = nil
<1>1. /\ n \in Nat
      /\ n > 0 => (Has(tb, n) <=> tb.array[n] # nil)
      /\ tb.node = <<>> => ~Has(tb, n + 1)
  BY HasLast
<1>2. luaH_getn(tb) = CASE out                   -> binary(tb, 0, n)
                        [] ~out /\ tb.node = <<>> -> n
                        [] OTHER                 -> unbound_search(tb, n)
  BY DEF luaH_getn
<1>3. out => n > 0 /\ ~Has(tb, n)
  BY <1>1
<1>4. ~out => n = 0 \/ Has(tb, n)
  <2>1. n = 0 \/ n > 0
    <3> HIDE DEF n
    <3> QED
      BY <1>1
  <2> QED
    BY <2>1, <1>1
<1> HIDE DEF n, out
<1>5. CASE out
  <2>1. Bracket(tb, <<0, n>>)
    BY <1>1, <1>3, <1>5 DEF Bracket
  <2>2. Border(tb, binary(tb, 0, n))
    BY <2>1, <1>1, <1>3, <1>5, BinaryIs
  <2> QED
    BY <2>2, <1>2, <1>5
<1>6. CASE ~out /\ tb.node = <<>>
  BY <1>1, <1>2, <1>4, <1>6 DEF Border
<1>7. CASE ~out /\ tb.node # <<>>
  <2>1. Border(tb, unbound_search(tb, n))
    BY <1>1, <1>4, <1>7, UnboundIs
  <2> QED
    BY <2>1, <1>2, <1>7
<1> QED
  BY <1>5, <1>6, <1>7

\* The length operator returns a border of every table that a program can build (luaH_getn).
THEOREM LengthIsAlwaysBorder == Spec => []LengthIsBorder
<1>1. IInv => LengthIsBorder
  <2> SUFFICES ASSUME IInv PROVE LengthIsBorder
    OBVIOUS
  <2>1. Border(t, luaH_getn(t))
    BY GetnIs DEF IInv
  <2> QED
    BY <2>1 DEF LengthIsBorder, Border, Has
<1> QED
  BY <1>1, Invariant, PTL

-----------------------------------------------------------------------------
(* The table implements the map *)

Contents(tb) == [k \in Stored |-> Get(tb, k)]

\* A program sees the keys that are present, each with its own value.
LEMMA ContentsAre ==
  ASSUME NEW tb, Good(tb)
  PROVE  Contents(tb) = [k \in Stored |-> IF k \in Present(tb) THEN k ELSE nil]
<1>1. ASSUME NEW k \in Stored
      PROVE  Get(tb, k) = IF k \in Present(tb) THEN k ELSE nil
  <2>1. Normal(k) = k
    BY StoredIs
  <2> QED
    BY <2>1, GetIs DEF Get
<1> QED
  BY <1>1 DEF Contents

LEMMA ContentsSame ==
  ASSUME NEW tb, Good(tb), NEW u, Good(u), Present(u) = Present(tb)
  PROVE  Contents(u) = Contents(tb)
BY ContentsAre

\* The abstract map has the same entries.
LEMMA MapPresent ==
  ASSUME Good(t)
  PROVE  Map!Present = Present(t)
<1>1. Map!Present = {k \in Stored : Contents(t)[k] # nil}
  BY DEF Map!Present, Contents
<1>2. \A k \in Stored : Contents(t)[k] = IF k \in Present(t) THEN k ELSE nil
  BY ContentsAre
<1>3. \A k \in Stored : k # nil
  BY StoredIs
<1>4. Present(t) \subseteq Stored
  BY DEF Present
<1> QED
  BY <1>1, <1>2, <1>3, <1>4

LEMMA MapInit ==
  ASSUME Init
  PROVE  Map!Init
<1>1. Good(t)
  BY InitInv DEF IInv
<1>2. t.array = <<>> /\ t.node = <<>> /\ trav = Idle
  BY DEF Init
<1>3. Present(t) = {}
  BY <1>2 DEF Present, InArray, Pos
<1>4. Contents(t) = [k \in Stored |-> nil]
  BY <1>1, <1>3, ContentsAre
<1> QED
  BY <1>2, <1>4 DEF Map!Init, Contents, Idle

LEMMA MapAssign ==
  ASSUME IInv, NEW k \in Keys, NEW v \in {Normal(k), nil}, NEW fails \in BOOLEAN, Assign(k, v, fails)
  PROVE  Map!Assign(Normal(k))
<1> DEFINE n == Normal(k)
<1>1. n \in Stored
  BY DEF Stored
<1>2. t' = Set(t, n, v, fails) /\ trav' = trav /\ (trav.on => luaH_get(t, n) # nil) /\ v \in {n, nil}
  BY DEF Assign, Get
<1> HIDE DEF n
<1>3. Good(t)
  BY DEF IInv
<1>4. /\ Good(t')
      /\ \/ Present(t') = (Present(t) \ {n}) \cup (IF v = nil THEN {} ELSE {n})
         \/ Present(t') = Present(t)
  BY <1>1, <1>2, <1>3, SetStep
<1>5. /\ \A x \in Stored : Contents(t)[x] = IF x \in Present(t) THEN x ELSE nil
      /\ \A x \in Stored : Contents(t')[x] = IF x \in Present(t') THEN x ELSE nil
  BY <1>3, <1>4, ContentsAre
<1>6. \A x \in Stored \ {n} : Contents(t')[x] = Contents(t)[x]
  BY <1>4, <1>5
<1>7. Contents(t')[n] \in Stored \cup {nil}
  BY <1>1, <1>5
<1>8. trav.on => Contents(t)[n] # nil
  <2>1. Contents(t)[n] = luaH_get(t, n)
    BY <1>1, StoredIs DEF Contents, Get
  <2> QED
    BY <2>1, <1>2
<1> QED
  BY <1>1, <1>2, <1>6, <1>7, <1>8 DEF Map!Assign, Contents, n

LEMMA MapNextKey ==
  ASSUME IInv, NextKey
  PROVE  Map!Next
<1> DEFINE k == luaH_next(t, trav.last)
<1>1. Good(t) /\ Map!Present = Present(t)
  BY MapPresent DEF IInv
<1>2. /\ trav.on /\ t' = t
      /\ trav' = IF k = nil THEN Idle ELSE [trav EXCEPT !.keys = @ \cup {k}, !.last = k]
  BY DEF NextKey
<1>3. /\ k = nil => Present(t) \subseteq trav.keys
      /\ k # nil => k \in Present(t) \ trav.keys
  BY NextStep
<1>4. Contents(t') = Contents(t)
  BY <1>2
<1> HIDE DEF k
<1>5. CASE k = nil
  <2>1. Map!End
    BY <1>1, <1>2, <1>3, <1>4, <1>5 DEF Map!End, Contents, Idle
  <2> QED
    BY <2>1 DEF Map!Next
<1>6. CASE k # nil
  <2>1. Map!Visit(k)
    BY <1>1, <1>2, <1>3, <1>4, <1>6 DEF Map!Visit, Contents
  <2>2. k \in Stored
    BY <1>3, <1>6 DEF Present
  <2> QED
    BY <2>1, <2>2 DEF Map!Next
<1> QED
  BY <1>5, <1>6

\* A step of the table is a step of the map, or changes nothing that a program sees.
LEMMA MapStep ==
  ASSUME IInv, [Next]_vars
  PROVE  [Map!Next]_<<[k \in Stored |-> Get(t, k)], trav>>
<1>1. ASSUME NEW k \in Keys, NEW fails \in BOOLEAN, Assign(k, Normal(k), fails) \/ Assign(k, nil, fails)
      PROVE  Map!Next
  <2>1. Map!Assign(Normal(k))
    BY <1>1, MapAssign
  <2> QED
    BY <2>1 DEF Map!Next, Stored
<1>2. ASSUME NEW n \in 1..twoto[MAXABITS], NEW fails \in BOOLEAN, Setlist(n, fails)
      PROVE  Contents(t') = Contents(t) /\ trav' = trav
  <2>1. n \in Nat
    BY TwoTo, TablesAssumption
  <2>2. Good(t) /\ Good(t') /\ Present(t') = Present(t)
    BY <1>2, <2>1, SetlistStep DEF IInv
  <2> QED
    BY <2>2, <1>2, ContentsSame DEF Setlist
<1>3. ASSUME NEW k \in Keys, Collect(k)
      PROVE  Contents(t') = Contents(t) /\ trav' = trav
  <2>1. Good(t) /\ Good(t') /\ Present(t') = Present(t)
    BY <1>3, CollectStep DEF IInv
  <2> QED
    BY <2>1, <1>3, ContentsSame DEF Collect
<1>4. ASSUME First
      PROVE  Map!Next
  <2>1. Map!First
    BY <1>4, FirstStep DEF First, Map!First
  <2> QED
    BY <2>1 DEF Map!Next
<1>5. ASSUME NextKey
      PROVE  Map!Next
  BY <1>5, MapNextKey
<1>6. ASSUME UNCHANGED vars
      PROVE  Contents(t') = Contents(t) /\ trav' = trav
  BY <1>6 DEF vars
<1> QED
  BY <1>1, <1>2, <1>3, <1>4, <1>5, <1>6 DEF Next, Contents

\* The table is the map that the program thinks it is, and a traversal visits every entry once
\* (ltable.c: luaH_get, luaH_newkey, luaH_resize, rehash, luaH_next).
THEOREM ImplementsMap == Spec => Implements
<1>1. Init => Map!Init
  BY MapInit
<1>2. IInv /\ [Next]_vars => [Map!Next]_<<[k \in Stored |-> Get(t, k)], trav>>
  BY MapStep
<1> QED
  BY <1>1, <1>2, Invariant, PTL DEF Spec, Implements, Map!Spec

=============================================================================
