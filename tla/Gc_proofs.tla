------------------------------- MODULE Gc_proofs -------------------------------
(***************************************************************************)
(* Theorems about Gc, for any heap, any program and any batch of the       *)
(* sweep, as long as no more objects have a finalizer than fit in a batch  *)
(* (see FewFinalizers).                                                    *)
(***************************************************************************)
EXTENDS Gc, SequenceTheorems, FiniteSetTheorems, Induction

\* udata2finalize moves an object that sweepgc may point into (lgc.c:791), and then the sweep
\* of tobefnz is not completed.  This needs more such objects than a batch takes.
FewFinalizers == Cardinality(Finalized) <= SweepMax

Strong == UNION {Table, Closure, Userdata}
Marking == {"propagate", "atomic"} \cup Atomically
Early == {"propagate", "atomic", "inside1"}
NonWhite(o) == mark[o] \in {"gray", "black"}

\* What is not about to be freed.
Kept(x) == x \in Obj => mark[x] \notin {"free", "other"}

Once(s) == \A i, j \in 1..Len(s) : s[i] = s[j] => i = j
AllIn(s, c) == \A i \in 1..Len(s) : mark[s[i]] = c

Types ==
  /\ TypeOK
  /\ lists \in [allgc : Seq(Obj), finobj : Seq(Finalized), tobefnz : Seq(Finalized)]
  /\ \A o \in Obj : mark[o] = "free" => node[o] = Empty
  /\ \A o \in Obj \ Tables : node[o].k = Nil
  /\ gcstate \notin {"converge1", "converge2"} => next = {}
  /\ gcstate \notin {"inside3", "converge2"} => orig = {}

\* An allocated object is once in one list.
Listed ==
  /\ Once(lists.allgc) /\ Once(lists.finobj) /\ Once(lists.tobefnz)
  /\ Range(lists.allgc) \cap Range(lists.finobj) = {}
  /\ Range(lists.tobefnz) \cap (Range(lists.allgc) \cup Range(lists.finobj)) = {}
  /\ Allocated = Range(lists.allgc) \cup Range(lists.finobj) \cup Range(lists.tobefnz)

\* What is kept leads to nothing that is not, not even by the key of an empty entry.
Closed ==
  /\ \A o \in stack : Kept(o)
  /\ \A o \in Obj : o \in Range(lists.finobj) \cup Range(lists.tobefnz) => Kept(o)
  /\ \A o \in Obj : mark[o] \notin {"free", "other"} => Kept(node[o].k) /\ Kept(node[o].v)

\* How far the sweep is.
UpTo(s, x) == \E j \in 1..Len(s) : s[j] = x /\ \A i \in 1..j : mark[s[i]] = "white"
SweptSoFar ==
  /\ gcstate = "swpallgc" => \/ sweepgc = "head"
                             \/ sweepgc = "null" /\ AllIn(lists.allgc, "white")
                             \/ UpTo(lists.allgc, sweepgc)
  /\ gcstate \in {"swpfinobj", "swptobefnz"} => sweepgc = "head"
  /\ gcstate = "swpend" => sweepgc = "null"
  /\ gcstate \in {"swpfinobj", "swptobefnz", "swpend", "callfin", "pause"} => AllIn(lists.allgc, "white")
  /\ gcstate \in {"swptobefnz", "swpend", "callfin", "pause"} => AllIn(lists.finobj, "white")
  /\ gcstate \in {"swpend", "callfin", "pause"} => AllIn(lists.tobefnz, "white")

\* Where an object is that was marked but not yet, or not for the last time, traversed; and what is
\* known of a weak table that was.
Pending(o) == o \in gray \/ (o \in grayagain /\ gcstate \in Early)
Settled(o) ==
  LET e == node[o] IN
  \/ o \in AllWeak /\ o \in allweak
  \/ o \in WeakValue /\ ~KeepInvariant /\ ~IsWhite(e.k) /\ (IsWhite(e.v) => o \in weak)
  \/ o \in Ephemeron /\ ~KeepInvariant
     /\ (o \in ephemeron \cup next \/ (~IsWhite(e.v) /\ (IsWhite(e.k) => o \in allweak)))

\* While the collector marks: a black object leads to nothing white, a gray one is in a list.
Coloured ==
  /\ \A o \in Obj : mark[o] # "other"
  /\ \A o \in Obj : mark[o] = "black" => o \in Strong /\ ~IsWhite(node[o].k) /\ ~IsWhite(node[o].v)
  /\ \A o \in Obj : mark[o] = "gray" => o \notin Userdata /\ (Pending(o) \/ Settled(o))
OnGrayLists ==
  /\ \A o \in Obj \cap UNION {gray, grayagain, weak, allweak, ephemeron, next} : NonWhite(o)
  /\ \A o \in orig : ~IsWhite(node[o].v)
RootsMarked ==
  /\ gcstate \in Early => Main \in gray \cup grayagain
  /\ gcstate \notin Early => Main \in gray \/ \A o \in stack : ~IsWhite(o)
Converged ==
  gcstate \in {"converge1", "converge2"} /\ ~changed => gray = {} /\ \A o \in ephemeron : Waits(o)
Saved ==
  gcstate \in {"inside3", "converge2"} =>
    \A o \in Obj : o \in Range(lists.finobj) \cup Range(lists.tobefnz) => ~IsWhite(o)
Marked ==
  gcstate \in Marking => Coloured /\ OnGrayLists /\ RootsMarked /\ Converged /\ Saved

IInv == Types /\ Listed /\ Closed /\ SweptSoFar /\ Marked
-----------------------------------------------------------------------------
(* The operators *)

\* The function of Those has the values its equations give.
ThoseTo(s, S) ==
  CHOOSE g : g = [n \in 0..Len(s) |-> IF n = 0 THEN <<>>
                                      ELSE IF s[n] \in S THEN Append(g[n - 1], s[n]) ELSE g[n - 1]]
LEMMA ThoseDefined ==
  ASSUME NEW X, NEW s \in Seq(X), NEW S
  PROVE  ThoseTo(s, S) = [n \in 0..Len(s) |-> IF n = 0 THEN <<>>
            ELSE IF s[n] \in S THEN Append(ThoseTo(s, S)[n - 1], s[n]) ELSE ThoseTo(s, S)[n - 1]]
<1> DEFINE H(p) == IF p[1] + 1 \in 1..Len(s) /\ s[p[1] + 1] \in S THEN Append(p[2], s[p[1] + 1]) ELSE p[2]
           h == [p \in Nat \X Seq(X) |-> H(p)]
<1>0. <<>> \in Seq(X)
  OBVIOUS
<1>1. h \in [Nat \X Seq(X) -> Seq(X)]
  <2>1. ASSUME NEW p \in Nat \X Seq(X) PROVE H(p) \in Seq(X)
    <3>1. p[2] \in Seq(X)
      OBVIOUS
    <3>2. CASE p[1] + 1 \in 1..Len(s) /\ s[p[1] + 1] \in S
      <4>1. s[p[1] + 1] \in X
        BY <3>2
      <4> QED
        BY <3>1, <3>2, <4>1, AppendProperties
    <3> QED
      BY <3>1, <3>2
  <2> QED
    BY <2>1
<1>2. PICK f \in [Nat -> Seq(X)] : f[0] = <<>> /\ \A n \in Nat : f[n + 1] = h[<<n, f[n]>>]
  <2> HIDE DEF h
  <2>2. Iterates(Seq(X), <<>>, h) # {}
    BY <1>0, <1>1, RecursionOnNat
  <2> QED
    BY <2>2 DEF Iterates
<1> DEFINE g == [n \in 0..Len(s) |-> f[n]]
<1>3. \A n \in 1..Len(s) : g[n] = IF s[n] \in S THEN Append(g[n - 1], s[n]) ELSE g[n - 1]
  <2> TAKE n \in 1..Len(s)
  <2>1. n - 1 \in Nat /\ n - 1 \in 0..Len(s) /\ (n - 1) + 1 = n
    OBVIOUS
  <2>2. f[n] = h[<<n - 1, f[n - 1]>>]
    <3> HIDE DEF h
    <3>1. f[(n - 1) + 1] = h[<<n - 1, f[n - 1]>>]
      BY <1>2, <2>1
    <3> QED
      BY <2>1, <3>1
  <2>3. h[<<n - 1, f[n - 1]>>] = H(<<n - 1, f[n - 1]>>)
    BY <1>2, <2>1
  <2>4. H(<<n - 1, f[n - 1]>>) = IF s[n] \in S THEN Append(f[n - 1], s[n]) ELSE f[n - 1]
    BY <2>1
  <2> QED
    BY <2>1, <2>2, <2>3, <2>4
<1>4. g[0] = <<>>
  BY <1>2
<1>5. g = [n \in 0..Len(s) |-> IF n = 0 THEN <<>>
                               ELSE IF s[n] \in S THEN Append(g[n - 1], s[n]) ELSE g[n - 1]]
  <2>1. ASSUME NEW n \in 0..Len(s)
        PROVE  g[n] = IF n = 0 THEN <<>> ELSE IF s[n] \in S THEN Append(g[n - 1], s[n]) ELSE g[n - 1]
    <3>1. n = 0 \/ n \in 1..Len(s)
      OBVIOUS
    <3> HIDE DEF g
    <3> QED
      BY <1>3, <1>4, <3>1
  <2> QED
    BY <2>1
<1> HIDE DEF g
<1> QED
  BY <1>5 DEF ThoseTo

\* Those takes the elements in S, each once if they are once in the list, and leaves them in their order.
Taken(t, s, X, S) ==
  /\ t \in Seq(X)
  /\ \A i \in 1..Len(t) : t[i] \in S /\ \E k \in 1..Len(s) : t[i] = s[k]
  /\ \A k \in 1..Len(s) : s[k] \in S => \E i \in 1..Len(t) : t[i] = s[k]
  /\ Once(s) => Once(t)
  /\ \A j \in 1..Len(s) : s[j] \in S =>
       \E m \in 1..Len(t) : t[m] = s[j] /\ \A i \in 1..m : \E k \in 1..j : t[i] = s[k]
LEMMA ThoseIs ==
  ASSUME NEW X, NEW s \in Seq(X), NEW S
  PROVE  Taken(Those(s, S), s, X, S)
<1> DEFINE t == Those(s, S)
<1> DEFINE f == ThoseTo(s, S)
<1>1. t = f[Len(s)]
  BY DEF Those, ThoseTo, t
<1>2. f = [n \in 0..Len(s) |-> IF n = 0 THEN <<>>
                               ELSE IF s[n] \in S THEN Append(f[n - 1], s[n]) ELSE f[n - 1]]
  BY ThoseDefined
<1> HIDE DEF f
<1>3. f[0] = <<>> /\ \A n \in 1..Len(s) : f[n] = IF s[n] \in S THEN Append(f[n - 1], s[n]) ELSE f[n - 1]
  <2>1. Len(s) \in Nat /\ 0 \in 0..Len(s) /\ \A n \in 1..Len(s) : n \in 0..Len(s) /\ n # 0
    OBVIOUS
  <2>2. f[0] = <<>>
    BY <1>2, <2>1
  <2> QED
    BY <1>2, <2>1, <2>2
<1> DEFINE P(n) ==
      /\ f[n] \in Seq(X)
      /\ \A i \in 1..Len(f[n]) : f[n][i] \in S /\ \E k \in 1..n : f[n][i] = s[k]
      /\ \A k \in 1..n : s[k] \in S => \E i \in 1..Len(f[n]) : f[n][i] = s[k]
      /\ Once(s) => Once(f[n])
      /\ \A j \in 1..n : s[j] \in S =>
           \E m \in 1..Len(f[n]) : f[n][m] = s[j] /\ \A i \in 1..m : \E k \in 1..j : f[n][i] = s[k]
    G == {n \in Nat : n <= Len(s) => P(n)}
<1>4. 0 \in G
  <2>1. <<>> \in Seq(X) /\ Len(<<>>) = 0 /\ \A i : i \notin 1..0
    OBVIOUS
  <2>2. f[0] = <<>>
    BY <1>3
  <2>3. P(0)
    BY <2>1, <2>2 DEF Once
  <2> HIDE DEF P
  <2> QED
    BY <2>3
<1>5. ASSUME NEW n \in Nat, n \in G PROVE n + 1 \in G
  <2> SUFFICES ASSUME n + 1 <= Len(s) PROVE P(n + 1)
    OBVIOUS
  <2>1. P(n)
    <3> HIDE DEF P
    <3>1. n <= Len(s)
      OBVIOUS
    <3> QED
      BY <1>5, <3>1
  <2>2. n + 1 \in 1..Len(s) /\ (n + 1) - 1 = n
    OBVIOUS
  <2> DEFINE old == f[n]
             new == f[n + 1]
  <2>3. new = IF s[n + 1] \in S THEN Append(old, s[n + 1]) ELSE old
    BY <1>3, <2>2
  <2>4. s[n + 1] \in X /\ old \in Seq(X)
    BY <2>1, <2>2
  <2> HIDE DEF P, G
  <2>5. CASE s[n + 1] \notin S
    <3>1. new = old
      BY <2>3, <2>5
    <3>2. \A k \in 1..(n + 1) : s[k] \in S => k \in 1..n
      BY <2>5
    <3>3. \A k \in 1..n : k \in 1..(n + 1)
      OBVIOUS
    <3> QED
      BY <2>1, <3>1, <3>2, <3>3 DEF P
  <2>6. CASE s[n + 1] \in S
    <3>1. new = Append(old, s[n + 1])
      BY <2>3, <2>6
    <3>2. /\ new \in Seq(X) /\ Len(new) = Len(old) + 1 /\ Len(old) \in Nat
          /\ \A i \in 1..Len(old) : new[i] = old[i]
          /\ new[Len(old) + 1] = s[n + 1]
      BY <2>4, <3>1, AppendProperties
    <3> HIDE DEF old, new
    <3>3. P(n) <=>
      /\ old \in Seq(X)
      /\ \A i \in 1..Len(old) : old[i] \in S /\ \E k \in 1..n : old[i] = s[k]
      /\ \A k \in 1..n : s[k] \in S => \E i \in 1..Len(old) : old[i] = s[k]
      /\ Once(s) => Once(old)
      /\ \A j \in 1..n : s[j] \in S =>
           \E m \in 1..Len(old) : old[m] = s[j] /\ \A i \in 1..m : \E k \in 1..j : old[i] = s[k]
      BY DEF P, old
    <3>4. \A i \in 1..Len(new) : i \in 1..Len(old) \/ i = Len(old) + 1
      BY <3>2
    <3>5. \A k \in 1..(n + 1) : k \in 1..n \/ k = n + 1
      OBVIOUS
    <3>6. \A k \in 1..n : k \in 1..(n + 1)
      OBVIOUS
    <3>7. n + 1 \in 1..(n + 1) /\ Len(old) + 1 \in 1..Len(new) /\ \A i \in 1..Len(old) : i \in 1..Len(new)
      BY <3>2
    <3>8. \A i \in 1..Len(new) : new[i] \in S /\ \E k \in 1..(n + 1) : new[i] = s[k]
      <4>1. \A i \in 1..Len(old) : old[i] \in S /\ \E k \in 1..n : old[i] = s[k]
        BY <2>1, <3>3
      <4>2. \A i \in 1..Len(old) : new[i] \in S /\ \E k \in 1..(n + 1) : new[i] = s[k]
        BY <3>2, <3>6, <4>1
      <4>3. new[Len(old) + 1] \in S /\ \E k \in 1..(n + 1) : new[Len(old) + 1] = s[k]
        BY <2>6, <3>2, <3>7
      <4> QED
        BY <3>4, <4>2, <4>3
    <3>9. \A k \in 1..(n + 1) : s[k] \in S => \E i \in 1..Len(new) : new[i] = s[k]
      BY <2>1, <3>2, <3>3, <3>5, <3>7
    <3>10. ASSUME Once(s) PROVE Once(new)
      <4>1. \A i \in 1..Len(old) : new[i] # new[Len(old) + 1]
        <5> SUFFICES ASSUME NEW i \in 1..Len(old), old[i] = s[n + 1] PROVE FALSE
          BY <3>2
        <5>1. PICK k \in 1..n : old[i] = s[k]
          BY <2>1, <3>3
        <5>2. k \in 1..Len(s) /\ k # n + 1
          BY <2>2
        <5> QED
          BY <2>2, <3>10, <5>1, <5>2 DEF Once
      <4>2. Once(old)
        BY <2>1, <3>3, <3>10
      <4> QED
        BY <3>2, <3>4, <4>1, <4>2 DEF Once
    <3>11. ASSUME NEW j \in 1..(n + 1), s[j] \in S
           PROVE  \E m \in 1..Len(new) : new[m] = s[j] /\ \A i \in 1..m : \E k \in 1..j : new[i] = s[k]
      <4>1. CASE j \in 1..n
        <5>1. PICK m \in 1..Len(old) : old[m] = s[j] /\ \A i \in 1..m : \E k \in 1..j : old[i] = s[k]
          BY <2>1, <3>3, <3>11, <4>1
        <5>2. m \in 1..Len(new) /\ \A i \in 1..m : i \in 1..Len(old)
          BY <3>2
        <5>3. new[m] = s[j]
          BY <3>2, <5>1
        <5>4. \A i \in 1..m : \E k \in 1..j : new[i] = s[k]
          BY <3>2, <5>1, <5>2
        <5> QED
          BY <5>2, <5>3, <5>4
      <4>2. CASE j = n + 1
        <5>1. Len(new) \in 1..Len(new) /\ new[Len(new)] = s[j]
          BY <3>2, <4>2
        <5> QED
          BY <3>8, <4>2, <5>1
      <4> QED
        BY <3>5, <4>1, <4>2
    <3> QED
      BY <3>2, <3>8, <3>9, <3>10, <3>11 DEF P, new
  <2> QED
    BY <2>5, <2>6
<1> HIDE DEF G
<1>6. Nat \subseteq G
  BY <1>4, <1>5, NatInd
<1> HIDE DEF P
<1>7. P(Len(s))
  <2>1. Len(s) \in G
    BY <1>6
  <2> QED
    BY <2>1 DEF G
<1> HIDE DEF t
<1>8. Taken(t, s, X, S)
  BY <1>1, <1>7 DEF Taken, P
<1> QED
  BY <1>8 DEF t

\* The elements of a sequence.
LEMMA RangeIs ==
  ASSUME NEW X, NEW s \in Seq(X)
  PROVE  /\ \A x : x \in Range(s) <=> \E i \in 1..Len(s) : s[i] = x
         /\ Range(s) \subseteq X /\ Len(s) \in Nat
<1>1. DOMAIN s = 1..Len(s) /\ Len(s) \in Nat /\ \A i \in 1..Len(s) : s[i] \in X
  OBVIOUS
<1> QED
  BY <1>1 DEF Range

\* A part of a list.
Part(s, a, b) == SubSeq(s, a + 1, b)
PartOf(u, s, X, a, b) ==
  /\ u \in Seq(X) /\ Len(u) = b - a
  /\ \A i \in 1..Len(u) : a + i \in (a + 1)..b /\ a + i \in 1..Len(s) /\ u[i] = s[a + i]
  /\ \A k \in (a + 1)..b : k - a \in 1..Len(u) /\ u[k - a] = s[k]
  /\ \A x : x \in Range(u) <=> \E k \in (a + 1)..b : s[k] = x
  /\ Once(s) => Once(u)
LEMMA PartIs ==
  ASSUME NEW X, NEW s \in Seq(X), NEW a \in Nat, NEW b \in Nat, a <= b, b <= Len(s)
  PROVE  PartOf(Part(s, a, b), s, X, a, b)
<1> DEFINE u == Part(s, a, b)
<1>0. Len(s) \in Nat /\ a + 1 \in Int /\ \A i \in (a + 1)..b : i \in 1..Len(s) /\ s[i] \in X
  OBVIOUS
<1>1. /\ SubSeq(s, a + 1, b) \in Seq(X)
      /\ Len(SubSeq(s, a + 1, b)) = IF a + 1 <= b THEN b - (a + 1) + 1 ELSE 0
      /\ \A i \in 1..(b - (a + 1) + 1) : SubSeq(s, a + 1, b)[i] = s[(a + 1) + i - 1]
  BY <1>0, SubSeqProperties
<1>2. b - (a + 1) + 1 = b - a
  OBVIOUS
<1>3. u \in Seq(X) /\ Len(u) = b - a
  BY <1>1, <1>2 DEF Part
<1>4. \A i \in 1..(b - a) : u[i] = s[a + i]
  <2> TAKE i \in 1..(b - a)
  <2>1. (a + 1) + i - 1 = a + i
    OBVIOUS
  <2> QED
    BY <1>1, <1>2, <2>1 DEF Part
<1> HIDE DEF u
<1>5. \A i \in 1..Len(u) : a + i \in (a + 1)..b /\ a + i \in 1..Len(s) /\ u[i] = s[a + i]
  BY <1>0, <1>3, <1>4
<1>6. \A k \in (a + 1)..b : k - a \in 1..Len(u) /\ u[k - a] = s[k]
  <2> TAKE k \in (a + 1)..b
  <2>1. k - a \in 1..(b - a) /\ a + (k - a) = k
    OBVIOUS
  <2>2. u[k - a] = s[a + (k - a)]
    BY <1>4, <2>1
  <2> QED
    BY <1>3, <2>1, <2>2
<1>7. ASSUME NEW x PROVE x \in Range(u) <=> \E k \in (a + 1)..b : s[k] = x
  <2>1. x \in Range(u) <=> \E i \in 1..Len(u) : u[i] = x
    BY <1>3, RangeIs
  <2> QED
    BY <1>5, <1>6, <2>1
<1>8. ASSUME Once(s) PROVE Once(u)
  <2> SUFFICES ASSUME NEW i \in 1..Len(u), NEW j \in 1..Len(u), u[i] = u[j] PROVE i = j
    BY DEF Once
  <2>1. s[a + i] = s[a + j] /\ a + i \in 1..Len(s) /\ a + j \in 1..Len(s)
    BY <1>5
  <2>2. a + i = a + j
    BY <1>8, <2>1 DEF Once
  <2> QED
    BY <1>3, <2>2
<1>9. PartOf(u, s, X, a, b)
  BY <1>3, <1>5, <1>6, <1>7, <1>8 DEF PartOf
<1> QED
  BY <1>9 DEF u

\* Two lists joined.
JoinOf(u, s, t, X) ==
  /\ u \in Seq(X) /\ Len(u) = Len(s) + Len(t)
  /\ \A i \in 1..Len(s) : i \in 1..Len(u) /\ u[i] = s[i]
  /\ \A k \in 1..Len(t) : Len(s) + k \in 1..Len(u) /\ u[Len(s) + k] = t[k]
  /\ \A i \in 1..Len(u) : i \in 1..Len(s) \/ \E k \in 1..Len(t) : i = Len(s) + k
  /\ Range(u) = Range(s) \cup Range(t)
  /\ Once(s) /\ Once(t) /\ Range(s) \cap Range(t) = {} => Once(u)
LEMMA JoinedIs ==
  ASSUME NEW X, NEW s \in Seq(X), NEW t \in Seq(X)
  PROVE  JoinOf(s \o t, s, t, X)
<1> DEFINE u == s \o t
<1>0. Len(s) \in Nat /\ Len(t) \in Nat
  OBVIOUS
<1>1. /\ u \in Seq(X) /\ Len(u) = Len(s) + Len(t)
      /\ \A i \in 1..(Len(s) + Len(t)) : u[i] = IF i <= Len(s) THEN s[i] ELSE t[i - Len(s)]
  BY ConcatProperties
<1> HIDE DEF u
<1>2. \A i \in 1..Len(s) : i \in 1..Len(u) /\ u[i] = s[i]
  BY <1>0, <1>1
<1>3. \A k \in 1..Len(t) : Len(s) + k \in 1..Len(u) /\ u[Len(s) + k] = t[k]
  <2> TAKE k \in 1..Len(t)
  <2>1. Len(s) + k \in 1..(Len(s) + Len(t)) /\ ~(Len(s) + k <= Len(s)) /\ (Len(s) + k) - Len(s) = k
    BY <1>0
  <2> QED
    BY <1>1, <2>1
<1>4. \A i \in 1..Len(u) : i \in 1..Len(s) \/ \E k \in 1..Len(t) : i = Len(s) + k
  <2> TAKE i \in 1..Len(u)
  <2>1. i \in 1..Len(s) \/ (i - Len(s) \in 1..Len(t) /\ i = Len(s) + (i - Len(s)))
    BY <1>0, <1>1
  <2> QED
    BY <2>1
<1>5. \A x : x \in Range(u) <=> x \in Range(s) \/ x \in Range(t)
  <2> TAKE x
  <2>1. x \in Range(u) <=> \E i \in 1..Len(u) : u[i] = x
    BY <1>1, RangeIs
  <2>2. x \in Range(s) <=> \E i \in 1..Len(s) : s[i] = x
    BY RangeIs
  <2>3. x \in Range(t) <=> \E i \in 1..Len(t) : t[i] = x
    BY RangeIs
  <2> QED
    BY <1>2, <1>3, <1>4, <2>1, <2>2, <2>3
<1>6. ASSUME Once(s), Once(t), Range(s) \cap Range(t) = {} PROVE Once(u)
  <2>1. \A i \in 1..Len(s), k \in 1..Len(t) : s[i] # t[k]
    BY <1>6, RangeIs
  <2> SUFFICES ASSUME NEW i \in 1..Len(u), NEW j \in 1..Len(u), u[i] = u[j] PROVE i = j
    BY DEF Once
  <2>2. CASE i \in 1..Len(s) /\ j \in 1..Len(s)
    BY <1>2, <1>6, <2>2 DEF Once
  <2>3. CASE i \in 1..Len(s) /\ \E k \in 1..Len(t) : j = Len(s) + k
    BY <1>2, <1>3, <2>1, <2>3
  <2>4. CASE j \in 1..Len(s) /\ \E k \in 1..Len(t) : i = Len(s) + k
    BY <1>2, <1>3, <2>1, <2>4
  <2>5. CASE (\E k \in 1..Len(t) : i = Len(s) + k) /\ \E k \in 1..Len(t) : j = Len(s) + k
    <3>1. PICK k \in 1..Len(t) : i = Len(s) + k
      BY <2>5
    <3>2. PICK m \in 1..Len(t) : j = Len(s) + m
      BY <2>5
    <3>3. t[k] = t[m]
      BY <1>3, <3>1, <3>2
    <3> QED
      BY <1>6, <3>1, <3>2, <3>3 DEF Once
  <2> QED
    BY <1>4, <2>2, <2>3, <2>4, <2>5
<1>7. JoinOf(u, s, t, X)
  BY <1>1, <1>2, <1>3, <1>4, <1>5, <1>6 DEF JoinOf
<1> QED
  BY <1>7 DEF u

\* A batch of the sweep: it frees the dead among the n objects behind position pos, and goes on
\* behind the last of those left.
SweepOf(s, list, pos, n, X) ==
  /\ s.list \in Seq(X) /\ Once(s.list)
  /\ Range(s.list) = Range(list) \ s.freed
  /\ s.freed \subseteq Range(list) /\ s.white \subseteq Range(list)
  /\ \A o \in s.freed : mark[o] = "other"
  /\ \A o \in s.white : mark[o] # "other"
  /\ \A k \in 1..pos : list[k] \notin s.freed \cup s.white
  /\ \A k \in (pos + 1)..Len(list) : k <= pos + n => list[k] \in s.freed \cup s.white
  /\ s.sweepgc = "null" <=> pos + n >= Len(list)
  /\ \/ s.sweepgc = "null"
     \/ s.sweepgc = "head" /\ pos = 0
     \/ \E j \in 1..Len(s.list) : s.list[j] = s.sweepgc
          /\ \A i \in 1..j : s.list[i] \in s.white \/ \E k \in 1..pos : s.list[i] = list[k]
  /\ s.sweepgc # "null" /\ s.white # {} => s.sweepgc \in s.white
LEMMA SweptIs ==
  ASSUME NEW X, X \subseteq Obj, NEW list \in Seq(X), Once(list), NEW pos \in Nat, pos <= Len(list), NEW n \in Nat
  PROVE  SweepOf(Swept(list, pos, n), list, pos, n, X)
<1> DEFINE s == Swept(list, pos, n)
           end == Len(list)
           m == IF pos + n < end THEN pos + n ELSE end
           live == {o \in Obj : mark[o] # "other"}
           pre == Part(list, 0, pos)
           seg == Part(list, pos, m)
           rest == Part(list, m, end)
           left == Those(seg, live)
           kept == pre \o left
           new == kept \o rest
<1>0. /\ end \in Nat /\ pos \in Nat /\ m \in Nat /\ pos <= m /\ m <= end /\ pos <= end /\ end <= Len(list)
      /\ pos + n >= end <=> m = end
      /\ end = Len(list) /\ 0 \in Nat /\ 0 <= pos /\ m <= Len(list)
      /\ pos + n >= Len(list) <=> pos + n >= end
      /\ \A k \in (pos + 1)..Len(list) : k <= pos + n => k \in (pos + 1)..m
  OBVIOUS
<1>1. SubSeq(list, pos + n + 1, end) = rest
  <2>1. CASE pos + n < end
    BY <2>1 DEF Part
  <2>2. CASE ~(pos + n < end)
    <3>1. SubSeq(list, pos + n + 1, end) = <<>>
      BY <1>0, <2>2, SubSeqEmpty
    <3>2. SubSeq(list, end + 1, end) = <<>>
      BY <1>0, SubSeqEmpty
    <3> QED
      BY <2>2, <3>1, <3>2 DEF Part
  <2> QED
    BY <2>1, <2>2
<1>2. s = [list |-> new, freed |-> Range(seg) \ Range(left), white |-> Range(left),
           sweepgc |-> IF rest = <<>> THEN "null" ELSE IF kept = <<>> THEN "head" ELSE Last(kept)]
  <2>1. pre = SubSeq(list, 1, pos) /\ seg = SubSeq(list, pos + 1, m)
    BY DEF Part
  <2> QED
    BY <1>1, <2>1, Zenon DEF Swept
<1> HIDE DEF m, end
<1>3. PartOf(seg, list, X, pos, m)
  BY <1>0, PartIs
<1>4. PartOf(rest, list, X, m, end)
  BY <1>0, PartIs
<1>5. PartOf(pre, list, X, 0, pos)
  BY <1>0, PartIs
<1> HIDE DEF seg, rest, pre, live
<1>6. Taken(left, seg, X, live)
  BY <1>3, ThoseIs DEF PartOf
<1>A. left \in Seq(X)
  BY <1>6 DEF Taken
<1> HIDE DEF left
<1>B. pre \in Seq(X) /\ rest \in Seq(X) /\ seg \in Seq(X)
  BY <1>3, <1>4, <1>5 DEF PartOf
<1>7. JoinOf(kept, pre, left, X)
  BY <1>A, <1>B, JoinedIs
<1> HIDE DEF kept
<1>8. JoinOf(new, kept, rest, X)
  <2>1. kept \in Seq(X)
    BY <1>7 DEF JoinOf
  <2> QED
    BY <1>B, <2>1, JoinedIs
<1> HIDE DEF new
<1>9. /\ s.list = new /\ s.freed = Range(seg) \ Range(left) /\ s.white = Range(left)
      /\ s.sweepgc = IF rest = <<>> THEN "null" ELSE IF kept = <<>> THEN "head" ELSE Last(kept)
  BY <1>2
<1> HIDE DEF s
<1>10. \A x : x \in Range(left) <=> x \in Range(seg) /\ mark[x] # "other"
  <2>1. /\ \A i \in 1..Len(left) : left[i] \in live /\ \E k \in 1..Len(seg) : left[i] = seg[k]
        /\ \A k \in 1..Len(seg) : seg[k] \in live => \E i \in 1..Len(left) : left[i] = seg[k]
    BY <1>6 DEF Taken
  <2>2. \A x : x \in Range(left) <=> \E i \in 1..Len(left) : left[i] = x
    BY <1>A, RangeIs
  <2>3. (\A x : x \in Range(seg) <=> \E i \in 1..Len(seg) : seg[i] = x) /\ Range(seg) \subseteq X
    BY <1>B, RangeIs
  <2>4. \A x \in Range(seg) : x \in live <=> mark[x] # "other"
    BY <2>3 DEF live
  <2>5. ASSUME NEW x \in Range(left) PROVE x \in Range(seg) /\ mark[x] # "other"
    <3>1. PICK i \in 1..Len(left) : left[i] = x
      BY <2>2
    <3>2. x \in live /\ x \in Range(seg)
      BY <2>1, <2>3, <3>1
    <3> QED
      BY <2>4, <3>2
  <2>6. ASSUME NEW x \in Range(seg), mark[x] # "other" PROVE x \in Range(left)
    <3>1. PICK i \in 1..Len(seg) : seg[i] = x
      BY <2>3
    <3>2. x \in live
      BY <2>4, <2>6
    <3> QED
      BY <2>1, <2>2, <3>1, <3>2
  <2> QED
    BY <2>5, <2>6
<1>11. /\ \A x : x \in Range(pre) <=> \E k \in 1..pos : list[k] = x
       /\ \A x : x \in Range(seg) <=> \E k \in (pos + 1)..m : list[k] = x
       /\ \A x : x \in Range(rest) <=> \E k \in (m + 1)..end : list[k] = x
       /\ \A x : x \in Range(list) <=> \E k \in 1..end : list[k] = x
  <2>1. 0 + 1 = 1
    OBVIOUS
  <2>2. \A x : x \in Range(list) <=> \E k \in 1..Len(list) : list[k] = x
    BY RangeIs
  <2> QED
    BY <1>0, <1>3, <1>4, <1>5, <2>1, <2>2 DEF PartOf
<1>12. /\ Range(pre) \cap Range(seg) = {} /\ Range(pre) \cap Range(rest) = {} /\ Range(seg) \cap Range(rest) = {}
       /\ Range(list) = Range(pre) \cup Range(seg) \cup Range(rest)
  <2>1. /\ \A k \in 1..pos : k \in 1..end /\ \A i \in (pos + 1)..m : i # k
        /\ \A k \in 1..pos : \A i \in (m + 1)..end : i # k
        /\ \A k \in (pos + 1)..m : k \in 1..end /\ \A i \in (m + 1)..end : i # k
        /\ \A k \in (m + 1)..end : k \in 1..end
        /\ \A k \in 1..end : k \in 1..pos \/ k \in (pos + 1)..m \/ k \in (m + 1)..end
    BY <1>0
  <2>2. \A i, k \in 1..end : list[i] = list[k] => i = k
    BY <1>0 DEF Once
  <2>3. Range(pre) \cap Range(seg) = {}
    BY <1>11, <2>1, <2>2
  <2>4. Range(pre) \cap Range(rest) = {}
    BY <1>11, <2>1, <2>2
  <2>5. Range(seg) \cap Range(rest) = {}
    BY <1>11, <2>1, <2>2
  <2>6. Range(list) = Range(pre) \cup Range(seg) \cup Range(rest)
    <3>1. ASSUME NEW x \in Range(list) PROVE x \in Range(pre) \cup Range(seg) \cup Range(rest)
      BY <1>11, <2>1
    <3>2. ASSUME NEW x \in Range(pre) \cup Range(seg) \cup Range(rest) PROVE x \in Range(list)
      BY <1>11, <2>1
    <3> QED
      BY <3>1, <3>2
  <2> QED
    BY <2>3, <2>4, <2>5, <2>6
<1>13. Once(pre) /\ Once(seg) /\ Once(rest) /\ Once(left)
  BY <1>3, <1>4, <1>5, <1>6 DEF PartOf, Taken
<1>14. Once(kept) /\ Range(kept) = Range(pre) \cup Range(left) /\ kept \in Seq(X) /\ Len(kept) = Len(pre) + Len(left)
  BY <1>7, <1>10, <1>12, <1>13 DEF JoinOf
<1>15. /\ Once(new) /\ Range(new) = Range(kept) \cup Range(rest) /\ new \in Seq(X)
       /\ \A i \in 1..Len(kept) : i \in 1..Len(new) /\ new[i] = kept[i]
  BY <1>8, <1>10, <1>12, <1>13, <1>14 DEF JoinOf
<1>16. kept # <<>> => Len(kept) \in 1..Len(kept) /\ Len(kept) \in Nat /\ Last(kept) = kept[Len(kept)] /\ Last(kept) \in X
  <2>1. kept # <<>> => Len(kept) \in 1..Len(kept) /\ Len(kept) \in Nat
    BY <1>14, EmptySeq
  <2> QED
    BY <1>14, <2>1 DEF Last
<1>17. "null" \notin X /\ "head" \notin X /\ "head" # "null"
  BY GcAssumption
<1>18. rest = <<>> <=> m = end
  <2>1. Len(rest) = end - m
    BY <1>4 DEF PartOf
  <2>2. rest = <<>> <=> Len(rest) = 0
    BY <1>B, EmptySeq
  <2> QED
    BY <1>0, <2>1, <2>2
<1>19. s.sweepgc = "null" <=> pos + n >= Len(list)
  BY <1>0, <1>9, <1>16, <1>17, <1>18
<1>20. ASSUME s.sweepgc # "null", s.sweepgc # "head"
       PROVE  \E j \in 1..Len(new) : new[j] = s.sweepgc
                 /\ \A i \in 1..j : new[i] \in s.white \/ \E k \in 1..pos : new[i] = list[k]
  <2>1. kept # <<>> /\ s.sweepgc = kept[Len(kept)]
    BY <1>9, <1>16, <1>20
  <2>2. Len(kept) \in 1..Len(new) /\ new[Len(kept)] = s.sweepgc
    BY <1>15, <1>16, <2>1
  <2>3. \A i \in 1..Len(kept) : kept[i] \in Range(kept)
    BY <1>14, RangeIs
  <2>4. ASSUME NEW i \in 1..Len(kept) PROVE new[i] \in s.white \/ \E k \in 1..pos : new[i] = list[k]
    <3>1. new[i] \in Range(pre) \/ new[i] \in Range(left)
      BY <1>14, <1>15, <2>3
    <3> QED
      BY <1>9, <1>11, <3>1
  <2> QED
    BY <2>2, <2>4
<1>21. s.sweepgc = "head" => pos = 0
  <2>1. SUFFICES ASSUME s.sweepgc = "head" PROVE pos = 0
    OBVIOUS
  <2>2. kept = <<>>
    BY <1>9, <1>16, <1>17, <2>1
  <2>3. Len(kept) = 0 /\ Len(left) \in Nat
    BY <1>A, <2>2, EmptySeq
  <2>4. Len(pre) = pos
    BY <1>0, <1>5 DEF PartOf
  <2>5. Len(kept) = Len(pre) + Len(left)
    BY <1>14
  <2>6. pos + Len(left) = 0
    BY <2>3, <2>4, <2>5
  <2>7. Len(left) \in Nat
    BY <2>3
  <2> QED
    BY <2>6, <2>7
<1>22. ASSUME s.sweepgc # "null", s.white # {} PROVE s.sweepgc \in s.white
  <2>1. (\A x : x \in Range(left) <=> \E i \in 1..Len(left) : left[i] = x) /\ Len(left) \in Nat
    BY <1>A, RangeIs
  <2>2. Len(left) \in 1..Len(left)
    BY <1>9, <1>22, <2>1
  <2>3. kept[Len(pre) + Len(left)] = left[Len(left)]
    BY <1>7, <2>2 DEF JoinOf
  <2>4. Len(pre) \in Nat
    BY <1>B
  <2>5. kept # <<>>
    <3>1. Len(kept) # 0
      BY <1>14, <2>2, <2>4
    <3> QED
      BY <3>1
  <2>6. s.sweepgc = left[Len(left)]
    BY <1>9, <1>14, <1>16, <1>22, <2>3, <2>5
  <2> QED
    BY <1>9, <2>1, <2>2, <2>6
<1>23. \A k \in (pos + 1)..Len(list) : k <= pos + n => list[k] \in s.freed \cup s.white
  BY <1>0, <1>9, <1>11
<1>24. \A k \in 1..pos : list[k] \notin s.freed \cup s.white
  <2>1. \A k \in 1..pos : list[k] \in Range(pre)
    BY <1>11
  <2>2. Range(pre) \cap Range(seg) = {} /\ Range(left) \subseteq Range(seg)
    BY <1>10, <1>12
  <2>3. s.freed \cup s.white \subseteq Range(seg)
    BY <1>9, <2>2
  <2> QED
    BY <2>1, <2>2, <2>3
<1>25. /\ Range(new) = Range(list) \ s.freed
       /\ s.freed \subseteq Range(list) /\ s.white \subseteq Range(list)
       /\ \A o \in s.freed : mark[o] = "other"
       /\ \A o \in s.white : mark[o] # "other"
  BY <1>9, <1>10, <1>12, <1>14, <1>15
<1>26. SweepOf(s, list, pos, n, X)
  BY <1>9, <1>15, <1>19, <1>20, <1>21, <1>22, <1>23, <1>24, <1>25 DEF SweepOf
<1> QED
  BY <1>26 DEF s

\* A growing chain of subsets of a finite set, which stops growing once it does not grow, has
\* stopped after as many steps as the set has elements.
LEMMA ChainStops ==
  ASSUME NEW U, IsFiniteSet(U), NEW f \in [Nat -> SUBSET U], \A n \in Nat : f[n] \subseteq f[n + 1],
         \A n \in Nat : f[n] = f[n + 1] => f[n + 1] = f[(n + 1) + 1]
  PROVE  f[Cardinality(U) + 1] = f[Cardinality(U)]
<1> DEFINE G == {n \in Nat : Cardinality(f[n]) >= n \/ f[n] = f[n + 1]}
<1>1. \A n \in Nat : f[n] \subseteq U /\ IsFiniteSet(f[n]) /\ Cardinality(f[n]) \in Nat
  <2> TAKE n \in Nat
  <2>1. f[n] \in SUBSET U
    OBVIOUS
  <2>2. IsFiniteSet(f[n])
    BY <2>1, FS_Subset
  <2> QED
    BY <2>1, <2>2, FS_CardinalityType
<1>2. 0 \in G
  BY <1>1
<1>3. ASSUME NEW n \in Nat, n \in G PROVE n + 1 \in G
  <2>1. CASE f[n] = f[n + 1]
    BY <2>1
  <2>2. CASE f[n] # f[n + 1]
    <3>1. Cardinality(f[n]) >= n
      BY <1>3, <2>2
    <3>2. f[n] \in SUBSET f[n + 1] /\ IsFiniteSet(f[n + 1])
      BY <1>1
    <3>3. Cardinality(f[n]) <= Cardinality(f[n + 1]) /\ Cardinality(f[n + 1]) # Cardinality(f[n])
      BY <2>2, <3>2, FS_Subset
    <3>4. Cardinality(f[n + 1]) \in Nat /\ Cardinality(f[n]) \in Nat
      BY <1>1
    <3> QED
      BY <3>1, <3>3, <3>4
  <2> QED
    BY <2>1, <2>2
<1> HIDE DEF G
<1>4. Nat \subseteq G
  BY <1>2, <1>3, NatInd
<1> DEFINE c == Cardinality(U)
<1>5. c \in Nat
  BY FS_CardinalityType
<1>6. CASE f[c] = f[c + 1]
  BY <1>6
<1>7. CASE f[c] # f[c + 1]
  <2>1. Cardinality(f[c]) >= c
    BY <1>4, <1>5, <1>7 DEF G
  <2>2. f[c] \in SUBSET U /\ Cardinality(f[c]) \in Nat
    BY <1>1, <1>5
  <2>3. Cardinality(f[c]) <= Cardinality(U)
    BY <2>2, FS_Subset
  <2>4. Cardinality(U) = Cardinality(f[c])
    BY <1>5, <2>1, <2>2, <2>3
  <2>5. f[c] = U
    BY <2>2, <2>4, FS_Subset
  <2>6. f[c + 1] \subseteq U /\ f[c] \subseteq f[c + 1]
    BY <1>1, <1>5
  <2> QED
    BY <2>5, <2>6
<1> QED
  BY <1>6, <1>7

\* What reallymarkobject marks when it is given the objects of S: the white ones, and with a
\* userdata its value, and nothing that is not white.
MarkOf(M, S) ==
  /\ \A o \in S : IsWhite(o) => o \in M
  /\ \A o \in M : o \in Obj /\ IsWhite(o)
  /\ \A u \in M : u \in Userdata /\ IsWhite(node[u].v) => node[u].v \in M
  /\ (\A o \in S : ~IsWhite(o)) => M = {}
MoreTo(S) ==
  CHOOSE more : more = [n \in Nat |->
    IF n = 0 THEN {o \in S : IsWhite(o)}
    ELSE LET M == more[n - 1] IN
         M \cup {node[u].v : u \in {w \in M \cap Userdata : IsWhite(node[w].v)}}]
LEMMA ReachedIs ==
  ASSUME NEW S
  PROVE  MarkOf(Reached(S), S)
<1> DEFINE T == SUBSET Obj
           A == {o \in S : IsWhite(o)}
           Led(M) == M \cup {node[u].v : u \in {w \in M \cap Userdata : IsWhite(node[w].v)}}
           h == [p \in Nat \X T |-> Led(p[2])]
           m == MoreTo(S)
<1>1. A \in T
  BY DEF IsWhite
<1>2. \A M \in T : Led(M) \in T
  BY DEF IsWhite
<1>3. h \in [Nat \X T -> T]
  BY <1>2
<1>4. PICK f \in [Nat -> T] : f[0] = A /\ \A n \in Nat : f[n + 1] = h[<<n, f[n]>>]
  <2> HIDE DEF h, T, A
  <2>1. Iterates(T, A, h) # {}
    BY <1>1, <1>3, RecursionOnNat
  <2> QED
    BY <2>1 DEF Iterates
<1>5. \A n \in Nat : f[n + 1] = Led(f[n])
  <2> TAKE n \in Nat
  <2>1. h[<<n, f[n]>>] = Led(<<n, f[n]>>[2])
    BY <1>4
  <2> QED
    BY <1>4, <2>1
<1>6. f = [n \in Nat |-> IF n = 0 THEN A ELSE LET M == f[n - 1] IN Led(M)]
  <2>1. ASSUME NEW n \in Nat, n # 0 PROVE f[n] = Led(f[n - 1])
    <3> HIDE DEF Led
    <3>1. n - 1 \in Nat /\ (n - 1) + 1 = n
      BY <2>1
    <3>2. f[(n - 1) + 1] = Led(f[n - 1])
      BY <1>5, <3>1
    <3> QED
      BY <3>1, <3>2
  <2>2. f = [n \in Nat |-> f[n]]
    BY <1>4
  <2> HIDE DEF Led, A
  <2>3. \A n \in Nat : f[n] = IF n = 0 THEN A ELSE Led(f[n - 1])
    BY <1>4, <2>1
  <2> QED
    BY <2>2, <2>3
<1>7. m = [n \in Nat |-> IF n = 0 THEN A ELSE LET M == m[n - 1] IN Led(M)]
  BY <1>6 DEF MoreTo
<1> HIDE DEF m, A
<1>8. m[0] = A /\ \A n \in Nat : m[n + 1] = Led(m[n])
  <2>1. m[0] = A
    BY <1>7
  <2> SUFFICES ASSUME NEW n \in Nat PROVE m[n + 1] = Led(m[n])
    BY <2>1
  <2> HIDE DEF Led
  <2>2. n + 1 \in Nat /\ n + 1 # 0 /\ (n + 1) - 1 = n
    OBVIOUS
  <2>3. m[n + 1] = Led(m[(n + 1) - 1])
    BY <1>7, <2>2
  <2> QED
    BY <2>2, <2>3
<1> DEFINE G == {n \in Nat : m[n] \in T}
<1>9. Nat \subseteq G
  <2> HIDE DEF Led, T
  <2>1. 0 \in G
    BY <1>1, <1>8
  <2>2. \A n \in Nat : n \in G => n + 1 \in G
    BY <1>2, <1>8
  <2> HIDE DEF G
  <2> QED
    BY <2>1, <2>2, NatInd
<1>10. m \in [Nat -> SUBSET Obj]
  BY <1>7, <1>9
<1>11. m[Cardinality(Obj) + 1] = m[Cardinality(Obj)]
  <2>1. \A n \in Nat : m[n] \subseteq m[n + 1]
    BY <1>8
  <2>2. \A n \in Nat : m[n] = m[n + 1] => m[n + 1] = m[(n + 1) + 1]
    <3> SUFFICES ASSUME NEW n \in Nat, m[n] = m[n + 1] PROVE m[n + 1] = m[(n + 1) + 1]
      OBVIOUS
    <3> HIDE DEF Led
    <3>1. m[n + 1] = Led(m[n]) /\ n + 1 \in Nat
      BY <1>8
    <3>2. m[(n + 1) + 1] = Led(m[n + 1])
      BY <1>8, <3>1
    <3> QED
      BY <3>1, <3>2
  <2> QED
    BY <1>10, <2>1, <2>2, ChainStops, GcAssumption
<1> DEFINE W == {n \in Nat : (\A o \in m[n] : o \in Obj /\ IsWhite(o)) /\ A \subseteq m[n] /\ (A = {} => m[n] = {})}
<1>12. Nat \subseteq W
  <2>1. 0 \in W
    BY <1>8 DEF A, IsWhite
  <2>2. \A n \in Nat : n \in W => n + 1 \in W
    BY <1>8 DEF IsWhite
  <2> HIDE DEF W
  <2> QED
    BY <2>1, <2>2, NatInd
<1>13. Cardinality(Obj) \in Nat
  BY GcAssumption, FS_CardinalityType
<1> DEFINE R == m[Cardinality(Obj)]
<1>14. R = Led(R)
  BY <1>8, <1>11, <1>13
<1>15. (\A o \in R : o \in Obj /\ IsWhite(o)) /\ A \subseteq R /\ (A = {} => R = {})
  BY <1>12, <1>13
<1>16. Reached(S) = R
  BY DEF Reached, MoreTo, m
<1> HIDE DEF R
<1>17. MarkOf(R, S)
  BY <1>14, <1>15 DEF MarkOf, A
<1> QED
  BY <1>16, <1>17

-----------------------------------------------------------------------------
(* What marking changes *)

Colours == White \cup {"gray", "black", "free"}

\* Objects only lose whiteness, and nothing is allocated or freed.
Brighter ==
  /\ mark \in [Obj -> Colours] /\ mark' \in [Obj -> Colours]
  /\ \A p \in Obj : /\ mark'[p] = "free" <=> mark[p] = "free"
                    /\ mark'[p] \in White => mark'[p] = mark[p]
                    /\ NonWhite(p) => mark'[p] \in {"gray", "black"}
  /\ \A x : IsWhite(x)' => IsWhite(x)

\* The objects of S are marked, o takes the given colour, and g are the gray objects besides.
PaintOf(S, o, colour, g) ==
  /\ Brighter
  /\ \A x \in S : ~IsWhite(x)'
  /\ o \in Obj => mark'[o] = colour
  /\ \A p \in Obj : p # o /\ mark'[p] # mark[p] =>
       \/ p \in Userdata /\ mark'[p] = "black" /\ (node[p].v \in Obj => mark'[node[p].v] \notin White)
       \/ p \notin Userdata /\ mark'[p] = "gray" /\ p \in gray'
  /\ g \subseteq gray' /\ \A p \in gray' : p \in g \/ (p \in Obj /\ mark'[p] = "gray")
  /\ (\A x \in S : ~IsWhite(x)) => gray' = g /\ \A x : IsWhite(x)' <=> IsWhite(x)
LEMMA PaintIs ==
  ASSUME mark \in [Obj -> Colours], NEW S, NEW o, NEW colour \in {"gray", "black"}, NEW g,
         o \in Obj => NonWhite(o), NEW M, MarkOf(M, S),
         mark' = [p \in Obj |-> IF p \in M THEN (IF p \in Userdata THEN "black" ELSE "gray")
                                ELSE IF p = o THEN colour ELSE mark[p]],
         gray' = g \cup (M \ Userdata)
  PROVE  PaintOf(S, o, colour, g)
<1>1. /\ \A x \in S : IsWhite(x) => x \in M
      /\ \A p \in M : p \in Obj /\ mark[p] \in White
      /\ \A u \in M : u \in Userdata /\ IsWhite(node[u].v) => node[u].v \in M
      /\ (\A x \in S : ~IsWhite(x)) => M = {}
  BY DEF MarkOf, IsWhite
<1>2. \A p \in Obj : mark'[p] = IF p \in M THEN (IF p \in Userdata THEN "black" ELSE "gray")
                                ELSE IF p = o THEN colour ELSE mark[p]
  OBVIOUS
<1>3. mark' \in [Obj -> Colours]
  <2>1. \A p \in Obj : mark[p] \in Colours /\ {"gray", "black"} \subseteq Colours
    BY DEF Colours
  <2> QED
    BY <2>1
<1>4. \A p \in Obj : /\ mark'[p] = "free" <=> mark[p] = "free"
                     /\ mark'[p] \in White => mark'[p] = mark[p] /\ p \notin M
                     /\ NonWhite(p) => mark'[p] \in {"gray", "black"}
  BY <1>1, <1>2 DEF White, NonWhite
<1>5. \A x : IsWhite(x)' => IsWhite(x) /\ x \notin M
  BY <1>4 DEF IsWhite
<1>6. Brighter
  BY <1>3, <1>4, <1>5 DEF Brighter
<1>7. o \in Obj => mark'[o] = colour
  BY <1>1, <1>2 DEF White, NonWhite
<1>8. \A p \in Obj : p # o /\ mark'[p] # mark[p] =>
       \/ p \in Userdata /\ mark'[p] = "black" /\ (node[p].v \in Obj => mark'[node[p].v] \notin White)
       \/ p \notin Userdata /\ mark'[p] = "gray" /\ p \in gray'
  <2> SUFFICES ASSUME NEW p \in Obj, p # o, mark'[p] # mark[p]
               PROVE  \/ p \in Userdata /\ mark'[p] = "black" /\ (node[p].v \in Obj => mark'[node[p].v] \notin White)
                      \/ p \notin Userdata /\ mark'[p] = "gray" /\ p \in gray'
    OBVIOUS
  <2>1. CASE p \in M /\ p \in Userdata
    <3>1. IsWhite(node[p].v) => node[p].v \in M
      BY <1>1, <2>1
    <3>2. node[p].v \in Obj => mark'[node[p].v] \notin White
      BY <1>4, <3>1 DEF IsWhite
    <3> QED
      BY <1>2, <2>1, <3>2
  <2>2. CASE p \in M /\ p \notin Userdata
    BY <1>2, <2>2
  <2> QED
    BY <1>2, <2>1, <2>2
<1>9. g \subseteq gray' /\ \A p \in gray' : p \in g \/ (p \in Obj /\ mark'[p] = "gray")
  BY <1>1, <1>2
<1>10. (\A x \in S : ~IsWhite(x)) => gray' = g /\ \A x : IsWhite(x)' <=> IsWhite(x)
  BY <1>1, <1>2, <1>7 DEF IsWhite, NonWhite, White
<1> QED
  BY <1>1, <1>5, <1>6, <1>7, <1>8, <1>9, <1>10 DEF PaintOf

\* reallymarkobject, of all the objects of S.
LEMMA MarksIs ==
  ASSUME mark \in [Obj -> Colours], NEW S, NEW g, Marks(S, g)
  PROVE  PaintOf(S, Nil, "gray", g)
<1>1. MarkOf(Reached(S), S)
  BY ReachedIs
<1>2. Nil \notin Obj
  BY GcAssumption
<1> QED
  BY <1>1, <1>2, PaintIs DEF Marks

\* reallymarkobject, of what an object that is traversed leads to.
LEMMA TraverseIs ==
  ASSUME mark \in [Obj -> Colours], NEW S, NEW o, NEW colour \in {"gray", "black"},
         o \in Obj => NonWhite(o), Traverse(o, S, colour)
  PROVE  PaintOf(S, o, colour, gray \ {o})
<1>1. MarkOf(Reached(S), S)
  BY ReachedIs
<1> QED
  BY <1>1, PaintIs DEF Traverse

\* Entries only lose their key or their value.
Entries == [k : Obj \cup {Nil, Dead}, v : Obj \cup {Nil}]
Thinner ==
  /\ node' \in [Obj -> Entries]
  /\ \A p \in Obj : /\ node'[p].v \in {node[p].v, Nil} /\ node'[p].k \in {node[p].k, Dead}
                    /\ ~IsWhite(node[p].k) => node'[p].k = node[p].k

\* removeentry keeps an entry's value, and its key unless both are dead.
LEMMA RemovedIs ==
  ASSUME NEW e \in Entries
  PROVE  /\ Removed(e) \in Entries /\ Removed(e).v = e.v /\ Removed(e).k \in {e.k, Dead}
         /\ e.v = Nil => ~IsWhite(Removed(e).k)
         /\ e.v # Nil \/ ~IsWhite(e.k) => Removed(e) = e
         /\ ~IsWhite(Nil) /\ ~IsWhite(Dead)
<1>1. ~IsWhite(Nil) /\ ~IsWhite(Dead)
  BY GcAssumption DEF IsWhite
<1>2. CASE e.v = Nil /\ IsWhite(e.k)
  <2>1. Removed(e) = [e EXCEPT !.k = Dead]
    BY <1>2 DEF Removed
  <2>2. [e EXCEPT !.k = Dead] = [k |-> Dead, v |-> e.v]
    BY DEF Entries
  <2>3. e.v \in Obj \cup {Nil}
    BY DEF Entries
  <2> QED
    BY <1>1, <1>2, <2>1, <2>2, <2>3 DEF Entries
<1>3. CASE ~(e.v = Nil /\ IsWhite(e.k))
  <2>1. Removed(e) = e
    BY <1>3 DEF Removed
  <2> QED
    BY <1>1, <1>3, <2>1
<1> QED
  BY <1>2, <1>3

\* Marking and clearing keep what is kept closed.
LEMMA ClosedKept ==
  ASSUME Closed, \A o \in Obj : mark[o] # "other", Brighter, Thinner, stack' = stack,
         \A o \in Obj : o \in Range(lists'.finobj) \cup Range(lists'.tobefnz) =>
                          o \in Range(lists.finobj) \cup Range(lists.tobefnz)
  PROVE  Closed' /\ Allocated' = Allocated
<1>1. \A p \in Obj : /\ mark'[p] = "free" <=> mark[p] = "free"
                     /\ mark'[p] # "other"
  BY DEF Brighter, White
<1> DEFINE Keep(x) == x \in Obj => mark'[x] \notin {"free", "other"}
<1>2. \A x : Kept(x) => Keep(x)
  BY <1>1 DEF Kept
<1>3. Keep(Nil) /\ Keep(Dead)
  BY GcAssumption
<1>4. \A o \in Obj : mark'[o] \notin {"free", "other"} => Keep(node'[o].k) /\ Keep(node'[o].v)
  <2> SUFFICES ASSUME NEW o \in Obj, mark'[o] \notin {"free", "other"}
               PROVE  Keep(node'[o].k) /\ Keep(node'[o].v)
    OBVIOUS
  <2>1. Kept(node[o].k) /\ Kept(node[o].v)
    BY <1>1 DEF Closed
  <2>2. node'[o].v \in {node[o].v, Nil} /\ node'[o].k \in {node[o].k, Dead}
    BY DEF Thinner
  <2> HIDE DEF Keep
  <2> QED
    BY <1>2, <1>3, <2>1, <2>2
<1>5. Allocated' = Allocated
  BY <1>1 DEF Allocated
<1>6. Closed'
  BY <1>2, <1>4 DEF Closed, Kept
<1> QED
  BY <1>5, <1>6

\* A visit to one object, in whatever stage, makes it black, or leaves it in a list for later.
VisitOne(o) == PropagateStrong(o) \/ PropagateWeakValue(o) \/ VisitEphemeron(o) \/ PropagateAllWeak(o)
SameStage == gcstate' = gcstate \/ (gcstate = "propagate" /\ gcstate' = "atomic")
\* What a visit of o by propagatemark or convergeephemerons changes.
Dimmed(x) == x \in Obj => mark'[x] \notin White
VisitOf(o) ==
  /\ Brighter /\ Thinner
  /\ \A p \in Obj : p # o => node'[p] = node[p]
  /\ o \in Obj /\ mark'[o] = "black" => o \in Strong /\ Dimmed(node'[o].k) /\ Dimmed(node'[o].v)
  /\ o \in Obj /\ mark'[o] # "black" => mark'[o] = "gray" /\ o \notin Userdata /\ (Pending(o)' \/ Settled(o)')
  /\ \A p \in Obj : p # o /\ mark'[p] # mark[p] =>
       \/ p \in Userdata /\ mark'[p] = "black" /\ Dimmed(node[p].v)
       \/ p \notin Userdata /\ mark'[p] = "gray" /\ p \in gray'
  /\ gray \ {o} \subseteq gray' /\ \A p \in gray' : p \in gray \ {o} \/ (p \in Obj /\ mark'[p] = "gray")
  /\ grayagain \subseteq grayagain' /\ grayagain' \subseteq grayagain \cup {o}
  /\ weak \subseteq weak' /\ weak' \subseteq weak \cup ({o} \cap WeakValue)
  /\ allweak \subseteq allweak' /\ allweak' \subseteq allweak \cup ({o} \cap (AllWeak \cup Ephemeron))
  /\ ephemeron \subseteq ephemeron' /\ ephemeron' \subseteq ephemeron \cup ({o} \cap Ephemeron)
LEMMA VisitIs ==
  ASSUME Types, NEW o \in Obj, NonWhite(o), VisitOne(o), gcstate \in Marking \ {"atomic"}, SameStage,
         next' = next \/ next' = next \ {o}
  PROVE  VisitOf(o)
<1> DEFINE e == node[o]
<1>1. mark \in [Obj -> Colours] /\ node \in [Obj -> Entries] /\ e \in Entries
  BY DEF Types, TypeOK, Colours, Entries
<1>2. /\ Removed(e) \in Entries /\ Removed(e).v = e.v /\ Removed(e).k \in {e.k, Dead}
      /\ e.v = Nil => ~IsWhite(Removed(e).k)
      /\ e.v # Nil \/ ~IsWhite(e.k) => Removed(e) = e
      /\ ~IsWhite(Nil) /\ ~IsWhite(Dead)
  BY <1>1, RemovedIs
<1>3. Nil \notin Obj /\ Dead \notin Obj
  BY GcAssumption
<1>4. node' \in {node, [node EXCEPT ![o] = Removed(@)]}
  BY DEF VisitOne, PropagateStrong, PropagateWeakValue, VisitEphemeron, PropagateAllWeak
<1>5. Thinner /\ \A p \in Obj : p # o => node'[p] = node[p]
  BY <1>1, <1>2, <1>4 DEF Thinner
<1>6. o \in Userdata \/ o \in Tables \/ o \in Closure
  BY DEF Obj
<1>7. gcstate = "propagate" => gcstate' \in Early
  BY DEF SameStage, Early
<1>8. gcstate # "propagate" => gcstate' = gcstate /\ gcstate \notin {"propagate", "atomic"}
  BY DEF SameStage, Marking, Atomically
<1>9. ASSUME NEW S, NEW c \in {"gray", "black"}, Traverse(o, S, c) PROVE PaintOf(S, o, c, gray \ {o}) /\ mark'[o] = c
  BY <1>1, <1>9, TraverseIs DEF PaintOf
<1>10. \A S, c : PaintOf(S, o, c, gray \ {o}) =>
          /\ Brighter
          /\ \A x \in S : Dimmed(x)
          /\ \A x : Dimmed(x) \/ IsWhite(x)
          /\ \A p \in Obj : p # o /\ mark'[p] # mark[p] =>
               \/ p \in Userdata /\ mark'[p] = "black" /\ Dimmed(node[p].v)
               \/ p \notin Userdata /\ mark'[p] = "gray" /\ p \in gray'
          /\ gray \ {o} \subseteq gray' /\ \A p \in gray' : p \in gray \ {o} \/ (p \in Obj /\ mark'[p] = "gray")
  BY DEF PaintOf, Brighter, Dimmed, IsWhite
<1>11. CASE PropagateStrong(o)
  <2> DEFINE S == IF e.v = Nil THEN {} ELSE {e.k, e.v}
  <2>1. /\ o \in Table \cup Closure /\ Traverse(o, S, "black") /\ node' = [node EXCEPT ![o] = Removed(@)]
        /\ grayagain' = grayagain /\ weak' = weak /\ allweak' = allweak /\ ephemeron' = ephemeron
    BY <1>11 DEF PropagateStrong
  <2>2. PaintOf(S, o, "black", gray \ {o}) /\ mark'[o] = "black"
    BY <1>9, <2>1
  <2>3. node'[o] = Removed(e)
    BY <1>1, <2>1
  <2>4. Dimmed(node'[o].k) /\ Dimmed(node'[o].v)
    <3>1. CASE e.v = Nil
      <4>1. node'[o].v = Nil /\ ~IsWhite(node'[o].k)
        BY <1>2, <2>3, <3>1
      <4> QED
        BY <1>3, <1>10, <2>2, <4>1 DEF Dimmed
    <3>2. CASE e.v # Nil
      <4>1. node'[o] = e /\ e.k \in S /\ e.v \in S
        BY <1>2, <2>3, <3>2
      <4> QED
        BY <1>10, <2>2, <4>1
    <3> QED
      BY <3>1, <3>2
  <2>5. o \in Strong
    BY <2>1 DEF Strong
  <2> HIDE DEF S, e
  <2> QED
    BY <1>5, <1>10, <2>1, <2>2, <2>4, <2>5 DEF VisitOf
<1>12. CASE PropagateWeakValue(o)
  <2> DEFINE S == IF e.v = Nil THEN {} ELSE {e.k}
  <2>1. /\ o \in WeakValue /\ Traverse(o, S, "gray") /\ node' = [node EXCEPT ![o] = Removed(@)]
        /\ grayagain' = IF gcstate = "propagate" THEN grayagain \cup {o} ELSE grayagain
        /\ weak' = IF gcstate # "propagate" /\ e.v \in Obj /\ mark'[e.v] \in White
                    THEN weak \cup {o} ELSE weak
        /\ allweak' = allweak /\ ephemeron' = ephemeron
    BY <1>12 DEF PropagateWeakValue
  <2>2. PaintOf(S, o, "gray", gray \ {o}) /\ mark'[o] = "gray"
    BY <1>9, <2>1
  <2>3. node'[o] = Removed(e)
    BY <1>1, <2>1
  <2>4. Dimmed(node'[o].k)
    <3>1. CASE e.v = Nil
      <4>1. ~IsWhite(node'[o].k)
        BY <1>2, <2>3, <3>1
      <4> QED
        BY <1>10, <2>2, <4>1
    <3>2. CASE e.v # Nil
      <4>1. node'[o] = e /\ e.k \in S
        BY <1>2, <2>3, <3>2
      <4> QED
        BY <1>10, <2>2, <4>1
    <3> QED
      BY <3>1, <3>2
  <2>5. node'[o].v = e.v
    BY <1>2, <2>3
  <2>6. o \notin Userdata
    BY <2>1, GcAssumption DEF Tables
  <2> HIDE DEF S, e
  <2>7. Pending(o)' \/ Settled(o)'
    <3>1. CASE gcstate = "propagate"
      BY <1>7, <2>1, <3>1 DEF Pending
    <3>2. CASE gcstate # "propagate"
      <4>1. ~KeepInvariant'
        BY <1>8, <3>2 DEF KeepInvariant
      <4>2. ~IsWhite(node[o].k)'
        BY <2>4 DEF Dimmed, IsWhite
      <4>3. IsWhite(node[o].v)' => o \in weak'
        BY <2>1, <2>5, <3>2 DEF IsWhite
      <4> QED
        BY <2>1, <4>1, <4>2, <4>3 DEF Settled
    <3> QED
      BY <3>1, <3>2
  <2> QED
    BY <1>5, <1>10, <2>1, <2>2, <2>6, <2>7 DEF VisitOf
<1>13. CASE VisitEphemeron(o)
  <2> DEFINE S == IF WhiteKey(o) THEN {} ELSE {e.v}
  <2>1. /\ o \in Ephemeron /\ Traverse(o, S, "gray") /\ node' = [node EXCEPT ![o] = Removed(@)]
        /\ grayagain' = IF gcstate = "propagate" THEN grayagain \cup {o} ELSE grayagain
        /\ ephemeron' = IF gcstate # "propagate" /\ Waits(o) THEN ephemeron \cup {o} ELSE ephemeron
        /\ allweak' = IF gcstate # "propagate" /\ WhiteKey(o) /\ ~Waits(o) THEN allweak \cup {o} ELSE allweak
        /\ weak' = weak
    BY <1>13 DEF VisitEphemeron
  <2>2. PaintOf(S, o, "gray", gray \ {o}) /\ mark'[o] = "gray"
    BY <1>9, <2>1
  <2>3. node'[o] = Removed(e)
    BY <1>1, <2>1
  <2>4. node'[o].v = e.v
    BY <1>2, <2>3
  <2>5. o \notin Userdata
    BY <2>1, GcAssumption DEF Tables
  <2>6. CASE gcstate = "propagate"
    <3>1. Pending(o)'
      BY <1>7, <2>1, <2>6 DEF Pending
    <3> HIDE DEF S, e
    <3> QED
      BY <1>5, <1>10, <2>1, <2>2, <2>5, <3>1 DEF VisitOf
  <2>7. CASE gcstate # "propagate"
    <3>1. ~KeepInvariant'
      BY <1>8, <2>7 DEF KeepInvariant
    <3>2. Settled(o)'
      <4>1. CASE WhiteKey(o) /\ Waits(o)
        BY <2>1, <2>7, <3>1, <4>1 DEF Settled
      <4>2. CASE WhiteKey(o) /\ ~Waits(o)
        <5>1. ~IsWhite(e.v)
          BY <4>2 DEF Waits
        <5>2. ~IsWhite(node[o].v)'
          BY <1>10, <2>2, <2>4, <5>1 DEF Dimmed, IsWhite
        <5> QED
          BY <2>1, <2>7, <3>1, <4>2, <5>2 DEF Settled
      <4>3. CASE ~WhiteKey(o)
        <5>1. Dimmed(node'[o].v)
          BY <1>10, <2>2, <2>4, <4>3
        <5>2. ~IsWhite(node'[o].k)
          BY <1>2, <2>3, <4>3 DEF WhiteKey
        <5>3. Dimmed(node'[o].k)
          BY <1>10, <2>2, <5>2
        <5> QED
          BY <2>1, <3>1, <5>1, <5>3 DEF Settled, Dimmed, IsWhite
      <4> QED
        BY <4>1, <4>2, <4>3
    <3> HIDE DEF S, e
    <3> QED
      BY <1>5, <1>10, <2>1, <2>2, <2>5, <3>2 DEF VisitOf
  <2> QED
    BY <2>6, <2>7
<1>14. CASE PropagateAllWeak(o)
  <2>1. /\ o \in AllWeak /\ Traverse(o, {}, "gray")
        /\ node' = node /\ grayagain' = grayagain /\ weak' = weak /\ allweak' = allweak \cup {o} /\ ephemeron' = ephemeron
    BY <1>14 DEF PropagateAllWeak
  <2>2. PaintOf({}, o, "gray", gray \ {o}) /\ mark'[o] = "gray"
    BY <1>9, <2>1
  <2>3. o \notin Userdata
    BY <2>1, GcAssumption DEF Tables
  <2>4. Settled(o)'
    BY <2>1 DEF Settled
  <2> HIDE DEF e
  <2> QED
    BY <1>5, <1>10, <2>1, <2>2, <2>3, <2>4 DEF VisitOf
<1> QED
  BY <1>11, <1>12, <1>13, <1>14 DEF VisitOne

\* A visit, the one of the main thread included, preserves the invariant, once it is known what it
\* leaves to convergeephemerons and that the stack is still to be marked or is marked.
LEMMA VisitStep ==
  ASSUME IInv, NEW o \in Obj \cup {Main}, o \in Obj => NonWhite(o), VisitOf(o), gcstate \in Marking \ {"atomic"}, SameStage,
         next' = next \/ next' = next \ {o}, changed' \in BOOLEAN, Converged', RootsMarked',
         UNCHANGED <<stack, orig, lists, sweepgc, collection>>
  PROVE  IInv'
<1>1. Types /\ Listed /\ Closed /\ Coloured /\ OnGrayLists /\ RootsMarked /\ Converged /\ Saved
  BY DEF IInv, Marked
<1>2. stack' = stack /\ orig' = orig /\ lists' = lists /\ sweepgc' = sweepgc /\ full' = full /\ emergency' = emergency
  BY DEF collection
<1>3. /\ gcstate' \in Marking /\ (gcstate' \in Early <=> gcstate \in Early)
      /\ gcstate' = gcstate \/ gcstate = "propagate"
  BY DEF Marking, SameStage, Early, Atomically
<1>4. /\ Brighter /\ Thinner
      /\ \A p \in Obj : p # o => node'[p] = node[p]
      /\ o \in Obj /\ mark'[o] = "black" => o \in Strong /\ Dimmed(node'[o].k) /\ Dimmed(node'[o].v)
      /\ o \in Obj /\ mark'[o] # "black" => mark'[o] = "gray" /\ o \notin Userdata /\ (Pending(o)' \/ Settled(o)')
      /\ \A p \in Obj : p # o /\ mark'[p] # mark[p] =>
           \/ p \in Userdata /\ mark'[p] = "black" /\ Dimmed(node[p].v)
           \/ p \notin Userdata /\ mark'[p] = "gray" /\ p \in gray'
      /\ gray \ {o} \subseteq gray' /\ \A p \in gray' : p \in gray \ {o} \/ (p \in Obj /\ mark'[p] = "gray")
      /\ grayagain \subseteq grayagain' /\ grayagain' \subseteq grayagain \cup {o}
      /\ weak \subseteq weak' /\ weak' \subseteq weak \cup ({o} \cap WeakValue)
      /\ allweak \subseteq allweak' /\ allweak' \subseteq allweak \cup ({o} \cap (AllWeak \cup Ephemeron))
      /\ ephemeron \subseteq ephemeron' /\ ephemeron' \subseteq ephemeron \cup ({o} \cap Ephemeron)
  BY DEF VisitOf
<1>5. /\ mark' \in [Obj -> Colours]
      /\ \A p \in Obj : /\ mark'[p] = "free" <=> mark[p] = "free"
                        /\ mark'[p] \in White => mark'[p] = mark[p]
                        /\ NonWhite(p) => mark'[p] \in {"gray", "black"}
      /\ \A x : IsWhite(x)' => IsWhite(x)
      /\ \A p \in Obj : /\ node'[p].v \in {node[p].v, Nil} /\ node'[p].k \in {node[p].k, Dead}
                        /\ ~IsWhite(node[p].k) => node'[p].k = node[p].k
      /\ node' \in [Obj -> Entries]
  BY <1>4 DEF Brighter, Thinner
<1>6. Nil \notin Obj /\ Dead \notin Obj /\ Main \notin Obj
  BY GcAssumption
<1>7. Closed' /\ Allocated' = Allocated
  BY <1>1, <1>2, <1>4, ClosedKept DEF Coloured
<1>8. Types'
  <2>1. TypeOK'
    <3>1. TypeOK
      BY <1>1 DEF Types
    <3>2. gray' \subseteq Obj \cup {Main} /\ grayagain' \subseteq Obj \cup {Main}
      BY <1>4, <3>1 DEF TypeOK
    <3>3. weak' \subseteq WeakValue /\ allweak' \subseteq AllWeak \cup Ephemeron /\ ephemeron' \subseteq Ephemeron
          /\ next' \subseteq Ephemeron /\ orig' \subseteq weak' \cup allweak'
      BY <1>2, <1>4, <3>1 DEF TypeOK
    <3>4. gcstate' \in Inside \cup {"pause", "propagate", "atomic", "swpallgc", "swpfinobj", "swptobefnz", "swpend", "callfin"}
      BY <3>1 DEF TypeOK, SameStage
    <3>5. /\ stack' \subseteq Obj /\ DOMAIN lists' = {"allgc", "finobj", "tobefnz"}
          /\ sweepgc' \in {"null", "head"} \cup Allocated' /\ full' \in {"no", "finish", "cycle"} /\ emergency' \in BOOLEAN
      BY <1>2, <1>7, <3>1 DEF TypeOK
    <3> QED
      BY <1>5, <3>2, <3>3, <3>4, <3>5 DEF TypeOK, Colours, Entries
  <2>2. \A p \in Obj : mark'[p] = "free" => node'[p] = Empty
    BY <1>1, <1>4, <1>5 DEF Types, NonWhite
  <2>3. \A p \in Obj \ Tables : node'[p].k = Nil
    BY <1>1, <1>5, <1>6 DEF Types, IsWhite
  <2>4. gcstate' \notin {"converge1", "converge2"} => next' = {}
    BY <1>1, <1>3 DEF Types
  <2>5. gcstate' \notin {"inside3", "converge2"} => orig' = {}
    BY <1>1, <1>2, <1>3 DEF Types
  <2> QED
    BY <1>1, <1>2, <2>1, <2>2, <2>3, <2>4, <2>5 DEF Types, Empty
<1>9. Listed'
  BY <1>1, <1>2, <1>7 DEF Listed, Once
<1>10. SweptSoFar'
  <2>1. gcstate' \notin {"swpallgc", "swpfinobj", "swptobefnz", "swpend", "callfin", "pause"}
    BY <1>3 DEF Marking, Atomically
  <2> QED
    BY <2>1 DEF SweptSoFar
<1>11. Coloured'
  <2>1. \A p \in Obj : mark'[p] # "other"
    BY <1>1, <1>5 DEF Coloured, White
  <2>2. ASSUME NEW p \in Obj, mark'[p] = "black"
        PROVE  p \in Strong /\ Dimmed(node'[p].k) /\ Dimmed(node'[p].v)
    <3>1. CASE p = o
      BY <1>4, <2>2, <3>1
    <3>2. CASE p # o /\ mark[p] = "black"
      <4>1. p \in Strong /\ ~IsWhite(node[p].k) /\ ~IsWhite(node[p].v) /\ node'[p] = node[p]
        BY <1>1, <1>4, <3>2 DEF Coloured
      <4> QED
        BY <1>5, <4>1 DEF Dimmed, IsWhite
    <3>3. CASE p # o /\ mark[p] # "black"
      <4>1. p \in Userdata /\ Dimmed(node[p].v) /\ node'[p] = node[p]
        BY <1>4, <2>2, <3>3
      <4>2. node[p].k = Nil
        BY <1>1, <4>1, GcAssumption DEF Types
      <4> QED
        BY <1>6, <4>1, <4>2 DEF Dimmed, Strong
    <3> QED
      BY <3>1, <3>2, <3>3
  <2>3. ASSUME NEW p \in Obj, mark'[p] = "gray"
        PROVE  p \notin Userdata /\ (Pending(p)' \/ Settled(p)')
    <3>1. CASE p = o
      BY <1>4, <2>3, <3>1
    <3>2. CASE p # o /\ mark[p] # "gray"
      BY <1>4, <2>3, <3>2 DEF Pending
    <3>3. CASE p # o /\ mark[p] = "gray"
      <4>1. p \notin Userdata /\ (Pending(p) \/ Settled(p)) /\ node'[p] = node[p]
        BY <1>1, <1>4, <3>3 DEF Coloured
      <4>2. Pending(p) => Pending(p)'
        BY <1>3, <1>4, <3>3 DEF Pending
      <4>3. Settled(p) => Settled(p)'
        <5>1. ~KeepInvariant => ~KeepInvariant'
          BY <1>3 DEF KeepInvariant
        <5>2. \A x : ~IsWhite(x) => ~IsWhite(x)'
          BY <1>5
        <5>3. p \in ephemeron \cup next => p \in ephemeron' \cup next'
          BY <1>4, <3>3
        <5> QED
          BY <1>4, <4>1, <5>1, <5>2, <5>3 DEF Settled
      <4> QED
        BY <4>1, <4>2, <4>3
    <3> QED
      BY <3>1, <3>2, <3>3
  <2> QED
    BY <2>1, <2>2, <2>3 DEF Coloured, Dimmed, IsWhite
<1>12. OnGrayLists'
  <2>1. \A p \in Obj : NonWhite(p) => NonWhite(p)'
    BY <1>5 DEF NonWhite
  <2>2. \A p \in Obj : mark'[p] = "gray" => NonWhite(p)'
    BY DEF NonWhite
  <2>3. \A p \in Obj \cap UNION {gray', grayagain', weak', allweak', ephemeron', next'} :
            mark'[p] = "gray" \/ p = o \/ p \in UNION {gray, grayagain, weak, allweak, ephemeron, next}
    BY <1>4
  <2>4. \A p \in Obj \cap UNION {gray', grayagain', weak', allweak', ephemeron', next'} : NonWhite(p)'
    BY <1>1, <2>1, <2>2, <2>3 DEF OnGrayLists
  <2>5. \A p \in orig : p \in Obj /\ ~IsWhite(node[p].v)
    BY <1>1 DEF OnGrayLists, Types, TypeOK, Obj, Tables
  <2>6. ASSUME NEW p \in orig' PROVE Dimmed(node'[p].v)
    <3>1. p \in Obj /\ ~IsWhite(node[p].v) /\ node'[p].v \in {node[p].v, Nil}
      BY <1>2, <1>5, <2>5
    <3> QED
      BY <1>5, <1>6, <3>1 DEF Dimmed, IsWhite
  <2> QED
    BY <2>4, <2>6 DEF OnGrayLists, Dimmed, IsWhite
<1>13. Saved'
  <2>1. gcstate' \in {"inside3", "converge2"} => gcstate \in {"inside3", "converge2"}
    BY <1>3 DEF SameStage
  <2> QED
    BY <1>1, <1>2, <1>5, <2>1 DEF Saved
<1> QED
  BY <1>3, <1>7, <1>8, <1>9, <1>10, <1>11, <1>12, <1>13 DEF IInv, Marked

-----------------------------------------------------------------------------
(* The mark phase preserves the invariant *)

\* propagatemark, as a step of its own or within propagateall.
LEMMA PropagateStep ==
  ASSUME IInv, PropagateMark, gcstate \in Marking \ {"atomic"}, SameStage,
         gray # {}, UNCHANGED <<stack, atomicvars, lists, sweepgc, collection>>
  PROVE  IInv'
<1>1. Types /\ OnGrayLists /\ RootsMarked /\ Converged /\ Coloured
  BY DEF IInv, Marked
<1>2. next' = next /\ changed' = changed /\ orig' = orig /\ stack' = stack
      /\ UNCHANGED <<stack, orig, lists, sweepgc, collection>>
  BY DEF atomicvars
<1>3. changed' \in BOOLEAN
  BY <1>1, <1>2 DEF Types, TypeOK
<1>4. Converged'
  <2>1. gcstate' \in {"converge1", "converge2"} => gcstate \in {"converge1", "converge2"}
    BY DEF SameStage
  <2> QED
    BY <1>1, <1>2, <2>1 DEF Converged
<1>5. gcstate' \in Early <=> gcstate \in Early
  BY DEF SameStage, Early
<1>6. CASE PropagateMain
  <2>1. /\ Main \in gray /\ Traverse(Main, stack, "gray") /\ grayagain' = grayagain \cup {Main}
        /\ node' = node /\ weak' = weak /\ allweak' = allweak /\ ephemeron' = ephemeron
    BY <1>6 DEF PropagateMain
  <2>2. Main \notin Obj /\ mark \in [Obj -> Colours] /\ node \in [Obj -> Entries]
    BY <1>1, GcAssumption DEF Types, TypeOK, Colours, Entries
  <2>3. PaintOf(stack, Main, "gray", gray \ {Main})
    BY <2>1, <2>2, TraverseIs
  <2>4. Thinner
    BY <2>1, <2>2 DEF Thinner
  <2>5. /\ Brighter
        /\ \A x \in stack : ~IsWhite(x)'
        /\ \A p \in Obj : p # Main /\ mark'[p] # mark[p] =>
             \/ p \in Userdata /\ mark'[p] = "black" /\ Dimmed(node[p].v)
             \/ p \notin Userdata /\ mark'[p] = "gray" /\ p \in gray'
        /\ gray \ {Main} \subseteq gray' /\ \A p \in gray' : p \in gray \ {Main} \/ (p \in Obj /\ mark'[p] = "gray")
    BY <2>3 DEF PaintOf, Dimmed
  <2>6. VisitOf(Main)
    BY <2>1, <2>2, <2>4, <2>5 DEF VisitOf
  <2>7. RootsMarked'
    BY <1>2, <2>1, <2>5 DEF RootsMarked
  <2> QED
    BY <1>2, <1>3, <1>4, <2>2, <2>6, <2>7, VisitStep
<1>7. ASSUME NEW o \in gray \cap Obj, VisitOne(o) PROVE IInv'
  <2>1. NonWhite(o) /\ o # Main
    BY <1>1, GcAssumption DEF OnGrayLists
  <2>2. VisitOf(o)
    BY <1>1, <1>2, <1>7, <2>1, VisitIs
  <2>3. RootsMarked'
    <3>1. /\ gray \ {o} \subseteq gray' /\ grayagain \subseteq grayagain'
          /\ \A x : IsWhite(x)' => IsWhite(x)
      BY <2>2 DEF VisitOf, Brighter
    <3>2. Main \in gray => Main \in gray'
      BY <2>1, <3>1
    <3> QED
      BY <1>1, <1>2, <1>5, <3>1, <3>2 DEF RootsMarked
  <2> QED
    BY <1>2, <1>3, <1>4, <2>1, <2>2, <2>3, VisitStep
<1> QED
  BY <1>6, <1>7 DEF PropagateMark, VisitOne

\* convergeephemerons visits one of the tables of this round: what waits for a white key is in the
\* ephemeron list afterwards, or the round is known to have marked something.
LEMMA ConvergeStep ==
  ASSUME IInv, Converge
  PROVE  IInv'
<1>1. Types /\ OnGrayLists /\ RootsMarked /\ Converged /\ Coloured
  BY DEF IInv, Marked, Converge, Marking, Atomically
<1>2. PICK o \in next : /\ VisitEphemeron(o) /\ next' = next \ {o}
                        /\ changed' = (changed \/ (~WhiteKey(o) /\ IsWhite(node[o].v)))
  BY DEF Converge
<1>3. /\ gcstate \in {"converge1", "converge2"} /\ gray = {} /\ gcstate' = gcstate /\ stack' = stack
      /\ UNCHANGED <<stack, orig, lists, sweepgc, collection>>
  BY DEF Converge
<1>4. gcstate \in Marking \ {"atomic"} /\ SameStage /\ gcstate \notin Early
  BY <1>3 DEF Marking, Atomically, SameStage, Early
<1>5. o \in Obj /\ o \in Ephemeron /\ NonWhite(o) /\ mark \in [Obj -> Colours] /\ node \in [Obj -> Entries]
  BY <1>1 DEF Types, TypeOK, OnGrayLists, Obj, Tables, Colours, Entries
<1>6. VisitOf(o)
  BY <1>1, <1>2, <1>4, <1>5, VisitIs DEF VisitOne
<1>7. changed' \in BOOLEAN
  BY <1>1, <1>2 DEF Types, TypeOK
<1>8. \A x : IsWhite(x)' => IsWhite(x)
  BY <1>6 DEF VisitOf, Brighter
<1>9. RootsMarked'
  BY <1>1, <1>3, <1>4, <1>8 DEF RootsMarked
<1>10. Converged'
  <2> SUFFICES ASSUME ~changed' PROVE gray' = {} /\ \A p \in ephemeron' : Waits(p)'
    BY DEF Converged
  <2>1. ~changed /\ (WhiteKey(o) \/ ~IsWhite(node[o].v))
    BY <1>1, <1>2, <1>7 DEF Types, TypeOK
  <2>2. \A p \in ephemeron : Waits(p)
    BY <1>1, <1>3, <2>1 DEF Converged
  <2> DEFINE S == IF WhiteKey(o) THEN {} ELSE {node[o].v}
  <2>3. /\ Traverse(o, S, "gray") /\ node' = [node EXCEPT ![o] = Removed(@)]
        /\ ephemeron' = IF gcstate # "propagate" /\ Waits(o) THEN ephemeron \cup {o} ELSE ephemeron
    BY <1>2 DEF VisitEphemeron
  <2>4. PaintOf(S, o, "gray", gray \ {o})
    BY <1>5, <2>3, TraverseIs
  <2>5. \A x \in S : ~IsWhite(x)
    BY <2>1
  <2>6. gray' = {} /\ \A x : IsWhite(x)' <=> IsWhite(x)
    BY <1>3, <2>4, <2>5 DEF PaintOf
  <2>7. ASSUME NEW p \in ephemeron' PROVE Waits(p) /\ node'[p] = node[p]
    <3>1. Waits(p)
      BY <2>2, <2>3
    <3>2. p # o => node'[p] = node[p]
      BY <2>3
    <3>3. ASSUME p = o PROVE node'[p] = node[p]
      <4>1. node[o].v # Nil /\ node[o] \in Entries
        BY <1>5, <3>1, <3>3 DEF Waits, WhiteKey
      <4>2. Removed(node[o]) = node[o]
        BY <4>1, RemovedIs
      <4> QED
        BY <1>5, <2>3, <3>3, <4>2
    <3> QED
      BY <3>1, <3>2, <3>3
  <2>8. \A p \in ephemeron' : Waits(p)'
    BY <2>6, <2>7 DEF Waits, WhiteKey
  <2> QED
    BY <2>6, <2>8
<1> QED
  BY <1>2, <1>3, <1>4, <1>5, <1>6, <1>7, <1>9, <1>10, VisitStep

\* What is said of the heap and its lists holds as long as they do not change.
LEMMA HeapSame ==
  ASSUME Listed, Closed, stack' = stack, node' = node, mark' = mark, lists' = lists
  PROVE  Listed' /\ Closed' /\ Allocated' = Allocated /\ \A x : IsWhite(x)' <=> IsWhite(x)
<1>1. Allocated' = Allocated
  BY DEF Allocated
<1> QED
  BY <1>1 DEF Listed, Once, Closed, Kept, IsWhite

\* The types are kept by what changes neither the heap nor the lists of objects.
LEMMA TypesSame ==
  ASSUME Types, Listed, Closed, stack' = stack, node' = node, mark' = mark, lists' = lists,
         sweepgc' = sweepgc \/ sweepgc' \in {"head", "null"},
         gcstate' \in Inside \cup {"pause", "propagate", "atomic", "swpallgc", "swpfinobj",
                              "swptobefnz", "swpend", "callfin"},
         gray' \subseteq Obj \cup {Main}, grayagain' \subseteq Obj \cup {Main},
         weak' \subseteq WeakValue, allweak' \subseteq AllWeak \cup Ephemeron,
         ephemeron' \subseteq Ephemeron, next' \subseteq Ephemeron, changed' \in BOOLEAN,
         orig' \subseteq weak' \cup allweak', full' \in {"no", "finish", "cycle"}, emergency' \in BOOLEAN,
         gcstate' \notin {"converge1", "converge2"} => next' = {},
         gcstate' \notin {"inside3", "converge2"} => orig' = {}
  PROVE  Types'
<1>1. Allocated' = Allocated
  BY DEF Allocated
<1>2. TypeOK'
  BY <1>1 DEF Types, TypeOK
<1> QED
  BY <1>2 DEF Types, Empty

\* atomic() begins.
LEMMA AtomicStep ==
  ASSUME IInv, Atomic
  PROVE  IInv'
<1>1. /\ gcstate = "atomic" /\ gcstate' = "inside1" /\ stack' = stack /\ node' = node /\ mark' = mark
      /\ gray' = gray /\ grayagain' = grayagain /\ weak' = weak /\ allweak' = allweak /\ ephemeron' = ephemeron
      /\ next' = next /\ changed' = changed /\ orig' = orig /\ lists' = lists /\ sweepgc' = sweepgc
      /\ full' = full /\ emergency' = emergency
  BY DEF Atomic, heap, graylists, atomicvars, collection
<1>2. Types /\ Listed /\ Closed /\ Coloured /\ OnGrayLists /\ RootsMarked
  BY <1>1 DEF IInv, Marked, Marking
<1>3. Listed' /\ Closed' /\ \A x : IsWhite(x)' <=> IsWhite(x)
  BY <1>1, <1>2, HeapSame
<1>4. Types'
  <2>1. TypeOK /\ next = {} /\ orig = {}
    BY <1>1, <1>2 DEF Types
  <2> QED
    BY <1>1, <1>2, <2>1, TypesSame DEF TypeOK, Inside, Atomically
<1>5. SweptSoFar'
  BY <1>1 DEF SweptSoFar
<1>6. Coloured'
  <2>1. \A o \in Obj : Pending(o) => Pending(o)'
    BY <1>1 DEF Pending, Early
  <2>2. \A o \in Obj : Settled(o) => Settled(o)'
    BY <1>1 DEF Settled, KeepInvariant
  <2> QED
    BY <1>1, <1>2, <1>3, <2>1, <2>2 DEF Coloured
<1>7. OnGrayLists'
  BY <1>1, <1>2, <1>3 DEF OnGrayLists, NonWhite
<1>8. RootsMarked'
  BY <1>1, <1>2 DEF RootsMarked, Early
<1>9. Converged' /\ Saved'
  BY <1>1 DEF Converged, Saved
<1> QED
  BY <1>3, <1>4, <1>5, <1>6, <1>7, <1>8, <1>9 DEF IInv, Marked

\* The objects of grayagain become gray, to be traversed a last time: none waits there any more.
LEMMA GrayAgainStep ==
  ASSUME IInv, GrayAgain
  PROVE  IInv'
<1>1. /\ gcstate = "inside1" /\ gcstate' = "inside2" /\ stack' = stack /\ node' = node /\ mark' = mark
      /\ gray = {} /\ gray' = grayagain /\ grayagain' = {} /\ weak' = weak /\ allweak' = allweak /\ ephemeron' = ephemeron
      /\ next' = next /\ changed' = changed /\ orig' = orig /\ lists' = lists /\ sweepgc' = sweepgc
      /\ full' = full /\ emergency' = emergency
  BY DEF GrayAgain, VisitedAgain, heap, atomicvars, collection
<1>2. Types /\ Listed /\ Closed /\ Coloured /\ OnGrayLists /\ RootsMarked
  BY <1>1 DEF IInv, Marked, Marking, Atomically
<1>3. Listed' /\ Closed' /\ \A x : IsWhite(x)' <=> IsWhite(x)
  BY <1>1, <1>2, HeapSame
<1>4. Types'
  <2>1. TypeOK /\ next = {} /\ orig = {}
    BY <1>1, <1>2 DEF Types
  <2> QED
    BY <1>1, <1>2, <2>1, TypesSame DEF TypeOK, Inside, Atomically
<1>5. SweptSoFar'
  BY <1>1 DEF SweptSoFar
<1>6. Coloured'
  <2>1. \A o \in Obj : Pending(o) => Pending(o)'
    BY <1>1 DEF Pending
  <2>2. \A o \in Obj : Settled(o) => Settled(o)'
    BY <1>1 DEF Settled, KeepInvariant, IsWhite
  <2> QED
    BY <1>1, <1>2, <1>3, <2>1, <2>2 DEF Coloured
<1>7. OnGrayLists'
  BY <1>1, <1>2, <1>3 DEF OnGrayLists, NonWhite
<1>8. RootsMarked'
  BY <1>1, <1>2 DEF RootsMarked, Early
<1>9. Converged' /\ Saved'
  BY <1>1 DEF Converged, Saved
<1> QED
  BY <1>3, <1>4, <1>5, <1>6, <1>7, <1>8, <1>9 DEF IInv, Marked

\* A round of convergeephemerons begins with the tables of the last one: each is to be visited.
LEMMA NextRoundStep ==
  ASSUME IInv, NextRound
  PROVE  IInv'
<1>1. /\ stack' = stack /\ node' = node /\ mark' = mark
      /\ gray = {} /\ gray' = {} /\ grayagain' = grayagain /\ weak' = weak /\ allweak' = allweak /\ ephemeron' = {}
      /\ next' = ephemeron /\ changed' = FALSE /\ orig' = orig /\ lists' = lists /\ sweepgc' = sweepgc
      /\ full' = full /\ emergency' = emergency
  BY DEF NextRound, heap, collection
<1>2. /\ gcstate \in {"inside2", "inside3", "converge1", "converge2"} /\ gcstate' \in {"converge1", "converge2"}
      /\ gcstate' = "converge2" <=> gcstate \in {"inside3", "converge2"}
      /\ gcstate \in {"converge1", "converge2"} => next = {}
  BY DEF NextRound
<1>3. Types /\ Listed /\ Closed /\ Coloured /\ OnGrayLists /\ RootsMarked /\ Saved
  BY <1>2 DEF IInv, Marked, Marking, Atomically
<1>4. Listed' /\ Closed' /\ \A x : IsWhite(x)' <=> IsWhite(x)
  BY <1>1, <1>3, HeapSame
<1>5. TypeOK /\ next = {} /\ (gcstate' # "converge2" => orig = {})
  BY <1>2, <1>3 DEF Types
<1>6. Types'
  BY <1>1, <1>2, <1>3, <1>5, TypesSame DEF TypeOK, Inside, Atomically
<1>7. SweptSoFar'
  BY <1>2 DEF SweptSoFar
<1>8. Coloured'
  <2>1. \A o \in Obj : ~Pending(o)
    BY <1>1, <1>2 DEF Pending, Early
  <2>2. \A o \in Obj : Settled(o) => Settled(o)'
    BY <1>1, <1>2, <1>5 DEF Settled, KeepInvariant, IsWhite
  <2> QED
    BY <1>1, <1>3, <1>4, <2>1, <2>2 DEF Coloured
<1>9. OnGrayLists'
  BY <1>1, <1>3, <1>4 DEF OnGrayLists, NonWhite
<1>10. RootsMarked'
  BY <1>1, <1>2, <1>3 DEF RootsMarked, Early, IsWhite
<1>11. Converged' /\ Saved'
  BY <1>1, <1>2, <1>3, <1>4 DEF Converged, Saved
<1> QED
  BY <1>4, <1>6, <1>7, <1>8, <1>9, <1>10, <1>11 DEF IInv, Marked

\* Outside a cycle everything is white.
LEMMA WhiteOutside ==
  ASSUME Types, Listed, SweptSoFar, gcstate \in {"callfin", "pause"}
  PROVE  \A o \in Obj : mark[o] \in {"free", "white"}
<1>0. lists.allgc \in Seq(Obj) /\ lists.finobj \in Seq(Finalized) /\ lists.tobefnz \in Seq(Finalized)
  BY DEF Types
<1>a. \A x : x \in Range(lists.allgc) <=> \E i \in 1..Len(lists.allgc) : lists.allgc[i] = x
  BY <1>0, RangeIs
<1>b. \A x : x \in Range(lists.finobj) <=> \E i \in 1..Len(lists.finobj) : lists.finobj[i] = x
  BY <1>0, RangeIs
<1>c. \A x : x \in Range(lists.tobefnz) <=> \E i \in 1..Len(lists.tobefnz) : lists.tobefnz[i] = x
  BY <1>0, RangeIs
<1>2. AllIn(lists.allgc, "white") /\ AllIn(lists.finobj, "white") /\ AllIn(lists.tobefnz, "white")
  BY DEF SweptSoFar
<1>3. \A o \in Allocated : mark[o] = "white"
  BY <1>a, <1>b, <1>c, <1>2 DEF Listed, AllIn
<1> QED
  BY <1>3 DEF Allocated

\* A cycle begins when everything is white: only the main thread and what is to be finalized is gray.
LEMMA RestartStep ==
  ASSUME IInv, Restart
  PROVE  IInv'
<1>1. /\ gcstate = "pause" /\ gcstate' = "propagate" /\ Marks(Range(lists.tobefnz), {Main})
      /\ grayagain' = {} /\ weak' = {} /\ allweak' = {} /\ ephemeron' = {}
      /\ stack' = stack /\ node' = node /\ next' = next /\ changed' = changed /\ orig' = orig
      /\ lists' = lists /\ sweepgc' = sweepgc /\ full' \in {full, "cycle"} /\ emergency' = emergency
  BY DEF Restart, heap, atomicvars
<1>2. Types /\ Listed /\ Closed /\ SweptSoFar
  BY DEF IInv
<1>3. TypeOK /\ next = {} /\ orig = {} /\ mark \in [Obj -> Colours] /\ node \in [Obj -> Entries]
  BY <1>1, <1>2 DEF Types, TypeOK, Colours, Entries
<1>4. \A o \in Obj : mark[o] \in {"free", "white"}
  BY <1>1, <1>2, WhiteOutside
<1>5. PaintOf(Range(lists.tobefnz), Nil, "gray", {Main})
  BY <1>1, <1>3, MarksIs
<1>6. Brighter /\ Thinner
  BY <1>1, <1>3, <1>5 DEF PaintOf, Thinner
<1>7. Closed' /\ Allocated' = Allocated
  BY <1>1, <1>2, <1>4, <1>6, ClosedKept
<1>8. /\ \A p \in Obj : p # Nil /\ mark'[p] # mark[p] =>
           \/ p \in Userdata /\ mark'[p] = "black" /\ Dimmed(node[p].v)
           \/ p \notin Userdata /\ mark'[p] = "gray" /\ p \in gray'
      /\ Main \in gray' /\ \A p \in gray' : p = Main \/ (p \in Obj /\ mark'[p] = "gray")
  BY <1>5 DEF PaintOf, Dimmed
<1>9. Nil \notin Obj /\ Main \notin Obj
  BY GcAssumption
<1>10. Types'
  <2>1. TypeOK'
    <3>1. gray' \subseteq Obj \cup {Main}
      BY <1>8
    <3>2. mark' \in [Obj -> White \cup {"gray", "black", "free"}]
      BY <1>6 DEF Brighter, Colours
    <3>3. gcstate' \in Inside \cup {"pause", "propagate", "atomic", "swpallgc", "swpfinobj", "swptobefnz", "swpend", "callfin"}
      BY <1>1
    <3> QED
      BY <1>1, <1>3, <1>7, <3>1, <3>2, <3>3 DEF TypeOK
  <2>2. \A o \in Obj : mark'[o] = "free" => mark[o] = "free"
    BY <1>6 DEF Brighter
  <2> QED
    BY <1>1, <1>2, <1>3, <2>1, <2>2 DEF Types, Empty
<1>11. Listed'
  BY <1>1, <1>2, <1>7 DEF Listed, Once
<1>12. SweptSoFar'
  BY <1>1 DEF SweptSoFar
<1>13. Coloured'
  <2>1. \A o \in Obj : mark'[o] # "other"
    BY <1>4, <1>8, <1>9
  <2>2. \A o \in Obj : mark'[o] = "black" => o \in Userdata /\ Dimmed(node'[o].v) /\ node'[o].k = Nil
    <3>1. \A o \in Userdata : o \notin Tables
      BY GcAssumption
    <3> QED
      BY <1>1, <1>2, <1>4, <1>8, <1>9, <3>1 DEF Types
  <2>3. \A o \in Obj : mark'[o] = "gray" => o \notin Userdata /\ o \in gray'
    BY <1>4, <1>8, <1>9
  <2> QED
    BY <1>9, <2>1, <2>2, <2>3 DEF Coloured, Strong, Dimmed, IsWhite, Pending
<1>14. OnGrayLists'
  BY <1>1, <1>3, <1>8, <1>9 DEF OnGrayLists, NonWhite
<1>15. RootsMarked' /\ Converged' /\ Saved'
  BY <1>1, <1>8 DEF RootsMarked, Early, Converged, Saved
<1> QED
  BY <1>7, <1>10, <1>11, <1>12, <1>13, <1>14, <1>15 DEF IInv, Marked

\* Clearing leaves no white value, or no white key, and takes nothing that is not white.
LEMMA ClearedIs ==
  ASSUME NEW e \in Entries
  PROVE  /\ ClearedValue(e) \in Entries /\ ClearedValue(e).v \in {e.v, Nil} /\ ClearedValue(e).k \in {e.k, Dead}
         /\ ~IsWhite(ClearedValue(e).v)
         /\ ~IsWhite(e.k) => ClearedValue(e).k = e.k
         /\ ~IsWhite(e.v) => ClearedValue(e) = e
         /\ ClearedKey(e) \in Entries /\ ClearedKey(e).v \in {e.v, Nil} /\ ClearedKey(e).k \in {e.k, Dead}
         /\ ~IsWhite(ClearedKey(e).k)
         /\ ~IsWhite(e.k) => ClearedKey(e) = e
<1> DEFINE f == [e EXCEPT !.v = Nil]
<1>1. f \in Entries /\ f.k = e.k /\ f.v = Nil
  BY DEF Entries
<1>2. ~IsWhite(Nil) /\ ~IsWhite(Dead)
  BY GcAssumption DEF IsWhite
<1>3. \A d \in Entries :
         /\ Removed(d) \in Entries /\ Removed(d).v = d.v /\ Removed(d).k \in {d.k, Dead}
         /\ d.v = Nil => ~IsWhite(Removed(d).k)
         /\ d.v # Nil \/ ~IsWhite(d.k) => Removed(d) = d
  BY RemovedIs
<1>4. ClearedValue(e) = IF e.v # Nil /\ IsWhite(e.v) THEN Removed(f) ELSE e
  BY DEF ClearedValue
<1>5. ClearedKey(e) = IF e.v # Nil /\ IsWhite(e.k) THEN Removed(f) ELSE Removed(e)
  BY DEF ClearedKey
<1> HIDE DEF f
<1>6. /\ ClearedValue(e) \in Entries /\ ClearedValue(e).v \in {e.v, Nil} /\ ClearedValue(e).k \in {e.k, Dead}
      /\ ~IsWhite(ClearedValue(e).v)
      /\ ~IsWhite(e.k) => ClearedValue(e).k = e.k
      /\ ~IsWhite(e.v) => ClearedValue(e) = e
  BY <1>1, <1>2, <1>3, <1>4
<1>7. /\ ClearedKey(e) \in Entries /\ ClearedKey(e).v \in {e.v, Nil} /\ ClearedKey(e).k \in {e.k, Dead}
      /\ ~IsWhite(ClearedKey(e).k)
      /\ ~IsWhite(e.k) => ClearedKey(e) = e
  BY <1>1, <1>2, <1>3, <1>5
<1> QED
  BY <1>6, <1>7

\* The lists after the dying have moved to tobefnz.
LEMMA Separated ==
  ASSUME Types, Listed, NEW dying, dying = {o \in Obj : IsWhite(o)},
         lists' = [lists EXCEPT !.finobj = Those(@, Obj \ dying),
                                !.tobefnz = lists.tobefnz \o Those(lists.finobj, dying)]
  PROVE  /\ lists' \in [allgc : Seq(Obj), finobj : Seq(Finalized), tobefnz : Seq(Finalized)]
         /\ lists'.allgc = lists.allgc
         /\ Once(lists'.finobj) /\ Once(lists'.tobefnz)
         /\ Range(lists'.finobj) = Range(lists.finobj) \ dying
         /\ Range(lists'.tobefnz) = Range(lists.tobefnz) \cup (Range(lists.finobj) \cap dying)
         /\ Range(lists'.tobefnz) \cap Range(lists'.finobj) = {}
<1> DEFINE f == lists.finobj
           b == lists.tobefnz
           in == Those(f, dying)
           out == Those(f, Obj \ dying)
<1>1. /\ f \in Seq(Finalized) /\ b \in Seq(Finalized) /\ lists.allgc \in Seq(Obj)
      /\ lists \in [allgc : Seq(Obj), finobj : Seq(Finalized), tobefnz : Seq(Finalized)]
      /\ Once(f) /\ Once(b) /\ Range(b) \cap Range(f) = {}
  BY DEF Types, Listed
<1>2. lists'.allgc = lists.allgc /\ lists'.finobj = out /\ lists'.tobefnz = b \o in
  BY <1>1
<1>3. lists' = [allgc |-> lists.allgc, finobj |-> out, tobefnz |-> b \o in]
  BY <1>1
<1>4. Taken(in, f, Finalized, dying) /\ Taken(out, f, Finalized, Obj \ dying)
  BY <1>1, ThoseIs
<1>5. in \in Seq(Finalized) /\ out \in Seq(Finalized) /\ Once(in) /\ Once(out)
  BY <1>1, <1>4 DEF Taken
<1>6. \A o \in Finalized : o \in Obj
  BY GcAssumption DEF Obj
<1> HIDE DEF f, b, in, out
<1>7. /\ \A x : x \in Range(f) <=> \E i \in 1..Len(f) : f[i] = x
      /\ \A x : x \in Range(in) <=> \E i \in 1..Len(in) : in[i] = x
      /\ \A x : x \in Range(out) <=> \E i \in 1..Len(out) : out[i] = x
      /\ Range(f) \subseteq Finalized
  BY <1>1, <1>5, RangeIs
<1>8. Range(in) = Range(f) \cap dying
  BY <1>4, <1>7 DEF Taken
<1>9. Range(out) = Range(f) \ dying
  BY <1>4, <1>6, <1>7 DEF Taken
<1>10. JoinOf(b \o in, b, in, Finalized)
  BY <1>1, <1>5, JoinedIs
<1>11. /\ b \o in \in Seq(Finalized) /\ Range(b \o in) = Range(b) \cup Range(in)
       /\ Once(b \o in)
  BY <1>1, <1>5, <1>8, <1>10 DEF JoinOf
<1>12. lists' \in [allgc : Seq(Obj), finobj : Seq(Finalized), tobefnz : Seq(Finalized)]
  <2>1. \A x \in Seq(Obj), y, z \in Seq(Finalized) :
          [allgc |-> x, finobj |-> y, tobefnz |-> z] \in [allgc : Seq(Obj), finobj : Seq(Finalized), tobefnz : Seq(Finalized)]
    OBVIOUS
  <2>2. lists.allgc \in Seq(Obj) /\ out \in Seq(Finalized) /\ (b \o in) \in Seq(Finalized)
    BY <1>1, <1>5, <1>11
  <2> QED
    BY <1>3, <2>1, <2>2, Zenon
<1>13. Range(b \o in) \cap Range(out) = {}
  BY <1>1, <1>8, <1>9, <1>11
<1> QED
  BY <1>2, <1>5, <1>8, <1>9, <1>11, <1>12, <1>13 DEF f, b

\* separatetobefnz: all objects to be finalized are marked and what they lead to becomes gray.
LEMMA SeparateStep ==
  ASSUME IInv, SeparateToBeFnz
  PROVE  IInv'
<1> DEFINE dying == {o \in Obj : IsWhite(o)}
           all == weak \cup allweak
<1>1. /\ gcstate = "converge1" /\ gray = {} /\ next = {} /\ ~changed /\ gcstate' = "inside3"
      /\ node' = [o \in Obj |-> IF o \in all THEN ClearedValue(node[o]) ELSE node[o]]
      /\ orig' = all
      /\ lists' = [lists EXCEPT !.finobj = Those(@, Obj \ dying),
                                !.tobefnz = lists.tobefnz \o Those(lists.finobj, dying)]
      /\ Marks(Range(lists.tobefnz \o Those(lists.finobj, dying)), {})
      /\ stack' = stack /\ grayagain' = grayagain /\ weak' = weak /\ allweak' = allweak /\ ephemeron' = ephemeron
      /\ next' = next /\ changed' = changed /\ sweepgc' = sweepgc /\ full' = full /\ emergency' = emergency
  BY DEF SeparateToBeFnz, ClearedFirst, collection
<1>2. Types /\ Listed /\ Closed /\ Coloured /\ OnGrayLists /\ RootsMarked /\ Converged
  BY <1>1 DEF IInv, Marked, Marking, Atomically
<1>3. TypeOK /\ mark \in [Obj -> Colours] /\ node \in [Obj -> Entries]
  BY <1>2 DEF Types, TypeOK, Colours, Entries
<1>4. /\ lists' \in [allgc : Seq(Obj), finobj : Seq(Finalized), tobefnz : Seq(Finalized)]
      /\ lists'.allgc = lists.allgc
      /\ Once(lists'.finobj) /\ Once(lists'.tobefnz)
      /\ Range(lists'.finobj) = Range(lists.finobj) \ dying
      /\ Range(lists'.tobefnz) = Range(lists.tobefnz) \cup (Range(lists.finobj) \cap dying)
      /\ Range(lists'.tobefnz) \cap Range(lists'.finobj) = {}
  BY <1>1, <1>2, Separated
<1>5. Marks(Range(lists'.tobefnz), {})
  <2>1. lists'.tobefnz = lists.tobefnz \o Those(lists.finobj, dying)
    BY <1>1, <1>2 DEF Types
  <2> QED
    BY <1>1, <2>1
<1>6. PaintOf(Range(lists'.tobefnz), Nil, "gray", {})
  BY <1>3, <1>5, MarksIs
<1>7. /\ \A p \in Obj : p # Nil /\ mark'[p] # mark[p] =>
           \/ p \in Userdata /\ mark'[p] = "black" /\ Dimmed(node[p].v)
           \/ p \notin Userdata /\ mark'[p] = "gray" /\ p \in gray'
      /\ \A p \in gray' : p \in Obj /\ mark'[p] = "gray"
      /\ \A x \in Range(lists'.tobefnz) : ~IsWhite(x)'
  BY <1>6 DEF PaintOf, Dimmed
<1>8. \A p \in Obj :
        /\ node'[p] \in Entries /\ node'[p].v \in {node[p].v, Nil} /\ node'[p].k \in {node[p].k, Dead}
        /\ ~IsWhite(node[p].k) => node'[p].k = node[p].k
        /\ p \in all => ~IsWhite(node'[p].v)
        /\ p \notin all => node'[p] = node[p]
        /\ ~IsWhite(node[p].v) => node'[p] = node[p]
  BY <1>1, <1>3, ClearedIs
<1> HIDE DEF dying, all
<1>9. Thinner
  <2>1. node' \in [Obj -> Entries]
    BY <1>1, <1>8
  <2> QED
    BY <1>8, <2>1 DEF Thinner
<1>10. /\ Brighter /\ mark' \in [Obj -> Colours]
       /\ \A p \in Obj : /\ mark'[p] = "free" <=> mark[p] = "free"
                         /\ mark'[p] \in White => mark'[p] = mark[p]
                         /\ NonWhite(p) => mark'[p] \in {"gray", "black"}
       /\ \A x : IsWhite(x)' => IsWhite(x)
  BY <1>6 DEF PaintOf, Brighter
<1>11. Nil \notin Obj /\ Dead \notin Obj
  BY GcAssumption
<1>12. Closed' /\ Allocated' = Allocated
  BY <1>1, <1>2, <1>4, <1>9, <1>10, ClosedKept DEF Coloured
<1>13. all \subseteq WeakValue \cup AllWeak \cup Ephemeron /\ \A o \in all : o \notin Strong /\ o \in Obj
  BY <1>3, GcAssumption DEF TypeOK, all, Strong, Tables, Obj
<1>14. Types'
  <2>1. TypeOK'
    <3>1. gray' \subseteq Obj
      BY <1>7
    <3>2. mark' \in [Obj -> White \cup {"gray", "black", "free"}]
      BY <1>10 DEF Colours
    <3>3. node' \in [Obj -> [k : Obj \cup {Nil, Dead}, v : Obj \cup {Nil}]]
      BY <1>9 DEF Thinner, Entries
    <3>4. gcstate' \in Inside \cup {"pause", "propagate", "atomic", "swpallgc", "swpfinobj", "swptobefnz", "swpend", "callfin"}
      BY <1>1 DEF Inside, Atomically
    <3>5. DOMAIN lists' = {"allgc", "finobj", "tobefnz"}
      BY <1>4
    <3>6. orig' \subseteq weak' \cup allweak'
      BY <1>1 DEF all
    <3> QED
      BY <1>1, <1>3, <1>12, <3>1, <3>2, <3>3, <3>4, <3>5, <3>6 DEF TypeOK
  <2>2. \A o \in Obj : mark'[o] = "free" => node'[o] = Empty
    <3>1. \A o \in Obj : mark'[o] = "free" => node[o] = Empty
      BY <1>2, <1>10 DEF Types
    <3>2. Empty.v = Nil
      BY DEF Empty
    <3> QED
      BY <1>8, <1>11, <3>1, <3>2 DEF IsWhite
  <2>3. \A o \in Obj \ Tables : node'[o].k = Nil
    BY <1>2, <1>8, <1>11 DEF Types, IsWhite
  <2> QED
    BY <1>1, <1>4, <2>1, <2>2, <2>3 DEF Types, Empty
<1>15. Listed'
  BY <1>2, <1>4, <1>12 DEF Listed, Once
<1>16. SweptSoFar'
  BY <1>1 DEF SweptSoFar
<1>17. Coloured'
  <2>1. \A o \in Obj : mark'[o] # "other"
    BY <1>2, <1>10 DEF Coloured, White
  <2>2. ASSUME NEW o \in Obj, mark'[o] = "black" PROVE o \in Strong /\ Dimmed(node'[o].k) /\ Dimmed(node'[o].v)
    <3>1. CASE mark[o] = "black"
      <4>1. o \in Strong /\ ~IsWhite(node[o].k) /\ ~IsWhite(node[o].v)
        BY <1>2, <3>1 DEF Coloured
      <4>2. node'[o] = node[o]
        BY <1>8, <4>1
      <4> QED
        BY <1>10, <4>1, <4>2 DEF Dimmed, IsWhite
    <3>2. CASE mark[o] # "black"
      <4>1. o \in Userdata /\ Dimmed(node[o].v)
        BY <1>7, <1>11, <2>2, <3>2
      <4>2. o \in Strong /\ node[o].k = Nil
        BY <1>2, <4>1, GcAssumption DEF Types, Strong
      <4>3. node'[o] = node[o]
        BY <1>8, <1>13, <4>2
      <4> QED
        BY <1>11, <4>1, <4>2, <4>3 DEF Dimmed
    <3> QED
      BY <3>1, <3>2
  <2>3. ASSUME NEW o \in Obj, mark'[o] = "gray" PROVE o \notin Userdata /\ (Pending(o)' \/ Settled(o)')
    <3>1. CASE mark[o] # "gray"
      BY <1>7, <1>11, <2>3, <3>1 DEF Pending
    <3>2. CASE mark[o] = "gray"
      <4>1. o \notin Userdata /\ Settled(o)
        BY <1>1, <1>2, <3>2 DEF Coloured, Pending, Early
      <4>2. ~KeepInvariant'
        BY <1>1 DEF KeepInvariant
      <4>3. ~IsWhite(node[o].k) => ~IsWhite(node[o].k)'
        BY <1>8, <1>10 DEF IsWhite
      <4>4. ~IsWhite(node[o].v) => ~IsWhite(node[o].v)'
        BY <1>8, <1>10 DEF IsWhite
      <4> QED
        BY <1>1, <4>1, <4>2, <4>3, <4>4 DEF Settled
    <3> QED
      BY <3>1, <3>2
  <2> QED
    BY <2>1, <2>2, <2>3 DEF Coloured, Dimmed, IsWhite
<1>18. OnGrayLists'
  <2>1. \A o \in Obj \cap UNION {gray', grayagain', weak', allweak', ephemeron', next'} : NonWhite(o)'
    <3>1. \A o \in Obj : NonWhite(o) => NonWhite(o)'
      BY <1>10 DEF NonWhite
    <3>2. \A o \in gray' : NonWhite(o)'
      BY <1>7 DEF NonWhite
    <3> QED
      BY <1>1, <1>2, <3>1, <3>2 DEF OnGrayLists
  <2>2. \A o \in orig' : o \in Obj /\ ~IsWhite(node'[o].v)
    BY <1>1, <1>8, <1>13
  <2> QED
    BY <1>10, <2>1, <2>2 DEF OnGrayLists, IsWhite
<1>19. RootsMarked'
  <2>1. \A o \in stack : ~IsWhite(o)
    BY <1>1, <1>2 DEF RootsMarked, Early
  <2>2. \A o \in stack' : ~IsWhite(o)'
    BY <1>1, <1>10, <2>1
  <2> QED
    BY <1>1, <2>2 DEF RootsMarked, Early
<1>20. Converged'
  BY <1>1 DEF Converged
<1>21. Saved'
  <2>1. \A o \in Obj : o \in Range(lists'.finobj) => ~IsWhite(o)
    BY <1>4 DEF dying
  <2>2. \A o \in Obj : o \in Range(lists'.finobj) => ~IsWhite(o)'
    BY <1>10, <2>1
  <2> QED
    BY <1>7, <2>2 DEF Saved
<1> QED
  BY <1>12, <1>14, <1>15, <1>16, <1>17, <1>18, <1>19, <1>20, <1>21 DEF IInv, Marked

\* At the end of atomic() the strong hold: what is not white leads, after the clearing, to nothing
\* white, be it by a weak reference.
LEMMA FlipStep ==
  ASSUME IInv, ClearAndFlip
  PROVE  IInv'
<1> DEFINE keyed == ephemeron \cup allweak
           late == Resurrected
           Ent(o) == IF o \in keyed THEN ClearedKey(node[o]) ELSE node[o]
<1>1. /\ gcstate = "converge2" /\ gray = {} /\ next = {} /\ ~changed /\ gcstate' = "enter" /\ sweepgc' = "head"
      /\ node' = [o \in Obj |-> IF o \in late THEN ClearedValue(Ent(o)) ELSE Ent(o)]
      /\ mark' = [o \in Obj |-> Flipped(mark[o])]
      /\ gray' = {} /\ grayagain' = {} /\ weak' = {} /\ allweak' = {} /\ ephemeron' = {} /\ orig' = {}
      /\ stack' = stack /\ next' = next /\ changed' = changed /\ lists' = lists
      /\ full' = full /\ emergency' = emergency
  BY DEF ClearAndFlip, ForgetGray, collection
<1>2. Types /\ Listed /\ Closed /\ Coloured /\ OnGrayLists /\ RootsMarked /\ Converged /\ Saved
  BY <1>1 DEF IInv, Marked, Marking, Atomically
<1>3. TypeOK /\ mark \in [Obj -> Colours] /\ node \in [Obj -> Entries]
  BY <1>2 DEF Types, TypeOK, Colours, Entries
<1>4. late = (weak \cup allweak) \ orig
  BY DEF Resurrected
<1>5. ASSUME NEW o \in Obj
      PROVE  /\ Ent(o) \in Entries /\ Ent(o).v \in {node[o].v, Nil} /\ Ent(o).k \in {node[o].k, Dead}
             /\ o \in keyed => ~IsWhite(Ent(o).k)
             /\ ~IsWhite(node[o].k) => Ent(o) = node[o]
             /\ o \notin keyed => Ent(o) = node[o]
  BY <1>3, ClearedIs
<1>6. ASSUME NEW o \in Obj
      PROVE  /\ node'[o] \in Entries /\ node'[o].v \in {node[o].v, Nil} /\ node'[o].k \in {node[o].k, Dead}
             /\ o \in keyed \/ ~IsWhite(node[o].k) => ~IsWhite(node'[o].k)
             /\ o \in late \/ ~IsWhite(node[o].v) => ~IsWhite(node'[o].v)
             /\ ~IsWhite(node[o].k) => node'[o].k = node[o].k
             /\ o \notin keyed \cup late => node'[o] = node[o]
  <2> DEFINE d == Ent(o)
  <2>1. node'[o] = IF o \in late THEN ClearedValue(d) ELSE d
    BY <1>1
  <2>2. /\ d \in Entries /\ d.v \in {node[o].v, Nil} /\ d.k \in {node[o].k, Dead}
        /\ o \in keyed => ~IsWhite(d.k)
        /\ ~IsWhite(node[o].k) => d = node[o]
        /\ o \notin keyed => d = node[o]
    BY <1>5
  <2> HIDE DEF d, keyed, late
  <2>3. /\ ClearedValue(d) \in Entries /\ ClearedValue(d).v \in {d.v, Nil} /\ ClearedValue(d).k \in {d.k, Dead}
        /\ ~IsWhite(ClearedValue(d).v)
        /\ ~IsWhite(d.k) => ClearedValue(d).k = d.k
    BY <2>2, ClearedIs
  <2>4. ~IsWhite(Nil) /\ ~IsWhite(Dead)
    BY GcAssumption DEF IsWhite
  <2> QED
    BY <2>1, <2>2, <2>3, <2>4
<1> HIDE DEF Ent
<1>7. Nil \notin Obj /\ Dead \notin Obj
  BY GcAssumption
<1>8. \A o \in Obj : /\ mark[o] \in {"gray", "black", "free"} => mark'[o] = mark[o]
                     /\ mark[o] = "white" => mark'[o] = "other"
                     /\ mark[o] # "other"
                     /\ mark'[o] \in Colours
  BY <1>1, <1>2, <1>3 DEF Flipped, Coloured, Colours, White
<1>9. \A x : x \in Obj /\ Kept(x) /\ ~IsWhite(x) => mark[x] \in {"gray", "black"} /\ mark'[x] = mark[x]
  BY <1>3, <1>8 DEF Kept, IsWhite, Colours, White
<1>10. \A o \in Obj : mark'[o] = "free" <=> mark[o] = "free"
  BY <1>3, <1>8 DEF Colours, White
<1>11. Allocated' = Allocated
  BY <1>10 DEF Allocated
<1>12. \A x : Kept(x) /\ ~IsWhite(x) => (x \in Obj => mark'[x] \notin {"free", "other"})
  BY <1>9
<1>13. ASSUME NEW o \in Obj, mark[o] \in {"gray", "black"}
       PROVE  ~IsWhite(node'[o].k) /\ ~IsWhite(node'[o].v)
  <2>1. CASE mark[o] = "black"
    BY <1>2, <1>6, <2>1 DEF Coloured
  <2>2. CASE mark[o] = "gray"
    <3>1. Settled(o)
      BY <1>1, <1>2, <2>2 DEF Coloured, Pending, Early
    <3>2. \A p \in orig : ~IsWhite(node[p].v)
      BY <1>2 DEF OnGrayLists
    <3>3. o \in weak \cup allweak => ~IsWhite(node'[o].v)
      BY <1>4, <1>6, <3>2
    <3>4. CASE o \in AllWeak /\ o \in allweak
      BY <1>6, <3>3, <3>4
    <3>5. CASE o \in WeakValue /\ ~IsWhite(node[o].k) /\ (IsWhite(node[o].v) => o \in weak)
      BY <1>6, <3>3, <3>5
    <3>6. CASE o \in ephemeron
      <4>1. node[o].v # Nil /\ IsWhite(node[o].k)
        BY <1>1, <1>2, <3>6 DEF Converged, Waits, WhiteKey
      <4>2. Ent(o) = ClearedKey(node[o]) /\ ~IsWhite(node'[o].k)
        BY <1>6, <3>6 DEF Ent
      <4>3. ClearedKey(node[o]) = Removed([node[o] EXCEPT !.v = Nil])
        BY <4>1 DEF ClearedKey
      <4>4. [node[o] EXCEPT !.v = Nil] \in Entries /\ [node[o] EXCEPT !.v = Nil].v = Nil
        BY <1>3 DEF Entries
      <4>5. Ent(o).v = Nil
        <5>1. Removed([node[o] EXCEPT !.v = Nil]).v = Nil
          BY <4>4, RemovedIs
        <5> QED
          BY <4>2, <4>3, <5>1
      <4>6. Ent(o) \in Entries
        BY <1>5
      <4>7. ClearedValue(Ent(o)).v \in {Ent(o).v, Nil}
        BY <4>6, ClearedIs
      <4>8. node'[o].v = Nil
        BY <1>1, <4>5, <4>7
      <4> QED
        BY <1>7, <4>2, <4>8 DEF IsWhite
    <3>7. CASE ~IsWhite(node[o].v) /\ (IsWhite(node[o].k) => o \in allweak)
      BY <1>6, <3>7
    <3> QED
      BY <1>1, <3>1, <3>4, <3>5, <3>6, <3>7 DEF Settled
  <2> QED
    BY <1>13, <2>1, <2>2
<1> HIDE DEF keyed, late
<1>14. Closed'
  <2>1. \A o \in stack' : o \in Obj => mark'[o] \notin {"free", "other"}
    <3>1. \A o \in stack : ~IsWhite(o) /\ Kept(o)
      BY <1>1, <1>2 DEF RootsMarked, Early, Closed
    <3> QED
      BY <1>1, <1>12, <3>1
  <2>2. \A o \in Obj : o \in Range(lists'.finobj) \cup Range(lists'.tobefnz) => mark'[o] \notin {"free", "other"}
    <3>1. \A o \in Obj : o \in Range(lists.finobj) \cup Range(lists.tobefnz) => ~IsWhite(o) /\ Kept(o)
      BY <1>1, <1>2 DEF Saved, Closed
    <3> QED
      BY <1>1, <1>12, <3>1
  <2>3. ASSUME NEW o \in Obj, mark'[o] \notin {"free", "other"}
        PROVE  /\ node'[o].k \in Obj => mark'[node'[o].k] \notin {"free", "other"}
               /\ node'[o].v \in Obj => mark'[node'[o].v] \notin {"free", "other"}
    <3>1. mark[o] \in {"gray", "black"}
      BY <1>3, <1>8, <2>3 DEF Colours, White
    <3>2. Kept(node[o].k) /\ Kept(node[o].v)
      BY <1>2, <3>1 DEF Closed
    <3>3. Kept(Nil) /\ Kept(Dead)
      BY <1>7 DEF Kept
    <3>4. Kept(node'[o].k) /\ Kept(node'[o].v)
      BY <1>6, <3>2, <3>3
    <3> QED
      BY <1>12, <1>13, <3>1, <3>4
  <2> QED
    BY <2>1, <2>2, <2>3 DEF Closed, Kept
<1>15. Types'
  <2>1. TypeOK'
    <3>1. mark' \in [Obj -> White \cup {"gray", "black", "free"}]
      BY <1>1, <1>8 DEF Colours
    <3>2. node' \in [Obj -> [k : Obj \cup {Nil, Dead}, v : Obj \cup {Nil}]]
      <4>1. node' \in [Obj -> Entries]
        BY <1>1, <1>6
      <4> QED
        BY <4>1 DEF Entries
    <3>3. gcstate' \in Inside \cup {"pause", "propagate", "atomic", "swpallgc", "swpfinobj", "swptobefnz", "swpend", "callfin"}
      BY <1>1 DEF Inside
    <3> QED
      BY <1>1, <1>3, <3>1, <3>2, <3>3 DEF TypeOK
  <2>2. \A o \in Obj : mark'[o] = "free" => node'[o] = Empty
    <3>1. \A o \in Obj : mark'[o] = "free" => node[o] = Empty /\ mark[o] = "free"
      BY <1>2, <1>10 DEF Types
    <3>2. \A o \in Obj : mark[o] = "free" => o \notin keyed \cup late
      BY <1>2, <1>4 DEF OnGrayLists, NonWhite, keyed
    <3> QED
      BY <1>6, <3>1, <3>2
  <2>3. \A o \in Obj \ Tables : node'[o].k = Nil
    BY <1>2, <1>6, <1>7 DEF Types, IsWhite
  <2> QED
    BY <1>1, <1>2, <2>1, <2>2, <2>3 DEF Types, Empty
<1>16. Listed'
  BY <1>1, <1>2, <1>11 DEF Listed, Once
<1>17. SweptSoFar' /\ Marked'
  BY <1>1 DEF SweptSoFar, Marked, Marking, Atomically
<1> QED
  BY <1>14, <1>15, <1>16, <1>17 DEF IInv

-----------------------------------------------------------------------------
(* The sweep phase preserves the invariant *)

\* Freeing what has the other white, and making others white, keeps what is kept closed.
RecolourOf(freed, white) ==
  /\ Closed' /\ Allocated' = Allocated \ freed
  /\ mark' \in [Obj -> Colours] /\ node' \in [Obj -> Entries]
  /\ \A o \in Obj : mark'[o] = "free" => node'[o] = Empty
  /\ \A o \in Obj \ Tables : node'[o].k = Nil
  /\ \A o \in Obj : (mark[o] = "white" \/ o \in white) => mark'[o] = "white"
LEMMA RecolourIs ==
  ASSUME Types, Closed, NEW freed, NEW white, \A o \in freed : mark[o] = "other",
         \A o \in white : mark[o] \notin {"other", "free"}, Recolour(freed, white), stack' = stack,
         \A o \in Obj : o \in Range(lists'.finobj) \cup Range(lists'.tobefnz) =>
           o \in stack \cup Range(lists.finobj) \cup Range(lists.tobefnz)
  PROVE  RecolourOf(freed, white)
<1>1. mark \in [Obj -> Colours] /\ node \in [Obj -> Entries]
  BY DEF Types, TypeOK, Colours, Entries
<1>2. \A o \in Obj :
        /\ mark'[o] = IF o \in freed THEN "free" ELSE IF o \in white THEN "white" ELSE mark[o]
        /\ node'[o] = IF o \in freed THEN Empty ELSE node[o]
  BY DEF Recolour
<1>3. Empty \in Entries /\ Empty.k = Nil /\ Empty.v = Nil
  BY DEF Empty, Entries
<1>4. mark' \in [Obj -> Colours]
  <2>1. \A o \in Obj : mark'[o] \in Colours
    BY <1>1, <1>2 DEF Colours, White
  <2> QED
    BY <2>1 DEF Recolour
<1>5. node' \in [Obj -> Entries]
  <2>1. \A o \in Obj : node'[o] \in Entries
    BY <1>1, <1>2, <1>3
  <2> QED
    BY <2>1 DEF Recolour
<1>6. \A o \in Obj : mark'[o] \notin {"free", "other"} <=> mark[o] \notin {"free", "other"}
  BY <1>2
<1>7. Allocated' = Allocated \ freed
  BY <1>2 DEF Allocated
<1>8. \A o \in Obj : mark'[o] = "free" => node'[o] = Empty
  BY <1>2 DEF Types
<1>9. \A o \in Obj \ Tables : node'[o].k = Nil
  BY <1>2, <1>3 DEF Types
<1>10. \A o \in Obj : (mark[o] = "white" \/ o \in white) => mark'[o] = "white"
  BY <1>2
<1>11. \A x : Kept(x) => (x \in Obj => mark'[x] \notin {"free", "other"})
  BY <1>6 DEF Kept
<1>12. Closed'
  <2>1. \A o \in stack' : o \in Obj => mark'[o] \notin {"free", "other"}
    BY <1>11 DEF Closed
  <2>2. \A o \in Obj : o \in Range(lists'.finobj) \cup Range(lists'.tobefnz) => mark'[o] \notin {"free", "other"}
    BY <1>11 DEF Closed
  <2>3. ASSUME NEW o \in Obj, mark'[o] \notin {"free", "other"}
        PROVE  /\ node'[o].k \in Obj => mark'[node'[o].k] \notin {"free", "other"}
               /\ node'[o].v \in Obj => mark'[node'[o].v] \notin {"free", "other"}
    <3>1. node'[o] = node[o] /\ Kept(node[o].k) /\ Kept(node[o].v)
      BY <1>2, <1>6, <2>3 DEF Closed
    <3> QED
      BY <1>11, <3>1
  <2> QED
    BY <2>1, <2>2, <2>3 DEF Closed, Kept
<1> QED
  BY <1>4, <1>5, <1>7, <1>8, <1>9, <1>10, <1>12 DEF RecolourOf

\* A batch of the list l, behind the part that is swept already.
Names == {"allgc", "finobj", "tobefnz"}
NowWhite(s) == \A i \in 1..Len(s) : mark'[s[i]] = "white"
NowUpTo(s, x) == \E j \in 1..Len(s) : s[j] = x /\ \A i \in 1..j : mark'[s[i]] = "white"
BatchOf(l, pos, n, at) ==
  /\ Listed' /\ Closed'
  /\ lists' \in [allgc : Seq(Obj), finobj : Seq(Finalized), tobefnz : Seq(Finalized)]
  /\ mark' \in [Obj -> Colours] /\ node' \in [Obj -> Entries]
  /\ \A o \in Obj : mark'[o] = "free" => node'[o] = Empty
  /\ \A o \in Obj \ Tables : node'[o].k = Nil
  /\ \A m \in Names : Range(lists'[m]) \subseteq Range(lists[m])
  /\ \A m \in Names : AllIn(lists[m], "white") => NowWhite(lists'[m])
  /\ at = "null" <=> pos + n >= Len(lists[l])
  /\ at = "null" => NowWhite(lists'[l])
  /\ at = "null" \/ at = "head" \/ (NowUpTo(lists'[l], at) /\ at \in Allocated')
LEMMA BatchIs ==
  ASSUME Types, Listed, Closed, NEW l \in Names, NEW pos \in Nat, pos <= Len(lists[l]), NEW n \in Nat,
         \A k \in 1..pos : mark[lists[l][k]] = "white",
         lists' = [lists EXCEPT ![l] = Swept(lists[l], pos, n).list],
         Recolour(Swept(lists[l], pos, n).freed, Swept(lists[l], pos, n).white), stack' = stack
  PROVE  BatchOf(l, pos, n, Swept(lists[l], pos, n).sweepgc)
<1> DEFINE list == lists[l]
           s == Swept(list, pos, n)
           new == s.list
           X == IF l = "allgc" THEN Obj ELSE Finalized
<1>1. /\ lists \in [allgc : Seq(Obj), finobj : Seq(Finalized), tobefnz : Seq(Finalized)]
      /\ mark \in [Obj -> Colours]
      /\ Once(lists.allgc) /\ Once(lists.finobj) /\ Once(lists.tobefnz)
      /\ Range(lists.allgc) \cap Range(lists.finobj) = {}
      /\ Range(lists.tobefnz) \cap (Range(lists.allgc) \cup Range(lists.finobj)) = {}
      /\ Allocated = Range(lists.allgc) \cup Range(lists.finobj) \cup Range(lists.tobefnz)
  BY DEF Types, TypeOK, Listed, Colours
<1>2. list \in Seq(X) /\ Once(list) /\ X \subseteq Obj
  BY <1>1, GcAssumption DEF Names, Obj
<1>3. SweepOf(s, list, pos, n, X)
  BY <1>2, SweptIs
<1> HIDE DEF s, X
<1>4. /\ new \in Seq(X) /\ Once(new)
      /\ Range(new) = Range(list) \ s.freed
      /\ s.freed \subseteq Range(list) /\ s.white \subseteq Range(list)
      /\ \A o \in s.freed : mark[o] = "other"
      /\ \A o \in s.white : mark[o] # "other"
      /\ \A k \in 1..pos : list[k] \notin s.freed \cup s.white
      /\ \A k \in (pos + 1)..Len(list) : k <= pos + n => list[k] \in s.freed \cup s.white
      /\ s.sweepgc = "null" <=> pos + n >= Len(list)
      /\ \/ s.sweepgc = "null"
         \/ s.sweepgc = "head" /\ pos = 0
         \/ \E j \in 1..Len(new) : new[j] = s.sweepgc
              /\ \A i \in 1..j : new[i] \in s.white \/ \E k \in 1..pos : new[i] = list[k]
  BY <1>3 DEF SweepOf
<1>5. Range(list) \subseteq Allocated /\ \A x \in Allocated : x \in Obj /\ mark[x] # "free"
  BY <1>1 DEF Names, Allocated
<1>6. \A x \in s.white : mark[x] \notin {"other", "free"}
  BY <1>4, <1>5
<1>7. lists'[l] = new /\ \A m \in Names \ {l} : lists'[m] = lists[m]
  BY <1>1 DEF s, Names
<1> HIDE DEF new, list
<1>8. \A m \in Names : Range(lists'[m]) \subseteq Range(lists[m])
  BY <1>4, <1>7 DEF list
<1>9. RecolourOf(s.freed, s.white)
  <2>1. \A o \in Obj : o \in Range(lists'.finobj) \cup Range(lists'.tobefnz) =>
           o \in stack \cup Range(lists.finobj) \cup Range(lists.tobefnz)
    BY <1>8 DEF Names
  <2>2. Recolour(s.freed, s.white)
    BY DEF s, list
  <2> QED
    BY <1>4, <1>6, <2>1, <2>2, RecolourIs
<1>10. /\ Closed' /\ Allocated' = Allocated \ s.freed
       /\ mark' \in [Obj -> Colours] /\ node' \in [Obj -> Entries]
       /\ \A o \in Obj : mark'[o] = "free" => node'[o] = Empty
       /\ \A o \in Obj \ Tables : node'[o].k = Nil
       /\ \A o \in Obj : (mark[o] = "white" \/ o \in s.white) => mark'[o] = "white"
  BY <1>9 DEF RecolourOf
<1>11. lists' \in [allgc : Seq(Obj), finobj : Seq(Finalized), tobefnz : Seq(Finalized)]
  <2>1. lists' = [allgc |-> lists'.allgc, finobj |-> lists'.finobj, tobefnz |-> lists'.tobefnz]
    BY <1>1
  <2>2. lists'.allgc \in Seq(Obj) /\ lists'.finobj \in Seq(Finalized) /\ lists'.tobefnz \in Seq(Finalized)
    BY <1>1, <1>4, <1>7 DEF Names, X
  <2> QED
    BY <2>1, <2>2
<1>12. \A m \in Names \ {l} : Range(lists[m]) \cap s.freed = {}
  BY <1>1, <1>4 DEF Names, list
<1>13. Listed'
  <2>1. \A m \in Names : Range(lists'[m]) = Range(lists[m]) \ s.freed
    BY <1>4, <1>7, <1>12 DEF list
  <2>2. /\ Range(lists'.allgc) = Range(lists.allgc) \ s.freed
        /\ Range(lists'.finobj) = Range(lists.finobj) \ s.freed
        /\ Range(lists'.tobefnz) = Range(lists.tobefnz) \ s.freed
    BY <2>1 DEF Names
  <2>3. \A m \in Names : Once(lists'[m])
    BY <1>1, <1>4, <1>7 DEF Names
  <2>4. Once(lists'.allgc) /\ Once(lists'.finobj) /\ Once(lists'.tobefnz)
    BY <2>3 DEF Names
  <2> QED
    BY <1>1, <1>10, <2>2, <2>4 DEF Listed, Once
<1>14. \A m \in Names : lists[m] \in Seq(Obj) /\ lists'[m] \in Seq(Obj)
  <2>1. Finalized \subseteq Obj
    BY GcAssumption DEF Obj
  <2>2. \A z \in Seq(Finalized) : z \in Seq(Obj)
    BY <2>1
  <2> QED
    BY <1>1, <1>11, <2>2 DEF Names
<1>15. ASSUME NEW m \in Names
       PROVE  /\ \A x : x \in Range(lists[m]) <=> \E i \in 1..Len(lists[m]) : lists[m][i] = x
              /\ \A x : x \in Range(lists'[m]) <=> \E i \in 1..Len(lists'[m]) : lists'[m][i] = x
              /\ Range(lists[m]) \subseteq Obj /\ Len(lists'[m]) \in Nat /\ Len(lists[m]) \in Nat
  BY <1>14, RangeIs
<1>16. ASSUME NEW m \in Names, AllIn(lists[m], "white") PROVE NowWhite(lists'[m])
  <2>1. \A x \in Range(lists[m]) : mark[x] = "white" /\ x \in Obj
    <3>1. \A i \in 1..Len(lists[m]) : mark[lists[m][i]] = "white"
      BY <1>16 DEF AllIn
    <3>2. \A x : x \in Range(lists[m]) <=> \E i \in 1..Len(lists[m]) : lists[m][i] = x
      BY <1>15
    <3>3. Range(lists[m]) \subseteq Obj
      BY <1>15
    <3> QED
      BY <3>1, <3>2, <3>3
  <2>2. \A x \in Range(lists'[m]) : mark'[x] = "white"
    BY <1>8, <1>10, <2>1
  <2> QED
    BY <1>15, <2>2 DEF NowWhite
<1>17. ASSUME s.sweepgc = "null" PROVE NowWhite(lists'[l])
  <2>1. ASSUME NEW x \in Range(new) PROVE mark'[x] = "white"
    <3>1. x \in Range(list) /\ x \notin s.freed /\ x \in Obj
      BY <1>4, <1>15 DEF list
    <3>2. PICK k \in 1..Len(list) : list[k] = x
      BY <1>15, <3>1 DEF list
    <3>3. Len(list) \in Nat /\ pos + n >= Len(list)
      BY <1>4, <1>15, <1>17 DEF list
    <3>4. CASE k \in 1..pos
      <4>1. mark[x] = "white"
        BY <3>2, <3>4 DEF list
      <4> QED
        BY <1>10, <3>1, <4>1
    <3>5. CASE k \notin 1..pos
      <4>1. k \in (pos + 1)..Len(list) /\ k <= pos + n
        BY <3>2, <3>3, <3>5
      <4> QED
        BY <1>4, <1>10, <3>1, <3>2, <4>1
    <3> QED
      BY <3>4, <3>5
  <2> QED
    BY <1>7, <1>15, <2>1 DEF NowWhite
<1>18. ASSUME s.sweepgc # "null", s.sweepgc # "head"
       PROVE  NowUpTo(lists'[l], s.sweepgc) /\ s.sweepgc \in Allocated'
  <2>1. PICK j \in 1..Len(new) : new[j] = s.sweepgc
              /\ \A i \in 1..j : new[i] \in s.white \/ \E k \in 1..pos : new[i] = list[k]
    BY <1>4, <1>18
  <2>2. \A i \in 1..j : i \in 1..Len(new)
    BY <1>7, <1>15
  <2>3. ASSUME NEW i \in 1..j PROVE mark'[new[i]] = "white"
    <3>1. new[i] \in Range(new)
      BY <1>7, <1>15, <2>2
    <3>2. new[i] \in Obj
      BY <1>5, <1>4, <3>1
    <3> QED
      BY <1>10, <2>1, <3>2 DEF list
  <2>4. s.sweepgc \in Range(new)
    BY <1>7, <1>15, <2>1
  <2>5. s.sweepgc \in Allocated'
    BY <1>4, <1>5, <1>10, <2>4
  <2> QED
    BY <1>7, <2>1, <2>3, <2>5 DEF NowUpTo
<1>19. s.sweepgc = "null" <=> pos + n >= Len(lists[l])
  BY <1>4 DEF list
<1>20. BatchOf(l, pos, n, s.sweepgc)
  BY <1>8, <1>10, <1>11, <1>13, <1>16, <1>17, <1>18, <1>19 DEF BatchOf
<1> QED
  BY <1>20 DEF s, list

\* The types outside the atomic step.
LEMMA TypesAgain ==
  ASSUME Types, lists' \in [allgc : Seq(Obj), finobj : Seq(Finalized), tobefnz : Seq(Finalized)],
         mark' \in [Obj -> Colours], node' \in [Obj -> Entries],
         \A o \in Obj : mark'[o] = "free" => node'[o] = Empty, \A o \in Obj \ Tables : node'[o].k = Nil,
         stack' \subseteq Obj, gray' \subseteq Obj \cup {Main}, grayagain' \subseteq Obj \cup {Main},
         weak' = weak, allweak' = allweak, ephemeron' = ephemeron, UNCHANGED atomicvars,
         sweepgc' \in {"null", "head"} \cup Allocated',
         full' \in {"no", "finish", "cycle"}, emergency' \in BOOLEAN, gcstate \notin Atomically,
         gcstate' \in {"enter", "pause", "propagate", "atomic", "swpallgc", "swpfinobj",
                       "swptobefnz", "swpend", "callfin"}
  PROVE  Types'
<1>1. TypeOK /\ next = {} /\ orig = {} /\ next' = next /\ orig' = orig /\ changed' = changed
  BY DEF Types, atomicvars, Atomically
<1>2. DOMAIN lists' = {"allgc", "finobj", "tobefnz"}
  OBVIOUS
<1>3. TypeOK'
  BY <1>1, <1>2 DEF TypeOK, Inside, Colours, Entries
<1> QED
  BY <1>1, <1>3 DEF Types, Empty

\* The lists of objects with a finalizer fit in a batch.
LEMMA FewListed ==
  ASSUME FewFinalizers, NEW s \in Seq(Finalized), Once(s)
  PROVE  Len(s) <= SweepMax
<1>1. IsFiniteSet(Finalized) /\ SweepMax \in Nat
  <2>1. Finalized \in SUBSET Obj /\ IsFiniteSet(Obj) /\ SweepMax \in Nat
    BY GcAssumption DEF Obj
  <2> QED
    BY <2>1, FS_Subset
<1>2. s \in [1..Len(s) -> Finalized] /\ Len(s) \in Nat
  OBVIOUS
<1>3. s \in Injection(1..Len(s), Finalized)
  BY <1>2 DEF Injection, IsInjective, Once
<1>4. Cardinality(1..Len(s)) <= Cardinality(Finalized)
  BY <1>1, <1>3, FS_Injection
<1>5. Cardinality(1..Len(s)) = Len(s)
  <2>1. Cardinality(1..Len(s)) = IF 1 > Len(s) THEN 0 ELSE Len(s) - 1 + 1
    BY <1>2, FS_Interval
  <2> QED
    BY <1>2, <2>1
<1>6. Cardinality(Finalized) \in Nat
  BY <1>1, FS_CardinalityType
<1> QED
  BY <1>1, <1>2, <1>4, <1>5, <1>6 DEF FewFinalizers

\* The first batch, of one object.
LEMMA EnterSweepStep ==
  ASSUME IInv, EnterSweep
  PROVE  IInv'
<1> DEFINE s == Swept(lists.allgc, 0, 1)
<1>1. /\ gcstate = "enter" /\ gcstate' = "swpallgc" /\ lists' = [lists EXCEPT !.allgc = s.list]
      /\ Recolour(s.freed, s.white) /\ sweepgc' = s.sweepgc /\ stack' = stack
      /\ gray' = gray /\ grayagain' = grayagain /\ weak' = weak /\ allweak' = allweak /\ ephemeron' = ephemeron
      /\ UNCHANGED atomicvars /\ full' = full /\ emergency' = emergency
  BY DEF EnterSweep, graylists, collection
<1>2. Types /\ Listed /\ Closed
  BY DEF IInv
<1>3. BatchOf("allgc", 0, 1, s.sweepgc)
  <2>1. "allgc" \in Names /\ lists["allgc"] = lists.allgc /\ 0 <= Len(lists.allgc) /\ \A k : k \notin 1..0
    BY <1>2 DEF Types, Names
  <2> QED
    BY <1>1, <1>2, <2>1, BatchIs
<1> HIDE DEF s
<1>4. /\ Listed' /\ Closed'
      /\ lists' \in [allgc : Seq(Obj), finobj : Seq(Finalized), tobefnz : Seq(Finalized)]
      /\ mark' \in [Obj -> Colours] /\ node' \in [Obj -> Entries]
      /\ \A o \in Obj : mark'[o] = "free" => node'[o] = Empty
      /\ \A o \in Obj \ Tables : node'[o].k = Nil
      /\ sweepgc' = "null" => NowWhite(lists'.allgc)
      /\ sweepgc' = "null" \/ sweepgc' = "head" \/ (NowUpTo(lists'.allgc, sweepgc') /\ sweepgc' \in Allocated')
  BY <1>1, <1>3 DEF BatchOf
<1>5. Types'
  <2>1. TypeOK
    BY <1>2 DEF Types
  <2> QED
    BY <1>1, <1>2, <1>4, <2>1, TypesAgain DEF TypeOK, Atomically
<1>6. SweptSoFar'
  BY <1>1, <1>4 DEF SweptSoFar, NowWhite, NowUpTo, AllIn, UpTo
<1>7. Marked'
  BY <1>1 DEF Marked, Marking, Atomically
<1> QED
  BY <1>4, <1>5, <1>6, <1>7 DEF IInv

\* A batch of allgc leaves all before sweepgc white; tobefnz does not grow.
LEMMA SweepAllGcStep ==
  ASSUME IInv, SweepAllGc
  PROVE  IInv' /\ Range(lists'.tobefnz) \subseteq Range(lists.tobefnz)
<1> DEFINE in == IF sweepgc = "head" THEN "allgc"
                 ELSE CHOOSE l \in DOMAIN lists : sweepgc \in Range(lists[l])
           pos == IF sweepgc = "head" THEN 0
                  ELSE CHOOSE i \in DOMAIN lists[in] : lists[in][i] = sweepgc
           s == Swept(lists[in], pos, SweepMax)
           done == sweepgc = "null" \/ s.sweepgc = "null"
<1>1. /\ gcstate = "swpallgc" /\ stack' = stack
      /\ IF sweepgc = "null" THEN lists' = lists /\ mark' = mark /\ node' = node
         ELSE lists' = [lists EXCEPT ![in] = s.list] /\ Recolour(s.freed, s.white)
      /\ sweepgc' = IF done THEN "head" ELSE s.sweepgc
      /\ gcstate' = IF done THEN "swpfinobj" ELSE gcstate
      /\ gray' = gray /\ grayagain' = grayagain /\ weak' = weak /\ allweak' = allweak /\ ephemeron' = ephemeron
      /\ UNCHANGED atomicvars /\ full' = full /\ emergency' = emergency
  BY DEF SweepAllGc, SweepStep, graylists, collection
<1>2. /\ Types /\ Listed /\ Closed /\ TypeOK
      /\ sweepgc = "head" \/ (sweepgc = "null" /\ AllIn(lists.allgc, "white")) \/ UpTo(lists.allgc, sweepgc)
  BY <1>1 DEF IInv, Types, SweptSoFar
<1>3. Marked'
  BY <1>1 DEF Marked, Marking, Atomically
<1>4. lists \in [allgc : Seq(Obj), finobj : Seq(Finalized), tobefnz : Seq(Finalized)] /\ SweepMax \in Nat
  BY <1>2, GcAssumption DEF Types
<1>5. CASE sweepgc = "null"
  <2>1. /\ gcstate' = "swpfinobj" /\ sweepgc' = "head" /\ lists' = lists /\ mark' = mark /\ node' = node
    BY <1>1, <1>5
  <2>2. AllIn(lists.allgc, "white")
    <3>1. ~UpTo(lists.allgc, "null")
      <4>1. \A j \in 1..Len(lists.allgc) : lists.allgc[j] \in Obj
        BY <1>4
      <4> QED
        BY <4>1, GcAssumption DEF UpTo
    <3> QED
      BY <1>2, <1>5, <3>1
  <2>3. Listed' /\ Closed' /\ Allocated' = Allocated
    BY <1>1, <1>2, <2>1, HeapSame
  <2>4. Types'
    BY <1>1, <1>2, <2>1, TypesAgain DEF TypeOK, Types, Empty, Colours, Entries, Atomically
  <2>5. SweptSoFar'
    BY <2>1, <2>2 DEF SweptSoFar, AllIn
  <2> QED
    BY <1>3, <2>1, <2>3, <2>4, <2>5 DEF IInv
<1>6. CASE sweepgc # "null"
  <2>1. /\ in = "allgc" /\ pos \in Nat /\ pos <= Len(lists.allgc)
        /\ \A k \in 1..pos : mark[lists.allgc[k]] = "white"
    <3>1. CASE sweepgc = "head"
      <4>1. in = "allgc" /\ pos = 0 /\ 0 <= Len(lists.allgc) /\ \A k : k \notin 1..0
        BY <1>4, <3>1
      <4> HIDE DEF in, pos
      <4> QED
        BY <4>1
    <3>2. CASE sweepgc # "head"
      <4>1. PICK j \in 1..Len(lists.allgc) : lists.allgc[j] = sweepgc /\ \A i \in 1..j : mark[lists.allgc[i]] = "white"
        BY <1>2, <1>6, <3>2 DEF UpTo
      <4>2. sweepgc \in Range(lists.allgc)
        BY <1>4, <4>1, RangeIs
      <4>3. DOMAIN lists = {"allgc", "finobj", "tobefnz"} /\ \A l \in DOMAIN lists : sweepgc \in Range(lists[l]) <=> l = "allgc"
        BY <1>2, <1>4, <4>2 DEF Listed
      <4>4. in = "allgc"
        BY <3>2, <4>3
      <4>5. DOMAIN lists.allgc = 1..Len(lists.allgc) /\ \A i \in 1..Len(lists.allgc) : lists.allgc[i] = sweepgc <=> i = j
        BY <1>2, <1>4, <4>1 DEF Listed, Once
      <4>6. pos = CHOOSE i \in DOMAIN lists.allgc : lists.allgc[i] = sweepgc
        BY <3>2, <4>4
      <4>7. pos = j
        BY <4>5, <4>6
      <4> HIDE DEF in, pos
      <4>8. j \in Nat /\ j <= Len(lists.allgc)
        BY <1>4, <4>1
      <4> QED
        BY <4>1, <4>4, <4>7, <4>8
    <3> QED
      BY <3>1, <3>2
  <2> HIDE DEF in, pos
  <2>2. "allgc" \in Names /\ lists["allgc"] = lists.allgc
    BY DEF Names
  <2>3. /\ s = Swept(lists.allgc, pos, SweepMax)
        /\ lists' = [lists EXCEPT !["allgc"] = Swept(lists["allgc"], pos, SweepMax).list]
        /\ Recolour(Swept(lists["allgc"], pos, SweepMax).freed, Swept(lists["allgc"], pos, SweepMax).white)
    BY <1>1, <1>6, <2>1
  <2>4. BatchOf("allgc", pos, SweepMax, Swept(lists["allgc"], pos, SweepMax).sweepgc)
    BY <1>1, <1>2, <1>4, <2>1, <2>2, <2>3, BatchIs
  <2>5. BatchOf("allgc", pos, SweepMax, s.sweepgc)
    BY <2>2, <2>3, <2>4
  <2> HIDE DEF s
  <2>6. /\ Listed' /\ Closed'
        /\ lists' \in [allgc : Seq(Obj), finobj : Seq(Finalized), tobefnz : Seq(Finalized)]
        /\ mark' \in [Obj -> Colours] /\ node' \in [Obj -> Entries]
        /\ \A o \in Obj : mark'[o] = "free" => node'[o] = Empty
        /\ \A o \in Obj \ Tables : node'[o].k = Nil
        /\ s.sweepgc = "null" => NowWhite(lists'.allgc)
        /\ s.sweepgc = "null" \/ s.sweepgc = "head" \/ (NowUpTo(lists'.allgc, s.sweepgc) /\ s.sweepgc \in Allocated')
        /\ Range(lists'.tobefnz) \subseteq Range(lists.tobefnz)
    BY <2>5 DEF BatchOf, Names
  <2>7. Types'
    BY <1>1, <1>2, <2>6, TypesAgain DEF TypeOK, Atomically
  <2>8. SweptSoFar'
    <3>1. CASE done
      BY <1>1, <1>6, <2>6, <3>1 DEF SweptSoFar, NowWhite, AllIn
    <3>2. CASE ~done
      BY <1>1, <1>6, <2>6, <3>2 DEF SweptSoFar, NowUpTo, UpTo
    <3> QED
      BY <3>1, <3>2
  <2> QED
    BY <1>3, <2>6, <2>7, <2>8 DEF IInv
<1> QED
  BY <1>5, <1>6

\* The other two lists are swept in one batch each.
OneBatchOf(l) ==
  /\ Listed' /\ Closed'
  /\ lists' \in [allgc : Seq(Obj), finobj : Seq(Finalized), tobefnz : Seq(Finalized)]
  /\ mark' \in [Obj -> Colours] /\ node' \in [Obj -> Entries]
  /\ \A o \in Obj : mark'[o] = "free" => node'[o] = Empty
  /\ \A o \in Obj \ Tables : node'[o].k = Nil
  /\ \A m \in Names : Range(lists'[m]) \subseteq Range(lists[m])
  /\ \A m \in Names : AllIn(lists[m], "white") => NowWhite(lists'[m])
  /\ NowWhite(lists'[l])
LEMMA OneBatch ==
  ASSUME FewFinalizers, Types, Listed, Closed, NEW l \in {"finobj", "tobefnz"}, NEW phase, NEW nextstate,
         NEW nextlist, SweepStep(phase, l, nextstate, nextlist), sweepgc = "head"
  PROVE  /\ OneBatchOf(l) /\ gcstate = phase /\ gcstate' = nextstate /\ sweepgc' = nextlist /\ stack' = stack
         /\ UNCHANGED <<graylists, atomicvars, collection>>
<1> DEFINE s == Swept(lists[l], 0, SweepMax)
           in == IF sweepgc = "head" THEN l
                 ELSE CHOOSE m \in DOMAIN lists : sweepgc \in Range(lists[m])
           pos == IF sweepgc = "head" THEN 0
                  ELSE CHOOSE i \in DOMAIN lists[in] : lists[in][i] = sweepgc
           b == Swept(lists[in], pos, SweepMax)
<1>1. in = l /\ pos = 0 /\ b = s /\ sweepgc # "null"
  OBVIOUS
<1>2. /\ gcstate = phase
      /\ lists' = [lists EXCEPT ![in] = b.list] /\ Recolour(b.freed, b.white)
      /\ sweepgc' = IF b.sweepgc = "null" THEN nextlist ELSE b.sweepgc
      /\ gcstate' = IF b.sweepgc = "null" THEN nextstate ELSE gcstate
      /\ stack' = stack /\ UNCHANGED <<graylists, atomicvars, collection>>
  BY DEF SweepStep
<1> HIDE DEF in, pos, b
<1>3. /\ lists' = [lists EXCEPT ![l] = s.list] /\ Recolour(s.freed, s.white)
      /\ sweepgc' = IF s.sweepgc = "null" THEN nextlist ELSE s.sweepgc
      /\ gcstate' = IF s.sweepgc = "null" THEN nextstate ELSE gcstate
  BY <1>1, <1>2
<1>4. lists[l] \in Seq(Finalized) /\ Once(lists[l]) /\ Len(lists[l]) \in Nat /\ l \in Names
  BY DEF Types, Listed, Names
<1>5. SweepMax \in Nat /\ Len(lists[l]) <= SweepMax
  BY <1>4, FewListed, GcAssumption
<1>6. BatchOf(l, 0, SweepMax, s.sweepgc)
  <2>1. 0 <= Len(lists[l]) /\ \A k : k \notin 1..0
    BY <1>4
  <2> QED
    BY <1>2, <1>3, <1>4, <1>5, <2>1, BatchIs
<1> HIDE DEF s
<1>7. s.sweepgc = "null"
  BY <1>4, <1>5, <1>6 DEF BatchOf
<1> QED
  BY <1>2, <1>3, <1>6, <1>7 DEF BatchOf, OneBatchOf

\* finobj is swept.
LEMMA SweepFinObjStep ==
  ASSUME FewFinalizers, IInv, SweepFinObj
  PROVE  IInv'
<1>1. gcstate = "swpfinobj"
  BY DEF SweepFinObj, SweepStep
<1>2. Types /\ Listed /\ Closed /\ TypeOK /\ sweepgc = "head" /\ AllIn(lists.allgc, "white")
  BY <1>1 DEF IInv, SweptSoFar, Types
<1>3. /\ OneBatchOf("finobj") /\ gcstate' = "swptobefnz" /\ sweepgc' = "head" /\ stack' = stack
      /\ UNCHANGED <<graylists, atomicvars, collection>>
  BY <1>2, OneBatch DEF SweepFinObj
<1>4. Types'
  BY <1>1, <1>2, <1>3, TypesAgain DEF TypeOK, Atomically, OneBatchOf, graylists, collection
<1>5. SweptSoFar'
  <2>1. NowWhite(lists'.allgc) /\ NowWhite(lists'.finobj)
    BY <1>2, <1>3 DEF OneBatchOf, Names
  <2> QED
    BY <1>3, <2>1 DEF SweptSoFar, NowWhite, AllIn
<1>6. Marked'
  BY <1>3 DEF Marked, Marking, Atomically
<1> QED
  BY <1>3, <1>4, <1>5, <1>6 DEF IInv, OneBatchOf

\* tobefnz is swept, and does not grow.
LEMMA SweepToBeFnzStep ==
  ASSUME FewFinalizers, IInv, SweepToBeFnz
  PROVE  IInv' /\ Range(lists'.tobefnz) \subseteq Range(lists.tobefnz)
<1>1. gcstate = "swptobefnz"
  BY DEF SweepToBeFnz, SweepStep
<1>2. Types /\ Listed /\ Closed /\ TypeOK /\ sweepgc = "head" /\ AllIn(lists.allgc, "white") /\ AllIn(lists.finobj, "white")
  BY <1>1 DEF IInv, SweptSoFar, Types
<1>3. /\ OneBatchOf("tobefnz") /\ gcstate' = "swpend" /\ sweepgc' = "null" /\ stack' = stack
      /\ UNCHANGED <<graylists, atomicvars, collection>>
  BY <1>2, OneBatch DEF SweepToBeFnz
<1>4. Types'
  BY <1>1, <1>2, <1>3, TypesAgain DEF TypeOK, Atomically, OneBatchOf, graylists, collection
<1>5. SweptSoFar'
  <2>1. NowWhite(lists'.allgc) /\ NowWhite(lists'.finobj) /\ NowWhite(lists'.tobefnz)
    BY <1>2, <1>3 DEF OneBatchOf, Names
  <2> QED
    BY <1>3, <2>1 DEF SweptSoFar, NowWhite, AllIn
<1>6. Marked'
  BY <1>3 DEF Marked, Marking, Atomically
<1> QED
  BY <1>3, <1>4, <1>5, <1>6 DEF IInv, OneBatchOf, Names

\* The sweep and the cycle end.
LEMMA SweepEndStep ==
  ASSUME IInv, SweepEnd \/ CallFin
  PROVE  IInv'
<1>1. /\ gcstate \in {"swpend", "callfin"} /\ gcstate' \in {"callfin", "pause"}
      /\ stack' = stack /\ node' = node /\ mark' = mark /\ lists' = lists /\ sweepgc' = sweepgc
      /\ full' \in {full, "no"} /\ emergency' \in {emergency, FALSE}
      /\ UNCHANGED <<graylists, atomicvars>>
  <2>1. CASE SweepEnd
    BY <2>1 DEF SweepEnd, heap, collection
  <2>2. CASE CallFin
    <3>1. emergency \in BOOLEAN
      BY DEF IInv, Types, TypeOK
    <3>2. emergency' \in {emergency, FALSE}
      BY <2>2, <3>1 DEF CallFin
    <3> QED
      BY <2>2, <3>2 DEF CallFin, heap
  <2> QED
    BY <2>1, <2>2
<1>2. Types /\ Listed /\ Closed /\ TypeOK /\ SweptSoFar
  BY DEF IInv, Types
<1>3. Listed' /\ Closed' /\ Allocated' = Allocated
  BY <1>1, <1>2, HeapSame
<1>4. Types'
  <2>1. /\ lists' \in [allgc : Seq(Obj), finobj : Seq(Finalized), tobefnz : Seq(Finalized)]
        /\ mark' \in [Obj -> Colours] /\ node' \in [Obj -> Entries]
        /\ \A o \in Obj : mark'[o] = "free" => node'[o] = Empty
        /\ \A o \in Obj \ Tables : node'[o].k = Nil
    BY <1>1, <1>2 DEF Types, TypeOK, Colours, Entries
  <2>2. full' \in {"no", "finish", "cycle"} /\ emergency' \in BOOLEAN
    BY <1>1, <1>2 DEF TypeOK
  <2> QED
    BY <1>1, <1>2, <1>3, <2>1, <2>2, TypesAgain DEF TypeOK, Atomically, graylists
<1>5. SweptSoFar'
  <2>1. AllIn(lists.allgc, "white") /\ AllIn(lists.finobj, "white") /\ AllIn(lists.tobefnz, "white")
    BY <1>1, <1>2 DEF SweptSoFar
  <2> QED
    BY <1>1, <2>1 DEF SweptSoFar, AllIn
<1>6. Marked'
  BY <1>1 DEF Marked, Marking, Atomically
<1> QED
  BY <1>3, <1>4, <1>5, <1>6 DEF IInv

-----------------------------------------------------------------------------
(* The program and the finalizers preserve the invariant *)

\* An object put in front of a list, or taken from its front.
ConsOf(u, o, s, X) ==
  /\ u \in Seq(X) /\ Len(u) = Len(s) + 1 /\ u[1] = o /\ \A i \in 1..Len(s) : u[i + 1] = s[i]
  /\ \A i \in 1..Len(u) : i = 1 \/ \E k \in 1..Len(s) : i = k + 1
  /\ Range(u) = {o} \cup Range(s)
  /\ Once(s) /\ o \notin Range(s) => Once(u)
LEMMA ConsIs ==
  ASSUME NEW X, NEW o \in X, NEW s \in Seq(X)
  PROVE  ConsOf(<<o>> \o s, o, s, X)
<1>1. /\ <<o>> \in Seq(X) /\ Len(<<o>>) = 1 /\ <<o>>[1] = o /\ 1 \in 1..1 /\ \A k \in 1..1 : k = 1
      /\ Range(<<o>>) = {o} /\ Once(<<o>>)
  BY DEF Range, Once
<1> DEFINE u == <<o>> \o s
<1>2. JoinOf(u, <<o>>, s, X)
  BY <1>1, JoinedIs
<1> HIDE DEF u
<1>3. /\ u \in Seq(X) /\ Len(u) = 1 + Len(s) /\ u[1] = o
      /\ \A k \in 1..Len(s) : u[1 + k] = s[k]
      /\ \A i \in 1..Len(u) : i \in 1..1 \/ \E k \in 1..Len(s) : i = 1 + k
      /\ Range(u) = {o} \cup Range(s)
      /\ Once(s) /\ {o} \cap Range(s) = {} => Once(u)
  BY <1>1, <1>2 DEF JoinOf
<1>4. Len(s) \in Nat /\ \A k \in 1..Len(s) : 1 + k = k + 1
  OBVIOUS
<1>5. \A k \in 1..Len(s) : u[k + 1] = s[k]
  BY <1>3, <1>4
<1>6. \A i \in 1..Len(u) : i = 1 \/ \E k \in 1..Len(s) : i = k + 1
  BY <1>3, <1>4
<1>7. Len(u) = Len(s) + 1
  BY <1>3, <1>4
<1>8. ConsOf(u, o, s, X)
  BY <1>3, <1>5, <1>6, <1>7 DEF ConsOf
<1> QED
  BY <1>8 DEF u

TailOf(t, s, X) ==
  /\ t \in Seq(X) /\ Head(s) \in X /\ Range(s) = {Head(s)} \cup Range(t)
  /\ \A i \in 1..Len(t) : \E k \in 1..Len(s) : t[i] = s[k]
  /\ Once(s) => Once(t) /\ Head(s) \notin Range(t)
LEMMA TailIs ==
  ASSUME NEW X, NEW s \in Seq(X), s # <<>>
  PROVE  TailOf(Tail(s), s, X)
<1> DEFINE t == Tail(s)
<1>1. /\ Head(s) \in X /\ Head(s) = s[1] /\ t \in Seq(X) /\ Len(s) \in Nat /\ Len(s) >= 1 /\ Len(t) = Len(s) - 1
      /\ \A i \in 1..Len(t) : t[i] = s[i + 1]
  OBVIOUS
<1> HIDE DEF t
<1>2. /\ \A x : x \in Range(s) <=> \E i \in 1..Len(s) : s[i] = x
      /\ \A x : x \in Range(t) <=> \E i \in 1..Len(t) : t[i] = x
  BY <1>1, RangeIs
<1>3. \A i \in 1..Len(t) : i + 1 \in 1..Len(s) /\ i + 1 # 1
  BY <1>1
<1>4. 1 \in 1..Len(s) /\ \A k \in 1..Len(s) : k = 1 \/ (k - 1 \in 1..Len(t) /\ (k - 1) + 1 = k)
  BY <1>1
<1>5. Range(s) = {Head(s)} \cup Range(t)
  <2>1. ASSUME NEW x \in Range(s) PROVE x = Head(s) \/ x \in Range(t)
    <3>1. PICK k \in 1..Len(s) : s[k] = x
      BY <1>2
    <3>2. k # 1 => t[k - 1] = s[k]
      <4>1. SUFFICES ASSUME k # 1 PROVE t[k - 1] = s[k]
        OBVIOUS
      <4>2. t[k - 1] = s[(k - 1) + 1]
        BY <1>1, <1>4, <4>1
      <4> QED
        BY <1>4, <4>1, <4>2
    <3> QED
      BY <1>1, <1>2, <1>4, <3>1, <3>2
  <2>2. ASSUME NEW x \in {Head(s)} \cup Range(t) PROVE x \in Range(s)
    BY <1>1, <1>2, <1>3, <1>4
  <2> QED
    BY <2>1, <2>2
<1>6. ASSUME Once(s) PROVE Once(t) /\ Head(s) \notin Range(t)
  <2>1. Once(t)
    <3> SUFFICES ASSUME NEW i \in 1..Len(t), NEW j \in 1..Len(t), t[i] = t[j] PROVE i = j
      BY DEF Once
    <3>1. s[i + 1] = s[j + 1] /\ i + 1 \in 1..Len(s) /\ j + 1 \in 1..Len(s)
      BY <1>1, <1>3
    <3>2. i + 1 = j + 1
      BY <1>6, <3>1 DEF Once
    <3> QED
      BY <1>1, <3>2
  <2>2. Head(s) \notin Range(t)
    <3> SUFFICES ASSUME NEW i \in 1..Len(t), t[i] = Head(s) PROVE FALSE
      BY <1>2
    <3>1. s[i + 1] = s[1]
      BY <1>1
    <3> QED
      BY <1>3, <1>4, <1>6, <3>1 DEF Once
  <2> QED
    BY <2>1, <2>2
<1>7. TailOf(t, s, X)
  BY <1>1, <1>3, <1>5, <1>6 DEF TailOf
<1> QED
  BY <1>7 DEF t

\* What is kept stays closed when the program changes what it may, and marks change as they may.
LEMMA ClosedAgain ==
  ASSUME Closed, \A x \in Obj : mark'[x] \notin {"free", "other"} <=> mark[x] \notin {"free", "other"},
         \A o \in stack' : Kept(o),
         \A o \in Obj : o \in Range(lists'.finobj) \cup Range(lists'.tobefnz) => Kept(o),
         \A o \in Obj : node'[o] = node[o] \/ (Kept(node'[o].k) /\ Kept(node'[o].v))
  PROVE  Closed'
<1>1. \A x : Kept(x) => (x \in Obj => mark'[x] \notin {"free", "other"})
  BY DEF Kept
<1>2. \A o \in Obj : mark'[o] \notin {"free", "other"} => Kept(node'[o].k) /\ Kept(node'[o].v)
  BY DEF Closed
<1>3. \A o \in stack' : o \in Obj => mark'[o] \notin {"free", "other"}
  BY <1>1
<1>4. \A o \in Obj : o \in Range(lists'.finobj) \cup Range(lists'.tobefnz) => mark'[o] \notin {"free", "other"}
  BY <1>1
<1>5. \A o \in Obj : mark'[o] \notin {"free", "other"} =>
        /\ node'[o].k \in Obj => mark'[node'[o].k] \notin {"free", "other"}
        /\ node'[o].v \in Obj => mark'[node'[o].v] \notin {"free", "other"}
  BY <1>1, <1>2
<1> QED
  BY <1>3, <1>4, <1>5 DEF Closed, Kept

\* The sweep is as far as it was, with the lists as they were or an object in front of allgc that
\* is white.
LEMMA SweptAgain ==
  ASSUME Types, SweptSoFar, gcstate' = gcstate, sweepgc' = sweepgc,
         \A o \in Obj : mark[o] = "white" => mark'[o] = "white",
         \/ lists'.allgc = lists.allgc
         \/ \E o \in Obj : lists'.allgc = <<o>> \o lists.allgc /\ (SweepPhase \/ gcstate \in {"callfin", "pause"} => mark'[o] = "white"),
         lists'.finobj = lists.finobj,
         \A i \in 1..Len(lists'.tobefnz) : \E k \in 1..Len(lists.tobefnz) : lists'.tobefnz[i] = lists.tobefnz[k]
  PROVE  SweptSoFar'
<1>1. lists.allgc \in Seq(Obj) /\ lists.finobj \in Seq(Obj) /\ lists.tobefnz \in Seq(Obj)
  <2>1. Finalized \subseteq Obj
    BY GcAssumption DEF Obj
  <2>2. \A z \in Seq(Finalized) : z \in Seq(Obj)
    BY <2>1
  <2> QED
    BY <2>2 DEF Types
<1> DEFINE swept == SweepPhase \/ gcstate \in {"callfin", "pause"}
<1>2. swept => (AllIn(lists.allgc, "white") => NowWhite(lists'.allgc))
  <2>1. CASE lists'.allgc = lists.allgc
    BY <1>1, <2>1 DEF AllIn, NowWhite
  <2>2. ASSUME NEW o \in Obj, lists'.allgc = <<o>> \o lists.allgc, mark'[o] = "white", AllIn(lists.allgc, "white")
        PROVE  NowWhite(lists'.allgc)
    <3>1. ConsOf(lists'.allgc, o, lists.allgc, Obj)
      BY <1>1, <2>2, ConsIs
    <3>2. \A i \in 1..Len(lists.allgc) : mark'[lists.allgc[i]] = "white"
      BY <1>1, <2>2 DEF AllIn
    <3> QED
      BY <2>2, <3>1, <3>2 DEF ConsOf, NowWhite
  <2> QED
    BY <2>1, <2>2
<1>3. swept => \A x : UpTo(lists.allgc, x) => NowUpTo(lists'.allgc, x)
  <2>1. CASE lists'.allgc = lists.allgc
    <3> SUFFICES ASSUME NEW x, UpTo(lists.allgc, x) PROVE NowUpTo(lists.allgc, x)
      BY <2>1
    <3>1. PICK j \in 1..Len(lists.allgc) : lists.allgc[j] = x /\ \A i \in 1..j : mark[lists.allgc[i]] = "white"
      BY DEF UpTo
    <3>2. \A i \in 1..j : lists.allgc[i] \in Obj
      BY <1>1
    <3> QED
      BY <3>1, <3>2 DEF NowUpTo
  <2>2. ASSUME NEW o \in Obj, lists'.allgc = <<o>> \o lists.allgc, mark'[o] = "white", NEW x, UpTo(lists.allgc, x)
        PROVE  NowUpTo(lists'.allgc, x)
    <3>1. ConsOf(lists'.allgc, o, lists.allgc, Obj)
      BY <1>1, <2>2, ConsIs
    <3>2. PICK j \in 1..Len(lists.allgc) : lists.allgc[j] = x /\ \A i \in 1..j : mark[lists.allgc[i]] = "white"
      BY <2>2 DEF UpTo
    <3>3. Len(lists.allgc) \in Nat /\ Len(lists'.allgc) = Len(lists.allgc) + 1
      BY <1>1, <3>1 DEF ConsOf
    <3>4. j + 1 \in 1..Len(lists'.allgc) /\ lists'.allgc[j + 1] = x
      BY <3>1, <3>2, <3>3 DEF ConsOf
    <3>5. ASSUME NEW i \in 1..(j + 1) PROVE mark'[lists'.allgc[i]] = "white"
      <4>1. CASE i = 1
        BY <2>2, <3>1, <4>1 DEF ConsOf
      <4>2. CASE i # 1
        <5>1. i - 1 \in 1..j /\ i - 1 \in 1..Len(lists.allgc) /\ (i - 1) + 1 = i
          BY <3>2, <3>3, <4>2
        <5>2. lists'.allgc[(i - 1) + 1] = lists.allgc[i - 1]
          BY <3>1, <5>1 DEF ConsOf
        <5>3. mark[lists.allgc[i - 1]] = "white" /\ lists.allgc[i - 1] \in Obj
          BY <1>1, <3>2, <5>1
        <5> QED
          BY <5>1, <5>2, <5>3
      <4> QED
        BY <4>1, <4>2
    <3> QED
      BY <3>4, <3>5 DEF NowUpTo
  <2> QED
    BY <2>1, <2>2
<1>4. AllIn(lists.finobj, "white") => NowWhite(lists'.finobj)
  BY <1>1 DEF AllIn, NowWhite
<1>5. AllIn(lists.tobefnz, "white") => NowWhite(lists'.tobefnz)
  <2> SUFFICES ASSUME AllIn(lists.tobefnz, "white"), NEW i \in 1..Len(lists'.tobefnz)
               PROVE  mark'[lists'.tobefnz[i]] = "white"
    BY DEF NowWhite
  <2>1. PICK k \in 1..Len(lists.tobefnz) : lists'.tobefnz[i] = lists.tobefnz[k]
    OBVIOUS
  <2>2. lists.tobefnz[k] \in Obj /\ mark[lists.tobefnz[k]] = "white"
    BY <1>1 DEF AllIn
  <2> QED
    BY <2>1, <2>2
<1>6. gcstate \in {"swpallgc", "swpfinobj", "swptobefnz", "swpend", "callfin", "pause"} <=> swept
  BY DEF SweepPhase
<1> HIDE DEF swept
<1>7. gcstate' = "swpallgc" => \/ sweepgc' = "head"
                               \/ sweepgc' = "null" /\ NowWhite(lists'.allgc)
                               \/ NowUpTo(lists'.allgc, sweepgc')
  BY <1>2, <1>3, <1>6 DEF SweptSoFar
<1>8. /\ gcstate' \in {"swpfinobj", "swptobefnz", "swpend", "callfin", "pause"} => NowWhite(lists'.allgc)
      /\ gcstate' \in {"swptobefnz", "swpend", "callfin", "pause"} => NowWhite(lists'.finobj)
      /\ gcstate' \in {"swpend", "callfin", "pause"} => NowWhite(lists'.tobefnz)
  BY <1>2, <1>4, <1>5, <1>6 DEF SweptSoFar
<1>9. /\ gcstate' \in {"swpfinobj", "swptobefnz"} => sweepgc' = "head"
      /\ gcstate' = "swpend" => sweepgc' = "null"
  BY DEF SweptSoFar
<1> QED
  BY <1>7, <1>8, <1>9 DEF SweptSoFar, NowWhite, NowUpTo, AllIn, UpTo

\* Nothing changes for the marking.
LEMMA MarkedSame ==
  ASSUME Marked, gcstate' = gcstate, gcstate \notin Inside,
         gcstate \in Marking => mark' = mark /\ node' = node, UNCHANGED <<graylists, atomicvars>>
  PROVE  Marked'
<1> SUFFICES ASSUME gcstate \in Marking
             PROVE  Coloured' /\ OnGrayLists' /\ RootsMarked' /\ Converged' /\ Saved'
  BY DEF Marked
<1>1. Coloured /\ OnGrayLists /\ RootsMarked /\ gcstate \in {"propagate", "atomic"}
  BY DEF Marked, Marking, Inside
<1>2. /\ mark' = mark /\ node' = node /\ gcstate' = gcstate
      /\ gray' = gray /\ grayagain' = grayagain /\ weak' = weak /\ allweak' = allweak /\ ephemeron' = ephemeron
      /\ next' = next /\ changed' = changed /\ orig' = orig
  BY DEF graylists, atomicvars
<1>3. Coloured'
  <2>1. \A o \in Obj : (Pending(o) => Pending(o)') /\ (Settled(o) => Settled(o)')
    BY <1>2 DEF Pending, Settled, KeepInvariant, IsWhite
  <2> QED
    BY <1>1, <1>2, <2>1 DEF Coloured, IsWhite
<1>4. OnGrayLists'
  BY <1>1, <1>2 DEF OnGrayLists, NonWhite, IsWhite
<1>5. RootsMarked'
  BY <1>1, <1>2 DEF RootsMarked, Early
<1>6. Converged' /\ Saved'
  BY <1>1, <1>2 DEF Converged, Saved
<1> QED
  BY <1>3, <1>4, <1>5, <1>6

\* GCTM: an object that leaves tobefnz is allocated and is an ordinary one again.
LEMMA FinalizerStep ==
  ASSUME IInv, GCTM
  PROVE  IInv'
<1> DEFINE o == Head(lists.tobefnz)
<1>1. /\ gcstate \notin Inside \cup {"pause"} /\ lists.tobefnz # <<>>
      /\ lists' = [lists EXCEPT !.tobefnz = Tail(@), !.allgc = <<o>> \o @]
      /\ mark' = IF SweepPhase THEN [mark EXCEPT ![o] = "white"] ELSE mark
      /\ stack' = stack \cup {o}
      /\ node' = node /\ gcstate' = gcstate /\ sweepgc' = sweepgc /\ UNCHANGED <<graylists, atomicvars, collection>>
  BY DEF GCTM
<1>2. Types /\ Listed /\ Closed /\ SweptSoFar /\ Marked /\ TypeOK
  BY DEF IInv, Types
<1>3. /\ lists \in [allgc : Seq(Obj), finobj : Seq(Finalized), tobefnz : Seq(Finalized)]
      /\ mark \in [Obj -> Colours] /\ node \in [Obj -> Entries] /\ Finalized \subseteq Obj
  BY <1>2, GcAssumption DEF Types, TypeOK, Colours, Entries, Obj
<1>4. TailOf(Tail(lists.tobefnz), lists.tobefnz, Finalized)
  BY <1>1, <1>3, TailIs
<1>5. /\ lists'.tobefnz = Tail(lists.tobefnz) /\ lists'.allgc = <<o>> \o lists.allgc /\ lists'.finobj = lists.finobj
      /\ lists' = [allgc |-> <<o>> \o lists.allgc, finobj |-> lists.finobj, tobefnz |-> Tail(lists.tobefnz)]
  BY <1>1, <1>3
<1> HIDE DEF o
<1>6. /\ lists'.tobefnz \in Seq(Finalized) /\ o \in Finalized /\ Range(lists.tobefnz) = {o} \cup Range(lists'.tobefnz)
      /\ \A i \in 1..Len(lists'.tobefnz) : \E k \in 1..Len(lists.tobefnz) : lists'.tobefnz[i] = lists.tobefnz[k]
      /\ Once(lists.tobefnz) => Once(lists'.tobefnz) /\ o \notin Range(lists'.tobefnz)
  BY <1>4, <1>5 DEF TailOf, o
<1>7. o \in Obj /\ o \in Range(lists.tobefnz) /\ Kept(o)
  BY <1>2, <1>3, <1>6 DEF Closed
<1>8. ConsOf(lists'.allgc, o, lists.allgc, Obj)
  BY <1>3, <1>5, <1>7, ConsIs
<1>9. lists' \in [allgc : Seq(Obj), finobj : Seq(Finalized), tobefnz : Seq(Finalized)]
  <2>1. lists'.allgc \in Seq(Obj)
    BY <1>8 DEF ConsOf
  <2>2. lists' = [allgc |-> lists'.allgc, finobj |-> lists.finobj, tobefnz |-> lists'.tobefnz]
    BY <1>5
  <2> QED
    BY <1>3, <1>6, <2>1, <2>2
<1>10. mark[o] \notin {"free", "other"}
  BY <1>7 DEF Kept
<1>11. /\ mark' \in [Obj -> Colours]
       /\ \A x \in Obj : mark'[x] = IF SweepPhase /\ x = o THEN "white" ELSE mark[x]
  <2>1. "white" \in Colours
    BY DEF Colours, White
  <2> QED
    BY <1>1, <1>3, <1>7, <2>1
<1>12. Allocated' = Allocated
  BY <1>10, <1>11 DEF Allocated
<1>13. Closed'
  <2>1. \A x \in Obj : mark'[x] \notin {"free", "other"} <=> mark[x] \notin {"free", "other"}
    BY <1>10, <1>11
  <2>2. \A x \in stack' : Kept(x)
    BY <1>1, <1>2, <1>7 DEF Closed
  <2>3. \A x \in Obj : x \in Range(lists'.finobj) \cup Range(lists'.tobefnz) => Kept(x)
    BY <1>2, <1>5, <1>6 DEF Closed
  <2> QED
    BY <1>1, <1>2, <2>1, <2>2, <2>3, ClosedAgain
<1>14. Types'
  <2>1. \A x \in Obj : mark'[x] = "free" => node'[x] = Empty
    BY <1>1, <1>2, <1>10, <1>11 DEF Types
  <2>2. \A x \in Obj \ Tables : node'[x].k = Nil
    BY <1>1, <1>2 DEF Types
  <2>3. gcstate' \in {"enter", "pause", "propagate", "atomic", "swpallgc", "swpfinobj", "swptobefnz", "swpend", "callfin"}
        /\ gcstate \notin Atomically
    BY <1>1, <1>2 DEF TypeOK, Inside
  <2> QED
    BY <1>1, <1>2, <1>3, <1>7, <1>9, <1>11, <1>12, <2>1, <2>2, <2>3, TypesAgain DEF TypeOK, graylists, collection
<1>15. Listed'
  <2>1. Range(lists'.allgc) = {o} \cup Range(lists.allgc) /\ (Once(lists.allgc) /\ o \notin Range(lists.allgc) => Once(lists'.allgc))
    BY <1>8 DEF ConsOf
  <2>2. o \notin Range(lists.allgc) /\ o \notin Range(lists.finobj)
    BY <1>2, <1>7 DEF Listed
  <2> QED
    BY <1>2, <1>5, <1>6, <1>12, <2>1, <2>2 DEF Listed, Once
<1>16. SweptSoFar'
  <2>1. SweepPhase \/ gcstate \in {"callfin", "pause"} => mark'[o] = "white"
    <3>1. gcstate = "callfin" => \A x \in Obj : mark[x] \in {"free", "white"}
      BY <1>2, WhiteOutside
    <3> QED
      BY <1>1, <1>7, <1>10, <1>11, <3>1
  <2> QED
    BY <1>1, <1>2, <1>5, <1>6, <1>7, <1>11, <2>1, SweptAgain
<1>17. Marked'
  <2>1. gcstate \in Marking => ~SweepPhase
    BY DEF Marking, Atomically, SweepPhase
  <2> QED
    BY <1>1, <1>2, <2>1, MarkedSame
<1> QED
  BY <1>13, <1>14, <1>15, <1>16, <1>17 DEF IInv

\* What the program pushes, pops and erases.
LEMMA StackStep ==
  ASSUME IInv, NEW o \in Obj, NEW x \in Obj, Load(o, x) \/ Pop(o)
  PROVE  IInv'
<1>1. /\ gcstate \notin Inside /\ node' = node /\ mark' = mark /\ gcstate' = gcstate /\ lists' = lists
      /\ sweepgc' = sweepgc /\ UNCHANGED <<graylists, atomicvars, collection>> /\ stack' \subseteq stack \cup {x}
      /\ stack' \subseteq stack \/ (o \in stack /\ x \in {node[o].k, node[o].v})
  BY DEF Load, Pop, CanRun
<1>2. Types /\ Listed /\ Closed /\ SweptSoFar /\ Marked /\ TypeOK
  BY DEF IInv, Types
<1>3. Allocated' = Allocated
  BY <1>1 DEF Allocated
<1>4. \A y \in stack' : Kept(y)
  <2>1. \A y \in stack : Kept(y)
    BY <1>2 DEF Closed
  <2>2. o \in stack => Kept(node[o].k) /\ Kept(node[o].v)
    BY <1>2 DEF Closed, Kept
  <2> QED
    BY <1>1, <2>1, <2>2
<1>5. Closed'
  BY <1>1, <1>2, <1>4, ClosedAgain DEF Closed
<1>6. Types'
  <2>1. gcstate' \in {"enter", "pause", "propagate", "atomic", "swpallgc", "swpfinobj", "swptobefnz", "swpend", "callfin"}
        /\ gcstate \notin Atomically /\ stack' \subseteq Obj
    BY <1>1, <1>2 DEF TypeOK, Inside
  <2>2. /\ lists' \in [allgc : Seq(Obj), finobj : Seq(Finalized), tobefnz : Seq(Finalized)]
        /\ mark' \in [Obj -> Colours] /\ node' \in [Obj -> Entries]
        /\ \A y \in Obj : mark'[y] = "free" => node'[y] = Empty
        /\ \A y \in Obj \ Tables : node'[y].k = Nil
    BY <1>1, <1>2 DEF Types, TypeOK, Colours, Entries
  <2> QED
    BY <1>1, <1>2, <1>3, <2>1, <2>2, TypesAgain DEF TypeOK, graylists, collection
<1>7. Listed'
  BY <1>1, <1>2, <1>3 DEF Listed, Once
<1>8. SweptSoFar'
  BY <1>1, <1>2, SweptAgain
<1>9. Marked'
  BY <1>1, <1>2, MarkedSame
<1> QED
  BY <1>5, <1>6, <1>7, <1>8, <1>9 DEF IInv

\* luaC_newobj: the new object is white, is in front of allgc, and nothing leads to it.
LEMMA NewStep ==
  ASSUME IInv, NEW o \in Obj, New(o)
  PROVE  IInv'
<1>1. /\ gcstate \notin Inside /\ mark[o] = "free" /\ mark' = [mark EXCEPT ![o] = "white"]
      /\ lists' = [lists EXCEPT !.allgc = <<o>> \o @] /\ stack' = stack \cup {o}
      /\ node' = node /\ gcstate' = gcstate /\ sweepgc' = sweepgc /\ UNCHANGED <<graylists, atomicvars, collection>>
  BY DEF New, CanRun
<1>2. Types /\ Listed /\ Closed /\ SweptSoFar /\ Marked /\ TypeOK
  BY DEF IInv, Types
<1>3. /\ lists \in [allgc : Seq(Obj), finobj : Seq(Finalized), tobefnz : Seq(Finalized)]
      /\ mark \in [Obj -> Colours] /\ node \in [Obj -> Entries]
  BY <1>2 DEF Types, TypeOK, Colours, Entries
<1>4. /\ lists'.allgc = <<o>> \o lists.allgc /\ lists'.finobj = lists.finobj /\ lists'.tobefnz = lists.tobefnz
      /\ lists' = [allgc |-> lists'.allgc, finobj |-> lists.finobj, tobefnz |-> lists.tobefnz]
  BY <1>1, <1>3
<1>5. ConsOf(lists'.allgc, o, lists.allgc, Obj)
  BY <1>3, <1>4, ConsIs
<1>6. lists' \in [allgc : Seq(Obj), finobj : Seq(Finalized), tobefnz : Seq(Finalized)]
  <2>1. lists'.allgc \in Seq(Obj)
    BY <1>5 DEF ConsOf
  <2> QED
    BY <1>3, <1>4, <2>1
<1>7. mark' \in [Obj -> Colours] /\ \A x \in Obj : mark'[x] = IF x = o THEN "white" ELSE mark[x]
  <2>1. "white" \in Colours
    BY DEF Colours, White
  <2> QED
    BY <1>1, <1>3, <2>1
<1>8. Allocated' = Allocated \cup {o} /\ o \notin Allocated
  BY <1>1, <1>7 DEF Allocated
<1>9. \A x : Kept(x) => x # o /\ (x \in Obj => mark'[x] \notin {"free", "other"})
  BY <1>1, <1>7 DEF Kept
<1>10. node[o] = Empty /\ Empty.k = Nil /\ Empty.v = Nil /\ Nil \notin Obj
  BY <1>1, <1>2, GcAssumption DEF Types, Empty
<1>11. Closed'
  <2>1. \A x \in stack' : x \in Obj => mark'[x] \notin {"free", "other"}
    BY <1>1, <1>2, <1>7, <1>9 DEF Closed
  <2>2. \A x \in Obj : x \in Range(lists'.finobj) \cup Range(lists'.tobefnz) => mark'[x] \notin {"free", "other"}
    BY <1>2, <1>4, <1>9 DEF Closed
  <2>3. \A x \in Obj : mark'[x] \notin {"free", "other"} =>
          /\ node'[x].k \in Obj => mark'[node'[x].k] \notin {"free", "other"}
          /\ node'[x].v \in Obj => mark'[node'[x].v] \notin {"free", "other"}
    BY <1>1, <1>2, <1>7, <1>9, <1>10 DEF Closed
  <2> QED
    BY <2>1, <2>2, <2>3 DEF Closed, Kept
<1>12. Types'
  <2>1. gcstate' \in {"enter", "pause", "propagate", "atomic", "swpallgc", "swpfinobj", "swptobefnz", "swpend", "callfin"}
        /\ gcstate \notin Atomically /\ stack' \subseteq Obj
    BY <1>1, <1>2 DEF TypeOK, Inside
  <2>2. /\ \A y \in Obj : mark'[y] = "free" => node'[y] = Empty
        /\ \A y \in Obj \ Tables : node'[y].k = Nil
    BY <1>1, <1>2, <1>7 DEF Types
  <2> QED
    BY <1>1, <1>2, <1>3, <1>6, <1>7, <1>8, <2>1, <2>2, TypesAgain DEF TypeOK, graylists, collection
<1>13. Listed'
  <2>1. Range(lists'.allgc) = {o} \cup Range(lists.allgc) /\ (Once(lists.allgc) /\ o \notin Range(lists.allgc) => Once(lists'.allgc))
    BY <1>5 DEF ConsOf
  <2>2. o \notin Range(lists.allgc) \cup Range(lists.finobj) \cup Range(lists.tobefnz)
    BY <1>2, <1>8 DEF Listed
  <2> QED
    BY <1>2, <1>4, <1>8, <2>1, <2>2 DEF Listed, Once
<1>14. SweptSoFar'
  BY <1>1, <1>2, <1>4, <1>7, SweptAgain
<1>15. Marked'
  <2> SUFFICES ASSUME gcstate \in Marking
               PROVE  Coloured' /\ OnGrayLists' /\ RootsMarked' /\ Converged' /\ Saved'
    BY <1>1 DEF Marked
  <2>1. Coloured /\ OnGrayLists /\ RootsMarked /\ gcstate \in {"propagate", "atomic"} /\ orig = {}
    BY <1>1, <1>2 DEF Marked, Marking, Inside, Types
  <2>2. /\ gray' = gray /\ grayagain' = grayagain /\ weak' = weak /\ allweak' = allweak /\ ephemeron' = ephemeron
        /\ next' = next /\ orig' = orig
    BY <1>1 DEF graylists, atomicvars
  <2>3. \A x : IsWhite(x)' => IsWhite(x) \/ x = o
    BY <1>7 DEF IsWhite
  <2>4. Coloured'
    <3>1. \A p \in Obj : mark'[p] # "other"
      BY <1>7, <2>1 DEF Coloured
    <3>2. ASSUME NEW p \in Obj, mark'[p] = "black" PROVE p \in Strong /\ ~IsWhite(node[p].k)' /\ ~IsWhite(node[p].v)'
      <4>1. mark[p] = "black" /\ p \in Strong /\ ~IsWhite(node[p].k) /\ ~IsWhite(node[p].v)
        BY <1>7, <2>1, <3>2 DEF Coloured
      <4>2. node[p].k # o /\ node[p].v # o
        BY <1>2, <1>9, <4>1 DEF Closed
      <4> QED
        BY <1>1, <1>7, <4>1, <4>2 DEF IsWhite
    <3>3. ASSUME NEW p \in Obj, mark'[p] = "gray" PROVE p \notin Userdata /\ (Pending(p)' \/ Settled(p)')
      <4>1. mark[p] = "gray" /\ p \notin Userdata /\ (Pending(p) \/ Settled(p))
        BY <1>7, <2>1, <3>3 DEF Coloured
      <4> QED
        BY <1>1, <2>1, <2>2, <4>1 DEF Pending, Settled, KeepInvariant
    <3> QED
      BY <3>1, <3>2, <3>3 DEF Coloured
  <2>5. OnGrayLists'
    <3>1. \A p \in Obj : NonWhite(p) => NonWhite(p)'
      BY <1>1, <1>7 DEF NonWhite
    <3> QED
      BY <2>1, <2>2, <3>1 DEF OnGrayLists
  <2>6. RootsMarked' /\ Converged' /\ Saved'
    BY <1>1, <2>1, <2>2 DEF RootsMarked, Early, Converged, Saved
  <2> QED
    BY <2>4, <2>5, <2>6
<1> QED
  BY <1>11, <1>12, <1>13, <1>14, <1>15 DEF IInv

\* A change of the entry of one object, with the barrier that marks it gray again where it is due.
WriteOf(o) ==
  /\ \A p \in Obj : p # o => node'[p] = node[p]
  /\ \/ mark' = mark /\ grayagain' = grayagain /\ (mark[o] = "black" => ~IsWhite(node'[o].k) /\ ~IsWhite(node'[o].v))
     \/ mark[o] = "black" /\ mark' = [mark EXCEPT ![o] = "gray"] /\ grayagain' = grayagain \cup {o} /\ o \in Tables
  /\ gray' = gray /\ weak' = weak /\ allweak' = allweak /\ ephemeron' = ephemeron /\ UNCHANGED atomicvars
LEMMA MarkedWrite ==
  ASSUME Types, Marked, gcstate' = gcstate, gcstate \notin Inside, NEW o \in Obj, gcstate \in Marking => WriteOf(o)
  PROVE  Marked'
<1> SUFFICES ASSUME gcstate \in Marking
             PROVE  Coloured' /\ OnGrayLists' /\ RootsMarked' /\ Converged' /\ Saved'
  BY DEF Marked
<1>1. Coloured /\ OnGrayLists /\ RootsMarked /\ gcstate \in {"propagate", "atomic"} /\ orig = {} /\ mark \in [Obj -> Colours]
  BY DEF Marked, Marking, Inside, Types, TypeOK, Colours
<1>2. /\ \A p \in Obj : p # o => node'[p] = node[p]
      /\ \/ mark' = mark /\ grayagain' = grayagain /\ (mark[o] = "black" => ~IsWhite(node'[o].k) /\ ~IsWhite(node'[o].v))
         \/ mark[o] = "black" /\ mark' = [mark EXCEPT ![o] = "gray"] /\ grayagain' = grayagain \cup {o} /\ o \in Tables
      /\ gray' = gray /\ weak' = weak /\ allweak' = allweak /\ ephemeron' = ephemeron
      /\ next' = next /\ changed' = changed /\ orig' = orig
  BY DEF WriteOf, atomicvars
<1>3. /\ grayagain \subseteq grayagain' /\ \A p \in grayagain' : p \in grayagain \/ (p = o /\ mark'[o] = "gray")
      /\ \A p \in Obj : mark'[p] = mark[p] \/ (p = o /\ mark[o] = "black" /\ mark'[o] = "gray" /\ o \in grayagain' /\ o \in Tables)
      /\ mark'[o] = "black" => ~IsWhite(node'[o].k) /\ ~IsWhite(node'[o].v) /\ mark[o] = "black"
  BY <1>1, <1>2
<1>4. \A x : x \in Obj => (mark'[x] \in White <=> mark[x] \in White)
  BY <1>3 DEF White
<1>5. Coloured'
  <2>1. \A p \in Obj : mark'[p] # "other"
    BY <1>1, <1>3 DEF Coloured
  <2>2. ASSUME NEW p \in Obj, mark'[p] = "black"
        PROVE  p \in Strong /\ ~(node'[p].k \in Obj /\ mark'[node'[p].k] \in White) /\ ~(node'[p].v \in Obj /\ mark'[node'[p].v] \in White)
    <3>1. mark[p] = "black" /\ p \in Strong /\ ~IsWhite(node'[p].k) /\ ~IsWhite(node'[p].v)
      BY <1>1, <1>2, <1>3, <2>2 DEF Coloured
    <3> QED
      BY <1>4, <3>1 DEF IsWhite
  <2>3. ASSUME NEW p \in Obj, mark'[p] = "gray" PROVE p \notin Userdata /\ (Pending(p)' \/ Settled(p)')
    <3>1. CASE mark[p] = "gray"
      <4>1. p \notin Userdata /\ (Pending(p) \/ (p \in AllWeak /\ p \in allweak))
        BY <1>1, <3>1 DEF Coloured, Settled, KeepInvariant
      <4> QED
        BY <1>1, <1>2, <1>3, <4>1 DEF Pending, Settled
    <3>2. CASE mark[p] # "gray"
      <4>1. p \in grayagain' /\ p \in Tables
        BY <1>3, <2>3, <3>2
      <4> QED
        BY <1>1, <4>1, GcAssumption DEF Pending, Early
    <3> QED
      BY <3>1, <3>2
  <2> QED
    BY <2>1, <2>2, <2>3 DEF Coloured, IsWhite
<1>6. OnGrayLists'
  <2>1. \A p \in Obj : NonWhite(p) => NonWhite(p)'
    BY <1>3 DEF NonWhite
  <2>2. \A p \in grayagain' \cap Obj : NonWhite(p)'
    BY <1>1, <1>3, <2>1 DEF OnGrayLists, NonWhite
  <2> QED
    BY <1>1, <1>2, <2>1, <2>2 DEF OnGrayLists
<1>7. RootsMarked' /\ Converged' /\ Saved'
  BY <1>1, <1>2, <1>3 DEF RootsMarked, Early, Converged, Saved
<1> QED
  BY <1>5, <1>6, <1>7

\* Such a change, with what is on the stack, keeps the rest of the invariant.
LEMMA WriteStep ==
  ASSUME IInv, NEW o \in stack, gcstate \notin Inside, gcstate' = gcstate, sweepgc' = sweepgc,
         stack' = stack, lists' = lists, UNCHANGED collection, UNCHANGED atomicvars,
         weak' = weak, allweak' = allweak, ephemeron' = ephemeron,
         gray' \subseteq Obj \cup {Main}, grayagain' \subseteq Obj \cup {Main},
         NEW e \in Entries, node' = [node EXCEPT ![o] = e], Kept(e.k), Kept(e.v), o \notin Tables => e.k = Nil,
         mark' \in [Obj -> Colours],
         \A x \in Obj : /\ mark'[x] = "free" <=> mark[x] = "free"
                        /\ mark'[x] = "other" <=> mark[x] = "other"
                        /\ mark[x] = "white" /\ gcstate \notin Marking => mark'[x] = "white",
         Marked'
  PROVE  IInv'
<1>1. Types /\ Listed /\ Closed /\ SweptSoFar /\ TypeOK
  BY DEF IInv, Types
<1>2. o \in Obj /\ mark[o] \notin {"free", "other"} /\ node \in [Obj -> Entries]
  BY <1>1 DEF TypeOK, Closed, Kept, Entries
<1>3. node' \in [Obj -> Entries] /\ node'[o] = e /\ \A x \in Obj : x # o => node'[x] = node[x]
  BY <1>2
<1>4. Allocated' = Allocated
  BY DEF Allocated
<1>5. Closed'
  <2>1. \A x \in Obj : mark'[x] \notin {"free", "other"} <=> mark[x] \notin {"free", "other"}
    OBVIOUS
  <2>2. \A x \in Obj : node'[x] = node[x] \/ (Kept(node'[x].k) /\ Kept(node'[x].v))
    BY <1>3
  <2> QED
    BY <1>1, <2>1, <2>2, ClosedAgain DEF Closed
<1>6. Types'
  <2>1. gcstate' \in {"enter", "pause", "propagate", "atomic", "swpallgc", "swpfinobj", "swptobefnz", "swpend", "callfin"}
        /\ gcstate \notin Atomically
    BY <1>1 DEF TypeOK, Inside
  <2>2. /\ \A x \in Obj : mark'[x] = "free" => node'[x] = Empty
        /\ \A x \in Obj \ Tables : node'[x].k = Nil
        /\ lists' \in [allgc : Seq(Obj), finobj : Seq(Finalized), tobefnz : Seq(Finalized)]
    BY <1>1, <1>2, <1>3 DEF Types
  <2> QED
    BY <1>1, <1>3, <1>4, <2>1, <2>2, TypesAgain DEF TypeOK, collection
<1>7. Listed'
  BY <1>1, <1>4 DEF Listed, Once
<1>8. SweptSoFar'
  <2>1. CASE gcstate \in Marking
    BY <2>1 DEF SweptSoFar, Marking, Atomically
  <2>2. CASE gcstate \notin Marking
    BY <1>1, <2>2, SweptAgain
  <2> QED
    BY <2>1, <2>2
<1> QED
  BY <1>5, <1>6, <1>7, <1>8 DEF IInv

\* t[k] = nil keeps the key, which was not to be freed.
LEMMA EraseStep ==
  ASSUME IInv, NEW o \in Obj, Erase(o)
  PROVE  IInv'
<1>1. /\ gcstate \notin Inside /\ o \in stack /\ node[o].v # Nil /\ node' = [node EXCEPT ![o].v = Nil]
      /\ stack' = stack /\ mark' = mark /\ gcstate' = gcstate /\ lists' = lists /\ sweepgc' = sweepgc
      /\ gray' = gray /\ grayagain' = grayagain /\ weak' = weak /\ allweak' = allweak /\ ephemeron' = ephemeron
      /\ UNCHANGED atomicvars /\ UNCHANGED collection
  BY DEF Erase, CanRun, graylists
<1>2. Types /\ Closed /\ Marked /\ TypeOK /\ node \in [Obj -> Entries] /\ mark \in [Obj -> Colours]
  BY DEF IInv, Types, TypeOK, Entries, Colours
<1> DEFINE e == [node[o] EXCEPT !.v = Nil]
<1>3. e \in Entries /\ e.k = node[o].k /\ e.v = Nil /\ node' = [node EXCEPT ![o] = e]
  BY <1>1, <1>2 DEF Entries
<1> HIDE DEF e
<1>4. Kept(e.k) /\ Kept(e.v)
  BY <1>1, <1>2, <1>3, GcAssumption DEF Closed, Kept
<1>5. o \notin Tables => e.k = Nil
  BY <1>2, <1>3 DEF Types
<1>6. gcstate \in Marking => WriteOf(o)
  <2> SUFFICES ASSUME gcstate \in Marking PROVE WriteOf(o)
    OBVIOUS
  <2>1. mark[o] = "black" => ~IsWhite(node[o].k)
    BY <1>2 DEF Marked, Coloured
  <2>2. node'[o] = e /\ \A p \in Obj : p # o => node'[p] = node[p]
    BY <1>2, <1>3
  <2>3. ~IsWhite(Nil)
    BY GcAssumption DEF IsWhite
  <2> QED
    BY <1>1, <1>3, <2>1, <2>2, <2>3 DEF WriteOf
<1>7. Marked'
  BY <1>1, <1>2, <1>6, MarkedWrite
<1> QED
  BY <1>1, <1>2, <1>3, <1>4, <1>5, <1>7, WriteStep DEF TypeOK

\* t[k] = v, with the barrier.
LEMMA SetEntryStep ==
  ASSUME IInv, NEW o \in Obj, NEW v \in Obj, NEW k \in Obj \cup {Nil}, SetEntry(o, k, v)
  PROVE  IInv'
<1> DEFINE newkey == k # node[o].k
           back == BarrierBack(o, v) \/ (newkey /\ BarrierBack(o, k))
           e == [k |-> k, v |-> v]
<1>1. /\ gcstate \notin Inside /\ o \in stack /\ o \in Tables /\ v \in stack /\ k \in stack \cup {Nil}
      /\ node' = [node EXCEPT ![o] = e]
      /\ mark' = IF back THEN [mark EXCEPT ![o] = "gray"] ELSE mark
      /\ grayagain' = IF back THEN grayagain \cup {o} ELSE grayagain
      /\ stack' = stack /\ gcstate' = gcstate /\ lists' = lists /\ sweepgc' = sweepgc
      /\ gray' = gray /\ weak' = weak /\ allweak' = allweak /\ ephemeron' = ephemeron
      /\ UNCHANGED atomicvars /\ UNCHANGED collection
  BY DEF SetEntry, CanRun
<1>2. Types /\ Closed /\ Marked /\ TypeOK /\ node \in [Obj -> Entries] /\ mark \in [Obj -> Colours]
  BY DEF IInv, Types, TypeOK, Entries, Colours
<1>3. e \in Entries /\ e.k = k /\ e.v = v
  BY DEF Entries
<1>4. Kept(e.k) /\ Kept(e.v)
  BY <1>1, <1>2, <1>3, GcAssumption DEF Closed, Kept
<1> HIDE DEF e
<1>5. back => mark[o] = "black"
  BY DEF BarrierBack
<1>6. ~back /\ mark[o] = "black" => ~IsWhite(v) /\ (IsWhite(k) => k = node[o].k)
  BY DEF BarrierBack
<1> HIDE DEF back, newkey
<1>7. mark' \in [Obj -> Colours] /\ \A x \in Obj : mark'[x] = IF back /\ x = o THEN "gray" ELSE mark[x]
  <2>1. "gray" \in Colours
    BY DEF Colours
  <2> QED
    BY <1>1, <1>2, <2>1
<1>8. gcstate \in Marking => WriteOf(o)
  <2> SUFFICES ASSUME gcstate \in Marking PROVE WriteOf(o)
    OBVIOUS
  <2>1. mark[o] = "black" => ~IsWhite(node[o].k)
    BY <1>2 DEF Marked, Coloured
  <2>2. node'[o] = e /\ \A p \in Obj : p # o => node'[p] = node[p]
    BY <1>1, <1>2
  <2> QED
    BY <1>1, <1>3, <1>5, <1>6, <2>1, <2>2 DEF WriteOf
<1>9. Marked'
  BY <1>1, <1>2, <1>8, MarkedWrite
<1>10. grayagain' \subseteq Obj \cup {Main} /\ gray' \subseteq Obj \cup {Main}
  BY <1>1, <1>2 DEF TypeOK
<1>11. \A x \in Obj : /\ mark'[x] = "free" <=> mark[x] = "free"
                      /\ mark'[x] = "other" <=> mark[x] = "other"
                      /\ mark[x] = "white" /\ gcstate \notin Marking => mark'[x] = "white"
  BY <1>5, <1>7
<1> QED
  BY <1>1, <1>3, <1>4, <1>7, <1>9, <1>10, <1>11, WriteStep

\* An upvalue or a user value, with the barrier: forward while the collector marks.
LEMMA SetFieldStep ==
  ASSUME IInv, NEW o \in Obj, NEW v \in Obj, SetField(o, v)
  PROVE  IInv'
<1> DEFINE barrier == Barrier(o, v)
           e == [node[o] EXCEPT !.v = v]
<1>1. /\ gcstate \notin Inside /\ o \in stack /\ o \in Closure \cup Userdata /\ v \in stack
      /\ node' = [node EXCEPT ![o].v = v]
      /\ stack' = stack /\ gcstate' = gcstate /\ lists' = lists /\ sweepgc' = sweepgc
      /\ grayagain' = grayagain /\ weak' = weak /\ allweak' = allweak /\ ephemeron' = ephemeron
      /\ UNCHANGED atomicvars /\ UNCHANGED collection
  BY DEF SetField, CanRun
<1>2. IF barrier /\ KeepInvariant THEN Marks({v}, gray)
      ELSE mark' = (IF barrier THEN [mark EXCEPT ![o] = "white"] ELSE mark) /\ gray' = gray
  BY DEF SetField
<1>3. Types /\ Closed /\ Marked /\ TypeOK /\ node \in [Obj -> Entries] /\ mark \in [Obj -> Colours]
  BY DEF IInv, Types, TypeOK, Entries, Colours
<1>4. e \in Entries /\ e.k = node[o].k /\ e.v = v /\ node' = [node EXCEPT ![o] = e]
  BY <1>1, <1>3 DEF Entries
<1>5. o \notin Tables /\ e.k = Nil
  BY <1>1, <1>3, <1>4, GcAssumption DEF Types
<1> HIDE DEF e
<1>6. Kept(e.k) /\ Kept(e.v)
  BY <1>1, <1>3, <1>4, <1>5, GcAssumption DEF Closed, Kept
<1>7. node'[o] = e /\ \A p \in Obj : p # o => node'[p] = node[p]
  BY <1>3, <1>4
<1>8. barrier <=> mark[o] = "black" /\ IsWhite(v)
  BY DEF Barrier
<1>9. Nil \notin Obj
  BY GcAssumption
<1> HIDE DEF barrier
<1>10. CASE barrier /\ KeepInvariant
  <2>1. PaintOf({v}, Nil, "gray", gray)
    BY <1>2, <1>3, <1>10, MarksIs
  <2>2. /\ mark' \in [Obj -> Colours]
        /\ \A p \in Obj : /\ mark'[p] = "free" <=> mark[p] = "free"
                          /\ mark'[p] \in White => mark'[p] = mark[p]
                          /\ NonWhite(p) => mark'[p] \in {"gray", "black"}
        /\ \A x : IsWhite(x)' => IsWhite(x)
        /\ ~IsWhite(v)'
        /\ \A p \in Obj : p # Nil /\ mark'[p] # mark[p] =>
             \/ p \in Userdata /\ mark'[p] = "black" /\ Dimmed(node[p].v)
             \/ p \notin Userdata /\ mark'[p] = "gray" /\ p \in gray'
        /\ gray \subseteq gray' /\ \A p \in gray' : p \in gray \/ (p \in Obj /\ mark'[p] = "gray")
    BY <2>1 DEF PaintOf, Brighter, Dimmed
  <2>3. gcstate \in {"propagate", "atomic"} /\ gcstate \in Marking
    BY <1>10 DEF KeepInvariant, Marking
  <2>4. Coloured /\ OnGrayLists /\ RootsMarked /\ orig = {}
    BY <1>3, <2>3 DEF Marked, Types
  <2>5. mark[o] = "black" /\ mark'[o] = "black"
    <3>1. mark[o] = "black"
      BY <1>8, <1>10
    <3>2. mark'[o] \in {"gray", "black"}
      BY <2>2, <3>1 DEF NonWhite
    <3>3. mark'[o] = "gray" => o \notin Userdata /\ o \in gray'
      BY <1>9, <2>2, <3>1
    <3>4. mark'[o] = mark[o] \/ mark'[o] = "gray"
      BY <3>1, <3>2
    <3>5. ASSUME mark'[o] = "gray" PROVE FALSE
      <4>1. MarkOf(Reached({v}), {v})
        BY ReachedIs
      <4>2. o \notin Reached({v})
        BY <3>1, <4>1 DEF MarkOf, IsWhite, White
      <4>3. mark' = [p \in Obj |-> IF p \in Reached({v}) THEN (IF p \in Userdata THEN "black" ELSE "gray") ELSE mark[p]]
        BY <1>2, <1>10 DEF Marks
      <4> QED
        BY <3>1, <3>5, <4>2, <4>3
    <3> QED
      BY <3>1, <3>4, <3>5
  <2>6. /\ next' = next /\ changed' = changed /\ orig' = orig
    BY <1>1 DEF atomicvars
  <2>7. Coloured'
    <3>1. \A p \in Obj : mark'[p] # "other"
      BY <2>2, <2>4 DEF Coloured, White
    <3>2. ASSUME NEW p \in Obj, mark'[p] = "black"
          PROVE  p \in Strong /\ Dimmed(node'[p].k) /\ Dimmed(node'[p].v)
      <4>1. CASE p = o
        BY <1>1, <1>4, <1>5, <1>7, <1>9, <2>2, <4>1 DEF Strong, Dimmed, IsWhite
      <4>2. CASE p # o /\ mark[p] = "black"
        <5>1. p \in Strong /\ ~IsWhite(node[p].k) /\ ~IsWhite(node[p].v) /\ node'[p] = node[p]
          BY <1>7, <2>4, <4>2 DEF Coloured
        <5> QED
          BY <2>2, <5>1 DEF Dimmed, IsWhite
      <4>3. CASE p # o /\ mark[p] # "black"
        <5>1. p \in Userdata /\ Dimmed(node[p].v) /\ node'[p] = node[p]
          BY <1>7, <1>9, <2>2, <3>2, <4>3
        <5>2. node[p].k = Nil
          BY <1>3, <5>1, GcAssumption DEF Types
        <5> QED
          BY <1>9, <5>1, <5>2 DEF Dimmed, Strong
      <4> QED
        BY <4>1, <4>2, <4>3
    <3>3. ASSUME NEW p \in Obj, mark'[p] = "gray"
          PROVE  p \notin Userdata /\ (Pending(p)' \/ Settled(p)')
      <4>1. CASE mark[p] # "gray"
        BY <1>9, <2>2, <3>3, <4>1 DEF Pending
      <4>2. CASE mark[p] = "gray"
        <5>1. p \notin Userdata /\ (Pending(p) \/ (p \in AllWeak /\ p \in allweak))
          BY <2>3, <2>4, <4>2 DEF Coloured, Settled, KeepInvariant
        <5> QED
          BY <1>1, <2>2, <2>3, <5>1 DEF Pending, Settled
      <4> QED
        BY <4>1, <4>2
    <3> QED
      BY <3>1, <3>2, <3>3 DEF Coloured, Dimmed, IsWhite
  <2>8. OnGrayLists'
    <3>1. \A p \in Obj : NonWhite(p) => NonWhite(p)'
      BY <2>2 DEF NonWhite
    <3>2. \A p \in gray' \cap Obj : NonWhite(p)'
      BY <2>2, <2>4, <3>1 DEF OnGrayLists, NonWhite
    <3> QED
      BY <1>1, <2>4, <2>6, <3>1, <3>2 DEF OnGrayLists
  <2>9. RootsMarked' /\ Converged' /\ Saved'
    BY <1>1, <2>2, <2>3, <2>4 DEF RootsMarked, Early, Converged, Saved
  <2>10. Marked'
    BY <2>7, <2>8, <2>9 DEF Marked
  <2>11. \A x \in Obj : /\ mark'[x] = "free" <=> mark[x] = "free"
                        /\ mark'[x] = "other" <=> mark[x] = "other"
                        /\ mark[x] = "white" /\ gcstate \notin Marking => mark'[x] = "white"
    BY <2>2, <2>3, <2>4 DEF Coloured, White
  <2>12. gray' \subseteq Obj \cup {Main} /\ grayagain' \subseteq Obj \cup {Main}
    BY <1>1, <1>3, <2>2 DEF TypeOK
  <2> QED
    BY <1>1, <1>4, <1>5, <1>6, <2>2, <2>10, <2>11, <2>12, WriteStep
<1>11. CASE ~(barrier /\ KeepInvariant)
  <2>1. mark' = (IF barrier THEN [mark EXCEPT ![o] = "white"] ELSE mark) /\ gray' = gray
    BY <1>2, <1>11
  <2>2. mark' \in [Obj -> Colours] /\ \A x \in Obj : mark'[x] = IF barrier /\ x = o THEN "white" ELSE mark[x]
    <3>1. "white" \in Colours
      BY DEF Colours, White
    <3> QED
      BY <1>3, <2>1, <3>1
  <2>3. gcstate \in Marking => WriteOf(o)
    <3> SUFFICES ASSUME gcstate \in Marking PROVE WriteOf(o)
      OBVIOUS
    <3>1. KeepInvariant
      BY <1>1 DEF Marking, Inside, KeepInvariant
    <3>2. mark[o] = "black" => ~IsWhite(node'[o].k) /\ ~IsWhite(node'[o].v)
      BY <1>4, <1>5, <1>7, <1>8, <1>9, <1>11, <3>1 DEF IsWhite
    <3> QED
      BY <1>1, <1>7, <1>11, <2>1, <3>1, <3>2 DEF WriteOf
  <2>4. Marked'
    BY <1>1, <1>3, <2>3, MarkedWrite
  <2>5. \A x \in Obj : /\ mark'[x] = "free" <=> mark[x] = "free"
                       /\ mark'[x] = "other" <=> mark[x] = "other"
                       /\ mark[x] = "white" /\ gcstate \notin Marking => mark'[x] = "white"
    BY <1>8, <2>2
  <2>6. gray' \subseteq Obj \cup {Main} /\ grayagain' \subseteq Obj \cup {Main}
    BY <1>1, <1>3, <2>1 DEF TypeOK
  <2> QED
    BY <1>1, <1>4, <1>5, <1>6, <2>2, <2>4, <2>5, <2>6, WriteStep
<1> QED
  BY <1>10, <1>11

\* luaC_fullgc gives up the marks of a cycle that is marking.
LEMMA FullGCStep ==
  ASSUME IInv, NEW isemergency \in BOOLEAN, FullGC(isemergency)
  PROVE  IInv'
<1>1. /\ gcstate \notin Inside /\ full' = "finish" /\ emergency' = isemergency
      /\ stack' = stack /\ node' = node /\ mark' = mark /\ lists' = lists /\ UNCHANGED atomicvars
  BY DEF FullGC, CanRun, heap
<1>2. Types /\ Listed /\ Closed /\ SweptSoFar /\ Marked /\ TypeOK
  BY DEF IInv, Types
<1>3. Listed' /\ Closed' /\ Allocated' = Allocated
  BY <1>1, <1>2, HeapSame
<1>4. /\ lists' \in [allgc : Seq(Obj), finobj : Seq(Finalized), tobefnz : Seq(Finalized)]
      /\ mark' \in [Obj -> Colours] /\ node' \in [Obj -> Entries]
      /\ \A y \in Obj : mark'[y] = "free" => node'[y] = Empty
      /\ \A y \in Obj \ Tables : node'[y].k = Nil
  BY <1>1, <1>2 DEF Types, TypeOK, Colours, Entries
<1>5. next = {} /\ orig = {} /\ next' = next /\ changed' = changed /\ orig' = orig /\ gcstate \notin Atomically
  BY <1>1, <1>2 DEF Types, Inside, Atomically, atomicvars
<1>6. CASE KeepInvariant
  <2>1. /\ gcstate' = "enter" /\ sweepgc' = "head"
        /\ gray' = {} /\ grayagain' = {} /\ weak' = {} /\ allweak' = {} /\ ephemeron' = {}
    BY <1>6 DEF FullGC, ForgetGray
  <2>2. TypeOK'
    BY <1>1, <1>2, <1>3, <1>5, <2>1 DEF TypeOK, Inside
  <2>3. Types'
    BY <1>4, <1>5, <2>1, <2>2 DEF Types, Empty
  <2>4. SweptSoFar' /\ Marked'
    BY <2>1 DEF SweptSoFar, Marked, Marking, Atomically
  <2> QED
    BY <1>3, <2>3, <2>4 DEF IInv
<1>7. CASE ~KeepInvariant
  <2>1. gcstate' = gcstate /\ sweepgc' = sweepgc /\ UNCHANGED graylists
    BY <1>7 DEF FullGC
  <2>2. gcstate' \in {"enter", "pause", "propagate", "atomic", "swpallgc", "swpfinobj", "swptobefnz", "swpend", "callfin"}
    BY <1>1, <1>2, <2>1 DEF TypeOK, Inside
  <2>3. Types'
    BY <1>1, <1>2, <1>3, <1>4, <1>5, <2>1, <2>2, TypesAgain DEF TypeOK, graylists
  <2>4. SweptSoFar'
    BY <1>1, <1>2, <2>1, SweptAgain
  <2>5. Marked'
    BY <1>1, <1>2, <2>1, MarkedSame
  <2> QED
    BY <1>3, <2>3, <2>4, <2>5 DEF IInv
<1> QED
  BY <1>6, <1>7

\* Taking an object from allgc, swept that far or not, and putting it in front of finobj.
LEMMA UnlistedStep ==
  ASSUME IInv, NEW o \in stack, o \in Finalized, ~ToFinalize(o), gcstate \notin Inside,
         NEW freed, NEW white, NEW all \in Seq(Obj), Once(all), Range(all) = Range(lists.allgc) \ freed,
         freed \subseteq Range(lists.allgc), \A x \in freed : mark[x] = "other",
         \A x \in white : mark[x] \notin {"other", "free"},
         gcstate \in Marking => freed = {} /\ white = {}, SweepPhase => o \in white,
         lists' = [lists EXCEPT !.allgc = Those(all, Obj \ {o}), !.finobj = <<o>> \o @],
         Recolour(freed, white), stack' = stack, gcstate' = gcstate,
         UNCHANGED <<graylists, atomicvars, collection>>,
         gcstate # "swpallgc" => sweepgc' = sweepgc,
         gcstate = "swpallgc" => \/ sweepgc' = "head"
                                 \/ sweepgc' = "null" /\ NowWhite(all)
                                 \/ sweepgc' # o /\ NowUpTo(all, sweepgc'),
         sweepgc' \in {"null", "head"} \cup (Allocated \ freed)
  PROVE  IInv'
<1>1. Types /\ Listed /\ Closed /\ SweptSoFar /\ Marked /\ TypeOK
  BY DEF IInv, Types
<1>2. /\ lists \in [allgc : Seq(Obj), finobj : Seq(Finalized), tobefnz : Seq(Finalized)]
      /\ mark \in [Obj -> Colours] /\ node \in [Obj -> Entries] /\ Finalized \subseteq Obj
  BY <1>1, GcAssumption DEF Types, TypeOK, Colours, Entries, Obj
<1> DEFINE new == Those(all, Obj \ {o})
<1>3. /\ lists'.allgc = new /\ lists'.finobj = <<o>> \o lists.finobj /\ lists'.tobefnz = lists.tobefnz
      /\ lists' = [allgc |-> lists'.allgc, finobj |-> lists'.finobj, tobefnz |-> lists.tobefnz]
  BY <1>2
<1>4. Taken(new, all, Obj, Obj \ {o})
  BY ThoseIs
<1> HIDE DEF new
<1>5. ConsOf(lists'.finobj, o, lists.finobj, Finalized)
  BY <1>2, <1>3, ConsIs
<1>6. /\ lists'.finobj \in Seq(Finalized) /\ Range(lists'.finobj) = {o} \cup Range(lists.finobj)
      /\ Once(lists.finobj) /\ o \notin Range(lists.finobj) => Once(lists'.finobj)
      /\ lists'.finobj[1] = o /\ \A i \in 1..Len(lists.finobj) : lists'.finobj[i + 1] = lists.finobj[i]
      /\ \A i \in 1..Len(lists'.finobj) : i = 1 \/ \E k \in 1..Len(lists.finobj) : i = k + 1
  BY <1>5 DEF ConsOf
<1>7. o \in Obj /\ Kept(o) /\ mark[o] \notin {"free", "other"} /\ o \in Allocated
  BY <1>1, <1>2 DEF Closed, Kept, Allocated
<1>8. o \notin Range(lists.finobj) \cup Range(lists.tobefnz) /\ o \in Range(lists.allgc)
  BY <1>1, <1>7 DEF Listed, ToFinalize
<1>9. new \in Seq(Obj) /\ Once(new) /\ \A x : x \in Range(new) <=> \E i \in 1..Len(new) : new[i] = x
  BY <1>4, RangeIs DEF Taken
<1>10. \A x : x \in Range(all) <=> \E i \in 1..Len(all) : all[i] = x
  BY RangeIs
<1>11. Range(new) = Range(all) \ {o}
  <2>1. ASSUME NEW x \in Range(new) PROVE x \in Range(all) /\ x # o
    BY <1>4, <1>9, <1>10, <2>1 DEF Taken
  <2>2. ASSUME NEW x \in Range(all), x # o PROVE x \in Range(new)
    <3>1. PICK k \in 1..Len(all) : all[k] = x
      BY <1>10
    <3>2. all[k] \in Obj \ {o}
      BY <2>2, <3>1
    <3> QED
      BY <1>4, <1>9, <3>1, <3>2 DEF Taken
  <2> QED
    BY <2>1, <2>2
<1>12. lists' \in [allgc : Seq(Obj), finobj : Seq(Finalized), tobefnz : Seq(Finalized)]
  BY <1>2, <1>3, <1>6, <1>9
<1>13. RecolourOf(freed, white)
  <2>1. \A x \in Obj : x \in Range(lists'.finobj) \cup Range(lists'.tobefnz) =>
          x \in stack \cup Range(lists.finobj) \cup Range(lists.tobefnz)
    BY <1>3, <1>6
  <2> QED
    BY <1>1, <2>1, RecolourIs
<1>14. /\ Closed' /\ Allocated' = Allocated \ freed
       /\ mark' \in [Obj -> Colours] /\ node' \in [Obj -> Entries]
       /\ \A x \in Obj : mark'[x] = "free" => node'[x] = Empty
       /\ \A x \in Obj \ Tables : node'[x].k = Nil
       /\ \A x \in Obj : (mark[x] = "white" \/ x \in white) => mark'[x] = "white"
  BY <1>13 DEF RecolourOf
<1>15. Listed'
  <2>1. Range(lists.finobj) \cap freed = {} /\ Range(lists.tobefnz) \cap freed = {} /\ o \notin freed
    BY <1>1, <1>7 DEF Listed
  <2>2. Once(lists'.allgc) /\ Once(lists'.finobj) /\ Once(lists'.tobefnz)
    BY <1>1, <1>3, <1>6, <1>8, <1>9 DEF Listed
  <2>3. /\ Range(lists'.allgc) = (Range(lists.allgc) \ freed) \ {o}
        /\ Range(lists'.finobj) = {o} \cup Range(lists.finobj)
        /\ Range(lists'.tobefnz) = Range(lists.tobefnz)
    BY <1>3, <1>6, <1>11
  <2>4. /\ Range(lists.allgc) \cap Range(lists.finobj) = {}
        /\ Range(lists.tobefnz) \cap (Range(lists.allgc) \cup Range(lists.finobj)) = {}
        /\ Allocated = Range(lists.allgc) \cup Range(lists.finobj) \cup Range(lists.tobefnz)
    BY <1>1 DEF Listed
  <2>5. /\ Range(lists'.allgc) \cap Range(lists'.finobj) = {}
        /\ Range(lists'.tobefnz) \cap (Range(lists'.allgc) \cup Range(lists'.finobj)) = {}
    <3>1. ASSUME NEW A, NEW F, NEW B, A \cap F = {}, B \cap (A \cup F) = {}, o \notin F \cup B
          PROVE  ((A \ freed) \ {o}) \cap ({o} \cup F) = {} /\ B \cap (((A \ freed) \ {o}) \cup ({o} \cup F)) = {}
      BY <3>1
    <3>2. /\ ((Range(lists.allgc) \ freed) \ {o}) \cap ({o} \cup Range(lists.finobj)) = {}
          /\ Range(lists.tobefnz) \cap (((Range(lists.allgc) \ freed) \ {o}) \cup ({o} \cup Range(lists.finobj))) = {}
      BY <1>8, <2>4, <3>1
    <3> QED
      BY <2>3, <3>2
  <2>6. Allocated' = Range(lists'.allgc) \cup Range(lists'.finobj) \cup Range(lists'.tobefnz)
    <3>1. ASSUME NEW A, NEW F, NEW B, o \in A, o \notin freed, F \cap freed = {}, B \cap freed = {}
          PROVE  (A \cup F \cup B) \ freed = ((A \ freed) \ {o}) \cup ({o} \cup F) \cup B
      BY <3>1
    <3>2. o \in Range(lists.allgc)
      BY <1>8
    <3>3. (Range(lists.allgc) \cup Range(lists.finobj) \cup Range(lists.tobefnz)) \ freed =
          ((Range(lists.allgc) \ freed) \ {o}) \cup ({o} \cup Range(lists.finobj)) \cup Range(lists.tobefnz)
      BY <2>1, <3>1, <3>2
    <3> QED
      BY <1>14, <2>3, <2>4, <3>3
  <2> QED
    BY <2>2, <2>5, <2>6 DEF Listed, Once
<1>16. Types'
  <2>1. gcstate' \in {"enter", "pause", "propagate", "atomic", "swpallgc", "swpfinobj", "swptobefnz", "swpend", "callfin"}
        /\ gcstate \notin Atomically
    BY <1>1 DEF TypeOK, Inside
  <2> QED
    BY <1>1, <1>12, <1>14, <2>1, TypesAgain DEF TypeOK, graylists, collection
<1>17. Marked'
  <2>1. gcstate \in Marking => mark' = mark /\ node' = node
    <3> SUFFICES ASSUME gcstate \in Marking PROVE mark' = mark /\ node' = node
      OBVIOUS
    <3>1. mark' = [x \in Obj |-> mark[x]] /\ node' = [x \in Obj |-> node[x]]
      BY DEF Recolour
    <3> QED
      BY <1>2, <3>1
  <2> QED
    BY <1>1, <2>1, MarkedSame
<1> DEFINE swept == SweepPhase \/ gcstate \in {"callfin", "pause"}
<1>18. swept => mark'[o] = "white"
  <2>1. gcstate \in {"callfin", "pause"} => \A x \in Obj : mark[x] \in {"free", "white"}
    BY <1>1, WhiteOutside
  <2> QED
    BY <1>7, <1>14, <2>1
<1>19. NowWhite(all) => NowWhite(lists'.allgc)
  <2> SUFFICES ASSUME NowWhite(all), NEW i \in 1..Len(new) PROVE mark'[new[i]] = "white"
    BY <1>3 DEF NowWhite
  <2>1. PICK k \in 1..Len(all) : new[i] = all[k]
    BY <1>4 DEF Taken
  <2> QED
    BY <2>1 DEF NowWhite
<1>20. \A x : NowUpTo(all, x) /\ x # o => NowUpTo(lists'.allgc, x)
  <2> SUFFICES ASSUME NEW x, NowUpTo(all, x), x # o PROVE NowUpTo(new, x)
    BY <1>3
  <2>1. PICK j \in 1..Len(all) : all[j] = x /\ \A i \in 1..j : mark'[all[i]] = "white"
    BY DEF NowUpTo
  <2>2. all[j] \in Obj \ {o}
    BY <2>1
  <2>3. PICK m \in 1..Len(new) : new[m] = all[j] /\ \A i \in 1..m : \E k \in 1..j : new[i] = all[k]
    BY <1>4, <2>2 DEF Taken
  <2> QED
    BY <2>1, <2>3 DEF NowUpTo
<1>21. AllIn(lists.allgc, "white") => NowWhite(lists'.allgc)
  <2> SUFFICES ASSUME AllIn(lists.allgc, "white"), NEW i \in 1..Len(new) PROVE mark'[new[i]] = "white"
    BY <1>3 DEF NowWhite
  <2>1. new[i] \in Range(lists.allgc) /\ new[i] \in Obj
    BY <1>9, <1>11
  <2>2. \A x : x \in Range(lists.allgc) <=> \E k \in 1..Len(lists.allgc) : lists.allgc[k] = x
    BY <1>2, RangeIs
  <2>3. mark[new[i]] = "white"
    BY <2>1, <2>2 DEF AllIn
  <2> QED
    BY <1>14, <2>1, <2>3
<1>22. swept /\ AllIn(lists.finobj, "white") => NowWhite(lists'.finobj)
  <2> SUFFICES ASSUME swept, AllIn(lists.finobj, "white"), NEW i \in 1..Len(lists'.finobj)
               PROVE  mark'[lists'.finobj[i]] = "white"
    BY DEF NowWhite
  <2>1. CASE i = 1
    BY <1>6, <1>18, <2>1
  <2>2. ASSUME NEW k \in 1..Len(lists.finobj), i = k + 1 PROVE mark'[lists'.finobj[i]] = "white"
    <3>1. lists'.finobj[k + 1] = lists.finobj[k] /\ lists.finobj[k] \in Obj /\ mark[lists.finobj[k]] = "white"
      BY <1>2, <1>6 DEF AllIn
    <3> QED
      BY <1>14, <2>2, <3>1
  <2> QED
    BY <1>6, <2>1, <2>2
<1>23. AllIn(lists.tobefnz, "white") => NowWhite(lists'.tobefnz)
  <2> SUFFICES ASSUME AllIn(lists.tobefnz, "white"), NEW i \in 1..Len(lists.tobefnz)
               PROVE  mark'[lists.tobefnz[i]] = "white"
    BY <1>3 DEF NowWhite
  <2>1. lists.tobefnz[i] \in Obj /\ mark[lists.tobefnz[i]] = "white"
    BY <1>2 DEF AllIn
  <2> QED
    BY <1>14, <2>1
<1>24. gcstate \in {"swpfinobj", "swptobefnz", "swpend", "callfin", "pause"} => swept
  BY DEF SweepPhase
<1> HIDE DEF swept
<1>25. gcstate' = "swpallgc" => \/ sweepgc' = "head"
                                \/ sweepgc' = "null" /\ NowWhite(lists'.allgc)
                                \/ NowUpTo(lists'.allgc, sweepgc')
  BY <1>19, <1>20
<1>26. /\ gcstate' \in {"swpfinobj", "swptobefnz", "swpend", "callfin", "pause"} => NowWhite(lists'.allgc)
       /\ gcstate' \in {"swptobefnz", "swpend", "callfin", "pause"} => NowWhite(lists'.finobj)
       /\ gcstate' \in {"swpend", "callfin", "pause"} => NowWhite(lists'.tobefnz)
  BY <1>1, <1>21, <1>22, <1>23, <1>24 DEF SweptSoFar
<1>27. /\ gcstate' \in {"swpfinobj", "swptobefnz"} => sweepgc' = "head"
       /\ gcstate' = "swpend" => sweepgc' = "null"
  BY <1>1 DEF SweptSoFar
<1>28. SweptSoFar'
  BY <1>25, <1>26, <1>27 DEF SweptSoFar, NowWhite, NowUpTo, AllIn, UpTo
<1> QED
  BY <1>14, <1>15, <1>16, <1>17, <1>28 DEF IInv

\* luaC_checkfinalizer: when sweepgc points into the object, the sweep up to a live object behind it
\* keeps all before sweepgc white.
LEMMA SetFinalizerStep ==
  ASSUME IInv, NEW o \in Obj, SetFinalizer(o)
  PROVE  IInv'
<1> DEFINE list == lists.allgc
           at   == CHOOSE i \in DOMAIN list : list[i] = o
           live == {i \in at + 1 .. Len(list) : mark[list[i]] # "other"}
           n    == IF live = {} THEN Len(list) ELSE (CHOOSE i \in live : \A j \in live : i <= j) - at
           s    == Swept(list, at, n)
           self == IF SweepPhase THEN {o} ELSE {}
<1>1. /\ gcstate \notin Inside /\ o \in stack /\ o \in Finalized /\ ~ToFinalize(o)
      /\ stack' = stack /\ gcstate' = gcstate /\ UNCHANGED <<graylists, atomicvars, collection>>
  BY DEF SetFinalizer, CanRun
<1>2. /\ SweepMoves(o) => /\ lists' = [lists EXCEPT !.allgc = Those(s.list, Obj \ {o}), !.finobj = <<o>> \o @]
                          /\ Recolour(s.freed, s.white \cup self) /\ sweepgc' = s.sweepgc
      /\ ~SweepMoves(o) => /\ lists' = [lists EXCEPT !.allgc = Those(list, Obj \ {o}), !.finobj = <<o>> \o @]
                           /\ Recolour({}, self) /\ sweepgc' = sweepgc
  BY DEF SetFinalizer
<1>3. Types /\ Listed /\ Closed /\ SweptSoFar /\ TypeOK
  BY DEF IInv, Types
<1>4. list \in Seq(Obj) /\ Once(list) /\ mark \in [Obj -> Colours] /\ DOMAIN list = 1..Len(list) /\ Len(list) \in Nat
  BY <1>3 DEF Types, TypeOK, Listed, Colours
<1>5. mark[o] \notin {"free", "other"} /\ o \notin {"head", "null"} /\ o \in Allocated
  BY <1>1, <1>3, GcAssumption DEF Closed, Kept, Allocated
<1>6. \A x : x \in Range(list) <=> \E i \in 1..Len(list) : list[i] = x
  BY <1>4, RangeIs
<1>7. Range(list) \subseteq Allocated /\ \A x \in Allocated : x \in Obj /\ mark[x] # "free"
  BY <1>3 DEF Listed, Allocated
<1>8. \A x \in self : mark[x] \notin {"other", "free"}
  BY <1>5
<1>9. gcstate \in Marking => ~SweepPhase
  BY DEF Marking, Atomically, SweepPhase
<1>10. SweepPhase => o \in self
  OBVIOUS
<1>11. ~SweepPhase => self = {}
  OBVIOUS
<1>12. sweepgc \in {"null", "head"} \cup Allocated
  BY <1>3 DEF TypeOK
<1>13. CASE ~SweepMoves(o)
  <2>1. gcstate = "swpallgc" => sweepgc # o
    BY <1>13 DEF SweepMoves, SweepPhase
  <2>2. \A x \in Obj : mark[x] = "white" => mark'[x] = "white"
    BY <1>2, <1>13 DEF Recolour
  <2>3. AllIn(list, "white") => NowWhite(list)
    BY <1>4, <2>2 DEF AllIn, NowWhite
  <2>4. UpTo(list, sweepgc) => NowUpTo(list, sweepgc)
    <3> SUFFICES ASSUME UpTo(list, sweepgc) PROVE NowUpTo(list, sweepgc)
      OBVIOUS
    <3>1. PICK j \in 1..Len(list) : list[j] = sweepgc /\ \A i \in 1..j : mark[list[i]] = "white"
      BY DEF UpTo
    <3>2. \A i \in 1..j : list[i] \in Obj
      BY <1>4
    <3> QED
      BY <2>2, <3>1, <3>2 DEF NowUpTo
  <2>5. gcstate = "swpallgc" => \/ sweepgc' = "head"
                                \/ sweepgc' = "null" /\ NowWhite(list)
                                \/ sweepgc' # o /\ NowUpTo(list, sweepgc')
    BY <1>2, <1>3, <1>13, <2>1, <2>3, <2>4 DEF SweptSoFar
  <2>6. Range(list) = Range(list) \ {} /\ {} \subseteq Range(list) /\ Allocated \ {} = Allocated
    OBVIOUS
  <2>7. /\ lists' = [lists EXCEPT !.allgc = Those(list, Obj \ {o}), !.finobj = <<o>> \o @]
        /\ Recolour({}, self) /\ sweepgc' = sweepgc
    BY <1>2, <1>13
  <2>8. gcstate \in Marking => {} = {} /\ self = {}
    BY <1>9, <1>11
  <2>9. \A x \in {} : mark[x] = "other"
    OBVIOUS
  <2>10. sweepgc' \in {"null", "head"} \cup (Allocated \ {})
    BY <1>12, <2>7
  <2> HIDE DEF self, at, live, n, s
  <2> QED
    BY <1>1, <1>4, <1>8, <1>10, <2>5, <2>6, <2>7, <2>8, <2>9, <2>10, UnlistedStep
<1>14. CASE SweepMoves(o)
  <2>1. SweepPhase /\ sweepgc = o
    BY <1>14 DEF SweepMoves
  <2>2. gcstate = "swpallgc"
    BY <1>3, <1>5, <2>1 DEF SweepPhase, SweptSoFar
  <2>3. UpTo(list, o)
    BY <1>3, <1>5, <2>1, <2>2 DEF SweptSoFar
  <2>4. PICK j \in 1..Len(list) : list[j] = o /\ \A i \in 1..j : mark[list[i]] = "white"
    BY <2>3 DEF UpTo
  <2>5. at \in 1..Len(list) /\ list[at] = o
    BY <1>4, <2>4
  <2>6. at = j
    <3> HIDE DEF at
    <3> QED
      BY <1>4, <2>4, <2>5 DEF Once
  <2> HIDE DEF at
  <2>7. live = {} \/ \E m \in live : n = m - at /\ m \in at + 1..Len(list) /\ mark[list[m]] # "other"
    <3> SUFFICES ASSUME live # {} PROVE \E m \in live : n = m - at /\ m \in at + 1..Len(list) /\ mark[list[m]] # "other"
      OBVIOUS
    <3>1. \A m \in live : m \in at + 1..Len(list) /\ mark[list[m]] # "other"
      OBVIOUS
    <3>2. live \in SUBSET Nat
      BY <1>4, <2>5
    <3> HIDE DEF live
    <3>3. \E i \in live : \A k \in live : i <= k
      BY <3>2, LeastOf
    <3> QED
      BY <3>1, <3>3
  <2>8. n \in Nat
    <3>1. CASE live = {}
      BY <1>4, <3>1
    <3>2. ASSUME NEW m, n = m - at, m \in at + 1..Len(list) PROVE n \in Nat
      BY <1>4, <2>5, <3>2
    <3> HIDE DEF n, live
    <3> QED
      BY <2>7, <3>1, <3>2
  <2>9. live = {} => n = Len(list)
    OBVIOUS
  <2> HIDE DEF n, live
  <2>10. SweepOf(s, list, at, n, Obj)
    BY <1>4, <2>5, <2>8, SweptIs
  <2> HIDE DEF s
  <2>11. /\ s.list \in Seq(Obj) /\ Once(s.list)
         /\ Range(s.list) = Range(list) \ s.freed
         /\ s.freed \subseteq Range(list) /\ s.white \subseteq Range(list)
         /\ \A x \in s.freed : mark[x] = "other"
         /\ \A x \in s.white : mark[x] # "other"
         /\ \A k \in 1..at : list[k] \notin s.freed \cup s.white
         /\ \A k \in (at + 1)..Len(list) : k <= at + n => list[k] \in s.freed \cup s.white
         /\ s.sweepgc = "null" <=> at + n >= Len(list)
    BY <2>10 DEF SweepOf
  <2>12. \/ s.sweepgc = "null"
         \/ s.sweepgc = "head" /\ at = 0
         \/ \E i \in 1..Len(s.list) : s.list[i] = s.sweepgc
              /\ \A h \in 1..i : s.list[h] \in s.white \/ \E k \in 1..at : s.list[h] = list[k]
    BY <2>10 DEF SweepOf
  <2>13. s.sweepgc # "null" /\ s.white # {} => s.sweepgc \in s.white
    BY <2>10 DEF SweepOf
  <2> DEFINE white == s.white \cup self
  <2>14. \A x \in white : mark[x] \notin {"other", "free"}
    BY <1>7, <1>8, <2>11
  <2>15. \A x \in Obj : (mark[x] = "white" \/ x \in s.white) /\ x \notin s.freed => mark'[x] = "white"
    BY <1>2, <1>14 DEF Recolour
  <2>16. \A k \in 1..at : mark[list[k]] = "white"
    BY <2>4, <2>6
  <2>17. s.sweepgc # "null" => s.sweepgc \in s.white
    <3> SUFFICES ASSUME s.sweepgc # "null" PROVE s.sweepgc \in s.white
      OBVIOUS
    <3>1. at + n < Len(list)
      BY <1>4, <2>5, <2>8, <2>11
    <3>2. live # {}
      BY <1>4, <2>5, <2>9, <3>1
    <3>3. PICK m \in live : n = m - at /\ m \in at + 1..Len(list) /\ mark[list[m]] # "other"
      BY <2>7, <3>2
    <3>4. m <= at + n
      BY <1>4, <2>5, <3>3
    <3>5. list[m] \in s.white
      BY <2>11, <3>3, <3>4
    <3> QED
      BY <2>13, <3>5
  <2>18. s.sweepgc # "null" => s.sweepgc # o /\ NowUpTo(s.list, s.sweepgc)
    <3> SUFFICES ASSUME s.sweepgc # "null" PROVE s.sweepgc # o /\ NowUpTo(s.list, s.sweepgc)
      OBVIOUS
    <3>1. s.sweepgc \in s.white
      BY <2>17
    <3>2. at \in 1..at /\ at # 0
      BY <2>5
    <3>3. o \notin s.white /\ s.sweepgc # o
      BY <2>5, <2>11, <3>1, <3>2
    <3>4. s.sweepgc # "head" \/ at # 0
      BY <3>2
    <3>5. PICK i \in 1..Len(s.list) : s.list[i] = s.sweepgc
              /\ \A h \in 1..i : s.list[h] \in s.white \/ \E k \in 1..at : s.list[h] = list[k]
      BY <2>12, <3>2
    <3>6. ASSUME NEW h \in 1..i PROVE mark'[s.list[h]] = "white"
      <4>1. h \in 1..Len(s.list)
        BY <2>11, <3>5
      <4>2. s.list[h] \in Obj /\ s.list[h] \in Range(s.list)
        <5>1. \A x : x \in Range(s.list) <=> \E k \in 1..Len(s.list) : s.list[k] = x
          BY <2>11, RangeIs
        <5> QED
          BY <2>11, <4>1, <5>1
      <4>3. s.list[h] \notin s.freed
        BY <2>11, <4>2
      <4> QED
        BY <2>15, <2>16, <3>5, <4>2, <4>3
    <3> QED
      BY <3>3, <3>5, <3>6 DEF NowUpTo
  <2>19. s.sweepgc = "null" => NowWhite(s.list)
    <3> SUFFICES ASSUME s.sweepgc = "null", NEW i \in 1..Len(s.list) PROVE mark'[s.list[i]] = "white"
      BY DEF NowWhite
    <3>1. at + n >= Len(list)
      BY <2>11
    <3>2. \A x : x \in Range(s.list) <=> \E k \in 1..Len(s.list) : s.list[k] = x
      BY <2>11, RangeIs
    <3>3. s.list[i] \in Range(list) /\ s.list[i] \notin s.freed /\ s.list[i] \in Obj
      BY <2>11, <3>2
    <3>4. PICK k \in 1..Len(list) : list[k] = s.list[i]
      BY <1>6, <3>3
    <3>5. CASE k \in 1..at
      BY <2>15, <2>16, <3>3, <3>4, <3>5
    <3>6. CASE k \notin 1..at
      <4>1. k \in (at + 1)..Len(list) /\ k <= at + n
        BY <1>4, <2>5, <2>8, <3>1, <3>4, <3>6
      <4> QED
        BY <2>11, <2>15, <3>3, <3>4, <4>1
    <3> QED
      BY <3>5, <3>6
  <2>20. /\ lists' = [lists EXCEPT !.allgc = Those(s.list, Obj \ {o}), !.finobj = <<o>> \o @]
         /\ Recolour(s.freed, white) /\ sweepgc' = s.sweepgc
    BY <1>2, <1>14
  <2>21. gcstate \in Marking => s.freed = {} /\ white = {}
    BY <1>9, <2>1
  <2>22. SweepPhase => o \in white
    BY <1>10
  <2>23. sweepgc' \in {"null", "head"} \cup (Allocated \ s.freed)
    <3>1. s.sweepgc # "null" => s.sweepgc \in Allocated /\ s.sweepgc \notin s.freed
      BY <1>7, <2>11, <2>17
    <3> QED
      BY <2>20, <3>1
  <2>24. gcstate = "swpallgc" => \/ sweepgc' = "head"
                                 \/ sweepgc' = "null" /\ NowWhite(s.list)
                                 \/ sweepgc' # o /\ NowUpTo(s.list, sweepgc')
    BY <2>18, <2>19, <2>20
  <2> HIDE DEF white, self
  <2> QED
    BY <1>1, <2>2, <2>11, <2>14, <2>20, <2>21, <2>22, <2>23, <2>24, UnlistedStep
<1> QED
  BY <1>13, <1>14

-----------------------------------------------------------------------------
(* The invariant *)

\* The empty heap.
LEMMA InitHolds ==
  ASSUME Init
  PROVE  IInv
<1>1. /\ stack = {} /\ node = [o \in Obj |-> Empty] /\ mark = [o \in Obj |-> "free"] /\ gcstate = "pause"
      /\ gray = {} /\ grayagain = {} /\ weak = {} /\ allweak = {} /\ ephemeron = {}
      /\ next = {} /\ changed = FALSE /\ orig = {}
      /\ lists = [allgc |-> <<>>, finobj |-> <<>>, tobefnz |-> <<>>]
      /\ sweepgc = "null" /\ full = "no" /\ emergency = FALSE
  BY DEF Init
<1>2. /\ lists.allgc = <<>> /\ lists.finobj = <<>> /\ lists.tobefnz = <<>>
      /\ DOMAIN lists = {"allgc", "finobj", "tobefnz"}
      /\ lists \in [allgc : Seq(Obj), finobj : Seq(Finalized), tobefnz : Seq(Finalized)]
  BY <1>1
<1>3. Range(<<>>) = {} /\ Len(<<>>) = 0 /\ \A i : i \notin 1..0
  BY DEF Range
<1>4. Empty \in [k : Obj \cup {Nil, Dead}, v : Obj \cup {Nil}] /\ Empty.k = Nil /\ Empty.v = Nil
  BY DEF Empty
<1>5. \A o \in Obj : mark[o] = "free" /\ node[o] = Empty
  BY <1>1
<1>6. TypeOK
  BY <1>1, <1>2, <1>4 DEF TypeOK, Inside, White
<1>7. Types
  BY <1>1, <1>2, <1>4, <1>5, <1>6 DEF Types
<1>8. Listed
  BY <1>2, <1>3, <1>5 DEF Listed, Once, Allocated
<1>9. Closed
  BY <1>1, <1>2, <1>3, <1>5 DEF Closed
<1>10. SweptSoFar /\ Marked
  BY <1>1, <1>2, <1>3 DEF SweptSoFar, AllIn, Marked, Marking, Atomically
<1> QED
  BY <1>7, <1>8, <1>9, <1>10 DEF IInv

\* Every step of the collector preserves the invariant.
LEMMA CollectStep ==
  ASSUME FewFinalizers, IInv, Collect
  PROVE  IInv'
<1>1. PropagateMark => gray # {}
  BY DEF PropagateMark, PropagateMain
<1>2. CASE Propagate
  <2>1. /\ PropagateMark /\ gcstate = "propagate" /\ gcstate \in Marking \ {"atomic"} /\ SameStage
        /\ UNCHANGED <<stack, atomicvars, lists, sweepgc, collection>>
    BY <1>2 DEF Propagate, Marking, SameStage
  <2> QED
    BY <1>1, <2>1, PropagateStep
<1>3. CASE PropagateAll
  <2>1. /\ PropagateMark /\ gcstate \in Marking \ {"atomic"} /\ SameStage
        /\ UNCHANGED <<stack, atomicvars, lists, sweepgc, collection>>
    BY <1>3 DEF PropagateAll, Marking, SameStage, Atomically
  <2> QED
    BY <1>1, <2>1, PropagateStep
<1>4. CASE Restart \/ Atomic \/ GrayAgain \/ NextRound
  BY <1>4, RestartStep, AtomicStep, GrayAgainStep, NextRoundStep
<1>5. CASE Converge \/ SeparateToBeFnz \/ ClearAndFlip
  BY <1>5, ConvergeStep, SeparateStep, FlipStep
<1>6. CASE EnterSweep \/ SweepAllGc \/ SweepFinObj \/ SweepToBeFnz
  BY <1>6, EnterSweepStep, SweepAllGcStep, SweepFinObjStep, SweepToBeFnzStep
<1>7. CASE SweepEnd \/ CallFin \/ GCTM
  BY <1>7, SweepEndStep, FinalizerStep
<1> QED
  BY <1>2, <1>3, <1>4, <1>5, <1>6, <1>7 DEF Collect

\* Every step of the program preserves the invariant.
LEMMA ProgramStep ==
  ASSUME IInv, Program
  PROVE  IInv'
<1>1. ASSUME NEW o \in Obj, New(o) \/ Pop(o) \/ Erase(o) \/ SetFinalizer(o) PROVE IInv'
  <2>1. CASE New(o) \/ Erase(o) \/ SetFinalizer(o)
    BY <2>1, NewStep, EraseStep, SetFinalizerStep
  <2>2. CASE Pop(o)
    BY <2>2, StackStep
  <2> QED
    BY <1>1, <2>1, <2>2
<1>2. ASSUME NEW o \in Obj, NEW x \in Obj, Load(o, x) \/ SetField(o, x) PROVE IInv'
  BY <1>2, StackStep, SetFieldStep
<1>3. ASSUME NEW o \in Obj, NEW v \in Obj, NEW k \in Obj \cup {Nil}, SetEntry(o, k, v) PROVE IInv'
  BY <1>3, SetEntryStep
<1>4. ASSUME NEW isemergency \in BOOLEAN, FullGC(isemergency) PROVE IInv'
  BY <1>4, FullGCStep
<1> QED
  BY <1>1, <1>2, <1>3, <1>4 DEF Program

\* Every step preserves the invariant.
LEMMA NextStep ==
  ASSUME FewFinalizers, IInv, [Next]_vars
  PROVE  IInv'
<1>1. CASE Next
  BY <1>1, CollectStep, ProgramStep DEF Next
<1>2. CASE UNCHANGED vars
  <2>1. /\ stack' = stack /\ node' = node /\ mark' = mark /\ gcstate' = gcstate
        /\ gray' = gray /\ grayagain' = grayagain /\ weak' = weak /\ allweak' = allweak /\ ephemeron' = ephemeron
        /\ next' = next /\ changed' = changed /\ orig' = orig
        /\ lists' = lists /\ sweepgc' = sweepgc /\ full' = full /\ emergency' = emergency
    BY <1>2 DEF vars, heap, graylists, atomicvars, collection
  <2>2. Types'
    BY <2>1 DEF IInv, Types, TypeOK, Allocated
  <2>3. Listed' /\ Closed'
    BY <2>1 DEF IInv, Listed, Closed, Once, Allocated, Kept
  <2>4. SweptSoFar'
    BY <2>1 DEF IInv, SweptSoFar, AllIn, UpTo
  <2>5. Marked'
    <3>1. Coloured' <=> Coloured
      BY <2>1 DEF Coloured, Pending, Settled, KeepInvariant, IsWhite
    <3>2. (OnGrayLists' <=> OnGrayLists) /\ (RootsMarked' <=> RootsMarked)
      BY <2>1 DEF OnGrayLists, RootsMarked, NonWhite, IsWhite
    <3>3. (Converged' <=> Converged) /\ (Saved' <=> Saved)
      BY <2>1 DEF Converged, Saved, Waits, WhiteKey, IsWhite
    <3> QED
      BY <2>1, <3>1, <3>2, <3>3 DEF IInv, Marked
  <2> QED
    BY <2>2, <2>3, <2>4, <2>5 DEF IInv
<1> QED
  BY <1>1, <1>2

\* The inductive invariant: types, lists, what is kept is closed, how far the sweep is, and the marks.
THEOREM Invariant == FewFinalizers => (Spec => []IInv)
<1> SUFFICES ASSUME FewFinalizers PROVE Spec => []IInv
  OBVIOUS
<1>1. Init => IInv
  BY InitHolds
<1>2. IInv /\ [Next]_vars => IInv'
  BY NextStep
<1> QED
  BY <1>1, <1>2, PTL DEF Spec

\* The state of the collector and the heap is always of its type.
THEOREM TypeCorrect == FewFinalizers => (Spec => []TypeOK)
<1>1. IInv => TypeOK
  BY DEF IInv, Types
<1> QED
  BY <1>1, Invariant, PTL

-----------------------------------------------------------------------------
(* The properties *)

\* What is accessible is in any set that holds the roots and all that its elements lead to.
LEMMA AccessibleIn ==
  ASSUME NEW S, NEW A, S \subseteq A, \A o \in A : Leads(o) \subseteq A
  PROVE  Accessible(S) \subseteq A
<1> DEFINE T == SUBSET A
           Led(M) == M \cup UNION {Leads(o) : o \in M}
           h == [p \in Nat \X T |-> Led(p[2])]
           m == CHOOSE reach : reach = [n \in Nat |-> IF n = 0 THEN S
                                 ELSE reach[n - 1] \cup UNION {Leads(o) : o \in reach[n - 1]}]
<1>1. S \in T /\ \A M \in T : Led(M) \in T
  OBVIOUS
<1>2. h \in [Nat \X T -> T]
  BY <1>1
<1>3. PICK f \in [Nat -> T] : f[0] = S /\ \A n \in Nat : f[n + 1] = h[<<n, f[n]>>]
  <2> HIDE DEF h, T
  <2>1. Iterates(T, S, h) # {}
    BY <1>1, <1>2, RecursionOnNat
  <2> QED
    BY <2>1 DEF Iterates
<1>4. \A n \in Nat : f[n + 1] = Led(f[n])
  <2> TAKE n \in Nat
  <2>1. h[<<n, f[n]>>] = Led(<<n, f[n]>>[2])
    BY <1>3
  <2> QED
    BY <1>3, <2>1
<1>5. f = [n \in Nat |-> IF n = 0 THEN S ELSE f[n - 1] \cup UNION {Leads(o) : o \in f[n - 1]}]
  <2>1. ASSUME NEW n \in Nat, n # 0 PROVE f[n] = Led(f[n - 1])
    <3> HIDE DEF Led
    <3>1. n - 1 \in Nat /\ (n - 1) + 1 = n
      BY <2>1
    <3>2. f[(n - 1) + 1] = Led(f[n - 1])
      BY <1>4, <3>1
    <3> QED
      BY <3>1, <3>2
  <2>2. f = [n \in Nat |-> f[n]]
    BY <1>3
  <2>3. f = [n \in Nat |-> IF n = 0 THEN S ELSE Led(f[n - 1])]
    <3> HIDE DEF Led
    <3>1. \A n \in Nat : f[n] = IF n = 0 THEN S ELSE Led(f[n - 1])
      BY <1>3, <2>1
    <3> QED
      BY <2>2, <3>1
  <2> QED
    BY <2>3
<1>6. m = [n \in Nat |-> IF n = 0 THEN S ELSE m[n - 1] \cup UNION {Leads(o) : o \in m[n - 1]}]
  BY <1>5
<1>7. Accessible(S) = m[Cardinality(Obj)]
  BY DEF Accessible
<1> HIDE DEF m
<1>8. m[0] = S /\ \A n \in Nat : m[n + 1] = Led(m[n])
  <2>1. m[0] = S
    BY <1>6
  <2> SUFFICES ASSUME NEW n \in Nat PROVE m[n + 1] = Led(m[n])
    BY <2>1
  <2>2. n + 1 \in Nat /\ n + 1 # 0 /\ (n + 1) - 1 = n
    OBVIOUS
  <2>3. m[n + 1] = Led(m[(n + 1) - 1])
    BY <1>6, <2>2
  <2> HIDE DEF Led
  <2> QED
    BY <2>2, <2>3
<1> DEFINE G == {n \in Nat : m[n] \in T}
<1>9. Nat \subseteq G
  <2> HIDE DEF Led, T
  <2>1. 0 \in G
    BY <1>1, <1>8
  <2>2. \A n \in Nat : n \in G => n + 1 \in G
    BY <1>1, <1>8
  <2> HIDE DEF G
  <2> QED
    BY <2>1, <2>2, NatInd
<1>10. Cardinality(Obj) \in Nat
  BY GcAssumption, FS_CardinalityType
<1> QED
  BY <1>7, <1>9, <1>10

\* The same for what is strongly accessible.
LEMMA StronglyIn ==
  ASSUME NEW S, NEW A, S \subseteq A, \A M \in SUBSET A : \A o \in M : StronglyLeads(o, M) \subseteq A
  PROVE  StronglyAccessible(S) \subseteq A
<1> DEFINE T == SUBSET A
           Led(M) == M \cup UNION {StronglyLeads(o, M) : o \in M}
           h == [p \in Nat \X T |-> Led(p[2])]
           m == CHOOSE reach : reach = [n \in Nat |-> IF n = 0 THEN S
                                 ELSE reach[n - 1] \cup UNION {StronglyLeads(o, reach[n - 1]) : o \in reach[n - 1]}]
<1>1. S \in T /\ \A M \in T : Led(M) \in T
  OBVIOUS
<1>2. h \in [Nat \X T -> T]
  BY <1>1
<1>3. PICK f \in [Nat -> T] : f[0] = S /\ \A n \in Nat : f[n + 1] = h[<<n, f[n]>>]
  <2> HIDE DEF h, T
  <2>1. Iterates(T, S, h) # {}
    BY <1>1, <1>2, RecursionOnNat
  <2> QED
    BY <2>1 DEF Iterates
<1>4. \A n \in Nat : f[n + 1] = Led(f[n])
  <2> TAKE n \in Nat
  <2>1. h[<<n, f[n]>>] = Led(<<n, f[n]>>[2])
    BY <1>3
  <2>2. <<n, f[n]>>[2] = f[n] /\ f[n + 1] = h[<<n, f[n]>>]
    BY <1>3
  <2> HIDE DEF Led, h
  <2> QED
    BY <2>1, <2>2
<1>5. f = [n \in Nat |-> IF n = 0 THEN S ELSE f[n - 1] \cup UNION {StronglyLeads(o, f[n - 1]) : o \in f[n - 1]}]
  <2>1. ASSUME NEW n \in Nat, n # 0 PROVE f[n] = Led(f[n - 1])
    <3> HIDE DEF Led
    <3>1. n - 1 \in Nat /\ (n - 1) + 1 = n
      BY <2>1
    <3>2. f[(n - 1) + 1] = Led(f[n - 1])
      BY <1>4, <3>1
    <3> QED
      BY <3>1, <3>2
  <2>2. f = [n \in Nat |-> f[n]]
    BY <1>3
  <2>3. f = [n \in Nat |-> IF n = 0 THEN S ELSE Led(f[n - 1])]
    <3> HIDE DEF Led
    <3>1. \A n \in Nat : f[n] = IF n = 0 THEN S ELSE Led(f[n - 1])
      BY <1>3, <2>1
    <3> QED
      BY <2>2, <3>1
  <2> QED
    BY <2>3
<1>6. m = [n \in Nat |-> IF n = 0 THEN S ELSE m[n - 1] \cup UNION {StronglyLeads(o, m[n - 1]) : o \in m[n - 1]}]
  BY <1>5
<1>7. StronglyAccessible(S) = m[2 * Cardinality(Obj)]
  BY DEF StronglyAccessible
<1> HIDE DEF m
<1>8. m[0] = S /\ \A n \in Nat : m[n + 1] = Led(m[n])
  <2>1. m[0] = S
    BY <1>6
  <2> SUFFICES ASSUME NEW n \in Nat PROVE m[n + 1] = Led(m[n])
    BY <2>1
  <2>2. n + 1 \in Nat /\ n + 1 # 0 /\ (n + 1) - 1 = n
    OBVIOUS
  <2>3. m[n + 1] = Led(m[(n + 1) - 1])
    BY <1>6, <2>2
  <2> HIDE DEF Led
  <2> QED
    BY <2>2, <2>3
<1> DEFINE G == {n \in Nat : m[n] \in T}
<1>9. Nat \subseteq G
  <2> HIDE DEF Led, T
  <2>1. 0 \in G
    BY <1>1, <1>8
  <2>2. \A n \in Nat : n \in G => n + 1 \in G
    BY <1>1, <1>8
  <2> HIDE DEF G
  <2> QED
    BY <2>1, <2>2, NatInd
<1>10. 2 * Cardinality(Obj) \in Nat
  <2>1. Cardinality(Obj) \in Nat
    BY GcAssumption, FS_CardinalityType
  <2> QED
    BY <2>1
<1> QED
  BY <1>7, <1>9, <1>10


\* All the lists together hold every allocated object once.
LEMMA OnceInAll ==
  ASSUME Types, Listed
  PROVE  OnOneList
<1> DEFINE a == lists.allgc
           f == lists.finobj
           b == lists.tobefnz
           af == a \o f
           all == af \o b
<1>1. a \in Seq(Obj) /\ f \in Seq(Obj) /\ b \in Seq(Obj)
  <2>1. Finalized \subseteq Obj
    BY GcAssumption DEF Obj
  <2>2. \A z \in Seq(Finalized) : z \in Seq(Obj)
    BY <2>1
  <2> QED
    BY <2>2 DEF Types
<1>2. JoinOf(af, a, f, Obj)
  BY <1>1, JoinedIs
<1> HIDE DEF af
<1>3. af \in Seq(Obj) /\ Range(af) = Range(a) \cup Range(f) /\ Once(af)
  BY <1>2 DEF JoinOf, Listed
<1>4. JoinOf(all, af, b, Obj)
  BY <1>1, <1>3, JoinedIs
<1> HIDE DEF all
<1>5. Range(af) \cap Range(b) = {} /\ Once(b)
  BY <1>3 DEF Listed
<1>6. all \in Seq(Obj) /\ Range(all) = Range(af) \cup Range(b) /\ Once(all)
  BY <1>3, <1>4, <1>5 DEF JoinOf
<1>7. Range(all) = Allocated
  BY <1>3, <1>6 DEF Listed
<1>8. Len(all) = Cardinality(Allocated)
  <2>1. all \in [1..Len(all) -> Obj] /\ Len(all) \in Nat
    BY <1>6
  <2>2. \A x : x \in Range(all) <=> \E i \in 1..Len(all) : all[i] = x
    BY <1>6, RangeIs
  <2>3. all \in [1..Len(all) -> Allocated]
    BY <1>7, <2>1, <2>2
  <2>4. all \in Injection(1..Len(all), Allocated)
    BY <1>6, <2>3 DEF Injection, IsInjective, Once
  <2>5. all \in Surjection(1..Len(all), Allocated)
    BY <1>7, <2>2, <2>3 DEF Surjection
  <2>6. ExistsBijection(1..Len(all), Allocated)
    BY <2>4, <2>5 DEF ExistsBijection, Bijection
  <2>7. IsFiniteSet(1..Len(all)) /\ Cardinality(1..Len(all)) = IF 1 > Len(all) THEN 0 ELSE Len(all) - 1 + 1
    BY <2>1, FS_Interval
  <2>8. Cardinality(1..Len(all)) = Len(all)
    BY <2>1, <2>7
  <2> QED
    BY <2>6, <2>7, <2>8, FS_Bijection
<1> QED
  BY <1>7, <1>8 DEF OnOneList, all, af

\* The invariant keeps what is accessible, the keys of its tables, and the lists.
LEMMA NothingDangles ==
  ASSUME IInv
  PROVE  NoDangling
<1> DEFINE A == {o \in Obj : mark[o] \notin {"free", "other"}}
           S == stack \cup Range(lists.finobj) \cup Range(lists.tobefnz)
<1>1. Types /\ Listed /\ Closed /\ TypeOK
  BY DEF IInv, Types
<1>2. S \subseteq A
  <2>1. Finalized \subseteq Obj
    BY GcAssumption DEF Obj
  <2>2. Range(lists.finobj) \subseteq Obj /\ Range(lists.tobefnz) \subseteq Obj
    BY <1>1 DEF Listed, Allocated
  <2> QED
    BY <1>1, <2>2 DEF TypeOK, Closed, Kept
<1>3. \A o \in A : Leads(o) \subseteq A
  BY <1>1 DEF Leads, Closed, Kept
<1> HIDE DEF A
<1>4. Accessible(S) \subseteq A
  BY <1>2, <1>3, AccessibleIn
<1>5. Accessible(stack) \subseteq A
  BY <1>2, <1>3, AccessibleIn
<1> USE DEF A
<1>6. ReachableKept
  BY <1>4 DEF ReachableKept
<1>7. KeysNotDangling
  BY <1>1, <1>5 DEF KeysNotDangling, Closed, Kept
<1>8. OnOneList
  BY <1>1, OnceInAll
<1> QED
  BY <1>6, <1>7, <1>8 DEF NoDangling

\* Nothing the program or a finalizer can reach has been freed or is about to be, the key of an
\* empty entry is allocated or dead, and an object is on one list, in every state between two
\* steps of the collector.
THEOREM NothingInUseIsFreed == FewFinalizers => (Spec => []NoDangling)
<1>1. IInv => NoDangling
  BY NothingDangles
<1> QED
  BY <1>1, Invariant, PTL

\* While the collector marks, the barriers and the traversals keep black objects from leading to
\* white ones, and the gray objects on the lists.
THEOREM BlackNeverLeadsToWhite == FewFinalizers => (Spec => []TriColour)
<1>1. IInv => TriColour
  <2> SUFFICES ASSUME IInv, KeepInvariant, NEW o \in Obj
               PROVE  /\ mark[o] = "black" => ~\E p \in Leads(o) : IsWhite(p)
                      /\ mark[o] = "gray" => o \in gray \cup grayagain \cup weak \cup allweak \cup ephemeron
    BY DEF TriColour
  <2>1. Coloured
    BY DEF IInv, Marked, Marking, KeepInvariant
  <2> QED
    BY <2>1 DEF Coloured, Leads, Pending, Settled
<1> QED
  BY <1>1, Invariant, PTL

\* When the sweep has ended every object has the current white, those that were created or got a
\* finalizer during the cycle among them.
THEOREM SweepLeavesWhite == FewFinalizers => (Spec => []AllWhite)
<1>1. IInv => AllWhite
  BY WhiteOutside DEF IInv, AllWhite, Allocated
<1> QED
  BY <1>1, Invariant, PTL

\* When all that is strongly accessible is marked, it is not white.
LEMMA AliveIsMarked ==
  ASSUME IInv, gcstate = "converge1", gray = {}, next = {}, ~changed
  PROVE  StronglyAccessible(stack) \subseteq {o \in Obj : NonWhite(o)}
<1> DEFINE A == {o \in Obj : NonWhite(o)}
<1>1. Types /\ Closed /\ TypeOK /\ Coloured /\ RootsMarked /\ Converged
  BY DEF IInv, Types, Marked, Marking, Atomically
<1>2. node \in [Obj -> Entries] /\ mark \in [Obj -> Colours] /\ Nil \notin Obj /\ Dead \notin Obj
  BY <1>1, GcAssumption DEF TypeOK, Colours, Entries
<1>3. \A x \in Obj : Kept(x) /\ ~IsWhite(x) => x \in A
  BY <1>2 DEF Kept, IsWhite, NonWhite, Colours, White
<1>4. stack \subseteq A
  BY <1>1, <1>3 DEF TypeOK, RootsMarked, Closed, Early
<1>5. ASSUME NEW M \in SUBSET A, NEW o \in M PROVE StronglyLeads(o, M) \subseteq A
  <2> DEFINE e == node[o]
  <2>1. o \in Obj /\ mark[o] \in {"gray", "black"} /\ e \in Entries
    BY <1>2, <1>5 DEF NonWhite
  <2>2. Kept(e.k) /\ Kept(e.v)
    BY <1>1, <2>1 DEF Closed
  <2>3. ~Pending(o)
    BY DEF Pending, Early
  <2>4. CASE mark[o] = "black"
    <3>1. ~IsWhite(e.k) /\ ~IsWhite(e.v)
      BY <1>1, <2>1, <2>4 DEF Coloured
    <3>2. {e.k, e.v} \cap Obj \subseteq A
      BY <1>3, <2>2, <3>1
    <3>3. StronglyLeads(o, M) \subseteq {e.k, e.v} \cap Obj
      BY DEF StronglyLeads
    <3> QED
      BY <3>2, <3>3
  <2>5. CASE mark[o] = "gray"
    <3>1. Settled(o)
      BY <1>1, <2>1, <2>3, <2>5 DEF Coloured
    <3>2. CASE o \in AllWeak
      BY <3>2 DEF StronglyLeads
    <3>3. CASE o \in WeakValue
      <4>1. ~IsWhite(e.k) /\ o \notin AllWeak
        BY <3>1, <3>3, GcAssumption DEF Settled
      <4>2. {e.k} \cap Obj \subseteq A
        BY <1>3, <2>2, <4>1
      <4> QED
        BY <3>3, <4>1, <4>2 DEF StronglyLeads
    <3>4. CASE o \in Ephemeron
      <4>1. o \notin AllWeak /\ o \notin WeakValue
        BY <3>4, GcAssumption
      <4>2. o \in ephemeron \/ (~IsWhite(e.v) /\ (IsWhite(e.k) => o \in allweak))
        BY <3>1, <3>4, <4>1 DEF Settled
      <4>3. CASE o \in ephemeron
        <5>1. IsWhite(e.k) /\ e.v # Nil
          BY <1>1, <4>3 DEF Converged, Waits, WhiteKey
        <5>2. e.k \in Obj \ M
          BY <5>1 DEF IsWhite, White, NonWhite
        <5> QED
          BY <3>4, <4>1, <5>1, <5>2 DEF StronglyLeads
      <4>4. CASE ~IsWhite(e.v)
        <5>1. e.v # Nil => e.v \in A
          BY <1>3, <2>1, <2>2, <4>4 DEF Entries
        <5> QED
          BY <3>4, <4>1, <5>1 DEF StronglyLeads
      <4> QED
        BY <4>2, <4>3, <4>4
    <3> QED
      BY <3>1, <3>2, <3>3, <3>4 DEF Settled
  <2> QED
    BY <2>1, <2>4, <2>5
<1> HIDE DEF A
<1>6. StronglyAccessible(stack) \subseteq A
  BY <1>4, <1>5, StronglyIn
<1> QED
  BY <1>6 DEF A

\* One step of the property.
FinalizesGarbage ==
  \A o \in Range(lists'.tobefnz) \ Range(lists.tobefnz) :
       LET alive == StronglyAccessible(stack) IN
       /\ o \notin alive
       /\ \A w \in alive \cap (WeakValue \cup AllWeak) : node'[w].v # o

\* What leaves finobj for tobefnz is white, and no value of a table that is accessible.
LEMMA SeparatesGarbage ==
  ASSUME IInv, SeparateToBeFnz
  PROVE  FinalizesGarbage
<1> DEFINE dying == {o \in Obj : IsWhite(o)}
<1>1. /\ gcstate = "converge1" /\ gray = {} /\ next = {} /\ ~changed
      /\ node' = [o \in Obj |-> IF o \in ClearedFirst THEN ClearedValue(node[o]) ELSE node[o]]
      /\ lists' = [lists EXCEPT !.finobj = Those(@, Obj \ dying),
                                !.tobefnz = lists.tobefnz \o Those(lists.finobj, dying)]
  BY DEF SeparateToBeFnz
<1>2. Types /\ Listed /\ TypeOK /\ Coloured /\ node \in [Obj -> Entries] /\ Nil \notin Obj
  BY <1>1, GcAssumption DEF IInv, Types, TypeOK, Entries, Marked, Marking, Atomically
<1>3. Range(lists'.tobefnz) = Range(lists.tobefnz) \cup (Range(lists.finobj) \cap dying)
  BY <1>1, <1>2, Separated
<1>4. StronglyAccessible(stack) \subseteq {o \in Obj : NonWhite(o)}
  BY <1>1, AliveIsMarked
<1>5. SUFFICES ASSUME NEW o \in Obj, IsWhite(o), NEW w \in Obj, NonWhite(w), w \in WeakValue \cup AllWeak
               PROVE  node'[w].v # o
  <2>1. \A o \in Range(lists'.tobefnz) \ Range(lists.tobefnz) : o \in Obj /\ IsWhite(o)
    BY <1>3
  <2>2. \A o : IsWhite(o) => ~NonWhite(o)
    BY DEF IsWhite, NonWhite, White
  <2> QED
    BY <1>4, <2>1, <2>2 DEF FinalizesGarbage
<1> DEFINE e == node[w]
<1>6. e \in Entries /\ node'[w] = IF w \in ClearedFirst THEN ClearedValue(e) ELSE e
  BY <1>1, <1>2
<1>7. Settled(w)
  <2>1. w \notin Strong
    BY <1>5, GcAssumption DEF Strong, Tables
  <2>2. mark[w] = "gray" /\ ~Pending(w)
    BY <1>1, <1>2, <1>5, <2>1 DEF Coloured, NonWhite, Pending, Early
  <2> QED
    BY <1>2, <2>2 DEF Coloured
<1>8. w \notin Ephemeron
  BY <1>5, GcAssumption
<1>9. CASE ~IsWhite(e.v)
  <2>1. node'[w] = e
    BY <1>6, <1>9 DEF ClearedValue
  <2> QED
    BY <1>5, <1>9, <2>1
<1>10. CASE IsWhite(e.v)
  <2>1. w \in ClearedFirst
    BY <1>5, <1>7, <1>8, <1>10 DEF Settled, ClearedFirst
  <2>2. e.v # Nil
    BY <1>2, <1>10 DEF IsWhite
  <2>3. node'[w] = Removed([e EXCEPT !.v = Nil])
    BY <1>6, <1>10, <2>1, <2>2 DEF ClearedValue
  <2>4. Removed([e EXCEPT !.v = Nil]).v = Nil
    BY <1>6 DEF Removed, Entries
  <2> QED
    BY <1>2, <2>3, <2>4
<1> QED
  BY <1>9, <1>10

\* No other step puts an object into tobefnz.
LEMMA OnlySeparated ==
  ASSUME FewFinalizers, IInv, Next, ~SeparateToBeFnz
  PROVE  Range(lists'.tobefnz) \subseteq Range(lists.tobefnz)
<1>1. /\ Types
      /\ lists \in [allgc : Seq(Obj), finobj : Seq(Finalized), tobefnz : Seq(Finalized)]
  BY DEF IInv, Types
<1>2. CASE Collect
  <2>1. CASE Restart \/ Propagate \/ Atomic \/ PropagateAll \/ GrayAgain \/ NextRound \/ Converge \/ ClearAndFlip
             \/ SweepEnd \/ CallFin
    <3>1. lists' = lists
      BY <2>1 DEF Restart, Propagate, Atomic, PropagateAll, GrayAgain, NextRound, Converge, ClearAndFlip, SweepEnd, CallFin
    <3> QED
      BY <3>1
  <2>2. CASE EnterSweep
    <3>1. lists'.tobefnz = lists.tobefnz
      BY <1>1, <2>2 DEF EnterSweep
    <3> QED
      BY <3>1
  <2>3. CASE SweepAllGc \/ SweepToBeFnz
    BY <2>3, SweepAllGcStep, SweepToBeFnzStep
  <2>4. CASE SweepFinObj
    <3>1. Listed /\ Closed /\ sweepgc = "head"
      BY <2>4 DEF IInv, SweptSoFar, SweepFinObj, SweepStep
    <3>2. OneBatchOf("finobj")
      BY <1>1, <2>4, <3>1, OneBatch DEF SweepFinObj
    <3> QED
      BY <3>2 DEF OneBatchOf, Names
  <2>5. CASE GCTM
    <3>1. lists'.tobefnz = Tail(lists.tobefnz) /\ lists.tobefnz # <<>>
      BY <1>1, <2>5 DEF GCTM
    <3>2. TailOf(Tail(lists.tobefnz), lists.tobefnz, Finalized)
      BY <1>1, <3>1, TailIs
    <3> QED
      BY <3>1, <3>2 DEF TailOf
  <2> QED
    BY <1>2, <2>1, <2>2, <2>3, <2>4, <2>5 DEF Collect
<1>3. CASE Program
  <2>1. lists'.tobefnz = lists.tobefnz
    <3>1. ASSUME NEW o, New(o) \/ Pop(o) \/ Erase(o) \/ SetFinalizer(o) PROVE lists'.tobefnz = lists.tobefnz
      BY <1>1, <3>1 DEF New, Pop, Erase, SetFinalizer
    <3>2. ASSUME NEW o, NEW x, Load(o, x) \/ SetField(o, x) PROVE lists'.tobefnz = lists.tobefnz
      BY <3>2 DEF Load, SetField
    <3>3. ASSUME NEW o, NEW v, NEW k, SetEntry(o, k, v) PROVE lists'.tobefnz = lists.tobefnz
      BY <3>3 DEF SetEntry
    <3>4. ASSUME NEW isemergency, FullGC(isemergency) PROVE lists'.tobefnz = lists.tobefnz
      BY <3>4 DEF FullGC
    <3> QED
      BY <1>3, <3>1, <3>2, <3>3, <3>4 DEF Program
  <2> QED
    BY <2>1
<1> QED
  BY <1>2, <1>3 DEF Next

\* An object is handed to its finalizer only when nothing strong leads to it from the program, and
\* no weak table that the program can reach has it as a value any more.
THEOREM OnlyGarbageIsFinalized == FewFinalizers => (Spec => FinalizedWhenGarbage)
<1> SUFFICES ASSUME FewFinalizers PROVE Spec => FinalizedWhenGarbage
  OBVIOUS
<1>1. IInv /\ [Next]_vars => [FinalizesGarbage]_vars
  <2> SUFFICES ASSUME IInv, Next PROVE FinalizesGarbage
    OBVIOUS
  <2>1. CASE SeparateToBeFnz
    BY <2>1, SeparatesGarbage
  <2>2. CASE ~SeparateToBeFnz
    <3>1. Range(lists'.tobefnz) \ Range(lists.tobefnz) = {}
      BY <2>2, OnlySeparated
    <3> QED
      BY <3>1 DEF FinalizesGarbage
  <2> QED
    BY <2>1, <2>2
<1>2. Spec => []IInv
  BY Invariant
<1>3. FinalizedWhenGarbage <=> [][FinalizesGarbage]_vars
  BY PTL DEF FinalizedWhenGarbage, FinalizesGarbage
<1> QED
  BY <1>1, <1>2, <1>3, PTL DEF Spec

\* Whatever weak tables forget, and whatever is revived or finalized, nothing that is still in use
\* dangles and nothing that is still in use is finalized.
THEOREM WeakTablesAreSafe == FewFinalizers => (Spec => WeakSafe)
<1> QED
  BY NothingInUseIsFreed, OnlyGarbageIsFinalized, PTL DEF WeakSafe

=============================================================================
