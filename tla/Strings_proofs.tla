--------------------------- MODULE Strings_proofs ----------------------------
(***************************************************************************)
(* Theorems about Strings, for any strings, any hash, any addresses and    *)
(* any sizes of the table and of the cache.                                *)
(***************************************************************************)
EXTENDS Strings, SequenceTheorems, FiniteSetTheorems, Induction, TLAPS

Marks == {"white", "black", "gray", "other", "free"}

\* A global_State, from its fields.
State(gcstate, hash, mark, nuse, strcache, sweepgc, text) ==
  [gcstate |-> gcstate, hash |-> hash, mark |-> mark, nuse |-> nuse,
   strcache |-> strcache, sweepgc |-> sweepgc, text |-> text]

Rec(G) == G = State(G.gcstate, G.hash, G.mark, G.nuse, G.strcache, G.sweepgc, G.text)

Types(G) ==
  /\ Rec(G)
  /\ G.gcstate \in {"propagate", "sweep"}
  /\ G.hash \in Seq(Seq(TString)) /\ Len(G.hash) > 0
  /\ G.mark \in [TString -> Marks]
  /\ G.strcache \in [1..STRCACHE_M -> TString]
  /\ G.sweepgc \in SUBSET Address
  /\ G.text \in [TString -> Contents \cup {NoText}]

Short(text) == {ts \in TString : text[ts] \notin Long \cup {NoText}}
Home(text, ts, size) == lmod(luaS_hash[text[ts]], size)
Once(s) == \A i, j \in 1..Len(s) : s[i] = s[j] => i = j

\* The message of luaS_init is fixed, and the only string that is; what is not allocated is free.
Coloured(mark, text) ==
  /\ text[memerrmsg] = MEMERRMSG
  /\ \A ts \in TString : mark[ts] = "gray" <=> ts = memerrmsg
  /\ \A ts \in TString : mark[ts] = "free" <=> text[ts] = NoText

\* What is about to be freed is still to be swept, and what is to be swept is allocated.
Swept(gcstate, mark, sweepgc) ==
  /\ gcstate = "propagate" => sweepgc = {}
  /\ \A ts \in TString : mark[ts] = "other" => ts \in sweepgc
  /\ \A ts \in sweepgc : mark[ts] # "free"

Unique(text) == \A ts, other \in Short(text) : text[ts] = text[other] => ts = other

\* A chain has the short strings that belong there, each once.
Placed(hash, text) ==
  /\ \A i \in 1..Len(hash) : Once(hash[i])
  /\ \A i \in 1..Len(hash) : \A ts : 
       ts \in ToSet(hash[i]) <=> ts \in Short(text) /\ Home(text, ts, Len(hash)) = i

Alive(mark, S) == \A ts \in S : mark[ts] \notin {"free", "other"}

\* S is what the program refers to.
Good(G, S) ==
  /\ Types(G)
  /\ Coloured(G.mark, G.text)
  /\ Swept(G.gcstate, G.mark, G.sweepgc)
  /\ Unique(G.text)
  /\ Placed(G.hash, G.text)
  /\ G.nuse = Cardinality(Short(G.text))
  /\ S \in SUBSET TString /\ Alive(G.mark, S) /\ Alive(G.mark, ToSet(G.strcache))

IInv == Good(g, stack)

-----------------------------------------------------------------------------
(* Fields *)

LEMMA FieldsAre ==
  ASSUME NEW gcstate, NEW hash, NEW mark, NEW nuse, NEW strcache, NEW sweepgc, NEW text
  PROVE  LET R == State(gcstate, hash, mark, nuse, strcache, sweepgc, text) IN
         /\ R.gcstate = gcstate /\ R.hash = hash /\ R.mark = mark /\ R.nuse = nuse
         /\ R.strcache = strcache /\ R.sweepgc = sweepgc /\ R.text = text
BY DEF State

\* A global_State with another value of one field.
WithPhase(G, x) == [G EXCEPT !.gcstate = x]
WithHash(G, x) == [G EXCEPT !.hash = x]
WithMark(G, x) == [G EXCEPT !.mark = x]
WithCount(G, x) == [G EXCEPT !.nuse = x]
WithCache(G, x) == [G EXCEPT !.strcache = x]
WithSweep(G, x) == [G EXCEPT !.sweepgc = x]
WithText(G, x) == [G EXCEPT !.text = x]

LEMMA WithIs ==
  ASSUME NEW gcstate, NEW hash, NEW mark, NEW nuse, NEW strcache, NEW sweepgc, NEW text, NEW x,
         NEW G, G = State(gcstate, hash, mark, nuse, strcache, sweepgc, text)
  PROVE  /\ WithPhase(G, x) = State(x, hash, mark, nuse, strcache, sweepgc, text)
         /\ WithHash(G, x) = State(gcstate, x, mark, nuse, strcache, sweepgc, text)
         /\ WithMark(G, x) = State(gcstate, hash, x, nuse, strcache, sweepgc, text)
         /\ WithCount(G, x) = State(gcstate, hash, mark, x, strcache, sweepgc, text)
         /\ WithCache(G, x) = State(gcstate, hash, mark, nuse, x, sweepgc, text)
         /\ WithSweep(G, x) = State(gcstate, hash, mark, nuse, strcache, x, text)
         /\ WithText(G, x) = State(gcstate, hash, mark, nuse, strcache, sweepgc, x)
<1>1. WithPhase(G, x) = State(x, hash, mark, nuse, strcache, sweepgc, text)
  BY DEF State, WithPhase
<1>2. WithHash(G, x) = State(gcstate, x, mark, nuse, strcache, sweepgc, text)
  BY DEF State, WithHash
<1>3. WithMark(G, x) = State(gcstate, hash, x, nuse, strcache, sweepgc, text)
  BY DEF State, WithMark
<1>4. WithCount(G, x) = State(gcstate, hash, mark, x, strcache, sweepgc, text)
  BY DEF State, WithCount
<1>5. WithCache(G, x) = State(gcstate, hash, mark, nuse, x, sweepgc, text)
  BY DEF State, WithCache
<1>6. WithSweep(G, x) = State(gcstate, hash, mark, nuse, strcache, x, text)
  BY DEF State, WithSweep
<1>7. WithText(G, x) = State(gcstate, hash, mark, nuse, strcache, sweepgc, x)
  BY DEF State, WithText
<1> QED
  BY <1>1, <1>2, <1>3, <1>4, <1>5, <1>6, <1>7

LEMMA PhaseSet ==
  ASSUME NEW G, Rec(G), NEW x
  PROVE  LET R == WithPhase(G, x) IN
         Rec(R) /\ R.gcstate = x /\ R.hash = G.hash /\ R.mark = G.mark
         /\ R.nuse = G.nuse /\ R.strcache = G.strcache /\ R.sweepgc = G.sweepgc /\ R.text = G.text
<1>1. WithPhase(G, x) = State(x, G.hash, G.mark, G.nuse, G.strcache, G.sweepgc, G.text)
  BY WithIs DEF Rec
<1> QED
  BY <1>1, FieldsAre DEF Rec

LEMMA HashSet ==
  ASSUME NEW G, Rec(G), NEW x
  PROVE  LET R == WithHash(G, x) IN
         Rec(R) /\ R.gcstate = G.gcstate /\ R.hash = x /\ R.mark = G.mark
         /\ R.nuse = G.nuse /\ R.strcache = G.strcache /\ R.sweepgc = G.sweepgc /\ R.text = G.text
<1>1. WithHash(G, x) = State(G.gcstate, x, G.mark, G.nuse, G.strcache, G.sweepgc, G.text)
  BY WithIs DEF Rec
<1> QED
  BY <1>1, FieldsAre DEF Rec

LEMMA MarkSet ==
  ASSUME NEW G, Rec(G), NEW x
  PROVE  LET R == WithMark(G, x) IN
         Rec(R) /\ R.gcstate = G.gcstate /\ R.hash = G.hash /\ R.mark = x
         /\ R.nuse = G.nuse /\ R.strcache = G.strcache /\ R.sweepgc = G.sweepgc /\ R.text = G.text
<1>1. WithMark(G, x) = State(G.gcstate, G.hash, x, G.nuse, G.strcache, G.sweepgc, G.text)
  BY WithIs DEF Rec
<1> QED
  BY <1>1, FieldsAre DEF Rec

LEMMA CountSet ==
  ASSUME NEW G, Rec(G), NEW x
  PROVE  LET R == WithCount(G, x) IN
         Rec(R) /\ R.gcstate = G.gcstate /\ R.hash = G.hash /\ R.mark = G.mark
         /\ R.nuse = x /\ R.strcache = G.strcache /\ R.sweepgc = G.sweepgc /\ R.text = G.text
<1>1. WithCount(G, x) = State(G.gcstate, G.hash, G.mark, x, G.strcache, G.sweepgc, G.text)
  BY WithIs DEF Rec
<1> QED
  BY <1>1, FieldsAre DEF Rec

LEMMA CacheSet ==
  ASSUME NEW G, Rec(G), NEW x
  PROVE  LET R == WithCache(G, x) IN
         Rec(R) /\ R.gcstate = G.gcstate /\ R.hash = G.hash /\ R.mark = G.mark
         /\ R.nuse = G.nuse /\ R.strcache = x /\ R.sweepgc = G.sweepgc /\ R.text = G.text
<1>1. WithCache(G, x) = State(G.gcstate, G.hash, G.mark, G.nuse, x, G.sweepgc, G.text)
  BY WithIs DEF Rec
<1> QED
  BY <1>1, FieldsAre DEF Rec

LEMMA SweepSet ==
  ASSUME NEW G, Rec(G), NEW x
  PROVE  LET R == WithSweep(G, x) IN
         Rec(R) /\ R.gcstate = G.gcstate /\ R.hash = G.hash /\ R.mark = G.mark
         /\ R.nuse = G.nuse /\ R.strcache = G.strcache /\ R.sweepgc = x /\ R.text = G.text
<1>1. WithSweep(G, x) = State(G.gcstate, G.hash, G.mark, G.nuse, G.strcache, x, G.text)
  BY WithIs DEF Rec
<1> QED
  BY <1>1, FieldsAre DEF Rec

LEMMA TextSet ==
  ASSUME NEW G, Rec(G), NEW x
  PROVE  LET R == WithText(G, x) IN
         Rec(R) /\ R.gcstate = G.gcstate /\ R.hash = G.hash /\ R.mark = G.mark
         /\ R.nuse = G.nuse /\ R.strcache = G.strcache /\ R.sweepgc = G.sweepgc /\ R.text = x
<1>1. WithText(G, x) = State(G.gcstate, G.hash, G.mark, G.nuse, G.strcache, G.sweepgc, x)
  BY WithIs DEF Rec
<1> QED
  BY <1>1, FieldsAre DEF Rec

-----------------------------------------------------------------------------
(* Chains *)

LEMMA ToSetIs ==
  ASSUME NEW X, NEW s \in Seq(X), NEW x
  PROVE  x \in ToSet(s) <=> \E i \in 1..Len(s) : s[i] = x
BY DEF ToSet

LEMMA ConsIs ==
  ASSUME NEW X, NEW s \in Seq(X), NEW x \in X
  PROVE  /\ <<x>> \o s \in Seq(X)
         /\ \A y : y \in ToSet(<<x>> \o s) <=> y = x \/ y \in ToSet(s)
         /\ Once(s) /\ x \notin ToSet(s) => Once(<<x>> \o s)
<1> DEFINE r == <<x>> \o s
<1>1. r \in Seq(X) /\ Len(r) = Len(s) + 1
  OBVIOUS
<1>2. r[1] = x /\ \A i \in 2..Len(r) : r[i] = s[i - 1] /\ i - 1 \in 1..Len(s)
  OBVIOUS
<1>3. \A i \in 1..Len(s) : i + 1 \in 2..Len(r) /\ r[i + 1] = s[i]
  OBVIOUS
<1> HIDE DEF r
<1>4. ASSUME NEW y PROVE y \in ToSet(r) <=> y = x \/ y \in ToSet(s)
  <2>1. y \in ToSet(r) <=> \E i \in 1..Len(r) : r[i] = y
    BY <1>1, ToSetIs
  <2>2. y \in ToSet(s) <=> \E i \in 1..Len(s) : s[i] = y
    BY ToSetIs
  <2>3. ASSUME NEW i \in 1..Len(r), r[i] = y PROVE y = x \/ \E j \in 1..Len(s) : s[j] = y
    BY <1>1, <1>2, <2>3
  <2>4. ASSUME NEW i \in 1..Len(s), s[i] = y PROVE \E j \in 1..Len(r) : r[j] = y
    BY <1>1, <1>3, <2>4
  <2>5. 1 \in 1..Len(r)
    BY <1>1
  <2> QED
    BY <1>2, <2>1, <2>2, <2>3, <2>4, <2>5
<1>5. ASSUME Once(s), x \notin ToSet(s) PROVE Once(r)
  <2> SUFFICES ASSUME NEW i \in 1..Len(r), NEW j \in 1..Len(r), r[i] = r[j] PROVE i = j
    BY DEF Once
  <2>1. \A k \in 1..Len(s) : s[k] # x
    BY <1>5, ToSetIs
  <2>2. CASE i = 1 \/ j = 1
    BY <1>1, <1>2, <2>1, <2>2
  <2>3. CASE i # 1 /\ j # 1
    <3>1. i \in 2..Len(r) /\ j \in 2..Len(r)
      BY <1>1, <2>3
    <3>2. s[i - 1] = s[j - 1] /\ i - 1 \in 1..Len(s) /\ j - 1 \in 1..Len(s)
      BY <1>2, <3>1
    <3>3. i - 1 = j - 1
      BY <1>5, <3>2 DEF Once
    <3> QED
      BY <3>3
  <2> QED
    BY <2>2, <2>3
<1> QED
  BY <1>1, <1>4, <1>5 DEF r

LEMMA RemovedIs ==
  ASSUME NEW X, NEW s \in Seq(X), Once(s), NEW p \in 1..Len(s)
  PROVE  /\ RemoveAt(s, p) \in Seq(X) /\ Once(RemoveAt(s, p))
         /\ \A y : y \in ToSet(RemoveAt(s, p)) <=> y \in ToSet(s) /\ y # s[p]
<1> DEFINE r == RemoveAt(s, p)
<1> DEFINE a == SubSeq(s, 1, p - 1)
           b == SubSeq(s, p + 1, Len(s))
<1>3. Len(s) \in Nat /\ p \in Nat /\ p >= 1 /\ p <= Len(s)
  OBVIOUS
<1>6. a \in Seq(X) /\ Len(a) = p - 1 /\ \A i \in 1..p - 1 : a[i] = s[i]
  <2>1. a \in Seq(X)
    BY <1>3
  <2>2. Len(a) = IF 1 <= p - 1 THEN p - 1 - 1 + 1 ELSE 0
    BY <1>3
  <2>3. \A i \in 1..p - 1 - 1 + 1 : a[i] = s[1 + i - 1]
    BY <1>3
  <2> HIDE DEF a
  <2> QED
    BY <1>3, <2>1, <2>2, <2>3
<1>7. b \in Seq(X) /\ Len(b) = Len(s) - p /\ \A i \in 1..Len(s) - p : b[i] = s[p + i]
  <2>1. b \in Seq(X)
    BY <1>3
  <2>2. Len(b) = IF p + 1 <= Len(s) THEN Len(s) - (p + 1) + 1 ELSE 0
    BY <1>3
  <2>3. \A i \in 1..Len(s) - p : b[i] = s[(p + 1) + i - 1]
    BY <1>3
  <2> HIDE DEF b
  <2> QED
    BY <1>3, <2>1, <2>2, <2>3
<1>8. r = a \o b
  BY DEF RemoveAt
<1> HIDE DEF r, a, b
<1>9. r \in Seq(X) /\ Len(r) = Len(a) + Len(b)
  <2>1. a \o b \in Seq(X) /\ Len(a \o b) = Len(a) + Len(b)
    BY <1>6, <1>7, ConcatProperties
  <2> QED
    BY <1>8, <2>1
<1>10. \A i \in 1..Len(r) : r[i] = IF i <= Len(a) THEN a[i] ELSE b[i - Len(a)]
  BY <1>6, <1>7, <1>8
<1>1. r \in Seq(X) /\ Len(r) = Len(s) - 1
  BY <1>3, <1>6, <1>7, <1>9
<1>2. ASSUME NEW i \in 1..Len(r)
      PROVE  r[i] = IF i < p THEN s[i] ELSE s[i + 1]
  <2>1. CASE i < p
    <3>1. i \in 1..p - 1 /\ i <= Len(a)
      BY <1>1, <1>3, <1>6, <2>1
    <3> QED
      BY <1>6, <1>10, <2>1, <3>1
  <2>2. CASE ~ (i < p)
    <3>1. i - (p - 1) \in 1..Len(s) - p /\ ~ (i <= Len(a)) /\ p + (i - (p - 1)) = i + 1
      BY <1>1, <1>3, <1>6, <2>2
    <3> QED
      BY <1>6, <1>7, <1>10, <2>2, <3>1
  <2> QED
    BY <2>1, <2>2
<1>4. Once(r)
  <2> SUFFICES ASSUME NEW i \in 1..Len(r), NEW j \in 1..Len(r), r[i] = r[j] PROVE i = j
    BY DEF Once
  <2> DEFINE up(k) == IF k < p THEN k ELSE k + 1
  <2>1. \A k \in 1..Len(r) : up(k) \in 1..Len(s) /\ r[k] = s[up(k)]
    BY <1>1, <1>2, <1>3
  <2>2. up(i) = up(j)
    <3> HIDE DEF up
    <3> QED
      BY <2>1 DEF Once
  <2> QED
    BY <1>1, <1>3, <2>2
<1>5. ASSUME NEW y PROVE y \in ToSet(r) <=> y \in ToSet(s) /\ y # s[p]
  <2>1. y \in ToSet(r) <=> \E i \in 1..Len(r) : r[i] = y
    BY <1>1, ToSetIs
  <2>2. y \in ToSet(s) <=> \E i \in 1..Len(s) : s[i] = y
    BY ToSetIs
  <2>3. ASSUME NEW i \in 1..Len(r), r[i] = y PROVE (\E j \in 1..Len(s) : s[j] = y) /\ y # s[p]
    <3> DEFINE k == IF i < p THEN i ELSE i + 1
    <3>1. k \in 1..Len(s) /\ k # p /\ s[k] = y
      BY <1>1, <1>2, <1>3, <2>3
    <3> HIDE DEF k
    <3> QED
      BY <3>1 DEF Once
  <2>4. ASSUME NEW i \in 1..Len(s), s[i] = y, y # s[p] PROVE \E j \in 1..Len(r) : r[j] = y
    <3>1. i # p
      BY <2>4
    <3>2. CASE i < p
      <4>1. i \in 1..Len(r) /\ r[i] = y
        BY <1>1, <1>2, <1>3, <2>4, <3>2
      <4> QED
        BY <4>1
    <3>3. CASE i > p
      <4>1. i - 1 \in 1..Len(r) /\ ~ (i - 1 < p) /\ (i - 1) + 1 = i
        BY <1>1, <1>3, <3>3
      <4>2. r[i - 1] = y
        BY <1>2, <2>4, <4>1
      <4> QED
        BY <4>1, <4>2
    <3> QED
      BY <3>1, <3>2, <3>3
  <2> QED
    BY <2>1, <2>2, <2>3, <2>4
<1> QED
  BY <1>1, <1>4, <1>5 DEF r

LEMMA AppendIs ==
  ASSUME NEW X, NEW s \in Seq(X), NEW t \in Seq(X)
  PROVE  /\ s \o t \in Seq(X)
         /\ \A y : y \in ToSet(s \o t) <=> y \in ToSet(s) \/ y \in ToSet(t)
         /\ Once(s) /\ Once(t) /\ ToSet(s) \cap ToSet(t) = {} => Once(s \o t)
<1> DEFINE r == s \o t
           a == Len(s)
           b == Len(t)
<1>1. r \in Seq(X) /\ Len(r) = a + b /\ a \in Nat /\ b \in Nat
  OBVIOUS
<1>2. \A i \in 1..Len(r) : r[i] = IF i <= a THEN s[i] ELSE t[i - a]
  OBVIOUS
<1>3. \A y : /\ y \in ToSet(r) <=> \E i \in 1..Len(r) : r[i] = y
             /\ y \in ToSet(s) <=> \E i \in 1..a : s[i] = y
             /\ y \in ToSet(t) <=> \E i \in 1..b : t[i] = y
  BY DEF ToSet
<1> HIDE DEF r, a, b
<1>4. ASSUME NEW y PROVE y \in ToSet(r) <=> y \in ToSet(s) \/ y \in ToSet(t)
  <2>1. ASSUME NEW i \in 1..Len(r), r[i] = y PROVE y \in ToSet(s) \/ y \in ToSet(t)
    <3>1. CASE i <= a
      BY <1>1, <1>2, <1>3, <2>1, <3>1
    <3>2. CASE ~ (i <= a)
      <4>1. i - a \in 1..b /\ t[i - a] = y
        BY <1>1, <1>2, <2>1, <3>2
      <4> QED
        BY <1>3, <4>1
    <3> QED
      BY <3>1, <3>2
  <2>2. ASSUME NEW i \in 1..a, s[i] = y PROVE y \in ToSet(r)
    <3>1. i \in 1..Len(r) /\ i <= a
      BY <1>1
    <3> QED
      BY <1>2, <1>3, <2>2, <3>1
  <2>3. ASSUME NEW i \in 1..b, t[i] = y PROVE y \in ToSet(r)
    <3>1. i + a \in 1..Len(r) /\ ~ (i + a <= a) /\ (i + a) - a = i
      BY <1>1
    <3>2. r[i + a] = y
      BY <1>2, <2>3, <3>1
    <3> QED
      BY <1>3, <3>1, <3>2
  <2> QED
    BY <1>3, <2>1, <2>2, <2>3
<1>5. ASSUME Once(s), Once(t), ToSet(s) \cap ToSet(t) = {} PROVE Once(r)
  <2> SUFFICES ASSUME NEW i \in 1..Len(r), NEW j \in 1..Len(r), r[i] = r[j] PROVE i = j
    BY DEF Once
  <2>1. \A k \in 1..Len(r) : \/ k \in 1..a /\ r[k] = s[k] /\ r[k] \in ToSet(s)
                             \/ k - a \in 1..b /\ r[k] = t[k - a] /\ r[k] \in ToSet(t)
    <3> TAKE k \in 1..Len(r)
    <3>1. CASE k <= a
      <4>1. k \in 1..a /\ r[k] = s[k]
        BY <1>1, <1>2, <3>1
      <4> QED
        BY <1>3, <4>1
    <3>2. CASE ~ (k <= a)
      <4>1. k - a \in 1..b /\ r[k] = t[k - a]
        BY <1>1, <1>2, <3>2
      <4> QED
        BY <1>3, <4>1
    <3> QED
      BY <3>1, <3>2
  <2>2. CASE i \in 1..a /\ r[i] = s[i] /\ j \in 1..a /\ r[j] = s[j]
    BY <1>5, <2>2 DEF Once, a
  <2>3. CASE i - a \in 1..b /\ r[i] = t[i - a] /\ j - a \in 1..b /\ r[j] = t[j - a]
    <3>1. i - a = j - a
      BY <1>5, <2>3 DEF Once, b
    <3> QED
      BY <1>1, <3>1
  <2> QED
    BY <1>5, <2>1, <2>2, <2>3
<1> QED
  BY <1>1, <1>4, <1>5 DEF r

\* Chains with nothing in common, one behind the other.
LEMMA FlatIs ==
  ASSUME NEW X, NEW seqs \in Seq(Seq(X)), Len(seqs) > 0,
         \A i \in 1..Len(seqs) : Once(seqs[i]),
         \A i, j \in 1..Len(seqs) : \A y : y \in ToSet(seqs[i]) /\ y \in ToSet(seqs[j]) => i = j
  PROVE  /\ FlattenSeq(seqs) \in Seq(X) /\ Once(FlattenSeq(seqs))
         /\ \A y : y \in ToSet(FlattenSeq(seqs)) <=> \E i \in 1..Len(seqs) : y \in ToSet(seqs[i])
<1> DEFINE n == Len(seqs)
           S == Seq(X)
           a == seqs[1]
           h == [p \in Nat \X S |-> IF p[1] + 2 <= n THEN p[2] \o seqs[p[1] + 2] ELSE p[2]]
           E(w) == w = [i \in 1..n |-> IF i = 1 THEN seqs[i] ELSE w[i - 1] \o seqs[i]]
<1>1. n \in Nat /\ n > 0 /\ (\A i \in 1..n : seqs[i] \in S) /\ a \in S
  OBVIOUS
<1>2. h \in [Nat \X S -> S]
  <2>1. ASSUME NEW p \in Nat \X S
        PROVE  (IF p[1] + 2 <= n THEN p[2] \o seqs[p[1] + 2] ELSE p[2]) \in S
    <3>1. p[1] \in Nat /\ p[2] \in S
      OBVIOUS
    <3>2. CASE p[1] + 2 <= n
      <4>1. seqs[p[1] + 2] \in S
        BY <1>1, <3>1, <3>2
      <4> QED
        BY <3>1, <3>2, <4>1
    <3> QED
      BY <3>1, <3>2
  <2> HIDE DEF S, n
  <2> QED
    BY <2>1
<1>3. PICK f \in [Nat -> S] : f[0] = a /\ \A k \in Nat : f[k + 1] = h[<<k, f[k]>>]
  <2> HIDE DEF h, S, a
  <2>1. Iterates(S, a, h) # {}
    BY <1>1, <1>2, RecursionOnNat
  <2> QED
    BY <2>1 DEF Iterates
<1> DEFINE w0 == [i \in 1..n |-> f[i - 1]]
<1>4. E(w0)
  <2>1. ASSUME NEW i \in 1..n
        PROVE  f[i - 1] = IF i = 1 THEN seqs[i] ELSE w0[i - 1] \o seqs[i]
    <3>1. CASE i = 1
      BY <1>3, <3>1
    <3>2. CASE i # 1
      <4>1. i - 2 \in Nat /\ (i - 2) + 1 = i - 1 /\ (i - 2) + 2 <= n /\ (i - 2) + 2 = i /\ i - 1 \in 1..n /\ (i - 1) - 1 = i - 2
        BY <1>1, <3>2
      <4>2. f[i - 1] = h[<<i - 2, f[i - 2]>>] /\ f[i - 2] \in S
        <5> HIDE DEF h, S
        <5> QED
          BY <1>3, <4>1
      <4>3. h[<<i - 2, f[i - 2]>>] = f[i - 2] \o seqs[i]
        <5> HIDE DEF S, n
        <5> QED
          BY <4>1, <4>2
      <4>4. w0[i - 1] = f[i - 2]
        BY <4>1
      <4> HIDE DEF w0, h
      <4> QED
        BY <3>2, <4>2, <4>3, <4>4
    <3> QED
      BY <3>1, <3>2
  <2>2. [i \in 1..n |-> f[i - 1]] = [i \in 1..n |-> IF i = 1 THEN seqs[i] ELSE w0[i - 1] \o seqs[i]]
    <3> HIDE DEF w0, n
    <3> QED
      BY <2>1
  <2> HIDE DEF n
  <2> QED
    BY <2>2
<1> HIDE DEF E
<1> DEFINE v == CHOOSE w : E(w)
<1>5. E(v)
  BY <1>4
<1> HIDE DEF v
<1>6. FlattenSeq(seqs) = v[n]
  BY <1>1 DEF FlattenSeq, v, E
<1>7. v[1] = seqs[1] /\ \A i \in 2..n : v[i] = v[i - 1] \o seqs[i]
  <2> HIDE DEF n
  <2>1. \A i \in 1..n : v[i] = IF i = 1 THEN seqs[i] ELSE v[i - 1] \o seqs[i]
    BY <1>5 DEF E
  <2>2. 1 \in 1..n
    BY <1>1
  <2>3. v[1] = seqs[1]
    BY <2>1, <2>2
  <2>4. ASSUME NEW i \in 2..n PROVE v[i] = v[i - 1] \o seqs[i]
    <3>1. i \in 1..n /\ i # 1
      BY <1>1
    <3> HIDE DEF v
    <3> QED
      BY <2>1, <3>1
  <2> QED
    BY <2>3, <2>4
<1> HIDE DEF h, w0, n, S, a
<1> DEFINE P(k) == /\ v[k] \in Seq(X) /\ Once(v[k])
                   /\ \A y : y \in ToSet(v[k]) <=> \E i \in 1..k : y \in ToSet(seqs[i])
           G == {k \in Nat : k + 1 <= n => P(k + 1)}
<1>8. 0 \in G
  <2>1. 0 + 1 = 1 /\ 1 \in 1..n /\ \A i \in 1..1 : i = 1
    BY <1>1
  <2>2. seqs[1] \in Seq(X) /\ Once(seqs[1])
    BY <1>1, <2>1 DEF S, n
  <2>3. \A y : y \in ToSet(v[1]) <=> \E i \in 1..1 : y \in ToSet(seqs[i])
    BY <1>7, <2>1
  <2>4. P(1)
    BY <1>7, <2>2, <2>3
  <2> HIDE DEF P
  <2> QED
    BY <2>1, <2>4
<1>9. ASSUME NEW k \in Nat, k \in G PROVE k + 1 \in G
  <2> SUFFICES ASSUME k + 1 + 1 <= n PROVE P(k + 1 + 1)
    <3> HIDE DEF P
    <3> QED
      OBVIOUS
  <2> DEFINE j == k + 1
  <2>1. P(j)
    <3>1. k + 1 <= n
      BY <1>1
    <3> QED
      BY <1>9, <3>1
  <2>2. j + 1 \in 2..n /\ j + 1 \in 1..n /\ (j + 1) - 1 = j /\ j \in Nat
    BY <1>1
  <2> HIDE DEF j
  <2>3. v[j + 1] = v[j] \o seqs[j + 1] /\ seqs[j + 1] \in Seq(X) /\ Once(seqs[j + 1])
    <3>1. seqs[j + 1] \in Seq(X) /\ Once(seqs[j + 1])
      BY <1>1, <2>2 DEF S, n
    <3> QED
      BY <1>7, <2>2, <3>1
  <2>4. \A i \in 1..j + 1 : i \in 1..j \/ i = j + 1
    BY <2>2
  <2>5. \A i \in 1..j : i \in 1..j + 1 /\ i # j + 1 /\ i \in 1..n
    BY <1>1, <2>2
  <2>6. j + 1 \in 1..j + 1
    BY <2>2
  <2>7. ToSet(v[j]) \cap ToSet(seqs[j + 1]) = {}
    <3> SUFFICES ASSUME NEW y, y \in ToSet(v[j]), y \in ToSet(seqs[j + 1]) PROVE FALSE
      OBVIOUS
    <3>1. PICK i \in 1..j : y \in ToSet(seqs[i])
      BY <2>1
    <3>2. i = j + 1
      BY <2>2, <2>5, <3>1 DEF n
    <3> QED
      BY <2>5, <3>2
  <2>8. v[j + 1] \in Seq(X) /\ Once(v[j + 1])
    BY <2>1, <2>3, <2>7, AppendIs
  <2>9. \A y : y \in ToSet(v[j + 1]) <=> y \in ToSet(v[j]) \/ y \in ToSet(seqs[j + 1])
    BY <2>1, <2>3, AppendIs
  <2>10. ASSUME NEW y PROVE y \in ToSet(v[j + 1]) <=> \E i \in 1..j + 1 : y \in ToSet(seqs[i])
    <3>1. y \in ToSet(v[j]) <=> \E i \in 1..j : y \in ToSet(seqs[i])
      BY <2>1
    <3>2. y \in ToSet(v[j + 1]) <=> y \in ToSet(v[j]) \/ y \in ToSet(seqs[j + 1])
      BY <2>9
    <3> QED
      BY <2>4, <2>5, <2>6, <3>1, <3>2
  <2>11. P(j + 1)
    BY <2>8, <2>10
  <2> HIDE DEF P
  <2> QED
    BY <2>11 DEF j
<1> HIDE DEF G, P
<1>10. Nat \subseteq G
  BY <1>8, <1>9, NatInd
<1>11. n - 1 \in Nat /\ n - 1 + 1 = n
  BY <1>1
<1>12. P(n)
  <2> DEFINE k == n - 1
  <2>1. k \in Nat /\ k + 1 = n
    BY <1>11
  <2> HIDE DEF k
  <2>2. k \in G
    BY <1>10, <2>1
  <2>3. k + 1 <= n
    BY <1>1, <2>1
  <2>4. P(k + 1)
    BY <2>2, <2>3 DEF G
  <2> QED
    BY <2>1, <2>4
<1> QED
  BY <1>6, <1>12 DEF P, n

LEMMA LmodIs ==
  ASSUME NEW h \in Nat, NEW size \in Nat, size > 0
  PROVE  lmod(h, size) \in 1..size
BY DEF lmod

\* The lists of luaS_resize, string by string.
LEMMA ChainedIs ==
  ASSUME NEW X, NEW list \in Seq(X), Once(list), NEW size \in Nat, NEW G,
         \A x \in X : Home(G.text, x, size) \in 1..size
  PROVE  LET R == Chained(G, list, size) IN
         /\ R \in [1..size -> Seq(X)]
         /\ \A c \in 1..size : Once(R[c])
         /\ \A c \in 1..size : \A y : y \in ToSet(R[c]) <=> y \in ToSet(list) /\ Home(G.text, y, size) = c
<1> DEFINE n == Len(list)
           S == [1..size -> Seq(X)]
           a == [i \in 1..size |-> <<>>]
           at(x) == lmod(luaS_hash[G.text[x]], size)
           Push(t, x) == [t EXCEPT ![at(x)] = <<x>> \o @]
           h == [p \in Nat \X S |-> IF p[1] + 1 <= n THEN Push(p[2], list[p[1] + 1]) ELSE p[2]]
           E(w) == w = [k \in 0..n |-> IF k = 0 THEN a ELSE Push(w[k - 1], list[k])]
<1>1. n \in Nat /\ (\A i \in 1..n : list[i] \in X) /\ a \in S
  <2>1. a \in S
    OBVIOUS
  <2> QED
    BY <2>1
<1>2. \A x \in X : at(x) \in 1..size /\ at(x) = Home(G.text, x, size)
  BY DEF Home
<1> HIDE DEF at
<1>3. ASSUME NEW t \in S, NEW x \in X
      PROVE  /\ Push(t, x) \in S
             /\ Push(t, x)[at(x)] = <<x>> \o t[at(x)]
             /\ \A c \in 1..size : c # at(x) => Push(t, x)[c] = t[c]
  <2> DEFINE c == at(x)
  <2>1. c \in 1..size
    BY <1>2
  <2> HIDE DEF c
  <2>2. <<x>> \o t[c] \in Seq(X)
    <3>1. t[c] \in Seq(X)
      BY <2>1 DEF S
    <3> QED
      BY <3>1, ConsIs
  <2> DEFINE u == <<x>> \o t[c]
  <2> HIDE DEF u
  <2>3. /\ [t EXCEPT ![c] = u] \in S
        /\ [t EXCEPT ![c] = u][c] = u
        /\ \A k \in 1..size : k # c => [t EXCEPT ![c] = u][k] = t[k]
    BY <2>1, <2>2 DEF u
  <2>4. Push(t, x) = [t EXCEPT ![c] = u]
    BY DEF c, u
  <2> HIDE DEF S, Push
  <2> QED
    BY <2>3, <2>4 DEF c, u
<1> HIDE DEF Push, S, a
<1>4. h \in [Nat \X S -> S]
  <2>1. ASSUME NEW p \in Nat \X S
        PROVE  (IF p[1] + 1 <= n THEN Push(p[2], list[p[1] + 1]) ELSE p[2]) \in S
    <3>1. p[1] \in Nat /\ p[2] \in S
      OBVIOUS
    <3>2. CASE p[1] + 1 <= n
      <4>1. list[p[1] + 1] \in X
        BY <1>1, <3>1, <3>2
      <4> QED
        BY <1>3, <3>1, <3>2, <4>1
    <3> QED
      BY <3>1, <3>2
  <2> HIDE DEF n
  <2> QED
    BY <2>1
<1> HIDE DEF n
<1>5. PICK f \in [Nat -> S] : f[0] = a /\ \A k \in Nat : f[k + 1] = h[<<k, f[k]>>]
  <2> HIDE DEF h
  <2>1. Iterates(S, a, h) # {}
    BY <1>1, <1>4, RecursionOnNat
  <2> QED
    BY <2>1 DEF Iterates
<1> DEFINE w0 == [k \in 0..n |-> f[k]]
<1>6. E(w0)
  <2>1. ASSUME NEW k \in 0..n
        PROVE  f[k] = IF k = 0 THEN a ELSE Push(w0[k - 1], list[k])
    <3>1. CASE k = 0
      BY <1>5, <3>1
    <3>2. CASE k # 0
      <4>1. k - 1 \in Nat /\ (k - 1) + 1 = k /\ k <= n /\ k - 1 \in 0..n
        BY <1>1, <3>2
      <4>2. f[k] = h[<<k - 1, f[k - 1]>>] /\ f[k - 1] \in S
        <5> HIDE DEF h
        <5> QED
          BY <1>5, <4>1
      <4>3. h[<<k - 1, f[k - 1]>>] = Push(f[k - 1], list[k])
        BY <4>1, <4>2
      <4>4. w0[k - 1] = f[k - 1]
        BY <4>1
      <4> HIDE DEF w0, h
      <4> QED
        BY <3>2, <4>2, <4>3, <4>4
    <3> QED
      BY <3>1, <3>2
  <2>2. [k \in 0..n |-> f[k]] = [k \in 0..n |-> IF k = 0 THEN a ELSE Push(w0[k - 1], list[k])]
    <3> HIDE DEF w0
    <3> QED
      BY <2>1
  <2> QED
    BY <2>2
<1> HIDE DEF E
<1> DEFINE v == CHOOSE w : E(w)
<1>7. E(v)
  BY <1>6
<1> HIDE DEF v
<1>8. Chained(G, list, size) = v[n]
  BY DEF Chained, v, E, n, a, Push, at
<1>9. v[0] = a /\ \A k \in 0..n : k # 0 => v[k] = Push(v[k - 1], list[k])
  <2>1. \A k \in 0..n : v[k] = IF k = 0 THEN a ELSE Push(v[k - 1], list[k])
    BY <1>7 DEF E
  <2>2. 0 \in 0..n
    BY <1>1
  <2> QED
    BY <2>1, <2>2
<1> HIDE DEF h, w0
<1> DEFINE In(k, y) == \E i \in 1..k : list[i] = y
           P(k) == /\ v[k] \in S
                   /\ \A c \in 1..size : Once(v[k][c])
                   /\ \A c \in 1..size : \A y : y \in ToSet(v[k][c]) <=> In(k, y) /\ at(y) = c
           J == {k \in Nat : k <= n => P(k)}
<1>10. 0 \in J
  <2>1. \A y : ~ In(0, y)
    OBVIOUS
  <2>2. ASSUME NEW c \in 1..size PROVE v[0][c] = <<>>
    BY <1>9 DEF a
  <2>3. ASSUME NEW c \in 1..size PROVE Once(v[0][c]) /\ \A y : y \notin ToSet(v[0][c])
    BY <2>2 DEF Once, ToSet
  <2>4. v[0] \in S
    BY <1>1, <1>9
  <2> HIDE DEF In
  <2>5. P(0)
    BY <2>1, <2>3, <2>4
  <2> HIDE DEF P
  <2> QED
    BY <2>5
<1>11. ASSUME NEW k \in Nat, k \in J PROVE k + 1 \in J
  <2> SUFFICES ASSUME k + 1 <= n PROVE P(k + 1)
    <3> HIDE DEF P
    <3> QED
      OBVIOUS
  <2>1. P(k)
    <3>1. k <= n
      BY <1>1
    <3> HIDE DEF P
    <3> QED
      BY <1>11, <3>1
  <2>2. k + 1 \in 0..n /\ k + 1 # 0 /\ (k + 1) - 1 = k /\ k + 1 \in 1..n
    BY <1>1
  <2> DEFINE x == list[k + 1]
             c == at(x)
             t == v[k]
             u == v[k + 1]
  <2>3. x \in X /\ c \in 1..size /\ u = Push(t, x)
    BY <1>1, <1>2, <1>9, <2>2
  <2>4. ~ In(k, x)
    <3> SUFFICES ASSUME NEW i \in 1..k, list[i] = list[k + 1] PROVE FALSE
      OBVIOUS
    <3>1. i \in 1..n /\ i # k + 1
      BY <1>1, <2>2
    <3> QED
      BY <2>2, <3>1 DEF Once, n
  <2>5. \A y : In(k + 1, y) <=> In(k, y) \/ y = x
    <3>1. \A i \in 1..k + 1 : i \in 1..k \/ i = k + 1
      OBVIOUS
    <3>2. \A i \in 1..k : i \in 1..k + 1
      OBVIOUS
    <3>3. k + 1 \in 1..k + 1
      OBVIOUS
    <3> QED
      BY <3>1, <3>2, <3>3
  <2>6. /\ t \in S
        /\ \A d \in 1..size : Once(t[d])
        /\ \A d \in 1..size : \A y : y \in ToSet(t[d]) <=> In(k, y) /\ at(y) = d
    BY <2>1
  <2> HIDE DEF In, x, c, t, P
  <2>7. /\ u \in S /\ u[c] = <<x>> \o t[c]
        /\ \A d \in 1..size : d # c => u[d] = t[d]
    <3>1. /\ Push(t, x) \in S /\ Push(t, x)[at(x)] = <<x>> \o t[at(x)]
          /\ \A d \in 1..size : d # at(x) => Push(t, x)[d] = t[d]
      BY <1>3, <2>3, <2>6
    <3>2. u = Push(t, x) /\ c = at(x)
      BY <2>3 DEF c
    <3> HIDE DEF u
    <3> QED
      BY <3>1, <3>2
  <2>8. t[c] \in Seq(X) /\ x \notin ToSet(t[c])
    <3>1. t[c] \in Seq(X)
      BY <2>3, <2>6 DEF S
    <3> QED
      BY <2>3, <2>4, <2>6, <3>1
  <2> HIDE DEF u
  <2>9. Once(u[c]) /\ \A y : y \in ToSet(u[c]) <=> y = x \/ y \in ToSet(t[c])
    BY <2>3, <2>6, <2>7, <2>8, ConsIs
  <2>10. \A d \in 1..size : Once(u[d])
    BY <2>6, <2>7, <2>9
  <2>11. ASSUME NEW d \in 1..size, NEW y PROVE y \in ToSet(u[d]) <=> In(k + 1, y) /\ at(y) = d
    <3>1. CASE d = c
      <4>1. y \in ToSet(t[c]) <=> In(k, y) /\ at(y) = c
        BY <2>3, <2>6
      <4>2. y = x => at(y) = c
        BY DEF c
      <4> QED
        BY <2>5, <2>9, <3>1, <4>1, <4>2
    <3>2. CASE d # c
      <4>1. y \in ToSet(u[d]) <=> In(k, y) /\ at(y) = d
        BY <2>6, <2>7, <3>2
      <4>2. y = x => at(y) # d
        BY <3>2 DEF c
      <4> QED
        BY <2>5, <4>1, <4>2
    <3> QED
      BY <3>1, <3>2
  <2> QED
    BY <2>7, <2>10, <2>11 DEF P, u
<1> HIDE DEF J
<1>12. Nat \subseteq J
  BY <1>10, <1>11, NatInd
<1>13. P(n)
  <2> HIDE DEF P
  <2> QED
    BY <1>1, <1>12 DEF J
<1>14. \A y : y \in ToSet(list) <=> In(n, y)
  <2> QED
    BY ToSetIs DEF n
<1> HIDE DEF In
<1>15. ASSUME NEW c \in 1..size, NEW y
       PROVE  y \in ToSet(v[n][c]) <=> y \in ToSet(list) /\ Home(G.text, y, size) = c
  BY <1>13, <1>14 DEF at, Home
<1>16. v[n] \in [1..size -> Seq(X)] /\ \A c \in 1..size : Once(v[n][c])
  BY <1>13 DEF S
<1> HIDE DEF P
<1> QED
  BY <1>8, <1>15, <1>16

-----------------------------------------------------------------------------
(* The string table *)

LEMMA HashIs ==
  ASSUME NEW text, text \in [TString -> Contents \cup {NoText}], NEW size \in Nat, size > 0
  PROVE  \A ts \in Short(text) : /\ ts \in TString /\ text[ts] \in Contents \ Long
                                 /\ Home(text, ts, size) \in 1..size
<1> TAKE ts \in Short(text)
<1>1. ts \in TString /\ text[ts] \in Contents \ Long
  BY DEF Short
<1>2. luaS_hash[text[ts]] \in Nat
  BY <1>1, StringsAssumption
<1> QED
  BY <1>1, <1>2, LmodIs DEF Home

\* What the steps below make of a chain and of a string.
Dropped(hash, i, p) == [hash EXCEPT ![i] = RemoveAt(hash[i], p)]
Pushed(hash, i, ts) == [hash EXCEPT ![i] = <<ts>> \o hash[i]]
Put(f, ts, x) == [f EXCEPT ![ts] = x]

\* However long it becomes, a table has the same strings.
LEMMA ResizedPlaced ==
  ASSUME NEW G, G.text \in [TString -> Contents \cup {NoText}], G.hash \in Seq(Seq(TString)), Len(G.hash) > 0,
         Placed(G.hash, G.text), NEW n \in Nat, n > 0
  PROVE  LET R == Chained(G, FlattenSeq(G.hash), n) IN
         R \in Seq(Seq(TString)) /\ Len(R) = n /\ Placed(R, G.text)
<1> DEFINE hash == G.hash
           text == G.text
           X == Short(text)
           list == FlattenSeq(hash)
           R == Chained(G, list, n)
<1>0. hash \in Seq(Seq(TString)) /\ Len(hash) > 0 /\ Len(hash) \in Nat /\ Placed(hash, text)
  OBVIOUS
<1>1. \A ts \in X : ts \in TString /\ Home(text, ts, Len(hash)) \in 1..Len(hash) /\ Home(text, ts, n) \in 1..n
  BY <1>0, HashIs
<1>2. \A i \in 1..Len(hash) : \A y : y \in ToSet(hash[i]) <=> y \in X /\ Home(text, y, Len(hash)) = i
  BY <1>0 DEF Placed
<1>3. \A i, j \in 1..Len(hash) : \A y : y \in ToSet(hash[i]) /\ y \in ToSet(hash[j]) => i = j
  BY <1>2
<1>4. \A i \in 1..Len(hash) : Once(hash[i])
  BY <1>0 DEF Placed
<1> HIDE DEF hash, X
<1>5. /\ list \in Seq(TString) /\ Once(list)
      /\ \A y : y \in ToSet(list) <=> \E i \in 1..Len(hash) : y \in ToSet(hash[i])
  BY <1>0, <1>3, <1>4, FlatIs
<1>6. \A y : y \in ToSet(list) <=> y \in X
  BY <1>1, <1>2, <1>5
<1> HIDE DEF list
<1>7. list \in Seq(X)
  <2>1. \A i \in 1..Len(list) : list[i] \in X
    BY <1>5, <1>6, ToSetIs
  <2> QED
    BY <1>5, <2>1
<1> HIDE DEF text
<1>8. /\ R \in [1..n -> Seq(X)]
      /\ \A c \in 1..n : Once(R[c])
      /\ \A c \in 1..n : \A y : y \in ToSet(R[c]) <=> y \in ToSet(list) /\ Home(text, y, n) = c
  <2>1. \A x \in X : Home(G.text, x, n) \in 1..n
    BY <1>1 DEF text
  <2> QED
    BY <1>5, <1>7, <2>1, ChainedIs DEF text
<1> HIDE DEF R
<1>9. R \in Seq(Seq(X)) /\ Len(R) = n
  BY <1>8
<1>10. R \in Seq(Seq(TString))
  <2>1. \A s \in Seq(X) : s \in Seq(TString)
    BY <1>1
  <2>2. \A c \in 1..n : R[c] \in Seq(TString)
    BY <1>8, <2>1
  <2> QED
    BY <1>8, <2>2
<1>11. Placed(R, text)
  BY <1>6, <1>8, <1>9 DEF Placed, X
<1> QED
  BY <1>9, <1>10, <1>11 DEF R, list, hash, text

LEMMA TStringFinite == IsFiniteSet(TString) /\ memerrmsg \in TString /\ memerrmsg \notin Address
<1>1. IsFiniteSet(Address) /\ memerrmsg \notin Address
  BY StringsAssumption
<1>2. IsFiniteSet(Address \cup {memerrmsg})
  BY <1>1, FS_AddElement
<1> QED
  BY <1>1, <1>2 DEF TString

LEMMA ShortFinite ==
  ASSUME NEW text
  PROVE  IsFiniteSet(Short(text)) /\ Cardinality(Short(text)) \in Nat
<1>1. Short(text) \subseteq TString
  BY DEF Short
<1>2. IsFiniteSet(Short(text))
  BY <1>1, TStringFinite, FS_Subset
<1> QED
  BY <1>2, FS_CardinalityType

\* A string leaves the table, or enters it.
LEMMA Leaves ==
  ASSUME NEW text, text \in [TString -> Contents \cup {NoText}], NEW ts \in Short(text),
         NEW t, t = [text EXCEPT ![ts] = NoText]
  PROVE  /\ t \in [TString -> Contents \cup {NoText}]
         /\ \A y \in TString : t[y] = IF y = ts THEN NoText ELSE text[y]
         /\ Short(t) = Short(text) \ {ts}
         /\ Cardinality(Short(t)) = Cardinality(Short(text)) - 1
         /\ Unique(text) => Unique(t)
<1>1. ts \in TString
  BY DEF Short
<1>2. t \in [TString -> Contents \cup {NoText}] /\ \A y \in TString : t[y] = IF y = ts THEN NoText ELSE text[y]
  BY <1>1
<1>3. Short(t) = Short(text) \ {ts}
  BY <1>2 DEF Short
<1>4. Cardinality(Short(t)) = Cardinality(Short(text)) - 1
  BY <1>3, ShortFinite, FS_RemoveElement
<1>5. Unique(text) => Unique(t)
  BY <1>2, <1>3 DEF Unique, Short
<1> QED
  BY <1>2, <1>3, <1>4, <1>5

LEMMA Enters ==
  ASSUME NEW text, text \in [TString -> Contents \cup {NoText}], NEW ts \in TString, text[ts] = NoText,
         NEW str \in Contents \ Long, NEW t, t = [text EXCEPT ![ts] = str]
  PROVE  /\ t \in [TString -> Contents \cup {NoText}]
         /\ \A y \in TString : t[y] = IF y = ts THEN str ELSE text[y]
         /\ ts \notin Short(text) /\ Short(t) = Short(text) \cup {ts}
         /\ Cardinality(Short(t)) = Cardinality(Short(text)) + 1
         /\ Unique(text) /\ (\A y \in Short(text) : text[y] # str) => Unique(t)
<1>2. t \in [TString -> Contents \cup {NoText}] /\ \A y \in TString : t[y] = IF y = ts THEN str ELSE text[y]
  OBVIOUS
<1>3. str # NoText
  BY StringsAssumption
<1>4. ts \notin Short(text) /\ Short(t) = Short(text) \cup {ts}
  BY <1>2, <1>3 DEF Short
<1>5. Cardinality(Short(t)) = Cardinality(Short(text)) + 1
  BY <1>4, ShortFinite, FS_AddElement
<1>6. ASSUME Unique(text), \A y \in Short(text) : text[y] # str PROVE Unique(t)
  <2>1. \A y \in Short(text) : y \in TString /\ y # ts /\ t[y] = text[y]
    BY <1>2, <1>4 DEF Short
  <2>2. t[ts] = str
    BY <1>2
  <2> QED
    BY <1>4, <1>6, <2>1, <2>2 DEF Unique
<1> QED
  BY <1>2, <1>4, <1>5, <1>6

\* A long string comes or goes.
LEMMA Aside ==
  ASSUME NEW text, NEW t, Short(t) = Short(text), \A y \in Short(text) : t[y] = text[y]
  PROVE  /\ Unique(text) => Unique(t)
         /\ \A hash : Placed(hash, text) => Placed(hash, t)
<1>1. Unique(text) => Unique(t)
  BY DEF Unique
<1>2. ASSUME NEW hash, Placed(hash, text) PROVE Placed(hash, t)
  <2>1. \A y \in Short(text) : Home(t, y, Len(hash)) = Home(text, y, Len(hash))
    BY DEF Home
  <2> QED
    BY <1>2, <2>1 DEF Placed
<1> QED
  BY <1>1, <1>2

LEMMA RemovedPlaced ==
  ASSUME NEW text, text \in [TString -> Contents \cup {NoText}], NEW hash \in Seq(Seq(TString)), Len(hash) > 0,
         Placed(hash, text), NEW ts \in Short(text),
         NEW i, i = Home(text, ts, Len(hash)), NEW p \in 1..Len(hash[i]), hash[i][p] = ts
  PROVE  LET H == Dropped(hash, i, p) IN
         /\ H \in Seq(Seq(TString)) /\ Len(H) = Len(hash)
         /\ Placed(H, Put(text, ts, NoText))
<1> DEFINE s == hash[i]
           r == RemoveAt(s, p)
           H == Dropped(hash, i, p)
           t == Put(text, ts, NoText)
<1>0. H = [hash EXCEPT ![i] = r]
  BY DEF Dropped
<1> HIDE DEF H, t
<1>1. i \in 1..Len(hash) /\ Len(hash) \in Nat
  BY HashIs
<1>2. s \in Seq(TString) /\ Once(s) /\ ts \in ToSet(s)
  BY <1>1 DEF Placed
<1> HIDE DEF s
<1>3. p \in 1..Len(s) /\ s[p] = ts
  BY DEF s
<1>4. /\ r \in Seq(TString) /\ Once(r)
      /\ \A y : y \in ToSet(r) <=> y \in ToSet(s) /\ y # ts
  BY <1>2, <1>3, RemovedIs
<1> HIDE DEF r
<1>5. H \in Seq(Seq(TString)) /\ Len(H) = Len(hash)
  BY <1>0, <1>1, <1>4
<1>6. H[i] = r /\ \A j \in 1..Len(hash) : j # i => H[j] = hash[j]
  BY <1>0, <1>1
<1>7. /\ \A y \in TString : t[y] = IF y = ts THEN NoText ELSE text[y]
      /\ Short(t) = Short(text) \ {ts}
  <2>1. t = [text EXCEPT ![ts] = NoText]
    BY DEF t, Put
  <2> QED
    BY <2>1, Leaves
<1>8. \A y \in Short(t) : Home(t, y, Len(H)) = Home(text, y, Len(hash))
  BY <1>5, <1>7 DEF Home, Short
<1>9. \A j \in 1..Len(hash) : \A y : y \in ToSet(hash[j]) <=> y \in Short(text) /\ Home(text, y, Len(hash)) = j
  BY DEF Placed
<1>10. ASSUME NEW j \in 1..Len(H) PROVE Once(H[j])
  BY <1>4, <1>5, <1>6, <1>10 DEF Placed
<1>11. ASSUME NEW j \in 1..Len(H), NEW y
       PROVE  y \in ToSet(H[j]) <=> y \in Short(t) /\ Home(t, y, Len(H)) = j
  <2>1. CASE j = i
    BY <1>1, <1>4, <1>6, <1>7, <1>8, <1>9, <2>1 DEF s
  <2>2. CASE j # i
    <3>1. y = ts => Home(text, y, Len(hash)) # j
      BY <2>2
    <3> QED
      BY <1>5, <1>6, <1>7, <1>8, <1>9, <2>2, <3>1
  <2> QED
    BY <2>1, <2>2
<1>12. Placed(H, t)
  BY <1>10, <1>11 DEF Placed
<1> QED
  BY <1>5, <1>12 DEF H, t

LEMMA EnteredPlaced ==
  ASSUME NEW text, text \in [TString -> Contents \cup {NoText}], NEW hash \in Seq(Seq(TString)), Len(hash) > 0,
         Placed(hash, text), NEW ts \in TString, text[ts] = NoText, NEW str \in Contents \ Long,
         NEW i, i = lmod(luaS_hash[str], Len(hash))
  PROVE  LET H == Pushed(hash, i, ts) IN
         /\ H \in Seq(Seq(TString)) /\ Len(H) = Len(hash)
         /\ Placed(H, Put(text, ts, str))
<1> DEFINE s == hash[i]
           r == <<ts>> \o s
           H == Pushed(hash, i, ts)
           t == Put(text, ts, str)
<1>0. H = [hash EXCEPT ![i] = r]
  BY DEF Pushed
<1> HIDE DEF H, t
<1>1. i \in 1..Len(hash) /\ Len(hash) \in Nat
  <2>1. luaS_hash[str] \in Nat
    BY StringsAssumption
  <2>2. Len(hash) \in Nat
    OBVIOUS
  <2>3. lmod(luaS_hash[str], Len(hash)) \in 1..Len(hash)
    BY <2>1, <2>2, LmodIs
  <2> QED
    BY <2>2, <2>3
<1>2. s \in Seq(TString) /\ Once(s) /\ ts \notin ToSet(s)
  BY <1>1 DEF Placed, Short
<1> HIDE DEF s
<1>4. /\ r \in Seq(TString) /\ Once(r)
      /\ \A y : y \in ToSet(r) <=> y = ts \/ y \in ToSet(s)
  BY <1>2, ConsIs
<1> HIDE DEF r
<1>5. H \in Seq(Seq(TString)) /\ Len(H) = Len(hash)
  BY <1>0, <1>1, <1>4
<1>6. H[i] = r /\ \A j \in 1..Len(hash) : j # i => H[j] = hash[j]
  BY <1>0, <1>1
<1>7. /\ \A y \in TString : t[y] = IF y = ts THEN str ELSE text[y]
      /\ ts \notin Short(text) /\ Short(t) = Short(text) \cup {ts}
  <2>1. \A y \in TString : t[y] = IF y = ts THEN str ELSE text[y]
    BY DEF t, Put
  <2>2. str # NoText
    BY StringsAssumption
  <2> QED
    BY <2>1, <2>2 DEF Short
<1>8. \A y \in Short(text) : Home(t, y, Len(H)) = Home(text, y, Len(hash))
  BY <1>5, <1>7 DEF Home, Short
<1>13. Home(t, ts, Len(H)) = i
  BY <1>5, <1>7 DEF Home
<1>9. \A j \in 1..Len(hash) : \A y : y \in ToSet(hash[j]) <=> y \in Short(text) /\ Home(text, y, Len(hash)) = j
  BY DEF Placed
<1>10. ASSUME NEW j \in 1..Len(H) PROVE Once(H[j])
  BY <1>4, <1>5, <1>6, <1>10 DEF Placed
<1>11. ASSUME NEW j \in 1..Len(H), NEW y
       PROVE  y \in ToSet(H[j]) <=> y \in Short(t) /\ Home(t, y, Len(H)) = j
  <2>1. CASE j = i
    BY <1>1, <1>4, <1>6, <1>7, <1>8, <1>9, <1>13, <2>1 DEF s
  <2>2. CASE j # i
    BY <1>5, <1>6, <1>7, <1>8, <1>9, <1>13, <2>2
  <2> QED
    BY <2>1, <2>2
<1>12. Placed(H, t)
  BY <1>10, <1>11 DEF Placed
<1> QED
  BY <1>5, <1>12 DEF H, t

LEMMA ResizeStep ==
  ASSUME NEW G, NEW S, Good(G, S), NEW n \in Nat, n > 0
  PROVE  LET R == luaS_resize(G, n) IN
         /\ Good(R, S) /\ Len(R.hash) = n
         /\ R.gcstate = G.gcstate /\ R.mark = G.mark /\ R.strcache = G.strcache
         /\ R.sweepgc = G.sweepgc /\ R.text = G.text
<1> DEFINE h == Chained(G, FlattenSeq(G.hash), n)
           R == luaS_resize(G, n)
<1>1. R = WithHash(G, h)
  BY DEF luaS_resize, WithHash
<1>2. Types(G) /\ Placed(G.hash, G.text)
  BY DEF Good
<1>3. h \in Seq(Seq(TString)) /\ Len(h) = n /\ Placed(h, G.text)
  BY <1>2, ResizedPlaced DEF Types
<1> HIDE DEF h, R
<1>4. /\ Rec(R) /\ R.gcstate = G.gcstate /\ R.hash = h /\ R.mark = G.mark
      /\ R.nuse = G.nuse /\ R.strcache = G.strcache /\ R.sweepgc = G.sweepgc /\ R.text = G.text
  BY <1>1, <1>2, HashSet DEF Types
<1>5. Types(R)
  BY <1>2, <1>3, <1>4 DEF Types
<1>6. Good(R, S)
  BY <1>3, <1>4, <1>5 DEF Good
<1> QED
  BY <1>3, <1>4, <1>6 DEF R

-----------------------------------------------------------------------------
(* The collector *)

\* Some strings may have been freed.
Fewer(G, H) == Len(H.hash) = Len(G.hash) /\ \A ts \in TString : H.text[ts] \in {G.text[ts], NoText}

\* Where a string is in its chain.
At(chain, ts) == CHOOSE j \in DOMAIN chain : chain[j] = ts

LEMMA RemoveIs ==
  ASSUME NEW G, Rec(G), NEW ts
  PROVE  LET i == Place(G, ts)
             p == At(G.hash[i], ts)
             R == luaS_remove(G, ts) IN
         /\ Rec(R) /\ R.gcstate = G.gcstate /\ R.mark = G.mark /\ R.strcache = G.strcache
         /\ R.sweepgc = G.sweepgc /\ R.text = G.text
         /\ R.hash = Dropped(G.hash, i, p) /\ R.nuse = G.nuse - 1
<1> DEFINE i == Place(G, ts)
           p == At(G.hash[i], ts)
           h == Dropped(G.hash, i, p)
           k == G.nuse - 1
           R == luaS_remove(G, ts)
           G1 == WithHash(G, h)
<1>1. R = [G EXCEPT !.hash = h, !.nuse = k]
  BY DEF luaS_remove, Dropped, At
<1> HIDE DEF R, h, k
<1>2. [G EXCEPT !.hash = h, !.nuse = k] = [[G EXCEPT !.hash = h] EXCEPT !.nuse = k]
  OBVIOUS
<1>3. R = WithCount(G1, k)
  BY <1>1, <1>2 DEF WithCount, WithHash
<1> HIDE DEF G1
<1>4. /\ Rec(G1) /\ G1.gcstate = G.gcstate /\ G1.hash = h /\ G1.mark = G.mark
      /\ G1.nuse = G.nuse /\ G1.strcache = G.strcache /\ G1.sweepgc = G.sweepgc /\ G1.text = G.text
  BY HashSet DEF G1
<1>5. /\ Rec(R) /\ R.gcstate = G1.gcstate /\ R.hash = G1.hash /\ R.mark = G1.mark
      /\ R.nuse = k /\ R.strcache = G1.strcache /\ R.sweepgc = G1.sweepgc /\ R.text = G1.text
  BY <1>3, <1>4, CountSet
<1> QED
  BY <1>4, <1>5 DEF R, h, k

LEMMA FreedIs ==
  ASSUME NEW G, Rec(G), NEW ts
  PROVE  LET i == Place(G, ts)
             p == At(G.hash[i], ts)
             R == freeobj(G, ts) IN
         /\ Rec(R) /\ R.gcstate = G.gcstate /\ R.strcache = G.strcache /\ R.sweepgc = G.sweepgc
         /\ R.text = [G.text EXCEPT ![ts] = NoText] /\ R.mark = [G.mark EXCEPT ![ts] = "free"]
         /\ G.text[ts] \in Long => R.hash = G.hash /\ R.nuse = G.nuse
         /\ G.text[ts] \notin Long =>
              R.hash = Dropped(G.hash, i, p) /\ R.nuse = G.nuse - 1
<1> DEFINE i == Place(G, ts)
           p == At(G.hash[i], ts)
           h == Dropped(G.hash, i, p)
           t == [G.text EXCEPT ![ts] = NoText]
           m == [G.mark EXCEPT ![ts] = "free"]
           H == IF G.text[ts] \in Long THEN G ELSE luaS_remove(G, ts)
           H1 == WithText(H, t)
           R == freeobj(G, ts)
<1>1. /\ Rec(H) /\ H.gcstate = G.gcstate /\ H.mark = G.mark /\ H.strcache = G.strcache
      /\ H.sweepgc = G.sweepgc /\ H.text = G.text
      /\ G.text[ts] \in Long => H.hash = G.hash /\ H.nuse = G.nuse
      /\ G.text[ts] \notin Long => H.hash = h /\ H.nuse = G.nuse - 1
  <2>1. CASE G.text[ts] \in Long
    BY <2>1
  <2>2. CASE G.text[ts] \notin Long
    <3>1. H = luaS_remove(G, ts)
      BY <2>2
    <3> HIDE DEF H
    <3> QED
      BY <2>2, <3>1, RemoveIs
  <2> QED
    BY <2>1, <2>2
<1>2. R = [H EXCEPT !.text = [@ EXCEPT ![ts] = NoText], !.mark = [@ EXCEPT ![ts] = "free"]]
  BY DEF freeobj
<1> HIDE DEF H, R, h
<1>3. R = [H EXCEPT !.text = t, !.mark = m]
  BY <1>1, <1>2
<1> HIDE DEF t, m
<1>4. [H EXCEPT !.text = t, !.mark = m] = [[H EXCEPT !.text = t] EXCEPT !.mark = m]
  OBVIOUS
<1>5. R = WithMark(H1, m)
  BY <1>3, <1>4 DEF WithMark, WithText
<1> HIDE DEF H1
<1>6. /\ Rec(H1) /\ H1.gcstate = H.gcstate /\ H1.hash = H.hash /\ H1.mark = H.mark
      /\ H1.nuse = H.nuse /\ H1.strcache = H.strcache /\ H1.sweepgc = H.sweepgc /\ H1.text = t
  BY <1>1, TextSet DEF H1
<1>7. /\ Rec(R) /\ R.gcstate = H1.gcstate /\ R.hash = H1.hash /\ R.mark = m
      /\ R.nuse = H1.nuse /\ R.strcache = H1.strcache /\ R.sweepgc = H1.sweepgc /\ R.text = H1.text
  BY <1>5, <1>6, MarkSet
<1> QED
  BY <1>1, <1>6, <1>7 DEF R, t, m, h

\* What sweeplist does with one string, but for taking it off the list.
Disposed(G, ts) == IF isdead(G, ts) THEN freeobj(G, ts) ELSE WithMark(G, Put(G.mark, ts, "white"))

LEMMA SweptIs ==
  ASSUME NEW G, Rec(G), NEW ts
  PROVE  LET H == Disposed(G, ts)
             R == SweepOne(G, ts) IN
         /\ Rec(H) /\ Rec(R) /\ R.gcstate = H.gcstate /\ R.hash = H.hash /\ R.mark = H.mark
         /\ R.nuse = H.nuse /\ R.strcache = H.strcache /\ R.sweepgc = G.sweepgc \ {ts} /\ R.text = H.text
<1> DEFINE H == Disposed(G, ts)
           R == SweepOne(G, ts)
           s == G.sweepgc \ {ts}
<1>1. Rec(H) /\ H.sweepgc = G.sweepgc
  <2>1. CASE isdead(G, ts)
    <3>1. H = freeobj(G, ts)
      BY <2>1 DEF Disposed
    <3> HIDE DEF H
    <3> QED
      BY <3>1, FreedIs
  <2>2. CASE ~ isdead(G, ts)
    <3> DEFINE m == Put(G.mark, ts, "white")
    <3>1. H = WithMark(G, m)
      BY <2>2 DEF Disposed
    <3> HIDE DEF H, m
    <3> QED
      BY <3>1, MarkSet
  <2> QED
    BY <2>1, <2>2
<1>2. H = IF isdead(G, ts) THEN freeobj(G, ts) ELSE [G EXCEPT !.mark = [@ EXCEPT ![ts] = "white"]]
  BY DEF WithMark, Disposed, Put
<1> HIDE DEF H
<1>3. R = [H EXCEPT !.sweepgc = @ \ {ts}]
  BY <1>2 DEF SweepOne
<1> HIDE DEF R
<1>4. R = WithSweep(H, s)
  BY <1>1, <1>3 DEF WithSweep
<1> HIDE DEF s
<1>5. /\ Rec(R) /\ R.gcstate = H.gcstate /\ R.hash = H.hash /\ R.mark = H.mark
      /\ R.nuse = H.nuse /\ R.strcache = H.strcache /\ R.sweepgc = s /\ R.text = H.text
  BY <1>1, <1>4, SweepSet
<1> QED
  BY <1>1, <1>5 DEF H, R, s

\* A dead string is in neither the program nor the cache, and leaves; another one is white again.
LEMMA SweepStep ==
  ASSUME NEW G, NEW S, Good(G, S), NEW ts \in G.sweepgc
  PROVE  LET R == SweepOne(G, ts) IN
         Good(R, S) /\ Fewer(G, R) /\ R.gcstate = G.gcstate /\ R.sweepgc = G.sweepgc \ {ts}
<1> DEFINE R == SweepOne(G, ts)
<1>1. /\ Types(G) /\ Rec(G) /\ Coloured(G.mark, G.text) /\ Swept(G.gcstate, G.mark, G.sweepgc)
      /\ Unique(G.text) /\ Placed(G.hash, G.text) /\ G.nuse = Cardinality(Short(G.text))
      /\ S \in SUBSET TString /\ Alive(G.mark, S) /\ Alive(G.mark, ToSet(G.strcache))
  BY DEF Good, Types
<1>2. /\ ts \in TString /\ ts # memerrmsg /\ G.mark[ts] # "free" /\ G.text[ts] # NoText
      /\ G.gcstate # "propagate"
  BY <1>1, TStringFinite DEF Types, Coloured, Swept, TString
<1>3. /\ G.hash \in Seq(Seq(TString)) /\ Len(G.hash) > 0 /\ G.mark \in [TString -> Marks]
      /\ G.strcache \in [1..STRCACHE_M -> TString] /\ G.text \in [TString -> Contents \cup {NoText}]
      /\ G.sweepgc \in SUBSET Address /\ G.gcstate \in {"propagate", "sweep"}
  BY <1>1 DEF Types
<1>4. \A x \in ToSet(G.strcache) : x \in TString
  BY <1>3 DEF ToSet
<1>5. CASE isdead(G, ts)
  <2> DEFINE t == [G.text EXCEPT ![ts] = NoText]
             m == [G.mark EXCEPT ![ts] = "free"]
             i == Place(G, ts)
             p == At(G.hash[i], ts)
             h == Dropped(G.hash, i, p)
  <2>1. /\ Rec(R) /\ R.gcstate = G.gcstate /\ R.strcache = G.strcache /\ R.sweepgc = G.sweepgc \ {ts}
        /\ R.text = t /\ R.mark = m
        /\ G.text[ts] \in Long => R.hash = G.hash /\ R.nuse = G.nuse
        /\ G.text[ts] \notin Long => R.hash = h /\ R.nuse = G.nuse - 1
    <3> DEFINE H == Disposed(G, ts)
    <3>1. H = freeobj(G, ts)
      BY <1>5 DEF Disposed
    <3> HIDE DEF t, m, h
    <3>2. /\ Rec(R) /\ R.gcstate = H.gcstate /\ R.hash = H.hash /\ R.mark = H.mark
          /\ R.nuse = H.nuse /\ R.strcache = H.strcache /\ R.sweepgc = G.sweepgc \ {ts} /\ R.text = H.text
      BY <1>1, SweptIs
    <3> DEFINE F == freeobj(G, ts)
    <3> USE DEF t, m, h
    <3>4. /\ F.gcstate = G.gcstate /\ F.strcache = G.strcache /\ F.text = t /\ F.mark = m
          /\ G.text[ts] \in Long => F.hash = G.hash /\ F.nuse = G.nuse
          /\ G.text[ts] \notin Long => F.hash = h /\ F.nuse = G.nuse - 1
      BY <1>1, FreedIs
    <3> HIDE DEF H, R, F, t, m, h
    <3>3. /\ H.gcstate = G.gcstate /\ H.strcache = G.strcache /\ H.text = t /\ H.mark = m
          /\ G.text[ts] \in Long => H.hash = G.hash /\ H.nuse = G.nuse
          /\ G.text[ts] \notin Long => H.hash = h /\ H.nuse = G.nuse - 1
      BY <3>1, <3>4 DEF F
    <3> QED
      BY <3>2, <3>3
  <2> HIDE DEF R
  <2>2. /\ m \in [TString -> Marks] /\ m[ts] = "free" /\ \A y \in TString : y # ts => m[y] = G.mark[y]
    BY <1>2, <1>3 DEF Marks
  <2>3. /\ t \in [TString -> Contents \cup {NoText}] /\ t[ts] = NoText /\ \A y \in TString : y # ts => t[y] = G.text[y]
    BY <1>2, <1>3
  <2>4. G.mark[ts] = "other"
    BY <1>5 DEF isdead
  <2>5. /\ R.hash \in Seq(Seq(TString)) /\ Len(R.hash) = Len(G.hash)
        /\ Placed(R.hash, t) /\ Unique(t) /\ R.nuse = Cardinality(Short(t))
    <3>1. CASE G.text[ts] \in Long
      <4>1. Short(t) = Short(G.text) /\ \A y \in Short(G.text) : t[y] = G.text[y]
        BY <1>3, <2>3, <3>1 DEF Short
      <4> HIDE DEF t
      <4>2. Placed(G.hash, t) /\ Unique(t)
        BY <1>1, <4>1, Aside
      <4> QED
        BY <1>1, <1>3, <2>1, <3>1, <4>1, <4>2
    <3>2. CASE G.text[ts] \notin Long
      <4>1. ts \in Short(G.text)
        BY <1>2, <3>2 DEF Short
      <4>2. i = Home(G.text, ts, Len(G.hash))
        BY DEF Place, Home, Size
      <4>5. p \in 1..Len(G.hash[i]) /\ G.hash[i][p] = ts
        <5>1. i \in 1..Len(G.hash)
          <6>1. Len(G.hash) \in Nat
            BY <1>3
          <6>2. Home(G.text, ts, Len(G.hash)) \in 1..Len(G.hash)
            BY <1>3, <4>1, <6>1, HashIs
          <6> HIDE DEF i
          <6> QED
            BY <4>2, <6>2
        <5> HIDE DEF i
        <5>2. ts \in ToSet(G.hash[i])
          BY <1>1, <4>1, <4>2, <5>1 DEF Placed
        <5>3. \E j \in DOMAIN G.hash[i] : G.hash[i][j] = ts
          BY <5>2 DEF ToSet
        <5>4. p \in DOMAIN G.hash[i] /\ G.hash[i][p] = ts
          BY <5>3 DEF At
        <5>5. G.hash[i] \in Seq(TString)
          BY <1>3, <5>1
        <5> HIDE DEF p
        <5> QED
          BY <5>4, <5>5
      <4> HIDE DEF i, p
      <4>6. h = Dropped(G.hash, i, p) /\ t = Put(G.text, ts, NoText) /\ t = [G.text EXCEPT ![ts] = NoText]
        BY DEF Put
      <4> HIDE DEF h, t
      <4>3. h \in Seq(Seq(TString)) /\ Len(h) = Len(G.hash) /\ Placed(h, t)
        <5> DEFINE D == Dropped(G.hash, i, p)
                   u == Put(G.text, ts, NoText)
        <5>1. D \in Seq(Seq(TString)) /\ Len(D) = Len(G.hash) /\ Placed(D, u)
          <6> DEFINE x == G.hash
                     y == G.text
          <6>1. y \in [TString -> Contents \cup {NoText}] /\ x \in Seq(Seq(TString)) /\ Len(x) > 0
            BY <1>3
          <6>2. Placed(x, y) /\ ts \in Short(y) /\ i = Home(y, ts, Len(x)) /\ p \in 1..Len(x[i]) /\ x[i][p] = ts
            BY <1>1, <4>1, <4>2, <4>5
          <6> HIDE DEF x, y
          <6>3. /\ Dropped(x, i, p) \in Seq(Seq(TString)) /\ Len(Dropped(x, i, p)) = Len(x)
                /\ Placed(Dropped(x, i, p), Put(y, ts, NoText))
            BY <6>1, <6>2, RemovedPlaced
          <6> QED
            BY <6>3 DEF x, y
        <5> HIDE DEF D, u
        <5>2. h = D /\ t = u
          BY <4>6 DEF D, u
        <5> QED
          BY <5>1, <5>2
      <4>4. Cardinality(Short(t)) = Cardinality(Short(G.text)) - 1 /\ Unique(t)
        BY <1>1, <1>3, <4>1, <4>6, Leaves
      <4> QED
        BY <1>1, <2>1, <3>2, <4>3, <4>4
    <3> QED
      BY <3>1, <3>2
  <2> HIDE DEF t, m, h
  <2>6. Types(R)
    BY <1>3, <2>1, <2>2, <2>3, <2>5 DEF Types
  <2>7. Coloured(R.mark, R.text)
    BY <1>1, <1>2, <2>1, <2>2, <2>3, TStringFinite DEF Coloured
  <2>8. Swept(R.gcstate, R.mark, R.sweepgc)
    BY <1>1, <1>2, <1>3, <2>1, <2>2 DEF Swept, TString
  <2>9. ts \notin S /\ ts \notin ToSet(G.strcache)
    BY <1>1, <2>4 DEF Alive
  <2>10. Alive(R.mark, S) /\ Alive(R.mark, ToSet(R.strcache))
    BY <1>1, <1>4, <2>1, <2>2, <2>9 DEF Alive
  <2>11. Good(R, S)
    BY <1>1, <2>1, <2>5, <2>6, <2>7, <2>8, <2>10 DEF Good
  <2>12. Fewer(G, R)
    BY <2>1, <2>3, <2>5 DEF Fewer
  <2> QED
    BY <2>1, <2>11, <2>12 DEF R
<1>6. CASE ~ isdead(G, ts)
  <2> DEFINE m == [G.mark EXCEPT ![ts] = "white"]
  <2>1. /\ Rec(R) /\ R.gcstate = G.gcstate /\ R.strcache = G.strcache /\ R.sweepgc = G.sweepgc \ {ts}
        /\ R.text = G.text /\ R.mark = m /\ R.hash = G.hash /\ R.nuse = G.nuse
    <3> DEFINE H == Disposed(G, ts)
    <3>1. H = WithMark(G, m)
      BY <1>6 DEF Disposed, Put
    <3>2. /\ Rec(R) /\ R.gcstate = H.gcstate /\ R.hash = H.hash /\ R.mark = H.mark
          /\ R.nuse = H.nuse /\ R.strcache = H.strcache /\ R.sweepgc = G.sweepgc \ {ts} /\ R.text = H.text
      BY <1>1, SweptIs
    <3> HIDE DEF H, R, m
    <3>3. /\ H.gcstate = G.gcstate /\ H.strcache = G.strcache /\ H.text = G.text /\ H.mark = m
          /\ H.hash = G.hash /\ H.nuse = G.nuse
      BY <1>1, <3>1, MarkSet
    <3> QED
      BY <3>2, <3>3
  <2> HIDE DEF R
  <2>2. /\ m \in [TString -> Marks] /\ m[ts] = "white" /\ \A y \in TString : y # ts => m[y] = G.mark[y]
    BY <1>2, <1>3 DEF Marks
  <2> HIDE DEF m
  <2>6. Types(R)
    BY <1>3, <2>1, <2>2 DEF Types
  <2>7. Coloured(R.mark, R.text)
    BY <1>1, <1>2, <2>1, <2>2 DEF Coloured
  <2>8. Swept(R.gcstate, R.mark, R.sweepgc)
    BY <1>1, <1>2, <1>3, <2>1, <2>2 DEF Swept, TString
  <2>10. Alive(R.mark, S) /\ Alive(R.mark, ToSet(R.strcache))
    BY <1>1, <1>4, <2>1, <2>2 DEF Alive
  <2>11. Good(R, S)
    BY <1>1, <2>1, <2>6, <2>7, <2>8, <2>10 DEF Good
  <2>12. Fewer(G, R)
    BY <1>3, <2>1 DEF Fewer
  <2> QED
    BY <2>1, <2>11, <2>12 DEF R
<1> QED
  BY <1>5, <1>6

States(S) ==
  {G \in [gcstate : {"propagate", "sweep"}, hash : Seq(Seq(TString)), mark : [TString -> Marks], nuse : Nat,
          strcache : [1..STRCACHE_M -> TString], sweepgc : SUBSET Address, text : [TString -> Contents \cup {NoText}]] :
   Good(G, S)}

LEMMA StatesAre ==
  ASSUME NEW S, NEW G
  PROVE  G \in States(S) <=> Good(G, S)
<1>1. ASSUME Good(G, S) PROVE G \in States(S)
  <2>1. Rec(G) /\ Types(G) /\ G.nuse = Cardinality(Short(G.text))
    BY <1>1 DEF Good, Types
  <2>2. G.nuse \in Nat
    BY <2>1, ShortFinite
  <2>3. G = [gcstate |-> G.gcstate, hash |-> G.hash, mark |-> G.mark, nuse |-> G.nuse,
             strcache |-> G.strcache, sweepgc |-> G.sweepgc, text |-> G.text]
    BY <2>1 DEF Rec, State
  <2> QED
    BY <1>1, <2>1, <2>2, <2>3 DEF States, Types
<1> QED
  BY <1>1 DEF States

\* Nothing is left of the list, for every step takes one string off it.
LEMMA SweepAllStep ==
  ASSUME NEW G, NEW S, Good(G, S)
  PROVE  LET R == SweepAll(G) IN
         Good(R, S) /\ Fewer(G, R) /\ R.gcstate = G.gcstate /\ R.sweepgc = {}
<1> DEFINE T == States(S)
           one(H) == SweepOne(H, CHOOSE ts \in H.sweepgc : TRUE)
           f == [H \in T |-> IF H.sweepgc = {} THEN H ELSE one(H)]
           h == [p \in Nat \X T |-> f[p[2]]]
           E(w) == w = [n \in Nat |-> IF n = 0 \/ w[n - 1].sweepgc = {}
                                      THEN IF n = 0 THEN G ELSE w[n - 1] ELSE one(w[n - 1])]
           c == Cardinality(G.sweepgc)
<1>1. \A H : H \in T <=> Good(H, S)
  BY StatesAre
<1> HIDE DEF T
<1>2. ASSUME NEW H \in T
      PROVE  /\ f[H] \in T /\ f[H].gcstate = H.gcstate /\ Fewer(H, f[H])
             /\ IsFiniteSet(H.sweepgc)
             /\ H.sweepgc = {} => f[H] = H
             /\ H.sweepgc # {} => f[H] = one(H)
             /\ H.sweepgc # {} => Cardinality(f[H].sweepgc) = Cardinality(H.sweepgc) - 1
  <2>1. Good(H, S)
    BY <1>1
  <2>2. IsFiniteSet(H.sweepgc) /\ H.text \in [TString -> Contents \cup {NoText}]
    <3>1. H.sweepgc \in SUBSET Address /\ IsFiniteSet(Address)
      BY <2>1, StringsAssumption DEF Good, Types
    <3> QED
      BY <2>1, <3>1, FS_Subset DEF Good, Types
  <2>3. CASE H.sweepgc = {}
    <3>1. f[H] = H
      BY <2>3
    <3>2. Fewer(H, H)
      BY <2>2 DEF Fewer
    <3> HIDE DEF f
    <3> QED
      BY <2>2, <2>3, <3>1, <3>2
  <2>4. CASE H.sweepgc # {}
    <3> DEFINE ts == CHOOSE ts \in H.sweepgc : TRUE
    <3>1. ts \in H.sweepgc
      BY <2>4
    <3>2. f[H] = SweepOne(H, ts)
      BY <2>4
    <3> HIDE DEF ts, f
    <3>3. /\ Good(f[H], S) /\ Fewer(H, f[H]) /\ f[H].gcstate = H.gcstate
          /\ f[H].sweepgc = H.sweepgc \ {ts}
      BY <2>1, <3>1, <3>2, SweepStep
    <3>4. Cardinality(f[H].sweepgc) = Cardinality(H.sweepgc) - 1
      BY <2>2, <3>1, <3>3, FS_RemoveElement
    <3> QED
      BY <1>1, <2>2, <2>4, <3>2, <3>3, <3>4 DEF ts
  <2> QED
    BY <2>3, <2>4
<1>3. G \in T /\ h \in [Nat \X T -> T]
  <2> HIDE DEF f
  <2>1. \A p \in Nat \X T : f[p[2]] \in T
    BY <1>2
  <2> QED
    BY <1>1, <2>1
<1>4. PICK v0 \in [Nat -> T] : v0[0] = G /\ \A n \in Nat : v0[n + 1] = h[<<n, v0[n]>>]
  <2> HIDE DEF h
  <2>1. Iterates(T, G, h) # {}
    BY <1>3, RecursionOnNat
  <2> QED
    BY <2>1 DEF Iterates
<1>5. \A n \in Nat : v0[n + 1] = f[v0[n]] /\ v0[n] \in T
  <2> HIDE DEF f
  <2> QED
    BY <1>4
<1> HIDE DEF f, one
<1>6. E(v0)
  <2>1. ASSUME NEW n \in Nat
        PROVE  v0[n] = IF n = 0 \/ v0[n - 1].sweepgc = {} THEN IF n = 0 THEN G ELSE v0[n - 1] ELSE one(v0[n - 1])
    <3>1. CASE n = 0
      BY <1>4, <3>1
    <3>2. CASE n # 0
      <4>1. n - 1 \in Nat /\ (n - 1) + 1 = n
        BY <3>2
      <4>2. v0[n] = f[v0[n - 1]] /\ v0[n - 1] \in T
        BY <1>5, <4>1
      <4>3. v0[n] = IF v0[n - 1].sweepgc = {} THEN v0[n - 1] ELSE one(v0[n - 1])
        BY <1>2, <4>2
      <4> QED
        BY <3>2, <4>3
    <3> QED
      BY <3>1, <3>2
  <2>2. v0 = [n \in Nat |-> v0[n]]
    BY <1>4
  <2>3. [n \in Nat |-> v0[n]] = [n \in Nat |-> IF n = 0 \/ v0[n - 1].sweepgc = {}
                                               THEN IF n = 0 THEN G ELSE v0[n - 1] ELSE one(v0[n - 1])]
    BY <2>1
  <2> QED
    BY <2>2, <2>3
<1> HIDE DEF E
<1> DEFINE v == CHOOSE w : E(w)
<1>7. E(v)
  BY <1>6
<1> HIDE DEF v
<1>8. SweepAll(G) = v[c]
  BY DEF SweepAll, v, E, one, c
<1> HIDE DEF c, h
<1>9. v[0] = G /\ \A n \in Nat : v[n] \in T => v[n + 1] = f[v[n]]
  <2>1. \A n \in Nat : v[n] = IF n = 0 \/ v[n - 1].sweepgc = {}
                              THEN IF n = 0 THEN G ELSE v[n - 1] ELSE one(v[n - 1])
    BY <1>7 DEF E
  <2>2. v[0] = G
    BY <2>1
  <2>3. ASSUME NEW n \in Nat, v[n] \in T PROVE v[n + 1] = f[v[n]]
    <3>1. n + 1 \in Nat /\ n + 1 # 0 /\ (n + 1) - 1 = n
      OBVIOUS
    <3>2. v[n + 1] = IF v[n].sweepgc = {} THEN v[n] ELSE one(v[n])
      BY <2>1, <3>1
    <3> QED
      BY <1>2, <2>3, <3>2
  <2> QED
    BY <2>2, <2>3
<1>10. c \in Nat
  <2>1. IsFiniteSet(G.sweepgc)
    BY <1>2, <1>3
  <2> QED
    BY <2>1, FS_CardinalityType DEF c
<1> DEFINE P(n) == /\ v[n] \in T /\ v[n].gcstate = G.gcstate /\ Fewer(G, v[n])
                   /\ v[n].sweepgc = {} \/ Cardinality(v[n].sweepgc) = c - n
           J == {n \in Nat : P(n)}
<1>11. 0 \in J
  <2>1. Fewer(G, G)
    BY DEF Fewer, Good, Types
  <2> QED
    BY <1>3, <1>9, <1>10, <2>1 DEF c
<1>12. ASSUME NEW n \in Nat, n \in J PROVE n + 1 \in J
  <2>1. /\ v[n] \in T /\ v[n].gcstate = G.gcstate /\ Fewer(G, v[n])
        /\ v[n].sweepgc = {} \/ Cardinality(v[n].sweepgc) = c - n
    BY <1>12
  <2> DEFINE H == v[n]
             K == v[n + 1]
  <2>2. K = f[H]
    BY <1>9, <2>1
  <2> HIDE DEF H, K
  <2>3. /\ K \in T /\ K.gcstate = H.gcstate /\ Fewer(H, K)
        /\ H.sweepgc = {} => K = H
        /\ H.sweepgc # {} => Cardinality(K.sweepgc) = Cardinality(H.sweepgc) - 1
    BY <1>2, <2>1, <2>2 DEF H
  <2>4. Fewer(G, K)
    <3>1. Fewer(G, H)
      BY <2>1 DEF H
    <3> QED
      BY <2>3, <3>1 DEF Fewer
  <2>5. K.sweepgc = {} \/ Cardinality(K.sweepgc) = c - (n + 1)
    <3>1. H.sweepgc = {} \/ Cardinality(H.sweepgc) = c - n
      BY <2>1 DEF H
    <3>2. CASE H.sweepgc = {}
      BY <2>3, <3>2
    <3>3. CASE H.sweepgc # {}
      BY <1>10, <2>3, <3>1, <3>3
    <3> QED
      BY <3>2, <3>3
  <2>6. P(n + 1)
    BY <2>1, <2>3, <2>4, <2>5 DEF H, K
  <2> HIDE DEF P
  <2> QED
    BY <2>6
<1> HIDE DEF J
<1>13. Nat \subseteq J
  BY <1>11, <1>12, NatInd
<1>14. P(c)
  <2> HIDE DEF P
  <2> QED
    BY <1>10, <1>13 DEF J
<1> DEFINE R == v[c]
<1> HIDE DEF R
<1>15. /\ R \in T /\ R.gcstate = G.gcstate /\ Fewer(G, R)
       /\ R.sweepgc = {} \/ Cardinality(R.sweepgc) = c - c
  BY <1>14 DEF R
<1>16. R.sweepgc = {}
  <2>1. IsFiniteSet(R.sweepgc)
    BY <1>2, <1>15
  <2>2. c - c = 0
    BY <1>10
  <2> QED
    BY <1>15, <2>1, <2>2, FS_EmptySet
<1> QED
  BY <1>1, <1>8, <1>15, <1>16 DEF R

\* The colours after the marking of the atomic step.
Blackened(mark, S) == [ts \in TString |-> IF ts \in S /\ mark[ts] = "white" THEN "black" ELSE mark[ts]]

LEMMA AtomicIs ==
  ASSUME NEW G, Rec(G), NEW S
  PROVE  LET m == Blackened(G.mark, S)
             R == atomic(G, S) IN
         /\ Rec(R) /\ R.hash = G.hash /\ R.nuse = G.nuse /\ R.text = G.text
         /\ R.gcstate = "sweep" /\ R.sweepgc = Allocated(G) \ {memerrmsg}
         /\ R.mark = [ts \in TString |-> IF m[ts] = "white" THEN "other" ELSE m[ts]]
         /\ R.strcache = [j \in DOMAIN G.strcache |-> IF m[G.strcache[j]] \in {"white", "other"}
                                                      THEN memerrmsg ELSE G.strcache[j]]
<1> DEFINE m == Blackened(G.mark, S)
           A == WithMark(G, m)
           k == [j \in DOMAIN G.strcache |-> IF m[G.strcache[j]] \in {"white", "other"}
                                             THEN memerrmsg ELSE G.strcache[j]]
           B == WithCache(A, k)
           n == [ts \in TString |-> IF m[ts] = "white" THEN "other" ELSE m[ts]]
           all == Allocated(G) \ {memerrmsg}
           C == WithMark(B, n)
           D == WithPhase(C, "sweep")
           R == atomic(G, S)
<1>1. /\ Rec(A) /\ A.gcstate = G.gcstate /\ A.hash = G.hash /\ A.mark = m
      /\ A.nuse = G.nuse /\ A.strcache = G.strcache /\ A.sweepgc = G.sweepgc /\ A.text = G.text
  BY MarkSet
<1>2. A = [G EXCEPT !.mark = [ts \in TString |-> IF ts \in S /\ @[ts] = "white" THEN "black" ELSE @[ts]]]
  BY DEF WithMark, Blackened
<1> HIDE DEF A
<1>3. B = luaS_clearcache(A)
  <2>1. luaS_clearcache(A) = [A EXCEPT !.strcache = k]
    BY <1>1 DEF luaS_clearcache, iswhite
  <2> HIDE DEF k
  <2> QED
    BY <2>1 DEF WithCache
<1> HIDE DEF k
<1>4. /\ Rec(B) /\ B.gcstate = A.gcstate /\ B.hash = A.hash /\ B.mark = A.mark
      /\ B.nuse = A.nuse /\ B.strcache = k /\ B.sweepgc = A.sweepgc /\ B.text = A.text
  BY <1>1, CacheSet
<1> HIDE DEF B
<1>5. R = [B EXCEPT !.mark = [ts \in TString |-> IF @[ts] = "white" THEN "other" ELSE @[ts]],
                    !.gcstate = "sweep", !.sweepgc = all]
  BY <1>2, <1>3 DEF atomic
<1> HIDE DEF R, all
<1>6. R = [B EXCEPT !.mark = n, !.gcstate = "sweep", !.sweepgc = all]
  BY <1>1, <1>4, <1>5
<1> HIDE DEF n
<1>7. R = WithSweep(D, all)
  <2>1. [B EXCEPT !.mark = n, !.gcstate = "sweep", !.sweepgc = all]
          = [[[B EXCEPT !.mark = n] EXCEPT !.gcstate = "sweep"] EXCEPT !.sweepgc = all]
    OBVIOUS
  <2> QED
    BY <1>6, <2>1 DEF WithSweep, WithPhase, WithMark
<1>8. /\ Rec(C) /\ C.gcstate = B.gcstate /\ C.hash = B.hash /\ C.mark = n
      /\ C.nuse = B.nuse /\ C.strcache = B.strcache /\ C.sweepgc = B.sweepgc /\ C.text = B.text
  BY <1>4, MarkSet
<1> HIDE DEF C
<1>9. /\ Rec(D) /\ D.gcstate = "sweep" /\ D.hash = C.hash /\ D.mark = C.mark
      /\ D.nuse = C.nuse /\ D.strcache = C.strcache /\ D.sweepgc = C.sweepgc /\ D.text = C.text
  BY <1>8, PhaseSet
<1> HIDE DEF D
<1>10. /\ Rec(R) /\ R.gcstate = D.gcstate /\ R.hash = D.hash /\ R.mark = D.mark
       /\ R.nuse = D.nuse /\ R.strcache = D.strcache /\ R.sweepgc = all /\ R.text = D.text
  BY <1>7, <1>9, SweepSet
<1> QED
  BY <1>1, <1>4, <1>8, <1>9, <1>10 DEF R, k, n, all

\* With nothing left to sweep, a cycle may end its marking.
LEMMA AtomicStep ==
  ASSUME NEW G, NEW S, Good(G, S), G.sweepgc = {}
  PROVE  LET R == atomic(G, S) IN Good(R, S) /\ Fewer(G, R) /\ R.gcstate = "sweep"
<1> DEFINE m == Blackened(G.mark, S)
           n == [ts \in TString |-> IF m[ts] = "white" THEN "other" ELSE m[ts]]
           k == [j \in DOMAIN G.strcache |-> IF m[G.strcache[j]] \in {"white", "other"}
                                             THEN memerrmsg ELSE G.strcache[j]]
           R == atomic(G, S)
<1>1. /\ Types(G) /\ Rec(G) /\ Coloured(G.mark, G.text) /\ Swept(G.gcstate, G.mark, G.sweepgc)
      /\ Unique(G.text) /\ Placed(G.hash, G.text) /\ G.nuse = Cardinality(Short(G.text))
      /\ S \in SUBSET TString /\ Alive(G.mark, S) /\ Alive(G.mark, ToSet(G.strcache))
  BY DEF Good, Types
<1>2. /\ G.hash \in Seq(Seq(TString)) /\ Len(G.hash) > 0 /\ G.mark \in [TString -> Marks]
      /\ G.strcache \in [1..STRCACHE_M -> TString] /\ G.text \in [TString -> Contents \cup {NoText}]
  BY <1>1 DEF Types
<1>3. /\ Rec(R) /\ R.hash = G.hash /\ R.nuse = G.nuse /\ R.text = G.text
      /\ R.gcstate = "sweep" /\ R.sweepgc = Allocated(G) \ {memerrmsg}
      /\ R.mark = n /\ R.strcache = k
  BY <1>1, AtomicIs
<1> HIDE DEF R
<1>4. memerrmsg \in TString /\ (\A ts \in TString : ts # memerrmsg => ts \in Address)
  BY TStringFinite DEF TString
<1>5. \A ts \in TString : /\ G.mark[ts] \in Marks /\ G.mark[ts] # "other"
                          /\ G.mark[ts] = "gray" <=> ts = memerrmsg
                          /\ G.mark[ts] = "free" <=> G.text[ts] = NoText
  BY <1>1, <1>2 DEF Swept, Coloured
<1>6. \A ts \in TString : /\ n[ts] \in Marks
                          /\ n[ts] = "gray" <=> ts = memerrmsg
                          /\ n[ts] = "free" <=> G.text[ts] = NoText
                          /\ ts \in S => n[ts] # "other"
                          /\ m[ts] \notin {"white", "other"} => n[ts] # "other"
  BY <1>5 DEF Marks, Blackened
<1>7. n \in [TString -> Marks]
  BY <1>6
<1>8. /\ k \in [1..STRCACHE_M -> TString]
      /\ \A j \in 1..STRCACHE_M : k[j] # memerrmsg => k[j] = G.strcache[j] /\ m[k[j]] \notin {"white", "other"}
  BY <1>2, <1>4
<1> HIDE DEF n, k
<1>9. Types(R)
  <2>1. Allocated(G) \ {memerrmsg} \in SUBSET Address
    BY <1>4 DEF Allocated
  <2> QED
    BY <1>2, <1>3, <1>7, <1>8, <2>1 DEF Types
<1>10. Coloured(R.mark, R.text)
  BY <1>1, <1>3, <1>6 DEF Coloured
<1>11. Swept(R.gcstate, R.mark, R.sweepgc)
  BY <1>3, <1>6 DEF Swept, Allocated
<1>12. Alive(R.mark, S)
  <2>1. \A ts \in S : ts \in TString /\ G.mark[ts] # "free"
    BY <1>1 DEF Alive
  <2> QED
    BY <1>3, <1>5, <1>6, <2>1 DEF Alive
<1>13. Alive(R.mark, ToSet(R.strcache))
  <2> SUFFICES ASSUME NEW j \in 1..STRCACHE_M PROVE n[k[j]] \notin {"free", "other"}
    BY <1>3, <1>8 DEF Alive, ToSet
  <2>1. G.strcache[j] \in TString /\ G.mark[G.strcache[j]] # "free"
    BY <1>1, <1>2 DEF Alive, ToSet
  <2>2. CASE k[j] = memerrmsg
    <3>1. n[memerrmsg] = "gray"
      BY <1>4, <1>6
    <3> QED
      BY <2>2, <3>1
  <2>3. CASE k[j] # memerrmsg
    <3>1. k[j] = G.strcache[j] /\ m[k[j]] \notin {"white", "other"}
      BY <1>8, <2>3
    <3> HIDE DEF m
    <3> QED
      BY <1>5, <1>6, <2>1, <3>1
  <2> QED
    BY <2>2, <2>3
<1>14. Good(R, S)
  BY <1>1, <1>3, <1>9, <1>10, <1>11, <1>12, <1>13 DEF Good
<1>15. Fewer(G, R)
  BY <1>2, <1>3 DEF Fewer
<1> QED
  BY <1>3, <1>14, <1>15 DEF R

\* Another phase, when there is nothing to sweep.
LEMMA PhaseStep ==
  ASSUME NEW G, NEW S, Good(G, S), G.sweepgc = {}, NEW R, R = [G EXCEPT !.gcstate = "propagate"]
  PROVE  Good(R, S) /\ R.gcstate = "propagate" /\ R.hash = G.hash /\ R.text = G.text
<1>1. Types(G) /\ Rec(G)
  BY DEF Good, Types
<1>2. R = WithPhase(G, "propagate")
  BY DEF WithPhase
<1>3. /\ Rec(R) /\ R.gcstate = "propagate" /\ R.hash = G.hash /\ R.mark = G.mark
      /\ R.nuse = G.nuse /\ R.strcache = G.strcache /\ R.sweepgc = G.sweepgc /\ R.text = G.text
  BY <1>1, <1>2, PhaseSet
<1>4. Types(R)
  BY <1>1, <1>3 DEF Types
<1>5. Swept(R.gcstate, R.mark, R.sweepgc)
  BY <1>3 DEF Good, Swept
<1>6. Good(R, S)
  BY <1>3, <1>4, <1>5 DEF Good
<1> QED
  BY <1>3, <1>6

\* A whole collection keeps what the program refers to, and the size of the table.
LEMMA FullgcStep ==
  ASSUME NEW G, NEW S, Good(G, S)
  PROVE  LET R == fullgc(G, S) IN Good(R, S) /\ Fewer(G, R)
<1> DEFINE w == [ts \in TString |-> IF G.mark[ts] = "black" THEN "white" ELSE G.mark[ts]]
           W == WithMark(G, w)
           A == IF G.gcstate = "propagate" THEN W ELSE SweepAll(G)
           B == atomic(A, S)
           C == SweepAll(B)
           R == fullgc(G, S)
<1>1. /\ Types(G) /\ Rec(G) /\ Coloured(G.mark, G.text) /\ Swept(G.gcstate, G.mark, G.sweepgc)
      /\ S \in SUBSET TString /\ Alive(G.mark, S) /\ Alive(G.mark, ToSet(G.strcache))
      /\ G.mark \in [TString -> Marks] /\ G.strcache \in [1..STRCACHE_M -> TString]
      /\ G.text \in [TString -> Contents \cup {NoText}]
  BY DEF Good, Types
<1>2. W = [G EXCEPT !.mark = [ts \in TString |-> IF @[ts] = "black" THEN "white" ELSE @[ts]]]
  BY DEF WithMark
<1>3. Good(W, S) /\ Fewer(G, W) /\ W.sweepgc = G.sweepgc
  <2>1. /\ Rec(W) /\ W.gcstate = G.gcstate /\ W.hash = G.hash /\ W.mark = w
        /\ W.nuse = G.nuse /\ W.strcache = G.strcache /\ W.sweepgc = G.sweepgc /\ W.text = G.text
    BY <1>1, MarkSet
  <2>2. \A ts \in TString : /\ w[ts] \in Marks
                            /\ w[ts] \in {"gray", "other", "free"} \/ G.mark[ts] \in {"gray", "other", "free"}
                                 => w[ts] = G.mark[ts]
    BY <1>1 DEF Marks
  <2>3. w \in [TString -> Marks]
    BY <2>2
  <2> HIDE DEF W, w
  <2>4. Types(W)
    BY <1>1, <2>1, <2>3 DEF Types
  <2>5. Coloured(W.mark, W.text)
    BY <1>1, <2>1, <2>2 DEF Coloured
  <2>6. Swept(W.gcstate, W.mark, W.sweepgc)
    <3>1. \A ts \in W.sweepgc : ts \in TString
      BY <2>4 DEF Types, TString
    <3> QED
      BY <1>1, <2>1, <2>2, <3>1 DEF Swept
  <2>7. Alive(W.mark, S)
    BY <1>1, <2>1, <2>2 DEF Alive
  <2>8. Alive(W.mark, ToSet(W.strcache))
    <3>1. \A x \in ToSet(G.strcache) : x \in TString
      BY <1>1 DEF ToSet
    <3> QED
      BY <1>1, <2>1, <2>2, <3>1 DEF Alive
  <2>9. Good(W, S)
    BY <2>1, <2>4, <2>5, <2>6, <2>7, <2>8 DEF Good
  <2>10. Fewer(G, W)
    BY <1>1, <2>1 DEF Fewer
  <2> QED
    BY <2>1, <2>9, <2>10
<1>4. A = IF G.gcstate = "propagate"
          THEN [G EXCEPT !.mark = [ts \in TString |-> IF @[ts] = "black" THEN "white" ELSE @[ts]]]
          ELSE SweepAll(G)
  BY <1>2
<1>5. R = [C EXCEPT !.gcstate = "propagate"]
  <2> HIDE DEF W, A
  <2> QED
    BY <1>4 DEF fullgc
<1> HIDE DEF W, R
<1>6. Good(A, S) /\ Fewer(G, A) /\ A.sweepgc = {}
  <2>1. CASE G.gcstate = "propagate"
    <3>1. G.sweepgc = {}
      BY <1>1, <2>1 DEF Swept
    <3> QED
      BY <1>3, <2>1, <3>1
  <2>2. CASE G.gcstate # "propagate"
    <3>1. A = SweepAll(G)
      BY <2>2
    <3> HIDE DEF A
    <3> QED
      BY <3>1, SweepAllStep
  <2> QED
    BY <2>1, <2>2
<1> HIDE DEF A
<1>7. Good(B, S) /\ Fewer(A, B)
  BY <1>6, AtomicStep
<1> HIDE DEF B
<1>8. Good(C, S) /\ Fewer(B, C) /\ C.sweepgc = {}
  BY <1>7, SweepAllStep
<1> HIDE DEF C
<1>9. Good(R, S) /\ R.hash = C.hash /\ R.text = C.text
  BY <1>5, <1>8, PhaseStep
<1>10. Fewer(G, R)
  BY <1>6, <1>7, <1>8, <1>9 DEF Fewer
<1> QED
  BY <1>9, <1>10 DEF R

-----------------------------------------------------------------------------
(* New strings *)

\* What the program refers to once it has been given ts.
Given(S, ts) == IF ts = NULL THEN S ELSE S \cup {ts}

\* A string of these contents would be found.
Absent(G, str) == \A ts \in Short(G.text) : G.text[ts] # str

LEMMA AbsentFewer ==
  ASSUME NEW G, NEW H, Fewer(G, H), NEW str, Absent(G, str)
  PROVE  Absent(H, str)
BY DEF Absent, Fewer, Short

\* The string at ts, made, and in its chain.
Made(H, ts, str, list) ==
  LET new == [H EXCEPT !.text = [@ EXCEPT ![ts] = str], !.mark = [@ EXCEPT ![ts] = "white"]]
  IN IF str \in Long THEN new
     ELSE [new EXCEPT !.hash = [@ EXCEPT ![list] = <<ts>> \o H.hash[list]], !.nuse = @ + 1]

LEMMA MadeIs ==
  ASSUME NEW H, Rec(H), NEW ts, NEW str, NEW list
  PROVE  LET R == Made(H, ts, str, list) IN
         /\ Rec(R) /\ R.gcstate = H.gcstate /\ R.strcache = H.strcache /\ R.sweepgc = H.sweepgc
         /\ R.text = Put(H.text, ts, str) /\ R.mark = Put(H.mark, ts, "white")
         /\ str \in Long => R.hash = H.hash /\ R.nuse = H.nuse
         /\ str \notin Long => R.hash = Pushed(H.hash, list, ts) /\ R.nuse = H.nuse + 1
<1> DEFINE t == Put(H.text, ts, str)
           m == Put(H.mark, ts, "white")
           h == Pushed(H.hash, list, ts)
           k == H.nuse + 1
           A == WithText(H, t)
           N == WithMark(A, m)
           B == WithHash(N, h)
           C == WithCount(B, k)
           new == [H EXCEPT !.text = [@ EXCEPT ![ts] = str], !.mark = [@ EXCEPT ![ts] = "white"]]
           R == IF str \in Long THEN new ELSE [new EXCEPT !.hash = [@ EXCEPT ![list] = <<ts>> \o H.hash[list]], !.nuse = @ + 1]
<1>1. new = [H EXCEPT !.text = t, !.mark = m]
  BY DEF Put
<1> HIDE DEF new, t, m
<1>2. [H EXCEPT !.text = t, !.mark = m] = [[H EXCEPT !.text = t] EXCEPT !.mark = m]
  OBVIOUS
<1>3. new = N
  BY <1>1, <1>2 DEF WithText, WithMark
<1> HIDE DEF A, N
<1>4. /\ Rec(A) /\ A.gcstate = H.gcstate /\ A.hash = H.hash /\ A.mark = H.mark
      /\ A.nuse = H.nuse /\ A.strcache = H.strcache /\ A.sweepgc = H.sweepgc /\ A.text = t
  BY TextSet DEF A
<1>5. /\ Rec(N) /\ N.gcstate = A.gcstate /\ N.hash = A.hash /\ N.mark = m
      /\ N.nuse = A.nuse /\ N.strcache = A.strcache /\ N.sweepgc = A.sweepgc /\ N.text = A.text
  BY <1>4, MarkSet DEF N
<1>6. [N EXCEPT !.hash = [@ EXCEPT ![list] = <<ts>> \o H.hash[list]], !.nuse = @ + 1] = [N EXCEPT !.hash = h, !.nuse = k]
  <2>1. [N.hash EXCEPT ![list] = <<ts>> \o H.hash[list]] = h /\ N.nuse + 1 = k
    BY <1>4, <1>5 DEF Pushed
  <2> HIDE DEF h, k
  <2> QED
    BY <2>1
<1> HIDE DEF h, k
<1>7. [N EXCEPT !.hash = h, !.nuse = k] = [[N EXCEPT !.hash = h] EXCEPT !.nuse = k]
  OBVIOUS
<1>8. [N EXCEPT !.hash = h, !.nuse = k] = C
  BY <1>7 DEF WithHash, WithCount
<1> HIDE DEF B, C
<1>9. /\ Rec(B) /\ B.gcstate = N.gcstate /\ B.hash = h /\ B.mark = N.mark
      /\ B.nuse = N.nuse /\ B.strcache = N.strcache /\ B.sweepgc = N.sweepgc /\ B.text = N.text
  BY <1>5, HashSet DEF B
<1>10. /\ Rec(C) /\ C.gcstate = B.gcstate /\ C.hash = B.hash /\ C.mark = B.mark
       /\ C.nuse = k /\ C.strcache = B.strcache /\ C.sweepgc = B.sweepgc /\ C.text = B.text
  BY <1>9, CountSet DEF C
<1>11. R = IF str \in Long THEN N ELSE C
  BY <1>3, <1>6, <1>8
<1> HIDE DEF R
<1>12. /\ Rec(R) /\ R.gcstate = H.gcstate /\ R.strcache = H.strcache /\ R.sweepgc = H.sweepgc
       /\ R.text = t /\ R.mark = m
       /\ str \in Long => R.hash = H.hash /\ R.nuse = H.nuse
       /\ str \notin Long => R.hash = h /\ R.nuse = k
  BY <1>4, <1>5, <1>9, <1>10, <1>11
<1>13. Made(H, ts, str, list) = R
  BY DEF Made, R, new
<1> QED
  BY <1>12, <1>13 DEF t, m, h, k

LEMMA MadeStep ==
  ASSUME NEW H, NEW S, Good(H, S), NEW ts \in Address, H.text[ts] = NoText, NEW str \in Contents, NEW list,
         str \notin Long => list = lmod(luaS_hash[str], Len(H.hash)) /\ Absent(H, str),
         NEW R, Rec(R), R.gcstate = H.gcstate, R.strcache = H.strcache, R.sweepgc = H.sweepgc,
         R.text = Put(H.text, ts, str), R.mark = Put(H.mark, ts, "white"),
         str \in Long => R.hash = H.hash /\ R.nuse = H.nuse,
         str \notin Long => R.hash = Pushed(H.hash, list, ts) /\ R.nuse = H.nuse + 1
  PROVE  Good(R, S \cup {ts})
<1> DEFINE t == Put(H.text, ts, str)
           m == Put(H.mark, ts, "white")
<1>1. /\ Types(H) /\ Coloured(H.mark, H.text) /\ Swept(H.gcstate, H.mark, H.sweepgc)
      /\ Unique(H.text) /\ Placed(H.hash, H.text) /\ H.nuse = Cardinality(Short(H.text))
      /\ S \in SUBSET TString /\ Alive(H.mark, S) /\ Alive(H.mark, ToSet(H.strcache))
  BY DEF Good
<1>2. /\ H.hash \in Seq(Seq(TString)) /\ Len(H.hash) > 0 /\ H.mark \in [TString -> Marks]
      /\ H.strcache \in [1..STRCACHE_M -> TString] /\ H.text \in [TString -> Contents \cup {NoText}]
      /\ H.sweepgc \in SUBSET Address /\ H.gcstate \in {"propagate", "sweep"}
  BY <1>1 DEF Types
<1>3. ts \in TString /\ ts # memerrmsg /\ str # NoText
  BY StringsAssumption DEF TString
<1>4. /\ t \in [TString -> Contents \cup {NoText}] /\ t[ts] = str /\ \A y \in TString : y # ts => t[y] = H.text[y]
  BY <1>2, <1>3 DEF Put
<1>5. /\ m \in [TString -> Marks] /\ m[ts] = "white" /\ \A y \in TString : y # ts => m[y] = H.mark[y]
  BY <1>2, <1>3 DEF Marks, Put
<1>6. t = [H.text EXCEPT ![ts] = str]
  BY DEF Put
<1>7. R.text = t /\ R.mark = m
  OBVIOUS
<1>8. /\ R.hash \in Seq(Seq(TString)) /\ Len(R.hash) = Len(H.hash)
      /\ Placed(R.hash, t) /\ Unique(t) /\ R.nuse = Cardinality(Short(t))
  <2>1. CASE str \in Long
    <3>1. Short(t) = Short(H.text) /\ \A y \in Short(H.text) : t[y] = H.text[y]
      BY <1>2, <1>3, <1>4, <2>1 DEF Short
    <3> HIDE DEF t
    <3>2. Placed(H.hash, t) /\ Unique(t)
      BY <1>1, <3>1, Aside
    <3> QED
      BY <1>1, <1>2, <2>1, <3>1, <3>2
  <2>2. CASE str \notin Long
    <3> DEFINE P == Pushed(H.hash, list, ts)
    <3>1. str \in Contents \ Long
      BY <2>2
    <3>2. P \in Seq(Seq(TString)) /\ Len(P) = Len(H.hash) /\ Placed(P, t)
      BY <1>1, <1>2, <1>3, <2>2, <3>1, EnteredPlaced
    <3>3. \A y \in Short(H.text) : H.text[y] # str
      BY <2>2 DEF Absent
    <3> HIDE DEF t, P
    <3>4. Cardinality(Short(t)) = Cardinality(Short(H.text)) + 1 /\ Unique(t)
      BY <1>1, <1>2, <1>3, <1>6, <3>1, <3>3, Enters
    <3> QED
      BY <1>1, <2>2, <3>2, <3>4 DEF P
  <2> QED
    BY <2>1, <2>2
<1> HIDE DEF t, m
<1>9. Types(R)
  BY <1>2, <1>4, <1>5, <1>7, <1>8 DEF Types
<1>10. H.mark[ts] = "free" /\ H.mark[ts] # "gray"
  BY <1>1, <1>3 DEF Coloured
<1>11. Coloured(R.mark, R.text)
  BY <1>1, <1>3, <1>4, <1>5, <1>7, TStringFinite DEF Coloured
<1>12. Swept(R.gcstate, R.mark, R.sweepgc)
  <2>1. ts \notin H.sweepgc
    BY <1>1, <1>10 DEF Swept
  <2>2. \A y \in H.sweepgc : y \in TString /\ y # ts
    BY <1>2, <2>1 DEF TString
  <2> QED
    BY <1>1, <1>5, <1>7, <2>2 DEF Swept
<1>13. S \cup {ts} \in SUBSET TString /\ Alive(R.mark, S \cup {ts})
  BY <1>1, <1>3, <1>5, <1>7 DEF Alive
<1>14. Alive(R.mark, ToSet(R.strcache))
  <2>1. \A x \in ToSet(H.strcache) : x \in TString
    BY <1>2 DEF ToSet
  <2> QED
    BY <1>1, <1>5, <1>7, <2>1 DEF Alive
<1> QED
  BY <1>7, <1>8, <1>9, <1>11, <1>12, <1>13, <1>14 DEF Good

LEMMA CreateStep ==
  ASSUME NEW G, NEW S, Good(G, S), NEW str \in Contents, NEW list, NEW emergency,
         str \notin Long => list = lmod(luaS_hash[str], Len(G.hash)) /\ Absent(G, str)
  PROVE  LET r == createstrobj(G, str, list, emergency, S) IN
         Good(r.G, Given(S, r.ts)) /\ r.ts \in Address \cup {NULL}
<1> DEFINE H == IF emergency = "create" THEN fullgc(G, S) ELSE G
           free == {a \in Address : H.text[a] = NoText}
           ts == CHOOSE a \in free : \A b \in free : a <= b
           R == Made(H, ts, str, list)
           r == createstrobj(G, str, list, emergency, S)
<1>1. Good(H, S) /\ Fewer(G, H)
  <2>1. Fewer(G, G)
    BY DEF Fewer, Good, Types
  <2> QED
    BY <2>1, FullgcStep
<1>2. r = IF free = {} THEN [G |-> H, ts |-> NULL] ELSE [G |-> R, ts |-> ts]
  <2>1. CASE str \in Long
    BY <2>1 DEF createstrobj, Made
  <2>2. CASE str \notin Long
    BY <2>2 DEF createstrobj, Made
  <2> QED
    BY <2>1, <2>2
<1>3. NULL \notin Address
  BY StringsAssumption DEF NULL
<1> HIDE DEF H
<1>4. CASE free = {}
  <2>1. r.G = H /\ r.ts = NULL
    BY <1>2, <1>4
  <2> HIDE DEF r
  <2> QED
    BY <1>1, <2>1 DEF Given, r
<1>5. CASE free # {}
  <2>1. ts \in free
    <3>1. free \in SUBSET Nat
      BY StringsAssumption
    <3> HIDE DEF free
    <3>2. \E a \in free : \A b \in free : a <= b
      BY <1>5, <3>1, LeastOf
    <3> QED
      BY <3>2
  <2>2. ts \in Address /\ H.text[ts] = NoText
    BY <2>1
  <2>3. r = [G |-> R, ts |-> ts]
    BY <1>2, <1>5
  <2> HIDE DEF free, ts
  <2>4. Rec(H)
    BY <1>1 DEF Good, Types
  <2>5. /\ Rec(R) /\ R.gcstate = H.gcstate /\ R.strcache = H.strcache /\ R.sweepgc = H.sweepgc
        /\ R.text = Put(H.text, ts, str) /\ R.mark = Put(H.mark, ts, "white")
        /\ str \in Long => R.hash = H.hash /\ R.nuse = H.nuse
        /\ str \notin Long => R.hash = Pushed(H.hash, list, ts) /\ R.nuse = H.nuse + 1
    BY <2>4, MadeIs
  <2> HIDE DEF R, r
  <2>6. str \notin Long => list = lmod(luaS_hash[str], Len(H.hash)) /\ Absent(H, str)
    BY <1>1, AbsentFewer DEF Fewer
  <2>7. Good(R, S \cup {ts})
    BY <1>1, <2>2, <2>5, <2>6, MadeStep
  <2>8. r.G = R /\ r.ts = ts /\ ts # NULL
    BY <1>3, <2>2, <2>3
  <2> QED
    BY <2>2, <2>7, <2>8 DEF Given, r
<1> QED
  BY <1>4, <1>5

\* A short string that is found is alive again, or still.
LEMMA ResurrectStep ==
  ASSUME NEW G, NEW S, Good(G, S), NEW ts \in Short(G.text)
  PROVE  Good(resurrected(G, ts), S \cup {ts})
<1>1. /\ Types(G) /\ Rec(G) /\ Coloured(G.mark, G.text) /\ Swept(G.gcstate, G.mark, G.sweepgc)
      /\ S \in SUBSET TString /\ Alive(G.mark, S) /\ Alive(G.mark, ToSet(G.strcache))
      /\ G.mark \in [TString -> Marks] /\ G.strcache \in [1..STRCACHE_M -> TString]
      /\ G.sweepgc \in SUBSET Address
  BY DEF Good, Types
<1>2. ts \in TString /\ G.text[ts] # NoText /\ G.mark[ts] # "free"
  BY <1>1 DEF Short, Coloured
<1>3. CASE ~ isdead(G, ts)
  <2>1. resurrected(G, ts) = G
    BY <1>3 DEF resurrected
  <2>2. Alive(G.mark, S \cup {ts}) /\ S \cup {ts} \in SUBSET TString
    BY <1>1, <1>2, <1>3 DEF Alive, isdead
  <2> QED
    BY <2>1, <2>2 DEF Good
<1>4. CASE isdead(G, ts)
  <2> DEFINE m == [G.mark EXCEPT ![ts] = "white"]
             R == resurrected(G, ts)
  <2>1. R = WithMark(G, m)
    BY <1>4 DEF resurrected, WithMark
  <2> HIDE DEF R
  <2>2. G.mark[ts] = "other"
    BY <1>4 DEF isdead
  <2>3. m \in [TString -> Marks] /\ m[ts] = "white" /\ \A y \in TString : y # ts => m[y] = G.mark[y]
    BY <1>1, <1>2 DEF Marks
  <2> HIDE DEF m
  <2>4. /\ Rec(R) /\ R.gcstate = G.gcstate /\ R.hash = G.hash /\ R.mark = m
        /\ R.nuse = G.nuse /\ R.strcache = G.strcache /\ R.sweepgc = G.sweepgc /\ R.text = G.text
    BY <1>1, <2>1, MarkSet
  <2>5. Types(R)
    BY <1>1, <2>3, <2>4 DEF Types
  <2>6. Coloured(R.mark, R.text)
    BY <1>1, <1>2, <2>2, <2>3, <2>4 DEF Coloured
  <2>7. Swept(R.gcstate, R.mark, R.sweepgc)
    <3>1. \A y \in G.sweepgc : y \in TString
      BY <1>1 DEF TString
    <3> QED
      BY <1>1, <2>2, <2>3, <2>4, <3>1 DEF Swept
  <2>8. S \cup {ts} \in SUBSET TString /\ Alive(R.mark, S \cup {ts})
    BY <1>1, <1>2, <2>3, <2>4 DEF Alive
  <2>9. Alive(R.mark, ToSet(R.strcache))
    <3>1. \A x \in ToSet(G.strcache) : x \in TString
      BY <1>1 DEF ToSet
    <3> QED
      BY <1>1, <2>3, <2>4, <3>1 DEF Alive
  <2> QED
    BY <2>4, <2>5, <2>6, <2>7, <2>8, <2>9 DEF Good, R
<1> QED
  BY <1>3, <1>4

\* What its chain has is all there is to be found.
LEMMA InternStep ==
  ASSUME NEW G, NEW S, Good(G, S), NEW str \in Contents \ Long, NEW emergency
  PROVE  LET r == internshrstr(G, str, emergency, S) IN
         Good(r.G, Given(S, r.ts)) /\ r.ts \in TString \cup {NULL}
<1> DEFINE size == Size(G)
           i == lmod(luaS_hash[str], size)
           found == {ts \in ToSet(G.hash[i]) : G.text[ts] = str}
           collected == IF emergency \in {"grow", "nogrowth"} THEN fullgc(G, S) ELSE G
           H == IF grows(G) THEN luaS_resize(collected, 2 * size) ELSE G
           it == CHOOSE ts \in found : TRUE
           list == chainFor(G, H, str)
           r == internshrstr(G, str, emergency, S)
<1>1. r = IF found # {} THEN [G |-> resurrected(G, it), ts |-> it]
          ELSE IF grows(G) /\ emergency = "nogrowth" THEN [G |-> collected, ts |-> NULL]
          ELSE createstrobj(H, str, list, emergency, S)
  BY DEF internshrstr
<1>2. /\ Types(G) /\ Placed(G.hash, G.text) /\ G.text \in [TString -> Contents \cup {NoText}]
      /\ G.hash \in Seq(Seq(TString)) /\ size = Len(G.hash) /\ size \in Nat /\ size > 0
  BY DEF Good, Types, Size
<1>3. luaS_hash[str] \in Nat /\ NULL \notin TString
  BY StringsAssumption DEF TString, NULL, memerrmsg
<1>4. i \in 1..size
  BY <1>2, <1>3, LmodIs
<1>5. \A ts \in TString : ts \in found <=> ts \in Short(G.text) /\ G.text[ts] = str
  <2>1. ASSUME NEW ts \in Short(G.text), G.text[ts] = str PROVE Home(G.text, ts, size) = i
    BY <2>1 DEF Home
  <2> HIDE DEF i
  <2>2. \A ts : ts \in ToSet(G.hash[i]) <=> ts \in Short(G.text) /\ Home(G.text, ts, size) = i
    BY <1>2, <1>4 DEF Placed
  <2> QED
    BY <2>1, <2>2
<1>6. found \subseteq Short(G.text)
  <2> HIDE DEF i
  <2>2. \A ts : ts \in ToSet(G.hash[i]) <=> ts \in Short(G.text) /\ Home(G.text, ts, size) = i
    BY <1>2, <1>4 DEF Placed
  <2> QED
    BY <2>2
<1> HIDE DEF found
<1>7. CASE found # {}
  <2>1. it \in Short(G.text)
    BY <1>6, <1>7
  <2>2. r = [G |-> resurrected(G, it), ts |-> it]
    BY <1>1, <1>7
  <2> HIDE DEF it, r
  <2>3. Good(resurrected(G, it), S \cup {it})
    BY <2>1, ResurrectStep
  <2>4. r.G = resurrected(G, it) /\ r.ts = it /\ it \in TString
    BY <2>1, <2>2 DEF Short
  <2> QED
    BY <1>3, <2>3, <2>4 DEF Given, r
<1>8. CASE found = {}
  <2>1. Absent(G, str)
    BY <1>5, <1>8 DEF Absent, Short
  <2>2. Good(collected, S) /\ Fewer(G, collected)
    <3>1. Fewer(G, G)
      BY <1>2 DEF Fewer
    <3> QED
      BY <3>1, FullgcStep
  <2> HIDE DEF collected
  <2>3. CASE grows(G) /\ emergency = "nogrowth"
    <3>1. r = [G |-> collected, ts |-> NULL]
      BY <1>1, <1>8, <2>3
    <3> HIDE DEF r
    <3>2. r.G = collected /\ r.ts = NULL
      BY <3>1
    <3> QED
      BY <2>2, <3>2 DEF Given, r
  <2>4. CASE ~ (grows(G) /\ emergency = "nogrowth")
    <3>1. r = createstrobj(H, str, list, emergency, S)
      BY <1>1, <1>8, <2>4
    <3>2. Good(H, S) /\ Absent(H, str)
      <4>1. CASE grows(G)
        <5> DEFINE n == 2 * size
        <5>1. n \in Nat /\ n > 0
          BY <1>2
        <5>2. H = luaS_resize(collected, n)
          BY <4>1
        <5> HIDE DEF n, H
        <5>3. Good(H, S) /\ H.text = collected.text
          BY <2>2, <5>1, <5>2, ResizeStep
        <5>4. Absent(collected, str)
          BY <2>1, <2>2, AbsentFewer
        <5> QED
          BY <5>3, <5>4 DEF Absent
      <4>2. CASE ~ grows(G)
        BY <2>1, <4>2
      <4> QED
        BY <4>1, <4>2
    <3>3. list = lmod(luaS_hash[str], Len(H.hash))
      BY DEF chainFor, Size
    <3> HIDE DEF r, H, list
    <3>4. /\ Good(createstrobj(H, str, list, emergency, S).G, Given(S, createstrobj(H, str, list, emergency, S).ts))
          /\ createstrobj(H, str, list, emergency, S).ts \in Address \cup {NULL}
      BY <3>2, <3>3, CreateStep
    <3> QED
      BY <3>1, <3>4 DEF TString, r
  <2> QED
    BY <2>3, <2>4
<1> QED
  BY <1>7, <1>8

LEMMA NewlstrStep ==
  ASSUME NEW G, NEW S, Good(G, S), NEW str \in Contents, NEW emergency
  PROVE  LET r == luaS_newlstr(G, str, emergency, S) IN
         Good(r.G, Given(S, r.ts)) /\ r.ts \in TString \cup {NULL}
<1> DEFINE r == luaS_newlstr(G, str, emergency, S)
<1>1. CASE str \in Long
  <2>1. r = createstrobj(G, str, 0, emergency, S)
    BY <1>1 DEF luaS_newlstr
  <2> HIDE DEF r
  <2>2. Good(r.G, Given(S, r.ts)) /\ r.ts \in Address \cup {NULL}
    BY <1>1, <2>1, CreateStep
  <2> QED
    BY <2>2 DEF TString, r
<1>2. CASE str \notin Long
  <2>1. r = internshrstr(G, str, emergency, S)
    BY <1>2 DEF luaS_newlstr
  <2> HIDE DEF r
  <2>2. Good(r.G, Given(S, r.ts)) /\ r.ts \in TString \cup {NULL}
    BY <1>2, <2>1, InternStep
  <2> QED
    BY <2>2 DEF r
<1> QED
  BY <1>1, <1>2

\* The cache may have anything that is alive.
LEMMA CacheStep ==
  ASSUME NEW G, NEW S, Good(G, S), NEW c \in [1..STRCACHE_M -> TString],
         \A j \in 1..STRCACHE_M : G.mark[c[j]] \notin {"free", "other"}
  PROVE  Good(WithCache(G, c), S)
<1> DEFINE R == WithCache(G, c)
<1>1. Types(G) /\ Rec(G)
  BY DEF Good, Types
<1>2. /\ Rec(R) /\ R.gcstate = G.gcstate /\ R.hash = G.hash /\ R.mark = G.mark
      /\ R.nuse = G.nuse /\ R.strcache = c /\ R.sweepgc = G.sweepgc /\ R.text = G.text
  BY <1>1, CacheSet
<1> HIDE DEF R
<1>3. Types(R)
  BY <1>1, <1>2 DEF Types
<1>4. Alive(R.mark, ToSet(R.strcache))
  BY <1>2 DEF Alive, ToSet
<1> QED
  BY <1>2, <1>3, <1>4 DEF Good, R

LEMMA NewStep ==
  ASSUME NEW G, NEW S, Good(G, S), NEW str \in Contents, NEW emergency
  PROVE  LET r == luaS_new(G, str, emergency, S) IN
         Good(r.G, Given(S, r.ts)) /\ r.ts \in TString \cup {NULL}
<1> DEFINE hits == {j \in 1..STRCACHE_M : G.text[G.strcache[j]] = str}
           hit == CHOOSE j \in hits : \A i \in hits : j <= i
           c == [j \in 1..STRCACHE_M |-> IF j = 1 THEN G.strcache[1] ELSE G.strcache[j - 1]]
           moved == WithCache(G, c)
           q == luaS_newlstr(moved, str, emergency, S)
           d == [q.G.strcache EXCEPT ![1] = q.ts]
           r == luaS_new(G, str, emergency, S)
<1>1. moved = [G EXCEPT !.strcache = [j \in 1..STRCACHE_M |-> IF j = 1 THEN @[1] ELSE @[j - 1]]]
  BY DEF WithCache
<1>2. WithCache(q.G, d) = [q.G EXCEPT !.strcache = [@ EXCEPT ![1] = q.ts]]
  BY DEF WithCache
<1>3. STRCACHE_M \in Nat /\ 1 \in 1..STRCACHE_M /\ NULL \notin TString
  BY StringsAssumption DEF TString, NULL, memerrmsg
<1>4. /\ G.strcache \in [1..STRCACHE_M -> TString]
      /\ \A j \in 1..STRCACHE_M : G.strcache[j] \in TString /\ G.mark[G.strcache[j]] \notin {"free", "other"}
      /\ S \in SUBSET TString /\ Alive(G.mark, S)
  BY DEF Good, Types, Alive, ToSet
<1> HIDE DEF moved, q
<1>5. r = IF hits # {} THEN [G |-> G, ts |-> G.strcache[hit]]
          ELSE IF q.ts = NULL THEN q
          ELSE [G |-> WithCache(q.G, d), ts |-> q.ts]
  BY <1>1, <1>2 DEF luaS_new, q
<1>6. Good(moved, S)
  <2>1. \A j \in 1..STRCACHE_M : j # 1 => j - 1 \in 1..STRCACHE_M
    BY <1>3
  <2>2. c \in [1..STRCACHE_M -> TString] /\ \A j \in 1..STRCACHE_M : G.mark[c[j]] \notin {"free", "other"}
    BY <1>3, <1>4, <2>1
  <2> HIDE DEF c
  <2> QED
    BY <2>2, CacheStep DEF moved
<1>7. Good(q.G, Given(S, q.ts)) /\ q.ts \in TString \cup {NULL}
  BY <1>6, NewlstrStep DEF q
<1> HIDE DEF r
<1>8. CASE hits # {}
  <2>1. hits \in SUBSET Nat
    BY <1>3
  <2> HIDE DEF hits
  <2>2. \E j \in hits : \A i \in hits : j <= i
    BY <1>8, <2>1, LeastOf
  <2>3. hit \in hits
    BY <2>2
  <2> HIDE DEF hit
  <2>4. hit \in 1..STRCACHE_M
    BY <2>3 DEF hits
  <2>5. r.G = G /\ r.ts = G.strcache[hit]
    BY <1>5, <1>8
  <2> DEFINE ts == G.strcache[hit]
  <2>6. ts \in TString /\ G.mark[ts] \notin {"free", "other"}
    BY <1>4, <2>4
  <2> HIDE DEF ts
  <2>7. S \cup {ts} \in SUBSET TString /\ Alive(G.mark, S \cup {ts})
    BY <1>4, <2>6 DEF Alive
  <2>8. Good(G, S \cup {ts})
    BY <2>7 DEF Good
  <2>9. r.G = G /\ r.ts = ts
    BY <2>5 DEF ts
  <2> QED
    BY <1>3, <2>6, <2>8, <2>9 DEF Given, r
<1>9. CASE hits = {} /\ q.ts = NULL
  <2>1. r = q
    BY <1>5, <1>9
  <2> QED
    BY <1>7, <2>1 DEF r
<1>10. CASE hits = {} /\ q.ts # NULL
  <2>1. r.G = WithCache(q.G, d) /\ r.ts = q.ts
    BY <1>5, <1>10
  <2> DEFINE K == q.G
             T == S \cup {q.ts}
  <2>2. Good(K, T) /\ q.ts \in TString /\ Given(S, q.ts) = T
    BY <1>7, <1>10 DEF Given
  <2> HIDE DEF K, T
  <2>3. /\ K.strcache \in [1..STRCACHE_M -> TString] /\ Alive(K.mark, ToSet(K.strcache)) /\ Alive(K.mark, T)
    BY <2>2 DEF Good, Types
  <2>4. q.ts \in T
    BY DEF T
  <2>5. \A j \in 1..STRCACHE_M : K.mark[K.strcache[j]] \notin {"free", "other"}
    BY <2>3 DEF Alive, ToSet
  <2>6. d = [K.strcache EXCEPT ![1] = q.ts]
    BY DEF K
  <2> HIDE DEF d
  <2>7. d \in [1..STRCACHE_M -> TString] /\ \A j \in 1..STRCACHE_M : d[j] = IF j = 1 THEN q.ts ELSE K.strcache[j]
    BY <2>2, <2>3, <2>6
  <2>8. \A j \in 1..STRCACHE_M : K.mark[d[j]] \notin {"free", "other"}
    BY <2>3, <2>4, <2>5, <2>7 DEF Alive
  <2>9. Good(WithCache(K, d), T)
    BY <2>2, <2>7, <2>8, CacheStep
  <2> QED
    BY <2>1, <2>2, <2>9 DEF K, r
<1> QED
  BY <1>8, <1>9, <1>10

-----------------------------------------------------------------------------
(* The invariant *)

LEMMA InitInv ==
  ASSUME Init
  PROVE  IInv
<1>1. PICK size \in MINSTRTABSIZE :
        g = [hash |-> [i \in 1..size |-> IF i = lmod(luaS_hash[MEMERRMSG], size) THEN <<memerrmsg>> ELSE <<>>],
             nuse |-> 1,
             strcache |-> [j \in 1..STRCACHE_M |-> memerrmsg],
             text |-> [ts \in TString |-> IF ts = memerrmsg THEN MEMERRMSG ELSE NoText],
             mark |-> [ts \in TString |-> IF ts = memerrmsg THEN "gray" ELSE "free"],
             gcstate |-> "propagate", sweepgc |-> {}]
  BY DEF Init
<1> DEFINE i0 == lmod(luaS_hash[MEMERRMSG], size)
           h == [i \in 1..size |-> IF i = i0 THEN <<memerrmsg>> ELSE <<>>]
           c == [j \in 1..STRCACHE_M |-> memerrmsg]
           t == [ts \in TString |-> IF ts = memerrmsg THEN MEMERRMSG ELSE NoText]
           m == [ts \in TString |-> IF ts = memerrmsg THEN "gray" ELSE "free"]
<1>2. size \in Nat /\ size > 0 /\ MEMERRMSG \in Contents \ Long /\ NoText \notin Contents /\ luaS_hash[MEMERRMSG] \in Nat
  BY StringsAssumption
<1>3. memerrmsg \in TString
  BY TStringFinite
<1>4. i0 \in 1..size
  BY <1>2, LmodIs
<1> HIDE DEF i0
<1>5. /\ g.gcstate = "propagate" /\ g.hash = h /\ g.mark = m /\ g.nuse = 1 /\ g.strcache = c
      /\ g.sweepgc = {} /\ g.text = t
  BY <1>1 DEF i0
<1>6. Rec(g)
  BY <1>1 DEF Rec, State
<1>7. h \in [1..size -> Seq(TString)]
  <2>1. <<memerrmsg>> \in Seq(TString) /\ <<>> \in Seq(TString)
    BY <1>3
  <2> QED
    BY <2>1
<1>8. h \in Seq(Seq(TString)) /\ Len(h) = size
  BY <1>2, <1>7
<1>9. t \in [TString -> Contents \cup {NoText}] /\ m \in [TString -> Marks] /\ c \in [1..STRCACHE_M -> TString]
  BY <1>2, <1>3 DEF Marks
<1>10. Types(g)
  BY <1>2, <1>5, <1>6, <1>8, <1>9 DEF Types
<1>11. Coloured(m, t) /\ Swept("propagate", m, {})
  BY <1>2, <1>3 DEF Coloured, Swept
<1>12. Short(t) = {memerrmsg}
  BY <1>2, <1>3 DEF Short
<1>13. Unique(t) /\ Cardinality(Short(t)) = 1
  BY <1>12, FS_Singleton DEF Unique
<1>14. Placed(h, t)
  <2>1. ToSet(<<memerrmsg>>) = {memerrmsg} /\ ToSet(<<>>) = {} /\ Once(<<memerrmsg>>) /\ Once(<<>>)
    BY DEF ToSet, Once
  <2>2. Home(t, memerrmsg, Len(h)) = i0
    BY <1>3, <1>8 DEF Home, i0
  <2>3. \A i \in 1..size : h[i] = IF i = i0 THEN <<memerrmsg>> ELSE <<>>
    OBVIOUS
  <2> HIDE DEF h, t
  <2>4. ASSUME NEW i \in 1..size
        PROVE  Once(h[i]) /\ \A ts : ts \in ToSet(h[i]) <=> ts \in Short(t) /\ Home(t, ts, Len(h)) = i
    <3>1. CASE i = i0
      <4>1. h[i] = <<memerrmsg>>
        BY <2>3, <3>1
      <4> QED
        BY <1>12, <2>1, <2>2, <3>1, <4>1
    <3>2. CASE i # i0
      <4>1. h[i] = <<>>
        BY <2>3, <3>2
      <4> QED
        BY <1>12, <2>1, <2>2, <3>2, <4>1
    <3> QED
      BY <3>1, <3>2
  <2> QED
    BY <1>8, <2>4 DEF Placed
<1>15. Alive(m, {}) /\ Alive(m, ToSet(c))
  BY <1>3 DEF Alive, ToSet
<1> HIDE DEF h, c, t, m
<1>16. stack = {}
  BY DEF Init
<1> QED
  BY <1>5, <1>10, <1>11, <1>13, <1>14, <1>15, <1>16 DEF IInv, Good

LEMMA TakeStep ==
  ASSUME NEW r, Good(r.G, Given(stack, r.ts)), Take(r)
  PROVE  IInv'
<1>1. g' = r.G /\ stack' = Given(stack, r.ts)
  BY DEF Take, Given
<1> QED
  BY <1>1 DEF IInv

LEMMA PopStep ==
  ASSUME IInv, NEW ts, Pop(ts)
  PROVE  IInv'
<1>1. g' = g /\ stack' \subseteq stack
  BY DEF Pop
<1>2. Good(g, stack')
  BY <1>1 DEF IInv, Good, Alive
<1> QED
  BY <1>1, <1>2 DEF IInv

LEMMA MarkStep ==
  ASSUME IInv, NEW ts \in stack, Mark(ts)
  PROVE  IInv'
<1> DEFINE m == [g.mark EXCEPT ![ts] = "black"]
           R == WithMark(g, m)
<1>1. /\ Good(g, stack) /\ Types(g) /\ Rec(g) /\ Coloured(g.mark, g.text) /\ Swept(g.gcstate, g.mark, g.sweepgc)
      /\ stack \in SUBSET TString /\ Alive(g.mark, stack) /\ Alive(g.mark, ToSet(g.strcache))
      /\ g.mark \in [TString -> Marks] /\ g.strcache \in [1..STRCACHE_M -> TString]
      /\ g.sweepgc \in SUBSET Address /\ ts \in TString
  BY DEF IInv, Good, Types
<1>2. g' = R /\ stack' = stack /\ g.mark[ts] = "white"
  BY DEF Mark, WithMark
<1> HIDE DEF R
<1>3. m \in [TString -> Marks] /\ m[ts] = "black" /\ \A y \in TString : y # ts => m[y] = g.mark[y]
  BY <1>1 DEF Marks
<1> HIDE DEF m
<1>4. /\ Rec(R) /\ R.gcstate = g.gcstate /\ R.hash = g.hash /\ R.mark = m
      /\ R.nuse = g.nuse /\ R.strcache = g.strcache /\ R.sweepgc = g.sweepgc /\ R.text = g.text
  BY <1>1, MarkSet DEF R
<1>5. Types(R)
  BY <1>1, <1>3, <1>4 DEF Types
<1>6. Coloured(R.mark, R.text)
  BY <1>1, <1>2, <1>3, <1>4 DEF Coloured
<1>7. Swept(R.gcstate, R.mark, R.sweepgc)
  <2>1. \A y \in g.sweepgc : y \in TString
    BY <1>1 DEF TString
  <2> QED
    BY <1>1, <1>3, <1>4, <2>1 DEF Swept
<1>8. Alive(R.mark, stack)
  BY <1>1, <1>3, <1>4 DEF Alive
<1>9. Alive(R.mark, ToSet(R.strcache))
  <2>1. \A x \in ToSet(g.strcache) : x \in TString
    BY <1>1 DEF ToSet
  <2> QED
    BY <1>1, <1>3, <1>4, <2>1 DEF Alive
<1>10. Good(R, stack)
  BY <1>1, <1>4, <1>5, <1>6, <1>7, <1>8, <1>9 DEF Good
<1> QED
  BY <1>2, <1>10 DEF IInv

LEMMA SweepEndStep ==
  ASSUME IInv, SweepEnd
  PROVE  IInv'
<1> DEFINE C == checkSizes(g)
           n == Size(g) \div 2
<1>1. Good(g, stack) /\ g.sweepgc = {} /\ stack' = stack /\ g' = [C EXCEPT !.gcstate = "propagate"]
  BY DEF IInv, SweepEnd
<1>2. Good(C, stack) /\ C.sweepgc = {}
  <2>1. CASE g.nuse < Size(g) \div 4
    <3>1. Size(g) \in Nat /\ g.nuse \in Nat
      BY <1>1, ShortFinite DEF Good, Types, Size
    <3>2. n \in Nat /\ n > 0
      BY <2>1, <3>1
    <3>3. C = luaS_resize(g, n)
      BY <2>1 DEF checkSizes
    <3> HIDE DEF n, C
    <3> QED
      BY <1>1, <3>2, <3>3, ResizeStep
  <2>2. CASE ~ (g.nuse < Size(g) \div 4)
    <3>1. C = g
      BY <2>2 DEF checkSizes
    <3> QED
      BY <1>1, <3>1
  <2> QED
    BY <2>1, <2>2
<1> HIDE DEF C
<1>3. Good(g', stack)
  BY <1>1, <1>2, PhaseStep
<1> QED
  BY <1>1, <1>3 DEF IInv

LEMMA Step ==
  ASSUME IInv, [Next]_vars
  PROVE  IInv'
<1>0. Good(g, stack)
  BY DEF IInv
<1>1. ASSUME NEW str \in Contents, Pushlstring(str) PROVE IInv'
  <2>1. PICK e \in Emergencies : Take(luaS_newlstr(g, str, e, stack))
    BY <1>1 DEF Pushlstring
  <2> DEFINE r == luaS_newlstr(g, str, e, stack)
  <2>2. Good(r.G, Given(stack, r.ts))
    BY <1>0, NewlstrStep
  <2> HIDE DEF r
  <2> QED
    BY <2>1, <2>2, TakeStep DEF r
<1>2. ASSUME NEW str \in Contents, Pushstring(str) PROVE IInv'
  <2>1. PICK e \in Emergencies : Take(luaS_new(g, str, e, stack))
    BY <1>2 DEF Pushstring
  <2> DEFINE r == luaS_new(g, str, e, stack)
  <2>2. Good(r.G, Given(stack, r.ts))
    BY <1>0, NewStep
  <2> HIDE DEF r
  <2> QED
    BY <2>1, <2>2, TakeStep DEF r
<1>3. ASSUME NEW ts \in stack, Pop(ts) \/ Mark(ts) PROVE IInv'
  BY <1>3, PopStep, MarkStep
<1>4. ASSUME NEW ts \in g.sweepgc, Sweep(ts) PROVE IInv'
  <2>1. g' = SweepOne(g, ts) /\ stack' = stack
    BY <1>4 DEF Sweep
  <2>2. Good(SweepOne(g, ts), stack)
    BY <1>0, SweepStep
  <2> QED
    BY <2>1, <2>2 DEF IInv
<1>5. ASSUME Atomic PROVE IInv'
  <2>1. g' = atomic(g, stack) /\ stack' = stack /\ g.sweepgc = {}
    BY <1>0, <1>5 DEF Atomic, Good, Swept
  <2>2. Good(atomic(g, stack), stack)
    BY <1>0, <2>1, AtomicStep
  <2> QED
    BY <2>1, <2>2 DEF IInv
<1>6. ASSUME UNCHANGED vars PROVE IInv'
  BY <1>0, <1>6 DEF IInv, vars
<1> QED
  BY <1>1, <1>2, <1>3, <1>4, <1>5, <1>6, SweepEndStep DEF Next

\* The string table, the colours and the list that is swept belong together (IInv, above), whatever
\* the program pushes and wherever a step of the collector or an emergency collection falls.
THEOREM Invariant == Spec => []IInv
<1>1. Init => IInv
  BY InitInv
<1>2. IInv /\ [Next]_vars => IInv'
  BY Step
<1> QED
  BY <1>1, <1>2, PTL DEF Spec

\* A short string exists once, in the chain where internshrstr looks for it, and nuse counts them.
THEOREM InternedOnce == Spec => []Interned
<1>1. IInv => Interned
  <2> SUFFICES ASSUME IInv PROVE Interned
    OBVIOUS
  <2> DEFINE short == {ts \in Allocated(g) : g.text[ts] \notin Long}
  <2>1. /\ Unique(g.text) /\ Placed(g.hash, g.text) /\ g.nuse = Cardinality(Short(g.text))
        /\ g.hash \in Seq(Seq(TString))
    BY DEF IInv, Good, Types
  <2>2. short = Short(g.text)
    BY DEF Allocated, Short
  <2> HIDE DEF short
  <2>3. \A ts, other \in short : g.text[ts] = g.text[other] => ts = other
    BY <2>1, <2>2 DEF Unique
  <2>4. ASSUME NEW i \in DOMAIN g.hash
        PROVE  ToSet(g.hash[i]) = {ts \in short : Place(g, ts) = i} /\ IsInjective(g.hash[i])
    <3>1. i \in 1..Len(g.hash) /\ g.hash[i] \in Seq(TString)
      BY <2>1
    <3>2. \A ts : ts \in ToSet(g.hash[i]) <=> ts \in short /\ Place(g, ts) = i
      BY <2>1, <2>2, <3>1 DEF Placed, Place, Home, Size
    <3>3. IsInjective(g.hash[i])
      <4> DEFINE s == g.hash[i]
      <4>1. Once(s) /\ DOMAIN s = 1..Len(s)
        BY <2>1, <3>1 DEF Placed
      <4> HIDE DEF s
      <4>2. IsInjective(s)
        BY <4>1 DEF Once, IsInjective
      <4> QED
        BY <4>2 DEF s
    <3> QED
      BY <3>2, <3>3
  <2> QED
    BY <2>1, <2>2, <2>3, <2>4 DEF Interned, short
<1> QED
  BY <1>1, Invariant, PTL

\* What the program or the API cache refers to is neither freed nor about to be, so that a hit of the
\* cache in luaS_new needs no test of isdead as the one in internshrstr does.
THEOREM HeldStaysAlive == Spec => []HeldIsAlive
<1>1. IInv => HeldIsAlive
  <2> SUFFICES ASSUME IInv, NEW ts \in stack \cup ToSet(g.strcache)
               PROVE  ts \in Allocated(g) /\ ~isdead(g, ts)
    BY DEF HeldIsAlive
  <2>1. /\ Coloured(g.mark, g.text) /\ stack \in SUBSET TString /\ Alive(g.mark, stack)
        /\ Alive(g.mark, ToSet(g.strcache)) /\ g.strcache \in [1..STRCACHE_M -> TString]
    BY DEF IInv, Good, Types
  <2>2. ts \in TString
    BY <2>1 DEF ToSet
  <2>3. g.mark[ts] \notin {"free", "other"}
    BY <2>1 DEF Alive
  <2> QED
    BY <2>1, <2>2, <2>3 DEF Coloured, Allocated, isdead
<1> QED
  BY <1>1, Invariant, PTL

=============================================================================
