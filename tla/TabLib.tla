------------------------------- MODULE TabLib --------------------------------
(***************************************************************************)
(* The table library (ltablib.c): quicksort under any order function, and  *)
(* loops over positions that may reach the limits of the integers.  A      *)
(* table is a function from the integers; nil is 0.  Integers have three   *)
(* bits.                                                                   *)
(***************************************************************************)
EXTENDS Integers, Sequences, SequencesExt

LUA_MAXINTEGER == 3
LUA_MININTEGER == -4
Integer == LUA_MININTEGER .. LUA_MAXINTEGER
INT_MAX == 5         \* the most results that unpack returns, and one more
RANLIMIT == 4        \* 100 in the code
IMBALANCE == 2       \* 128
nil == 0

-----------------------------------------------------------------------------
(* table.sort: s has the sequence a, the answers of the order function so far (calls), and    *)
(* whether every access was inside the interval (ok) and the order was found invalid (err).   *)
(* The order is <, or, when yes is not empty, says yes to the calls in yes and no to the others.  *)

geti(s, i, lo, up) == [s EXCEPT !.ok = @ /\ i \in lo .. up]
set2(s, i, x, j, y) == [s EXCEPT !.a[i] = x, !.a[j] = y]
Compare(s, yes, x, y) == [s |-> [s EXCEPT !.calls = @ + 1], res |-> IF yes = {} THEN x < y ELSE s.calls + 1 \in yes]

\* From an index on, up while a[i] < P: the first i where that ends.
RECURSIVE Up(_, _, _, _, _, _)
Up(s0, yes, P, i, lo, up) ==
  LET s == geti(s0, i, lo, up)
      c == Compare(s, yes, s.a[i], P)
  IN IF ~s.ok THEN [s |-> s, i |-> i]
     ELSE IF ~c.res THEN [s |-> c.s, i |-> i]
     ELSE IF i = up - 1 THEN [s |-> [c.s EXCEPT !.err = TRUE], i |-> i] ELSE Up(c.s, yes, P, i + 1, lo, up)
RECURSIVE Down(_, _, _, _, _, _, _)
Down(s0, yes, P, j, i, lo, up) ==
  LET s == geti(s0, j, lo, up)
      c == Compare(s, yes, P, s.a[j])
  IN IF ~s.ok THEN [s |-> s, j |-> j]
     ELSE IF ~c.res THEN [s |-> c.s, j |-> j]
     ELSE IF j < i THEN [s |-> [c.s EXCEPT !.err = TRUE], j |-> j] ELSE Down(c.s, yes, P, j - 1, i, lo, up)

RECURSIVE Partition(_, _, _, _, _, _, _)
Partition(s, yes, P, i0, j0, lo, up) ==
  LET u == Up(s, yes, P, i0 + 1, lo, up)
      d == Down(u.s, yes, P, j0 - 1, u.i, lo, up)
  IN IF ~u.s.ok \/ u.s.err THEN [s |-> u.s, i |-> u.i]
     ELSE IF ~d.s.ok \/ d.s.err THEN [s |-> d.s, i |-> u.i]
     ELSE IF d.j < u.i THEN [s |-> set2(d.s, up - 1, d.s.a[u.i], u.i, P), i |-> u.i]
     ELSE Partition(set2(d.s, u.i, d.s.a[d.j], d.j, d.s.a[u.i]), yes, P, u.i, d.j, lo, up)
partition(s, yes, P, lo, up) == Partition(s, yes, P, lo, up - 1, lo, up)

choosePivot(lo, up, rnd) == LET r4 == (up - lo) \div 4 IN (rnd % (r4 * 2)) + lo + r4

\* a[lo], a[p] and a[up] are put in order first.  rand is what l_randomizePivot returns.
Exchange(s, yes, i, j) ==
  LET c == Compare(s, yes, s.a[j], s.a[i]) IN IF c.res THEN set2(c.s, i, s.a[j], j, s.a[i]) ELSE c.s
RECURSIVE auxsort(_, _, _, _, _, _)
auxsort(s0, yes, lo, up, rnd, rand) ==
  LET s1 == Exchange(s0, yes, lo, up)
      p == IF up - lo < RANLIMIT \/ rnd = 0 THEN (lo + up) \div 2 ELSE choosePivot(lo, up, rnd)
      first == Compare(s1, yes, s1.a[p], s1.a[lo])
      s2 == IF first.res THEN set2(first.s, p, s1.a[lo], lo, s1.a[p]) ELSE Exchange(first.s, yes, p, up)
      P == s2.a[p]
      r == partition(set2(s2, p, s2.a[up - 1], up - 1, P), yes, P, lo, up)
      small == r.i - lo < up - r.i
      n == IF small THEN r.i - lo ELSE up - r.i
      s3 == IF small THEN auxsort(r.s, yes, lo, r.i - 1, rnd, rand) ELSE auxsort(r.s, yes, r.i + 1, up, rnd, rand)
      lo2 == IF small THEN r.i + 1 ELSE lo
      up2 == IF small THEN up ELSE r.i - 1
      rnd2 == IF up2 < lo2 \/ (up2 - lo2) \div IMBALANCE > n THEN rand ELSE rnd   \* up - lo is unsigned
  IN IF s0.err \/ ~s0.ok \/ lo >= up THEN s0
     ELSE IF up - lo = 1 THEN s1
     ELSE IF up - lo = 2 THEN s2
     ELSE IF r.s.err \/ ~r.s.ok THEN r.s ELSE auxsort(s3, yes, lo2, up2, rnd2, rand)
sort(a, yes, rand) == auxsort([a |-> a, calls |-> 0, ok |-> TRUE, err |-> FALSE], yes, 1, Len(a), 0, rand)

Permutes(a, b) == \A x \in ToSet(a) \cup ToSet(b) : Cardinality({i \in DOMAIN a : a[i] = x}) = Cardinality({i \in DOMAIN b : b[i] = x})

\* A sequence is sorted by an order; by anything else its values are only moved, inside its
\* bounds, and sort returns or says that the order is invalid.
SortedRight(a, yes, rand) ==
  LET s == sort(a, {}, rand)
      t == sort(a, yes, rand)
  IN /\ s.ok /\ ~s.err /\ Permutes(s.a, a) /\ \A i \in 1 .. Len(a) - 1 : s.a[i] <= s.a[i + 1]
     /\ t.ok /\ Permutes(t.a, a)

-----------------------------------------------------------------------------
(* Moves.  A result is a table, a value or values, and err. *)

Read(t, i) == IF i \in DOMAIN t THEN t[i] ELSE nil
Write(t, i, v) == [t EXCEPT ![i] = v]

tinsert(t, size, pos, v, three) ==
  LET e == size + 1
      Move(u, k) == LET i == e + 1 - k IN Write(u, i, u[i - 1])   \* i from e down to pos + 1
  IN IF ~three THEN [t |-> Write(t, e, v), err |-> FALSE]
     ELSE IF pos \notin 1 .. e THEN [t |-> t, err |-> TRUE]
     ELSE [t |-> Write(FoldLeft(Move, t, [k \in 1 .. e - pos |-> k]), pos, v), err |-> FALSE]

tremove(t, size, pos) ==
  LET Move(u, k) == Write(u, pos + k - 1, Read(u, pos + k)) IN
  IF pos # size /\ pos \notin 1 .. size + 1 THEN [t |-> t, v |-> nil, err |-> TRUE]
  ELSE [t |-> Write(FoldLeft(Move, t, [k \in 1 .. (IF pos < size THEN size - pos ELSE 0) |-> k]), IF pos < size THEN size ELSE pos, nil),
        v |-> Read(t, pos), err |-> FALSE]

\* From f .. e to t on; the order of the copies matters when they overlap.
\* (Mutant: always upwards.)
upwardsAlways(f, e, t, other) == TRUE
upwards(f, e, t, other) == t > e \/ t <= f \/ other
tmove(a1, f, e, t, tt) ==
  LET n == e - f + 1
      other == tt # <<>>
      dest == IF other THEN tt[1] ELSE a1
      Copy(u, i) == Write(u, t + i, IF other THEN a1[f + i] ELSE u[f + i])
      order == [k \in 1 .. n |-> IF upwards(f, e, t, other) THEN k - 1 ELSE n - k]
  IN IF e < f THEN [t |-> dest, err |-> FALSE]
     ELSE IF ~(f > 0 \/ e < LUA_MAXINTEGER + f) \/ t > LUA_MAXINTEGER - n + 1 THEN [t |-> dest, err |-> TRUE]
     ELSE [t |-> FoldLeft(Copy, dest, order), err |-> FALSE]

\* The values i .. last, with a separator between them; one that is no string is an error.
RECURSIVE Concat(_, _, _, _)
Concat(t, i, last, out) ==
  IF i > last THEN [out |-> out, err |-> FALSE]
  ELSE IF t[i] = nil THEN [out |-> <<>>, err |-> TRUE]
  ELSE IF i = last THEN [out |-> Append(out, t[i]), err |-> FALSE]
  ELSE Concat(t, i + 1, last, out \o <<t[i], "sep">>)
tconcat(t, i, last) == Concat(t, i, last, <<>>)

\* An integer of the machine.
Wrap(n) == ((n - LUA_MININTEGER) % (LUA_MAXINTEGER - LUA_MININTEGER + 1)) + LUA_MININTEGER
Unsigned(n) == n % (LUA_MAXINTEGER - LUA_MININTEGER + 1)
unpack(t, i, e) ==
  LET n == Unsigned(e - i) IN
  CASE i > e -> [vs |-> <<>>, err |-> FALSE]
    [] i <= e /\ n >= INT_MAX -> [vs |-> <<>>, err |-> TRUE]
    [] OTHER -> [vs |-> [k \in 1 .. n + 1 |-> t[i + k - 1]], err |-> FALSE]
pack(vs) == [t |-> [i \in DOMAIN vs |-> vs[i]], n |-> Len(vs)]

\* Every copy is as if all were made at once, no position wraps around, and what cannot be done
\* is refused; unpack gives exactly the values asked for.
MovedRight(a, b, f, e, t) ==
  LET one == tmove(a, f, e, t, <<>>)
      two == tmove(a, f, e, t, <<b>>)
      fits == e >= f => e - f + 1 <= LUA_MAXINTEGER /\ t + (e - f) <= LUA_MAXINTEGER
      Once(dest) == [i \in Integer |-> IF i - t \in 0 .. e - f THEN a[f + i - t] ELSE dest[i]]
      u == unpack(a, f, e)
      c == tconcat(a, f, e)
  IN /\ IF fits THEN ~one.err /\ ~two.err /\ one.t = Once(a) /\ two.t = Once(b) ELSE one.err /\ two.err
     /\ ~u.err => u.vs = [k \in 1 .. (IF e < f THEN 0 ELSE e - f + 1) |-> a[f + k - 1]]
     /\ pack(u.vs).n = Len(u.vs)
     /\ c.err = (\E i \in f .. e : a[i] = nil)
     /\ ~c.err /\ e >= f => \A k \in 0 .. e - f : c.out[2 * k + 1] = a[f + k]

\* What is inserted at a position is removed from there, and everything is in its place again.
InsertedRight(vs, pos) ==
  LET t == [i \in 1 .. Len(vs) + 2 |-> IF i <= Len(vs) THEN vs[i] ELSE nil]
      n == tinsert(t, Len(vs), pos, 9, TRUE)
      r == tremove(n.t, Len(vs) + 1, pos)
  IN /\ n.err = (pos \notin 1 .. Len(vs) + 1)
     /\ ~n.err => /\ SubSeq(n.t, 1, Len(vs) + 1) = InsertAt(vs, pos, 9)
                  /\ ~r.err /\ r.v = 9 /\ r.t = t
     /\ tinsert(t, Len(vs), 0, 9, FALSE).t = [t EXCEPT ![Len(vs) + 1] = 9]
=============================================================================
