------------------------------ MODULE Tables --------------------------------
(***************************************************************************)
(* Tables (ltable.c): an array part for the keys 1..n and a hash part with *)
(* chained scatter and Brent's variation, whose links are relative, and    *)
(* traversals with next while entries are cleared and keys die.            *)
(***************************************************************************)
EXTENDS Integers, Sequences, SequencesExt, FiniteSets, FiniteSetsExt

CONSTANTS
  Keys,       \* the keys that programs use: [tt, h], h the value of an integer, the hash of others
  nil,        \* [tt |-> "nil", h |-> 0]
  MAXABITS,   \* log2 of the largest array part
  MAXINTEGER  \* LUA_MAXINTEGER

ASSUME TablesAssumption ==
  /\ MAXABITS \in Nat /\ MAXINTEGER \in Nat \ {0}
  /\ Keys \subseteq [tt : {"int", "flt", "integral", "str", "obj"}, h : Int]
  /\ \A k \in Keys : k.tt \in {"int", "integral"} => k.h <= MAXINTEGER
  /\ nil = [tt |-> "nil", h |-> 0]

VARIABLES
  t,    \* the table: array, node (<<>> is the dummy node) and lastfree
  trav  \* the traversal: on, the keys returned so far, the last one

vars == <<t, trav>>

Node == [key |-> nil, dead |-> FALSE, val |-> nil, next |-> 0]
Idle == [on |-> FALSE, keys |-> {}, last |-> nil]

\* A float with an integral value is the integer (luaV_tointeger).
Normal(k) == IF k.tt = "integral" THEN [k EXCEPT !.tt = "int"] ELSE k
Stored == {Normal(k) : k \in Keys}

\* The size of the hash part is a power of two; hashmod avoids it.
sizenode(tb) == IF tb.node = <<>> THEN 1 ELSE Len(tb.node)
hashpow2(tb, h) == (h % sizenode(tb)) + 1
hashmod(tb, h) == IF sizenode(tb) = 1 THEN 1 ELSE (h % (sizenode(tb) - 1)) + 1
mainposition(tb, k) == IF k.tt \in {"flt", "obj"} THEN hashmod(tb, k.h) ELSE hashpow2(tb, k.h)

twoto[n \in Nat] == IF n = 0 THEN 1 ELSE 2 * twoto[n - 1]
arrayindex(k) == IF k.tt = "int" /\ k.h \in 1..twoto[MAXABITS] THEN k.h ELSE 0

\* Down the chain from p to the first node of M, or to its end.
Walk(tb, p, M) ==
  LET to[left \in Nat] ==
        [q \in DOMAIN tb.node |->
          IF q \in M \/ tb.node[q].next = 0 \/ left = 0 THEN q ELSE to[left - 1][q + tb.node[q].next]]
  IN to[Len(tb.node)][p]

\* Where key k is, 0 if nowhere.  A dead key is found by next only.
Position(tb, k, dead) ==
  LET M == {i \in DOMAIN tb.node : tb.node[i].key = k /\ (dead \/ ~tb.node[i].dead)}
      p == Walk(tb, mainposition(tb, k), M)
  IN IF M # {} /\ p \in M THEN p ELSE 0

-----------------------------------------------------------------------------
(* Reading *)

InArray(tb, k) == k.tt = "int" /\ k.h \in 1..Len(tb.array)

\* luaH_get, of a normal key.
luaH_get(tb, k) ==
  IF InArray(tb, k) THEN tb.array[k.h]
  ELSE LET p == Position(tb, k, FALSE) IN IF p = 0 THEN nil ELSE tb.node[p].val
Get(tb, k) == luaH_get(tb, Normal(k))
getint(tb, i) == luaH_get(tb, [tt |-> "int", h |-> i])

\* findindex: the place of a key in the order of the traversal; -1 is an error.
findindex(tb, k) ==
  IF k = nil THEN 0
  ELSE IF InArray(tb, k) THEN k.h
  ELSE LET p == Position(tb, k, TRUE) IN IF p = 0 THEN -1 ELSE p + Len(tb.array)

Entry(tb, i) == IF i <= Len(tb.array) THEN [key |-> [tt |-> "int", h |-> i], val |-> tb.array[i]]
                ELSE [key |-> tb.node[i - Len(tb.array)].key, val |-> tb.node[i - Len(tb.array)].val]

\* luaH_next: the key after k; nil at the end.
luaH_next(tb, k) ==
  LET I == {i \in (findindex(tb, k) + 1)..(Len(tb.array) + Len(tb.node)) : Entry(tb, i).val # nil}
  IN IF I = {} THEN nil ELSE Entry(tb, Min(I)).key

\* A binary search between i, present, and j, absent.
Halve(tb, i, j) ==
  LET m == (i + j) \div 2 IN
  IF j - i <= 1 THEN <<i, j>> ELSE IF getint(tb, m) = nil THEN <<i, m>> ELSE <<m, j>>
binary(tb, i0, j0) ==
  LET at[s \in Nat] == IF s = 0 THEN <<i0, j0>> ELSE LET w == at[s - 1] IN Halve(tb, w[1], w[2])
  IN at[j0][1]

\* unbound_search: it doubles j, and counts one by one when j would overflow.
Double(tb, i, j) == IF getint(tb, j) = nil \/ j > MAXINTEGER \div 2 THEN <<i, j>> ELSE <<j, 2 * j>>
unbound_search(tb, j0) ==
  LET at[s \in Nat] == IF s = 0 THEN <<j0, j0 + 1>> ELSE LET w == at[s - 1] IN Double(tb, w[1], w[2])
      found == at[MAXINTEGER]
  IN IF getint(tb, found[2]) = nil THEN binary(tb, found[1], found[2])
     ELSE Min({i \in 1..(MAXINTEGER + 1) : getint(tb, i) = nil}) - 1

\* luaH_getn, the length operator.  (Mutant: a nil at the end of the array part is not seen.)
getnNoArray(tb) == IF tb.node = <<>> THEN Len(tb.array) ELSE unbound_search(tb, Len(tb.array))
luaH_getn(tb) ==
  LET j == Len(tb.array) IN
  CASE j > 0 /\ tb.array[j] = nil                      -> binary(tb, 0, j)
    [] ~(j > 0 /\ tb.array[j] = nil) /\ tb.node = <<>> -> j
    [] OTHER                                           -> unbound_search(tb, j)

-----------------------------------------------------------------------------
(* Writing *)

\* getfreepos: lastfree only goes down.  (Mutant: it starts one too low.)
getfreeposLow(tb) == LET F == {i \in 1..(tb.lastfree - 1) : tb.node[i].key = nil} IN
                     IF F = {} THEN 0 ELSE Max(F)
getfreepos(tb) == LET F == {i \in 1..tb.lastfree : tb.node[i].key = nil} IN
                  IF F = {} THEN 0 ELSE Max(F)

Previous(tb, othern, mp) == Walk(tb, othern, {p \in DOMAIN tb.node : p + tb.node[p].next = mp})

\* A colliding node that is not in its main position moves to the free position f.
\* (Mutant: the link of the moved node is not corrected.)
MoveUncorrected(tb, mp, f) ==
  LET n == tb.node
      prev == Previous(tb, mainposition(tb, n[mp].key), mp)
  IN [tb EXCEPT !.lastfree = f - 1,
                !.node = [n EXCEPT ![prev].next = f - prev, ![f] = n[mp], ![mp] = Node]]
Move(tb, mp, f) ==
  LET n == tb.node
      prev == Previous(tb, mainposition(tb, n[mp].key), mp)
      moved == [n[mp] EXCEPT !.next = IF @ = 0 THEN 0 ELSE @ + mp - f]
  IN [tb EXCEPT !.lastfree = f - 1,
                !.node = [n EXCEPT ![prev].next = f - prev, ![f] = moved, ![mp] = Node]]

\* The new node goes to f, after the one in its main position.
LinkAfter(tb, mp, f) ==
  LET n == tb.node IN
  [tb EXCEPT !.lastfree = f - 1,
             !.node = [n EXCEPT ![f].next = IF n[mp].next = 0 THEN 0 ELSE mp + n[mp].next - f,
                                ![mp].next = f - mp]]

Store(tb, p, k) == [tb EXCEPT !.node[p] = [@ EXCEPT !.key = k, !.dead = FALSE]]

\* luaH_newkey, without rehash: full says that there is no free position.
newkey(tb, k) ==
  LET mp == mainposition(tb, k)
      taken == tb.node = <<>> \/ tb.node[mp].val # nil
      f == IF tb.node = <<>> THEN 0 ELSE getfreepos(tb)
  IN CASE ~taken -> [full |-> FALSE, t |-> Store(tb, mp, k)]
       [] taken /\ f = 0 -> [full |-> TRUE, t |-> [tb EXCEPT !.lastfree = 0]]
       [] taken /\ f # 0 -> [full |-> FALSE,
            t |-> IF mainposition(tb, tb.node[mp].key) # mp THEN Store(Move(tb, mp, f), mp, k)
                  ELSE Store(LinkAfter(tb, mp, f), f, k)]

\* The value of a key that is there.
Put(tb, k, v) == IF InArray(tb, k) THEN [tb EXCEPT !.array[k.h] = v]
                 ELSE [tb EXCEPT !.node[Position(tb, k, FALSE)].val = v]
IsThere(tb, k) == InArray(tb, k) \/ Position(tb, k, FALSE) # 0

\* luaH_set in luaH_resize: a key that finds no place is lost.
Reinsert(tb, e) == LET new == newkey(tb, e.key) IN
                   CASE IsThere(tb, e.key) -> Put(tb, e.key, e.val)
                     [] ~IsThere(tb, e.key) /\ new.full -> new.t
                     [] OTHER -> Put(new.t, e.key, e.val)

CeilLog2(x) == Min({n \in 0..x : twoto[n] >= x})
Resized(a, n) == [i \in 1..n |-> IF i <= Len(a) THEN a[i] ELSE nil]

\* What luaH_resize enters anew: the elements of the vanishing slice, upwards, and those of
\* the old hash part, downwards.  (Mutant: the slice is forgotten.)
MovingHash(tb, na) ==
  [i \in 1..Len(tb.node) |-> Entry(tb, Len(tb.array) + Len(tb.node) + 1 - i)]
Moving(tb, na) ==
  LET slice == IF na < Len(tb.array) THEN Len(tb.array) - na ELSE 0
  IN [i \in 1..(slice + Len(tb.node)) |->
       IF i <= slice THEN Entry(tb, na + i) ELSE Entry(tb, Len(tb.array) + Len(tb.node) + slice + 1 - i)]

ReinsertAll(tb, es) ==
  LET upto[i \in 0..Len(es)] ==
        IF i = 0 THEN tb
        ELSE IF es[i].val = nil THEN upto[i - 1] ELSE Reinsert(upto[i - 1], es[i])
  IN upto[Len(es)]

\* luaH_resize.  The array grows before the allocation that may fail, and shrinks again then.
luaH_resize(tb, na, nh, fails) ==
  LET size == IF nh = 0 THEN 0 ELSE twoto[CeilLog2(nh)]
      grown == Resized(tb.array, IF na > Len(tb.array) THEN na ELSE Len(tb.array))
      new == [array |-> Resized(tb.array, na), node |-> [i \in 1..size |-> Node], lastfree |-> size]
  IN IF fails THEN [tb EXCEPT !.array = Resized(grown, Len(@))] ELSE ReinsertAll(new, Moving(tb, na))

\* numusearray, numusehash and countint: nums[i] integer keys in (2^(i-1), 2^i].
InUse(tb) == {i \in 1..(Len(tb.array) + Len(tb.node)) : Entry(tb, i).val # nil}
IndicesInUse(tb, ek) == {arrayindex(k) : k \in {ek} \cup {Entry(tb, i).key : i \in InUse(tb)}} \ {0}
nums(tb, ek) == LET I == IndicesInUse(tb, ek) IN
                [i \in 0..MAXABITS |-> Cardinality({k \in I : CeilLog2(k) = i})]
SumTo(n, i) == LET sum[j \in 0..i] == IF j = 0 THEN n[0] ELSE sum[j - 1] + n[j] IN sum[i]

\* computesizes: the largest array part with more than half of its slots in use.
computesizes(n) ==
  LET P == {i \in 0..MAXABITS : /\ SumTo(n, MAXABITS) > twoto[i] \div 2
                                /\ n[i] > 0 /\ SumTo(n, i) > twoto[i] \div 2}
  IN IF P = {} THEN [asize |-> 0, na |-> 0] ELSE [asize |-> twoto[Max(P)], na |-> SumTo(n, Max(P))]

rehash(tb, ek, fails) ==
  LET totaluse == Cardinality(InUse(tb)) + 1
      sizes == computesizes(nums(tb, ek))
  IN luaH_resize(tb, sizes.asize, totaluse - sizes.na, fails)

\* luaV_settable without metamethods: an absent key is entered, whatever the value.
Set(tb, k, v, fails) ==
  LET new == newkey(tb, k)
      grown == rehash(new.t, k, fails)
  IN CASE IsThere(tb, k) -> Put(tb, k, v)
       [] ~IsThere(tb, k) /\ ~new.full -> Put(new.t, k, v)
       [] OTHER -> IF fails THEN grown ELSE Reinsert(grown, [key |-> k, val |-> v])

-----------------------------------------------------------------------------
(* A program and the collector *)

Init == t = [array |-> <<>>, node |-> <<>>, lastfree |-> 0] /\ trav = Idle

\* t[k] = v; the value of every key is the key, so that no value can take the place of another.
Assign(k, v, fails) ==
  /\ trav.on => Get(t, k) # nil
  /\ t' = Set(t, Normal(k), v, fails)
  /\ UNCHANGED trav

\* OP_SETLIST makes room in the array part.
Setlist(n, fails) ==
  /\ ~trav.on /\ n > Len(t.array)
  /\ t' = luaH_resize(t, n, Len(t.node), fails)
  /\ UNCHANGED trav

First == ~trav.on /\ trav' = [Idle EXCEPT !.on = TRUE] /\ UNCHANGED t

\* "invalid key to 'next'" ends the program.
NextKey ==
  LET k == luaH_next(t, trav.last) IN
  /\ trav.on /\ findindex(t, trav.last) >= 0
  /\ trav' = IF k = nil THEN Idle ELSE [trav EXCEPT !.keys = @ \cup {k}, !.last = k]
  /\ UNCHANGED t

\* traversestrongtable: the key of an empty entry that is not marked yet is dead, an object or a string.
\* (The key may live on: a table can be traversed before the stack that holds its key.)
Collect(k) ==
  LET P == {i \in DOMAIN t.node : t.node[i].key = k /\ t.node[i].val = nil} IN
  /\ k.tt \in {"obj", "str"} /\ P # {}
  /\ t' = [t EXCEPT !.node = [i \in DOMAIN @ |-> IF i \in P THEN [@[i] EXCEPT !.dead = TRUE] ELSE @[i]]]
  /\ UNCHANGED trav

Next ==
  \/ \E k \in Keys, fails \in BOOLEAN : Assign(k, Normal(k), fails) \/ Assign(k, nil, fails)
  \/ \E n \in 1..twoto[MAXABITS], fails \in BOOLEAN : Setlist(n, fails)
  \/ \E k \in Keys : Collect(k)
  \/ First \/ NextKey

Spec == Init /\ [][Next]_vars

-----------------------------------------------------------------------------
(* Properties *)

\* The table is the map that the program thinks it is: no entry is lost, doubled or mixed up
\* when colliding nodes move, when a rehash moves entries between the two parts or when an
\* allocation fails; and a traversal visits every entry once.
Map == INSTANCE TableMap WITH
         Key <- Stored, contents <- [k \in Stored |-> Get(t, k)], visited <- trav
Implements == Map!Spec

\* A traversal can always go on: next knows the key it returned, and knows it at the place of
\* its entry, even if the entry was cleared, its key died and the key was entered again.
NextKnowsKey ==
  /\ trav.on => findindex(t, trav.last) >= 0
  /\ \A i \in DOMAIN t.node : t.node[i].val # nil =>
       findindex(t, t.node[i].key) = i + Len(t.array)

\* The length operator returns a border, wherever the elements are.
LengthIsBorder ==
  LET n == luaH_getn(t) IN (n = 0 \/ getint(t, n) # nil) /\ getint(t, n + 1) = nil

Value == Stored \cup {nil}
Table == [array : Seq(Value), lastfree : Nat,
          node : Seq([key : Value, dead : BOOLEAN, val : Value, next : Int])]

\* A link leads to another node, never to a free one; the free nodes are those that getfreepos
\* still finds; an entry in use holds its own value.
WellFormed ==
  /\ t \in Table /\ t.lastfree \in 0..Len(t.node)
  /\ \A i \in DOMAIN t.node :
       LET n == t.node[i] IN
       /\ n.next # 0 => i + n.next \in DOMAIN t.node /\ t.node[i + n.next].key # nil
       /\ n.val # nil => ~n.dead /\ n.val = n.key
       /\ n.key = nil => n.next = 0 /\ n.val = nil /\ i <= t.lastfree
=============================================================================
