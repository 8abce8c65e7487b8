------------------------------- MODULE Strings --------------------------------
(***************************************************************************)
(* Strings (lstring.c): short ones are interned in a hash table that grows *)
(* and shrinks, and a cache has the last ones that C code asked for, while *)
(* the collector marks, clears the cache and frees strings one by one, and *)
(* any allocation may run a whole emergency collection.                    *)
(*                                                                         *)
(* Of the collector (Gc) this is what concerns strings: the colours, with  *)
(* "other" for the old white that is about to be freed, the atomic step    *)
(* and the sweep.                                                          *)
(***************************************************************************)
EXTENDS Integers, Sequences, SequencesExt, FiniteSets

CONSTANTS
  Contents,        \* contents of strings
  Long,            \* those longer than LUAI_MAXSHORTLEN
  MEMERRMSG,       \* "not enough memory"
  luaS_hash,       \* the hash of each
  Address,         \* where a string can be, at most this many at a time
  MINSTRTABSIZE,   \* the first size of the string table, one for each build, powers of two
  MAXSTRTABSIZE,   \* the largest string table
  STRCACHE_M       \* entries in a line of the cache, which has one line

memerrmsg == 0
NoText == "free"
NULL == -1

ASSUME StringsAssumption ==
  /\ Long \subseteq Contents /\ MEMERRMSG \in Contents \ Long /\ NoText \notin Contents
  /\ luaS_hash \in [Contents -> Nat]
  /\ Address \subseteq Nat \ {memerrmsg} /\ IsFiniteSet(Address)
  /\ MINSTRTABSIZE \subseteq Nat \ {0} /\ MAXSTRTABSIZE \in Nat /\ STRCACHE_M \in Nat \ {0}

VARIABLES
  g,      \* global_State: hash and nuse of the table strt, strcache, the strings and the sweep
  stack   \* the strings that the program refers to

vars == <<g, stack>>

TString == Address \cup {memerrmsg}

Size(G) == Len(G.hash)
lmod(h, size) == (h % size) + 1
Allocated(G) == {ts \in TString : G.text[ts] # NoText}
isdead(G, ts) == G.mark[ts] = "other"
iswhite(G, ts) == G.mark[ts] \in {"white", "other"}
Place(G, ts) == lmod(luaS_hash[G.text[ts]], Size(G))

-----------------------------------------------------------------------------
(* The string table *)

\* The strings of a list, one by one, go to the head of their chain in a table of this size.
Chained(G, list, size) ==
  LET upto[n \in 0..Len(list)] ==
        IF n = 0 THEN [i \in 1..size |-> <<>>]
        ELSE [upto[n - 1] EXCEPT ![lmod(luaS_hash[G.text[list[n]]], size)] = <<list[n]>> \o @]
  IN upto[Len(list)]

\* Every chain is taken apart; the table is enlarged before that, and cut after.
luaS_resize(G, newsize) == [G EXCEPT !.hash = Chained(G, FlattenSeq(@), newsize)]

luaS_remove(G, ts) ==
  LET chain == G.hash[Place(G, ts)]
      p == CHOOSE j \in DOMAIN chain : chain[j] = ts
  IN [G EXCEPT !.hash = [@ EXCEPT ![Place(G, ts)] = RemoveAt(chain, p)], !.nuse = @ - 1]

freeobj(G, ts) ==
  [(IF G.text[ts] \in Long THEN G ELSE luaS_remove(G, ts)) EXCEPT
     !.text = [@ EXCEPT ![ts] = NoText], !.mark = [@ EXCEPT ![ts] = "free"]]

\* Cached strings that are still white will be freed.
luaS_clearcache(G) ==
  [G EXCEPT !.strcache = [j \in DOMAIN @ |-> IF iswhite(G, @[j]) THEN memerrmsg ELSE @[j]]]

-----------------------------------------------------------------------------
(* The collector *)

\* sweeplist, one string: a dead one is freed, another one is white again.
SweepOne(G, ts) ==
  [(IF isdead(G, ts) THEN freeobj(G, ts) ELSE [G EXCEPT !.mark = [@ EXCEPT ![ts] = "white"]]) EXCEPT
     !.sweepgc = @ \ {ts}]

\* What is on the stack is marked, the cache cleared and the white changed.
atomic(G, S) ==
  LET marked == [G EXCEPT !.mark = [ts \in TString |-> IF ts \in S /\ @[ts] = "white" THEN "black" ELSE @[ts]]]
      cleared == luaS_clearcache(marked)
  IN [cleared EXCEPT !.mark = [ts \in TString |-> IF @[ts] = "white" THEN "other" ELSE @[ts]],
                     !.gcstate = "sweep", !.sweepgc = Allocated(G) \ {memerrmsg}]

checkSizes(G) == IF G.nuse < Size(G) \div 4 THEN luaS_resize(G, Size(G) \div 2) ELSE G

\* The sweep goes on until nothing is left of the list.
SweepAll(G) ==
  LET swept[n \in Nat] ==
        IF n = 0 \/ swept[n - 1].sweepgc = {} THEN IF n = 0 THEN G ELSE swept[n - 1]
        ELSE SweepOne(swept[n - 1], CHOOSE ts \in swept[n - 1].sweepgc : TRUE)
  IN swept[Cardinality(G.sweepgc)]

\* luaC_fullgc in an emergency: the cycle under way is ended (in the middle of marking, black
\* strings turn white again), and another one is run; the table keeps its size.
fullgc(G, S) ==
  LET whitened == [G EXCEPT !.mark = [ts \in TString |-> IF @[ts] = "black" THEN "white" ELSE @[ts]]]
      ended == IF G.gcstate = "propagate" THEN whitened ELSE SweepAll(G)
  IN [SweepAll(atomic(ended, S)) EXCEPT !.gcstate = "propagate"]

-----------------------------------------------------------------------------
(* New strings; emergency says which allocation runs the collector first, and *)
(* a string that finds no memory even then is NULL ("nogrowth": for the table) *)

\* luaC_newobj, and the entry in the chain that was looked up before.
createstrobj(G, str, list, emergency, S) ==
  LET H == IF emergency = "create" THEN fullgc(G, S) ELSE G
      free == {a \in Address : H.text[a] = NoText}
      ts == CHOOSE a \in free : \A b \in free : a <= b
      new == [H EXCEPT !.text = [@ EXCEPT ![ts] = str], !.mark = [@ EXCEPT ![ts] = "white"]]
  IN IF free = {} THEN [G |-> H, ts |-> NULL]
     ELSE IF str \in Long THEN [G |-> new, ts |-> ts]
     ELSE [G |-> [new EXCEPT !.hash = [@ EXCEPT ![list] = <<ts>> \o H.hash[list]], !.nuse = @ + 1], ts |-> ts]

\* A dead string that is asked for is alive again.  (Mutant: it stays dead.)
leftDead(G, ts) == G
resurrected(G, ts) == IF isdead(G, ts) THEN [G EXCEPT !.mark = [@ EXCEPT ![ts] = "white"]] ELSE G

\* The table is doubled when it is full.
grows(G) == G.nuse >= Size(G) /\ 2 * Size(G) <= MAXSTRTABSIZE

\* (Mutant: the chain is not looked up again when the table has grown.)
oldChain(G, H, str) == lmod(luaS_hash[str], Size(G))
chainFor(G, H, str) == lmod(luaS_hash[str], Size(H))

internshrstr(G, str, emergency, S) ==
  LET chain == G.hash[lmod(luaS_hash[str], Size(G))]
      found == {ts \in ToSet(chain) : G.text[ts] = str}
      collected == IF emergency \in {"grow", "nogrowth"} THEN fullgc(G, S) ELSE G
      H == IF grows(G) THEN luaS_resize(collected, 2 * Size(G)) ELSE G
      it == CHOOSE ts \in found : TRUE
  IN IF found # {} THEN [G |-> resurrected(G, it), ts |-> it]
     ELSE IF grows(G) /\ emergency = "nogrowth" THEN [G |-> collected, ts |-> NULL]
     ELSE createstrobj(H, str, chainFor(G, H, str), emergency, S)

luaS_newlstr(G, str, emergency, S) ==
  IF str \in Long THEN createstrobj(G, str, 0, emergency, S) ELSE internshrstr(G, str, emergency, S)

\* The entries of the cache move out of the first place before the string is made.
luaS_new(G, str, emergency, S) ==
  LET hits == {j \in 1..STRCACHE_M : G.text[G.strcache[j]] = str}
      moved == [G EXCEPT !.strcache = [j \in 1..STRCACHE_M |-> IF j = 1 THEN @[1] ELSE @[j - 1]]]
      r == luaS_newlstr(moved, str, emergency, S)
  IN IF hits # {} THEN [G |-> G, ts |-> G.strcache[CHOOSE j \in hits : \A i \in hits : j <= i]]
     ELSE IF r.ts = NULL THEN r
     ELSE [G |-> [r.G EXCEPT !.strcache = [@ EXCEPT ![1] = r.ts]], ts |-> r.ts]

-----------------------------------------------------------------------------
Init ==
  /\ stack = {}
  /\ \E size \in MINSTRTABSIZE :
     g = [hash |-> [i \in 1..size |-> IF i = lmod(luaS_hash[MEMERRMSG], size) THEN <<memerrmsg>> ELSE <<>>],
          nuse |-> 1,
          strcache |-> [j \in 1..STRCACHE_M |-> memerrmsg],
          text |-> [ts \in TString |-> IF ts = memerrmsg THEN MEMERRMSG ELSE NoText],
          mark |-> [ts \in TString |-> IF ts = memerrmsg THEN "gray" ELSE "free"],
          gcstate |-> "propagate", sweepgc |-> {}]

\* The program gets a string, and has it on its stack.
Take(r) == g' = r.G /\ stack' = IF r.ts = NULL THEN stack ELSE stack \cup {r.ts}
Emergencies == {"none", "grow", "nogrowth", "create"}
Pushlstring(str) == \E e \in Emergencies : Take(luaS_newlstr(g, str, e, stack))
Pushstring(str)  == \E e \in Emergencies : Take(luaS_new(g, str, e, stack))
Pop(ts) == stack' = stack \ {ts} /\ UNCHANGED g

Mark(ts) ==
  /\ g.gcstate = "propagate" /\ g.mark[ts] = "white"
  /\ g' = [g EXCEPT !.mark = [@ EXCEPT ![ts] = "black"]] /\ UNCHANGED stack
Atomic == g.gcstate = "propagate" /\ g' = atomic(g, stack) /\ UNCHANGED stack
Sweep(ts) == g' = SweepOne(g, ts) /\ UNCHANGED stack
SweepEnd ==
  /\ g.gcstate = "sweep" /\ g.sweepgc = {}
  /\ g' = [checkSizes(g) EXCEPT !.gcstate = "propagate"] /\ UNCHANGED stack

Next ==
  \/ \E str \in Contents : Pushlstring(str) \/ Pushstring(str)
  \/ \E ts \in stack : Pop(ts) \/ Mark(ts)
  \/ \E ts \in g.sweepgc : Sweep(ts)
  \/ Atomic \/ SweepEnd

Spec == Init /\ [][Next]_vars

-----------------------------------------------------------------------------
(* Properties *)

\* A short string exists once, in the chain where it is looked for, so that two of them are equal
\* only if they are the same, whatever collection or growth came between look-up and entry.
Interned ==
  LET short == {ts \in Allocated(g) : g.text[ts] \notin Long} IN
  /\ \A ts, other \in short : g.text[ts] = g.text[other] => ts = other
  /\ \A i \in DOMAIN g.hash : /\ ToSet(g.hash[i]) = {ts \in short : Place(g, ts) = i}
                              /\ IsInjective(g.hash[i])
  /\ g.nuse = Cardinality(short)

\* What the program or the cache refers to is neither freed nor about to be, however the
\* collector's steps fall between theirs.
HeldIsAlive ==
  \A ts \in stack \cup ToSet(g.strcache) : ts \in Allocated(g) /\ ~isdead(g, ts)
=============================================================================
