--------------------------------- MODULE Gc ---------------------------------
(***************************************************************************)
(* The incremental garbage collector of the Lua core (lgc.c): tri-colour   *)
(* marking with barriers, weak tables, resurrection of objects with a      *)
(* finalizer, sweeping in batches, and full collections, the emergency     *)
(* ones of a failed allocation among them.  The Lua program runs between   *)
(* any two steps of the collector, as luaC_step is called by whatever      *)
(* allocates.                                                              *)
(*                                                                         *)
(* An object is an address; its kind goes with it.  Every object has one   *)
(* entry, a key and a value: the node of a table, or (with no key) the     *)
(* upvalue of a closure, the user value of a userdata.  The stack of the   *)
(* main thread is a set of objects.                                        *)
(***************************************************************************)
EXTENDS Naturals, Sequences, SequencesExt, FiniteSets

CONSTANTS
  Table, WeakValue, Ephemeron, AllWeak,  \* tables by the __mode of their metatable
  Userdata, Closure,                     \* the other kinds of objects
  Hashed,    \* the tables whose entry is in the hash part; of the others, in the array part
  Finalized, \* the objects whose metatable has a __gc field
  Refs,      \* bound: <<o, x>> if the program may make o refer to x
  Main,      \* the main thread
  Nil,       \* no collectable object
  Dead,      \* a dead key
  SweepMax   \* GCSWEEPMAX (85 in the code)

Tables == UNION {Table, WeakValue, Ephemeron, AllWeak}

Obj == UNION {Tables, Userdata, Closure}

ASSUME GcAssumption ==
  /\ IsFiniteSet(Obj) /\ Obj \cap {Main, Nil, Dead, "head", "null"} = {}
  /\ Table \cap (WeakValue \cup Ephemeron \cup AllWeak) = {} /\ WeakValue \cap (Ephemeron \cup AllWeak) = {}
  /\ Ephemeron \cap AllWeak = {} /\ Tables \cap (Userdata \cup Closure) = {} /\ Userdata \cap Closure = {}
  /\ Hashed \subseteq Tables /\ Finalized \subseteq Tables \cup Userdata
  /\ Refs \subseteq Obj \X Obj
  /\ SweepMax \in Nat \ {0}

VARIABLES
  stack,      \* the objects on the main thread's stack
  node,       \* the entry of each object
  mark,       \* its colour, or "free": "white" is the current white, "other" the other one
  gcstate,    \* g->gcstate, with the stages of atomic() told apart
  gray, grayagain, weak, allweak, ephemeron,  \* the gray lists, without their order
  next,       \* convergeephemerons: tables still to visit in this round
  changed,    \* ... and whether one of them marked something
  orig,       \* origweak and origall of atomic()
  lists,      \* the lists allgc, finobj and tobefnz
  sweepgc,    \* what g->sweepgc points into: the object, or "head", or "null"
  full,       \* luaC_fullgc: "no", or it has to "finish" the pending cycle, or runs a "cycle"
  emergency   \* g->gckind = KGC_EMERGENCY

graylists == <<gray, grayagain, weak, allweak, ephemeron>>
atomicvars == <<next, changed, orig>>
heap == <<stack, node>>
collection == <<full, emergency>>
vars == <<heap, mark, gcstate, graylists, atomicvars, lists, sweepgc, collection>>

White == {"white", "other"}
IsWhite(o) == o \in Obj /\ mark[o] \in White
Empty == [k |-> Nil, v |-> Nil]
Allocated == {o \in Obj : mark[o] # "free"}

\* The FINALIZEDBIT: set as long as the object is in one of the two lists.
ToFinalize(o) == o \in Range(lists.finobj) \cup Range(lists.tobefnz)

KeepInvariant == gcstate \in {"propagate", "atomic"}
SweepPhase == gcstate \in {"swpallgc", "swpfinobj", "swptobefnz", "swpend"}

Init ==
  /\ stack = {} /\ node = [o \in Obj |-> Empty] /\ mark = [o \in Obj |-> "free"]
  /\ gcstate = "pause"
  /\ gray = {} /\ grayagain = {} /\ weak = {} /\ allweak = {} /\ ephemeron = {}
  /\ next = {} /\ changed = FALSE /\ orig = {}
  /\ lists = [allgc |-> <<>>, finobj |-> <<>>, tobefnz |-> <<>>]
  /\ sweepgc = "null" /\ full = "no" /\ emergency = FALSE

\* The elements of a list that are in S, in their order.
Those(list, S) ==
  LET those[n \in 0..Len(list)] == IF n = 0 THEN <<>>
                                   ELSE IF list[n] \in S THEN Append(those[n - 1], list[n]) ELSE those[n - 1]
  IN  those[Len(list)]

-----------------------------------------------------------------------------
(* Marking *)

\* reallymarkobject: the white objects of S, and what userdata among them lead to.
Reached(S) ==
  LET more[n \in Nat] ==
        IF n = 0 THEN {o \in S : IsWhite(o)}
        ELSE LET M == more[n - 1] IN
             M \cup {node[u].v : u \in {w \in M \cap Userdata : IsWhite(node[w].v)}}
  IN  more[Cardinality(Obj)]

\* Userdata turn black at once, the others gray; g are the gray objects besides.
Marks(S, g) ==
  LET M == Reached(S) IN
  /\ mark' = [o \in Obj |-> IF o \in M THEN (IF o \in Userdata THEN "black" ELSE "gray")
                            ELSE mark[o]]
  /\ gray' = g \cup (M \ Userdata)

\* The same, for an object o that is traversed: it leaves the gray list with the given colour.
Traverse(o, S, colour) ==
  LET M == Reached(S) IN
  /\ mark' = [p \in Obj |-> IF p \in M THEN (IF p \in Userdata THEN "black" ELSE "gray")
                            ELSE IF p = o THEN colour ELSE mark[p]]
  /\ gray' = (gray \ {o}) \cup (M \ Userdata)

\* removeentry: the key of an empty entry that is not marked is a dead key.  The colours are
\* those before the step, which marks nothing for such an entry.
Removed(e) == IF e.v = Nil /\ IsWhite(e.k) THEN [e EXCEPT !.k = Dead] ELSE e

\* The stages of the atomic step, and what follows it at once.
Atomically == {"inside1", "inside2", "converge1", "inside3", "converge2"}
Inside == Atomically \cup {"enter"}

PropagateMain ==
  /\ Main \in gray
  /\ Traverse(Main, stack, "gray")
  /\ grayagain' = grayagain \cup {Main}
  /\ UNCHANGED <<node, weak, allweak, ephemeron>>

PropagateStrong(o) ==
  /\ o \in Table \cup Closure
  /\ Traverse(o, IF node[o].v = Nil THEN {} ELSE {node[o].k, node[o].v}, "black")
  /\ node' = [node EXCEPT ![o] = Removed(@)]
  /\ UNCHANGED <<grayagain, weak, allweak, ephemeron>>

\* traverseweakvalue.
PropagateWeakValue(o) ==
  LET e == node[o] IN
  /\ o \in WeakValue
  /\ Traverse(o, IF e.v = Nil THEN {} ELSE {e.k}, "gray")
  /\ node' = [node EXCEPT ![o] = Removed(@)]
  /\ grayagain' = IF gcstate = "propagate" THEN grayagain \cup {o} ELSE grayagain
  /\ weak' = IF gcstate # "propagate" /\ e.v \in Obj /\ mark'[e.v] \in White
               THEN weak \cup {o} ELSE weak
  /\ UNCHANGED <<allweak, ephemeron>>

\* traverseephemeron, of a table that leaves g: an entry with a white key waits for it.
WhiteKey(o) == node[o].v # Nil /\ IsWhite(node[o].k)
Waits(o) == WhiteKey(o) /\ IsWhite(node[o].v)

VisitEphemeron(o) ==
  /\ o \in Ephemeron
  /\ Traverse(o, IF WhiteKey(o) THEN {} ELSE {node[o].v}, "gray")
  /\ node' = [node EXCEPT ![o] = Removed(@)]
  /\ grayagain' = IF gcstate = "propagate" THEN grayagain \cup {o} ELSE grayagain
  /\ ephemeron' = IF gcstate # "propagate" /\ Waits(o) THEN ephemeron \cup {o} ELSE ephemeron
  /\ allweak' = IF gcstate # "propagate" /\ WhiteKey(o) /\ ~Waits(o)
                  THEN allweak \cup {o} ELSE allweak
  /\ UNCHANGED weak

PropagateAllWeak(o) ==
  /\ o \in AllWeak
  /\ Traverse(o, {}, "gray")
  /\ allweak' = allweak \cup {o}
  /\ UNCHANGED <<node, grayagain, weak, ephemeron>>

\* propagatemark, for any of the gray objects.
PropagateMark ==
  \/ PropagateMain
  \/ \E o \in gray \cap Obj :
       \/ PropagateStrong(o) \/ PropagateWeakValue(o)
       \/ VisitEphemeron(o) \/ PropagateAllWeak(o)

-----------------------------------------------------------------------------
(* singlestep: the mark phase *)

\* The lists mean nothing from the end of the mark phase to the next cycle.
ForgetGray == gray' = {} /\ grayagain' = {} /\ weak' = {} /\ allweak' = {} /\ ephemeron' = {}

\* restartcollection: the main thread is the root; objects still to be finalized are marked.
Restart ==
  /\ gcstate = "pause"
  /\ Marks(Range(lists.tobefnz), {Main})
  /\ grayagain' = {} /\ weak' = {} /\ allweak' = {} /\ ephemeron' = {}
  /\ gcstate' = "propagate"
  /\ full' = IF full = "finish" THEN "cycle" ELSE full
  /\ UNCHANGED <<heap, atomicvars, lists, sweepgc, emergency>>

Propagate ==
  /\ gcstate = "propagate"
  /\ PropagateMark
  /\ gcstate' = IF gray' = {} THEN "atomic" ELSE gcstate
  /\ UNCHANGED <<stack, atomicvars, lists, sweepgc, collection>>

\* The program does not run from here to the end of atomic().
Atomic ==
  /\ gcstate = "atomic"
  /\ gcstate' = "inside1"
  /\ UNCHANGED <<heap, mark, graylists, atomicvars, lists, sweepgc, collection>>

\* propagateall, in each stage.
PropagateAll ==
  /\ gcstate \in Atomically /\ gray # {}
  /\ PropagateMark
  /\ UNCHANGED <<stack, gcstate, atomicvars, lists, sweepgc, collection>>

\* The objects of the grayagain list are visited again.
NoneAgain == {}
VisitedAgain == grayagain
GrayAgain ==
  /\ gcstate = "inside1" /\ gray = {}
  /\ gray' = VisitedAgain /\ grayagain' = {}
  /\ gcstate' = "inside2"
  /\ UNCHANGED <<heap, mark, weak, allweak, ephemeron, atomicvars, lists, sweepgc, collection>>

\* convergeephemerons: rounds over the ephemeron list until none marks anything.
NextRound ==
  /\ gray = {}
  /\ \/ gcstate \in {"inside2", "inside3"}
     \/ gcstate \in {"converge1", "converge2"} /\ next = {} /\ changed
  /\ next' = ephemeron /\ ephemeron' = {} /\ changed' = FALSE
  /\ gcstate' = CASE gcstate = "inside2" -> "converge1"
                  [] gcstate = "inside3" -> "converge2"
                  [] OTHER -> gcstate
  /\ UNCHANGED <<heap, mark, gray, grayagain, weak, allweak, orig, lists, sweepgc, collection>>

Converge ==
  /\ gcstate \in {"converge1", "converge2"} /\ gray = {}
  /\ \E o \in next :
       /\ VisitEphemeron(o)
       /\ next' = next \ {o}
       /\ changed' = (changed \/ (~WhiteKey(o) /\ IsWhite(node[o].v)))
  /\ UNCHANGED <<stack, gcstate, orig, lists, sweepgc, collection>>

\* clearvalues and clearkeys for the tables in L.
ClearedValue(e) == IF e.v # Nil /\ IsWhite(e.v) THEN Removed([e EXCEPT !.v = Nil]) ELSE e
ClearedKey(e)   == IF e.v # Nil /\ IsWhite(e.k) THEN Removed([e EXCEPT !.v = Nil]) ELSE Removed(e)

\* The tables to clear before objects are resurrected (mutant: none), and those reached only by
\* resurrection.
NotYet == {}
ClearedFirst == weak \cup allweak
Resurrected == (weak \cup allweak) \ orig

\* All that is strongly accessible is marked.  White values leave the weak tables; objects to
\* be finalized leave finobj and are marked, with all they refer to.
SeparateToBeFnz ==
  LET dying   == {o \in Obj : IsWhite(o)}
      tobefnz == lists.tobefnz \o Those(lists.finobj, dying)
  IN
  /\ gcstate = "converge1" /\ gray = {} /\ next = {} /\ ~changed
  /\ node' = [o \in Obj |-> IF o \in ClearedFirst THEN ClearedValue(node[o]) ELSE node[o]]
  /\ orig' = ClearedFirst
  /\ lists' = [lists EXCEPT !.finobj = Those(@, Obj \ dying), !.tobefnz = tobefnz]
  /\ Marks(Range(tobefnz), {})
  /\ gcstate' = "inside3"
  /\ UNCHANGED <<stack, grayagain, weak, allweak, ephemeron, next, changed, sweepgc, collection>>

NotFlipped(c) == c
Flipped(c) == CASE c = "white" -> "other" [] c = "other" -> "white" [] OTHER -> c

\* All that is resurrected is marked too.  White keys leave the ephemeron and all-weak tables,
\* white values those weak tables that were reached only now.  The current white flips.
ClearAndFlip ==
  /\ gcstate = "converge2" /\ gray = {} /\ next = {} /\ ~changed
  /\ node' = [o \in Obj |->
       LET e == IF o \in ephemeron \cup allweak THEN ClearedKey(node[o]) ELSE node[o] IN
       IF o \in Resurrected THEN ClearedValue(e) ELSE e]
  /\ mark' = [o \in Obj |-> Flipped(mark[o])]
  /\ gcstate' = "enter" /\ sweepgc' = "head"
  /\ ForgetGray /\ orig' = {}
  /\ UNCHANGED <<stack, next, changed, lists, collection>>

-----------------------------------------------------------------------------
(* singlestep: the sweep phase *)

\* sweeplist: of n elements behind position pos those with the other white are freed, the
\* others become white.  The next batch starts behind the last one left; at the end it is null.
Swept(list, pos, n) ==
  LET seg  == SubSeq(list, pos + 1, IF pos + n < Len(list) THEN pos + n ELSE Len(list))
      left == Those(seg, {o \in Obj : mark[o] # "other"})
      rest == SubSeq(list, pos + n + 1, Len(list))
      kept == SubSeq(list, 1, pos) \o left
  IN [list  |-> kept \o rest,
      freed |-> Range(seg) \ Range(left),
      white |-> Range(left),
      sweepgc |-> IF rest = <<>> THEN "null" ELSE IF kept = <<>> THEN "head" ELSE Last(kept)]

Recolour(freed, white) ==
  /\ mark' = [o \in Obj |-> IF o \in freed THEN "free" ELSE IF o \in white THEN "white" ELSE mark[o]]
  /\ node' = [o \in Obj |-> IF o \in freed THEN Empty ELSE node[o]]

\* entersweep, which tries to leave sweepgc inside the list.
EnterSweep ==
  LET s == Swept(lists.allgc, 0, 1) IN
  /\ gcstate = "enter"
  /\ lists' = [lists EXCEPT !.allgc = s.list]
  /\ Recolour(s.freed, s.white)
  /\ sweepgc' = s.sweepgc
  /\ gcstate' = "swpallgc"
  /\ UNCHANGED <<stack, graylists, atomicvars, collection>>

\* sweepstep.  A batch goes on where sweepgc points, in whichever list that is.
SweepStep(phase, name, nextstate, nextlist) ==
  LET in  == IF sweepgc = "head" THEN name
             ELSE CHOOSE l \in DOMAIN lists : sweepgc \in Range(lists[l])
      pos == IF sweepgc = "head" THEN 0
             ELSE CHOOSE i \in DOMAIN lists[in] : lists[in][i] = sweepgc
      s   == Swept(lists[in], pos, SweepMax)
      done == sweepgc = "null" \/ s.sweepgc = "null"
  IN
  /\ gcstate = phase
  /\ IF sweepgc = "null" THEN UNCHANGED <<lists, mark, node>>
     ELSE lists' = [lists EXCEPT ![in] = s.list] /\ Recolour(s.freed, s.white)
  /\ sweepgc' = IF done THEN nextlist ELSE s.sweepgc
  /\ gcstate' = IF done THEN nextstate ELSE gcstate
  /\ UNCHANGED <<stack, graylists, atomicvars, collection>>

SweepAllGc   == SweepStep("swpallgc", "allgc", "swpfinobj", "head")
SweepFinObj  == SweepStep("swpfinobj", "finobj", "swptobefnz", "head")
SweepToBeFnz == SweepStep("swptobefnz", "tobefnz", "swpend", "null")

\* The main thread becomes white, and the collector goes on to finalizers.
SweepEnd ==
  /\ gcstate = "swpend"
  /\ gcstate' = "callfin"
  /\ UNCHANGED <<heap, mark, graylists, atomicvars, lists, sweepgc, collection>>

\* The cycle ends, in an emergency with finalizers still to run.
CallFin ==
  /\ gcstate = "callfin"
  /\ lists.tobefnz = <<>> \/ emergency
  /\ gcstate' = "pause"
  /\ full' = IF full = "cycle" THEN "no" ELSE full
  /\ emergency' = (emergency /\ full = "finish")
  /\ UNCHANGED <<heap, mark, graylists, atomicvars, lists, sweepgc>>

\* GCTM with udata2finalize: after any step of the collector, and at the end of a cycle; not
\* within a full collection before that.  The finalizer has its object on the stack.
GCTM ==
  LET o == Head(lists.tobefnz) IN
  /\ gcstate \notin Inside \cup {"pause"} /\ ~emergency
  /\ full = "no" \/ gcstate = "callfin"
  /\ lists.tobefnz # <<>>
  /\ lists' = [lists EXCEPT !.tobefnz = Tail(@), !.allgc = <<o>> \o @]
  /\ mark' = IF SweepPhase THEN [mark EXCEPT ![o] = "white"] ELSE mark
  /\ stack' = stack \cup {o}
  /\ UNCHANGED <<node, gcstate, graylists, atomicvars, sweepgc, collection>>

Collect ==
  \/ Restart \/ Propagate \/ Atomic \/ PropagateAll \/ GrayAgain \/ NextRound \/ Converge
  \/ SeparateToBeFnz \/ ClearAndFlip \/ EnterSweep
  \/ SweepAllGc \/ SweepFinObj \/ SweepToBeFnz \/ SweepEnd \/ CallFin \/ GCTM

-----------------------------------------------------------------------------
(* The program, which runs between two steps of the collector; in a full collection, only as a *)
(* finalizer.                                                                                  *)

CanRun ==
  /\ gcstate \notin Inside
  /\ full = "no" \/ (gcstate = "callfin" /\ ~emergency)

\* luaC_newobj.
New(o) ==
  /\ CanRun /\ mark[o] = "free"
  /\ mark' = [mark EXCEPT ![o] = "white"]
  /\ lists' = [lists EXCEPT !.allgc = <<o>> \o @]
  /\ stack' = stack \cup {o}
  /\ UNCHANGED <<node, gcstate, graylists, atomicvars, sweepgc, collection>>

\* A key or value of an object on the stack is pushed on it.
Load(o, x) ==
  /\ CanRun /\ o \in stack
  /\ node[o].v # Nil /\ x \in {node[o].k, node[o].v} \cap Obj
  /\ stack' = stack \cup {x}
  /\ UNCHANGED <<node, mark, gcstate, graylists, atomicvars, lists, sweepgc, collection>>

Pop(o) ==
  /\ CanRun /\ o \in stack
  /\ stack' = stack \ {o}
  /\ UNCHANGED <<node, mark, gcstate, graylists, atomicvars, lists, sweepgc, collection>>

\* The conditions of the macros luaC_barrierback and luaC_barrier: o is made to refer to x.
NoBarrierBack(o, x) == FALSE
BarrierBack(o, x) == mark[o] = "black" /\ IsWhite(x)
NoBarrier(o, x) == FALSE
Barrier(o, x) == mark[o] = "black" /\ IsWhite(x)

\* t[k] = v.  An entry that is empty, or whose key is dead, serves for another key.
\* luaC_barrierback, for a new key and for the value: a black table becomes gray again.
SetEntry(o, k, v) ==
  LET newkey == k # node[o].k
      back   == BarrierBack(o, v) \/ (newkey /\ BarrierBack(o, k))
  IN
  /\ CanRun /\ o \in stack \cap Tables
  /\ v \in stack /\ <<o, v>> \in Refs
  /\ IF o \in Hashed THEN k \in stack /\ <<o, k>> \in Refs ELSE k = Nil
  /\ node[o].v = Nil \/ ~newkey
  /\ node' = [node EXCEPT ![o] = [k |-> k, v |-> v]]
  /\ mark' = IF back THEN [mark EXCEPT ![o] = "gray"] ELSE mark
  /\ grayagain' = IF back THEN grayagain \cup {o} ELSE grayagain
  /\ UNCHANGED <<stack, gcstate, gray, weak, allweak, ephemeron, atomicvars, lists, sweepgc, collection>>

\* t[k] = nil leaves the key in its node.
Erase(o) ==
  /\ CanRun /\ o \in stack /\ node[o].v # Nil
  /\ node' = [node EXCEPT ![o].v = Nil]
  /\ UNCHANGED <<stack, mark, gcstate, graylists, atomicvars, lists, sweepgc, collection>>

\* An upvalue of a closure or the user value of a userdata, with luaC_barrier.
SetField(o, v) ==
  LET barrier == Barrier(o, v) IN
  /\ CanRun /\ o \in stack \cap (Closure \cup Userdata)
  /\ v \in stack /\ <<o, v>> \in Refs
  /\ node' = [node EXCEPT ![o].v = v]
  /\ IF barrier /\ KeepInvariant THEN Marks({v}, gray)
     ELSE /\ mark' = IF barrier THEN [mark EXCEPT ![o] = "white"] ELSE mark
          /\ UNCHANGED gray
  /\ UNCHANGED <<stack, gcstate, grayagain, weak, allweak, ephemeron, atomicvars, lists, sweepgc, collection>>

\* sweepgc points into o, which leaves the list.
SweepStays(o) == FALSE
SweepMoves(o) == SweepPhase /\ sweepgc = o

\* luaC_checkfinalizer, for an object whose metatable has a __gc field.  In the sweep phase the
\* object is swept now, and sweepgc does not stay with it but moves on to a live object.
SetFinalizer(o) ==
  LET at   == CHOOSE i \in DOMAIN lists.allgc : lists.allgc[i] = o
      move == SweepMoves(o)
      live == {i \in at + 1 .. Len(lists.allgc) : mark[lists.allgc[i]] # "other"}
      n    == IF live = {} THEN Len(lists.allgc) ELSE (CHOOSE i \in live : \A j \in live : i <= j) - at
      s    == Swept(lists.allgc, at, n)
      all  == IF move THEN s.list ELSE lists.allgc
      self == IF SweepPhase THEN {o} ELSE {}
  IN
  /\ CanRun /\ o \in stack \cap Finalized /\ ~ToFinalize(o)
  /\ lists' = [lists EXCEPT !.allgc = Those(all, Obj \ {o}), !.finobj = <<o>> \o @]
  /\ IF move THEN Recolour(s.freed, s.white \cup self) ELSE Recolour({}, self)
  /\ sweepgc' = IF move THEN s.sweepgc ELSE sweepgc
  /\ UNCHANGED <<stack, gcstate, graylists, atomicvars, collection>>

\* luaC_fullgc, called by the program or (emergency) by an allocation that failed.
FullGC(isemergency) ==
  /\ CanRun /\ full = "no"
  /\ full' = "finish" /\ emergency' = isemergency
  /\ gcstate' = IF KeepInvariant THEN "enter" ELSE gcstate
  /\ sweepgc' = IF KeepInvariant THEN "head" ELSE sweepgc
  /\ IF KeepInvariant THEN ForgetGray ELSE UNCHANGED graylists
  /\ UNCHANGED <<heap, mark, atomicvars, lists>>

Program ==
  \/ \E o \in Obj : New(o) \/ Pop(o) \/ Erase(o) \/ SetFinalizer(o)
  \/ \E o, x \in Obj : Load(o, x) \/ SetField(o, x)
  \/ \E o, v \in Obj : \E k \in Obj \cup {Nil} : SetEntry(o, k, v)
  \/ \E isemergency \in BOOLEAN : FullGC(isemergency)

Next == Collect \/ Program

\* The program goes on to allocate, so luaC_step is called again and again.
Spec == Init /\ [][Next]_vars /\ WF_vars(Collect)
-----------------------------------------------------------------------------
(* Properties *)

\* What the program can get at from the objects of S.
Leads(o) == IF node[o].v = Nil THEN {} ELSE {node[o].k, node[o].v} \cap Obj
Accessible(S) ==
  LET reach[n \in Nat] == IF n = 0 THEN S
                          ELSE reach[n - 1] \cup UNION {Leads(o) : o \in reach[n - 1]}
  IN  reach[Cardinality(Obj)]

\* What keeps objects alive: weak references do not.
StronglyLeads(o, S) ==
  LET e == node[o] IN
  {x \in {e.k, e.v} \cap Obj : /\ e.v # Nil /\ o \notin AllWeak
                               /\ o \in WeakValue => x = e.k
                               /\ o \in Ephemeron => x = e.v /\ e.k \notin Obj \ S}
StronglyAccessible(S) ==
  LET reach[n \in Nat] == IF n = 0 THEN S
                          ELSE reach[n - 1] \cup UNION {StronglyLeads(o, reach[n - 1]) : o \in reach[n - 1]}
  IN  reach[2 * Cardinality(Obj)]

TypeOK ==
  /\ stack \subseteq Obj
  /\ node \in [Obj -> [k : Obj \cup {Nil, Dead}, v : Obj \cup {Nil}]]
  /\ mark \in [Obj -> White \cup {"gray", "black", "free"}]
  /\ gcstate \in Inside \cup {"pause", "propagate", "atomic", "swpallgc", "swpfinobj",
                              "swptobefnz", "swpend", "callfin"}
  /\ gray \subseteq Obj \cup {Main} /\ grayagain \subseteq Obj \cup {Main}
  /\ weak \subseteq WeakValue /\ allweak \subseteq AllWeak \cup Ephemeron
  /\ ephemeron \subseteq Ephemeron /\ next \subseteq Ephemeron
  /\ changed \in BOOLEAN /\ orig \subseteq weak \cup allweak
  /\ DOMAIN lists = {"allgc", "finobj", "tobefnz"}
  /\ sweepgc \in {"null", "head"} \cup Allocated
  /\ full \in {"no", "finish", "cycle"} /\ emergency \in BOOLEAN

\* No dangling pointer: whatever the program, or a finalizer that is still to run, can get at,
\* the entries of weak tables among it, is allocated and not about to be freed; the key of an
\* empty entry, which findindex and newkey still look at, is allocated or dead; and an object is
\* on one list, so that it is freed once.
ReachableKept ==
  \A o \in Accessible(stack \cup Range(lists.finobj) \cup Range(lists.tobefnz)) :
    mark[o] \notin {"free", "other"}
KeysNotDangling ==
  \A o \in Accessible(stack) \cap Tables : node[o].k \in Obj => mark[node[o].k] # "free"
OnOneList ==
  LET all == lists.allgc \o lists.finobj \o lists.tobefnz IN
  Len(all) = Cardinality(Allocated) /\ Range(all) = Allocated
NoDangling == ReachableKept /\ KeysNotDangling /\ OnOneList

\* "The main invariant of the garbage collector, while marking objects, is that a black object
\* can never point to a white one. Moreover, any gray object must be in a "gray list"" (lgc.h).
TriColour ==
  KeepInvariant =>
    \A o \in Obj :
      /\ mark[o] = "black" => ~\E p \in Leads(o) : IsWhite(p)
      /\ mark[o] = "gray" => o \in gray \cup grayagain \cup weak \cup allweak \cup ephemeron

\* "The invariant is restored when sweep ends and all objects are white again." (lgc.h)
AllWhite == gcstate \in {"callfin", "pause"} => \A o \in Allocated : mark[o] = "white"

\* An object is handed to its finalizer only when nothing strong leads to it from the program,
\* and a weak value that the program can still reach is forgotten by then; as a key, it stays
\* until the finalizer has run.
FinalizedWhenGarbage ==
  [][\A o \in Range(lists'.tobefnz) \ Range(lists.tobefnz) :
       LET alive == StronglyAccessible(stack) IN
       /\ o \notin alive
       /\ \A w \in alive \cap (WeakValue \cup AllWeak) : node'[w].v # o]_vars

\* Weak tables, resurrection and finalizers together: whatever is cleared, revived or finalized,
\* nothing that is still in use dangles and nothing that is still in use is finalized.
WeakSafe == []NoDangling /\ FinalizedWhenGarbage

\* What neither the program nor a finalizer can reach is freed in the end, whatever keeps
\* being allocated, stored and finalized meanwhile.
Garbage(o) ==
  /\ mark[o] # "free"
  /\ o \notin Accessible(stack \cup Range(lists.finobj) \cup Range(lists.tobefnz))
GarbageCollected == \A o \in Obj : Garbage(o) ~> mark[o] = "free"
=============================================================================
