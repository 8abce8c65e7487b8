----------------------------- MODULE Calls_proofs -----------------------------
(***************************************************************************)
(* Theorems about Calls, for any number of coroutines and any limits.      *)
(*                                                                         *)
(* The invariant says how the C stack and the CallInfo lists belong        *)
(* together.  What a frame of the C stack stands for is not to be seen in  *)
(* the frame alone, so the invariant asserts that there is a record g of   *)
(* it: g[j] is the number of activations of the thread, its nny and its    *)
(* nCcalls at the time frame j was last on top.                            *)
(***************************************************************************)
EXTENDS Calls, SequenceTheorems, FiniteSetTheorems, Induction

-----------------------------------------------------------------------------
(* Types *)

Info == [f : Kinds \cup {"handler"}, fresh : BOOLEAN, k : BOOLEAN, ypcall : BOOLEAN,
         old_errfunc : Nat, oah : BOOLEAN, hooked : BOOLEAN]

State == [ci : Seq(Info), status : {LUA_OK, LUA_YIELD, LUA_ERRRUN, LUA_ERRERR}, nny : Nat,
          nCcalls : Nat, errfunc : Nat, allowhook : BOOLEAN, openupval : SUBSET Nat, fn : BOOLEAN]

Via == {"precall", "call", "callnoyield"}

CFrame ==
  [fn : {"luaV_execute"}, L : Thread, via : Via]
  \cup [fn : {"C"}, L : Thread, via : Via, done : {"no", "ok", "error"}]
  \cup [fn : {"luaG_errormsg", "luaD_hook"}, L : Thread]
  \cup [fn : {"luaD_pcall"}, L : Thread, ci : Nat, nny : Nat, allowhook : BOOLEAN,
        errfunc : Nat, nCcalls : Nat]
  \cup [fn : {"lua_resume"}, L : Thread, nny : Nat, nCcalls : Nat]

Past == [level : Nat, nny : Nat, nCcalls : Nat]

-----------------------------------------------------------------------------
(* The activations of a thread *)

\* The message handler in force at level n, and whether hooks are on there.
Protected(ci, n) == {j \in 1..(n - 1) : ci[j].f \in Protecting}
Handler(ci, n) ==
  LET P == Protected(ci, n) IN
  IF \E j \in P : (\A i \in P : i <= j) /\ ci[j].f = "xpcall"
    THEN CHOOSE j \in P : \A i \in P : i <= j ELSE 0
HooksOn(ci, n) == \A j \in 1..n : ~ci[j].hooked

\* A yield may pass this activation: it can go on without its C frame.
Passes(a) == /\ a.f \notin {"call", "handler"} /\ ~a.hooked
             /\ (a.f # "lua" => a.k) /\ (a.f \in Protecting => a.ypcall)
Passable(ci, n) == \A j \in 1..n : Passes(ci[j])

NoBarrier(ci, n) ==
  /\ \A j \in 1..(n - 1) : ci[j].f # "call" /\ ~ci[j].hooked
  /\ \A j \in 1..n : ci[j].f # "handler"

\* What a protected call that can yield has saved is what was in force.
Saved(ci, n) ==
  ci[n].ypcall => /\ ci[n].f \in Protecting /\ Passable(ci, n)
                  /\ ci[n].old_errfunc = Handler(ci, n) /\ (ci[n].oah <=> HooksOn(ci, n))

Sound(t) ==
  /\ t \in State /\ t.errfunc <= Len(t.ci)
  /\ \A l \in t.openupval : l \in 1..Len(t.ci) /\ IsLua(t.ci[l])
  /\ \A n \in 1..Len(t.ci) : Saved(t.ci, n)

\* A thread without a C frame.
Asleep(L, t) ==
  /\ L = Main => t.ci = <<>> /\ t.status = LUA_OK /\ t.errfunc = 0 /\ t.allowhook
  /\ t.status = LUA_OK => t.ci = <<>> /\ (t.fn => t.nny = 1 /\ t.errfunc = 0 /\ t.allowhook)
  /\ t.status = LUA_YIELD =>
       LET n == Len(t.ci) IN
       /\ n > 0 /\ t.nny = 1 /\ Passable(t.ci, n - 1) /\ t.ci[n].f \in {"yield", "lua"}
       /\ t.errfunc = Handler(t.ci, n) /\ t.allowhook /\ HooksOn(t.ci, n)

-----------------------------------------------------------------------------
(* The frames of the C stack: x, of which s is the record, called by y, of which q is *)

\* A thread whose last C frame is x.
Awake(x, t, s) ==
  LET n == Len(t.ci) IN
  /\ s = [level |-> n, nny |-> t.nny, nCcalls |-> t.nCcalls]
  /\ x.fn \in {"luaV_execute", "luaD_hook", "C", "lua_resume"}
  /\ t.allowhook <=> HooksOn(t.ci, n)
  /\ x.fn = "lua_resume" => t.errfunc = Handler(t.ci, n + 1) \/ (n > 0 /\ t.ci[n].ypcall)
  /\ x.fn # "lua_resume" => n > 0 /\ t.errfunc = Handler(t.ci, n)
  /\ x.fn = "luaV_execute" => ~t.ci[n].hooked

\* A coroutine that can yield has no barrier below, and conversely.
Barrier(L, s, ci) ==
  /\ s.nny = 0 => L # Main /\ Passable(ci, s.level - 1) /\ (s.level > 0 => ci[s.level].f # "handler")
  /\ L # Main /\ NoBarrier(ci, s.level) => s.nny = 0

\* The counters after a call.
Counters(q, via, s) ==
  /\ s.nny = q.nny + (IF via = "callnoyield" THEN 1 ELSE 0)
  /\ s.nCcalls = q.nCcalls + (IF via # "precall" THEN 1 ELSE 0)

\* How y calls.
Calling(y, q, via, ci) ==
  /\ y.fn = "lua_resume" => via = "precall"
  /\ y.fn = "luaV_execute" => via \in {"precall", "call"} /\ ~ci[q.level].hooked
  /\ y.fn \in {"luaD_pcall", "luaD_hook"} => via = "callnoyield"
  /\ y.fn = "C" =>
       /\ ci[q.level].f \in Protecting \cup {"call", "dofile"}
       /\ via \in {"call", "callnoyield"}
       /\ via = "call" => Passes(ci[q.level])
       /\ via = "callnoyield" => ci[q.level].f \notin Protecting

Called(y, q, x, s, ci) ==
  \/ y.fn # "luaG_errormsg" /\ Calling(y, q, x.via, ci) /\ Counters(q, x.via, s)
  \/ /\ y.fn = "luaG_errormsg" /\ x.via = "callnoyield"
     /\ x.fn = "luaV_execute" /\ ci[q.level + 1].f = "handler" /\ s.nny > 0 /\ q.nCcalls <= s.nCcalls

OfLua(y, q, x, s, ci) ==
  /\ x.fn = "luaV_execute" /\ y.L = x.L /\ q.level < s.level /\ ci[q.level + 1].fresh
  /\ \A m \in (q.level + 1)..s.level : IsLua(ci[m])
  /\ \A m \in (q.level + 2)..s.level : ~ci[m].fresh /\ ci[m].f = "lua"
  /\ \A m \in (q.level + 1)..(s.level - 1) : ~ci[m].hooked
  /\ Called(y, q, x, s, ci) /\ Barrier(x.L, s, ci)

OfC(y, q, x, s, ci) ==
  /\ x.fn = "C" /\ y.L = x.L /\ s.level = q.level + 1 /\ ~IsLua(ci[s.level]) /\ ~ci[s.level].hooked
  /\ Called(y, q, x, s, ci) /\ Barrier(x.L, s, ci)

OfHook(y, q, x, s, ci) ==
  /\ x.fn = "luaD_hook" /\ y.fn = "luaV_execute" /\ y.L = x.L /\ s = q /\ s.level > 0
  /\ ci[s.level].hooked /\ IsLua(ci[s.level]) /\ HooksOn(ci, s.level - 1)
  /\ Barrier(x.L, s, ci)

OfError(y, q, x, s, ci) ==
  /\ x.fn = "luaG_errormsg" /\ y.L = x.L /\ s.level = q.level

OfPcall(y, q, x, s, ci) ==
  /\ x.fn = "luaD_pcall" /\ y.fn = "C" /\ y.L = x.L /\ s = q /\ s.nny > 0 /\ s.level > 0
  /\ x.ci = s.level /\ x.nny = s.nny /\ x.nCcalls = s.nCcalls
  /\ x.errfunc = Handler(ci, s.level) /\ (x.allowhook <=> HooksOn(ci, s.level))
  /\ ci[s.level].f \in Protecting /\ Barrier(x.L, s, ci)

OfResume(y, q, x, s, ci) ==
  /\ x.fn = "lua_resume" /\ y.fn = "C" /\ y.L # x.L /\ x.L # Main
  /\ x.nny = 1 /\ s.nny = 0 /\ x.nCcalls = s.nCcalls /\ s.nCcalls = q.nCcalls + 1
  /\ Passable(ci, s.level)

\* The lua_pcall of the host program.
OfHost(x, s) ==
  /\ x.fn = "luaD_pcall" /\ x.L = Main /\ s.level = 0 /\ s.nny = 1
  /\ x.ci = 0 /\ x.nny = s.nny /\ x.nCcalls = s.nCcalls /\ x.errfunc = 0 /\ x.allowhook

Kind(y, q, x, s, ci) ==
  \/ OfLua(y, q, x, s, ci)
  \/ OfC(y, q, x, s, ci)
  \/ OfHook(y, q, x, s, ci)
  \/ OfError(y, q, x, s, ci)
  \/ OfPcall(y, q, x, s, ci)
  \/ OfResume(y, q, x, s, ci)

Frame(c, g, ci, j) == IF j = 1 THEN OfHost(c[1], g[1]) ELSE Kind(c[j - 1], g[j - 1], c[j], g[j], ci)

\* The frames that nCcalls counts.  luaG_errormsg is about to make a call that is counted.
Counted(x) == x.fn = "lua_resume" \/ (x.fn \in {"luaV_execute", "C"} /\ x.via # "precall")
Slack(x) == IF x.fn = "luaG_errormsg" THEN 1 ELSE 0
Count(c, j) == Cardinality({i \in 1..j : Counted(c[i])})

\* Frame i is below frame j.
Pair(c, g, i, j) ==
  /\ c[j].fn = "lua_resume" => c[i].L # c[j].L
  /\ c[i].L = c[j].L =>
       /\ c[i + 1].fn # "lua_resume" /\ g[i].level <= g[j].level
       /\ c[i].fn = "luaD_pcall" => g[j].nny > 0
  /\ (\A m \in (i + 1)..j : c[m].fn # "lua_resume") => c[i].L = c[j].L

FrameAt(T, c, g, j) ==
  LET x == c[j]  t == T[x.L] IN
  /\ t.status = LUA_OK /\ g[j].level \in 0..Len(t.ci) /\ g[j].nCcalls < MaxCCalls + Extra
  /\ Count(c, j) + Slack(x) <= g[j].nCcalls
  /\ Frame(c, g, t.ci, j)
  /\ x.fn = "lua_resume" => Awake(c[j - 1], T[c[j - 1].L], g[j - 1])
  /\ \A i \in 1..(j - 1) : Pair(c, g, i, j)

\* The threads, but L is in state t.
With(L, t) == [th EXCEPT ![L] = t]

\* All is well but for the top of the stack, and for thread L, which is in state t.
Base(L, t, c, g) ==
  /\ th \in [Thread -> State] /\ L \in Thread /\ Sound(t)
  /\ c \in Seq(CFrame) /\ g \in Seq(Past) /\ Len(g) = Len(c)
  /\ \A l \in Thread \ {L} : Sound(th[l])
  /\ \A l \in Thread \ {L} : (\A j \in 1..Len(c) : c[j].L # l) => Asleep(l, th[l])
  /\ \A j \in 1..Len(c) : FrameAt(With(L, t), c, g, j)

Good(T, c, g) ==
  /\ T \in [Thread -> State] /\ c \in Seq(CFrame) /\ g \in Seq(Past) /\ Len(g) = Len(c)
  /\ \A L \in Thread : Sound(T[L])
  /\ \A L \in Thread : (\A j \in 1..Len(c) : c[j].L # L) => Asleep(L, T[L])
  /\ \A j \in 1..Len(c) : FrameAt(T, c, g, j)
  /\ c # <<>> => Awake(c[Len(c)], T[c[Len(c)].L], g[Len(c)])

IInv == \E g \in Seq(Past) : Good(th, cstack, g)

-----------------------------------------------------------------------------
(* Sequences *)

LEMMA AppendSeq ==
  ASSUME NEW S, NEW s \in Seq(S), NEW e \in S
  PROVE  /\ Append(s, e) \in Seq(S) /\ Len(Append(s, e)) = Len(s) + 1 /\ Append(s, e)[Len(s) + 1] = e
         /\ \A i \in 1..Len(s) : Append(s, e)[i] = s[i]
         /\ Append(s, e) # <<>>
  OBVIOUS

LEMMA CutSeq ==
  ASSUME NEW S, NEW s \in Seq(S), NEW n \in 0..Len(s)
  PROVE  /\ SubSeq(s, 1, n) \in Seq(S) /\ Len(SubSeq(s, 1, n)) = n
         /\ \A i \in 1..n : SubSeq(s, 1, n)[i] = s[i]
         /\ n = 0 => SubSeq(s, 1, n) = <<>>
  OBVIOUS

LEMMA FrontSeq ==
  ASSUME NEW S, NEW s \in Seq(S), s # <<>>
  PROVE  /\ Front(s) \in Seq(S) /\ Len(Front(s)) = Len(s) - 1 /\ Len(s) \in Nat \ {0}
         /\ \A i \in 1..(Len(s) - 1) : Front(s)[i] = s[i]
         /\ Last(s) = s[Len(s)] /\ Last(s) \in S /\ Front(s) = SubSeq(s, 1, Len(s) - 1)
<1>1. Len(s) \in Nat \ {0}
  OBVIOUS
<1>2. Len(s) - 1 \in 0..Len(s)
  BY <1>1
<1>3. Front(s) = SubSeq(s, 1, Len(s) - 1) /\ Last(s) = s[Len(s)] /\ Last(s) \in S
  BY <1>1 DEF Front, Last
<1> DEFINE r == SubSeq(s, 1, Len(s) - 1)
<1>4. r \in Seq(S) /\ Len(r) = Len(s) - 1 /\ \A i \in 1..(Len(s) - 1) : r[i] = s[i]
  BY <1>2, CutSeq
<1> QED
  BY <1>1, <1>3, <1>4

-----------------------------------------------------------------------------
(* Activations *)

LEMMA HandlerSame ==
  ASSUME NEW a, NEW b, NEW n, \A i \in 1..(n - 1) : a[i].f = b[i].f
  PROVE  Handler(a, n) = Handler(b, n)
<1>1. Protected(a, n) = Protected(b, n)
  BY DEF Protected
<1>2. \A j \in Protected(a, n) : a[j].f = b[j].f
  BY DEF Protected
<1> QED
  BY <1>1, <1>2 DEF Handler

\* Only a protected call sets a handler.
LEMMA HandlerNext ==
  ASSUME NEW ci, NEW n \in Nat \ {0}, ci[n].f \notin Protecting
  PROVE  Handler(ci, n + 1) = Handler(ci, n)
<1>1. Protected(ci, n + 1) = Protected(ci, n)
  <2>1. \A j \in 1..n : j = n \/ j \in 1..(n - 1)
    OBVIOUS
  <2>2. (n + 1) - 1 = n /\ \A j \in 1..(n - 1) : j \in 1..n
    OBVIOUS
  <2> QED
    BY <2>1, <2>2 DEF Protected
<1>2. \A P : P = Protected(ci, n + 1) =>
        Handler(ci, n + 1) = IF \E j \in P : (\A i \in P : i <= j) /\ ci[j].f = "xpcall"
                               THEN CHOOSE j \in P : \A i \in P : i <= j ELSE 0
  BY DEF Handler
<1>3. \A P : P = Protected(ci, n) =>
        Handler(ci, n) = IF \E j \in P : (\A i \in P : i <= j) /\ ci[j].f = "xpcall"
                           THEN CHOOSE j \in P : \A i \in P : i <= j ELSE 0
  BY DEF Handler
<1> QED
  BY <1>1, <1>2, <1>3

LEMMA HandlerSet ==
  ASSUME NEW ci, NEW n \in Nat \ {0}, ci[n].f \in Protecting
  PROVE  Handler(ci, n + 1) = IF ci[n].f = "xpcall" THEN n ELSE 0
<1> DEFINE P == Protected(ci, n + 1)
<1>1. n \in P /\ \A i \in P : i \in Nat /\ i <= n
  BY DEF Protected
<1>2. \A j \in P : (\A i \in P : i <= j) => j = n
  BY <1>1
<1>3. (CHOOSE j \in P : \A i \in P : i <= j) = n
  BY <1>1, <1>2
<1> HIDE DEF P
<1>4. Handler(ci, n + 1) = IF \E j \in P : (\A i \in P : i <= j) /\ ci[j].f = "xpcall"
                             THEN CHOOSE j \in P : \A i \in P : i <= j ELSE 0
  BY DEF Handler, P
<1>5. (\E j \in P : (\A i \in P : i <= j) /\ ci[j].f = "xpcall") <=> ci[n].f = "xpcall"
  BY <1>1, <1>2
<1> QED
  BY <1>3, <1>4, <1>5

LEMMA HandlerBound ==
  ASSUME NEW ci, NEW n \in Nat
  PROVE  Handler(ci, n) \in Nat /\ (n > 0 => Handler(ci, n) < n)
<1> DEFINE P == Protected(ci, n)
<1>1. \A i \in P : i \in Nat /\ i < n
  BY DEF Protected
<1>2. Handler(ci, n) = IF \E j \in P : (\A i \in P : i <= j) /\ ci[j].f = "xpcall"
                         THEN CHOOSE j \in P : \A i \in P : i <= j ELSE 0
  BY DEF Handler
<1> HIDE DEF P
<1>3. CASE \E j \in P : (\A i \in P : i <= j) /\ ci[j].f = "xpcall"
  <2>1. Handler(ci, n) \in P
    BY <1>2, <1>3
  <2> QED
    BY <1>1, <2>1
<1>4. CASE ~ \E j \in P : (\A i \in P : i <= j) /\ ci[j].f = "xpcall"
  BY <1>2, <1>4
<1> QED
  BY <1>3, <1>4

LEMMA HandlerZero ==
  ASSUME NEW ci
  PROVE  Handler(ci, 0) = 0 /\ Handler(ci, 1) = 0
<1>1. Protected(ci, 0) = {} /\ Protected(ci, 1) = {}
  BY DEF Protected
<1> QED
  BY <1>1 DEF Handler

LEMMA SavedSame ==
  ASSUME NEW a, NEW b, NEW n \in Nat \ {0}, \A i \in 1..n : a[i] = b[i], Saved(a, n)
  PROVE  Saved(b, n)
<1>1. a[n] = b[n]
  OBVIOUS
<1>2. Handler(a, n) = Handler(b, n)
  BY HandlerSame
<1>3. (Passable(a, n) <=> Passable(b, n)) /\ (HooksOn(a, n) <=> HooksOn(b, n))
  BY DEF Passable, HooksOn
<1> QED
  BY <1>1, <1>2, <1>3 DEF Saved

-----------------------------------------------------------------------------
(* Frames *)

LEMMA CFrameIs ==
  ASSUME NEW x \in CFrame
  PROVE  /\ x.L \in Thread
         /\ x.fn \in {"luaV_execute", "C", "luaG_errormsg", "luaD_hook", "luaD_pcall", "lua_resume"}
         /\ x.fn \in {"luaV_execute", "C"} => x.via \in Via
         /\ x.fn = "C" => x \in [fn : {"C"}, L : Thread, via : Via, done : {"no", "ok", "error"}]
         /\ x.fn = "luaD_pcall" => x \in [fn : {"luaD_pcall"}, L : Thread, ci : Nat, nny : Nat, allowhook : BOOLEAN,
                                          errfunc : Nat, nCcalls : Nat]
         /\ x.fn = "lua_resume" => x \in [fn : {"lua_resume"}, L : Thread, nny : Nat, nCcalls : Nat]
<1>1. CASE x \in [fn : {"luaV_execute"}, L : Thread, via : Via]
  BY <1>1
<1>2. CASE x \in [fn : {"C"}, L : Thread, via : Via, done : {"no", "ok", "error"}]
  BY <1>2
<1>3. CASE x \in [fn : {"luaG_errormsg", "luaD_hook"}, L : Thread]
  BY <1>3
<1>4. CASE x \in [fn : {"luaD_pcall"}, L : Thread, ci : Nat, nny : Nat, allowhook : BOOLEAN,
                  errfunc : Nat, nCcalls : Nat]
  BY <1>4
<1>5. CASE x \in [fn : {"lua_resume"}, L : Thread, nny : Nat, nCcalls : Nat]
  BY <1>5
<1> QED
  BY <1>1, <1>2, <1>3, <1>4, <1>5 DEF CFrame

LEMMA CFrameOf ==
  ASSUME NEW L \in Thread, NEW via \in Via
  PROVE  /\ Execute(L, via) \in CFrame /\ CFunction(L, via) \in CFrame
         /\ [fn |-> "luaG_errormsg", L |-> L] \in CFrame /\ [fn |-> "luaD_hook", L |-> L] \in CFrame
         /\ \A ci, nny, errfunc, nCcalls \in Nat, allowhook \in BOOLEAN :
              [fn |-> "luaD_pcall", L |-> L, ci |-> ci, nny |-> nny, allowhook |-> allowhook,
               errfunc |-> errfunc, nCcalls |-> nCcalls] \in CFrame
         /\ \A nny, nCcalls \in Nat :
              [fn |-> "lua_resume", L |-> L, nny |-> nny, nCcalls |-> nCcalls] \in CFrame
<1>1. Execute(L, via) \in [fn : {"luaV_execute"}, L : Thread, via : Via]
  BY DEF Execute
<1>2. CFunction(L, via) \in [fn : {"C"}, L : Thread, via : Via, done : {"no", "ok", "error"}]
  BY DEF CFunction
<1>3. /\ [fn |-> "luaG_errormsg", L |-> L] \in [fn : {"luaG_errormsg", "luaD_hook"}, L : Thread]
      /\ [fn |-> "luaD_hook", L |-> L] \in [fn : {"luaG_errormsg", "luaD_hook"}, L : Thread]
  OBVIOUS
<1>4. \A ci, nny, errfunc, nCcalls \in Nat, allowhook \in BOOLEAN :
        [fn |-> "luaD_pcall", L |-> L, ci |-> ci, nny |-> nny, allowhook |-> allowhook,
         errfunc |-> errfunc, nCcalls |-> nCcalls] \in
        [fn : {"luaD_pcall"}, L : Thread, ci : Nat, nny : Nat, allowhook : BOOLEAN,
         errfunc : Nat, nCcalls : Nat]
  OBVIOUS
<1>5. \A nny, nCcalls \in Nat :
        [fn |-> "lua_resume", L |-> L, nny |-> nny, nCcalls |-> nCcalls] \in
        [fn : {"lua_resume"}, L : Thread, nny : Nat, nCcalls : Nat]
  OBVIOUS
<1> QED
  BY <1>1, <1>2, <1>3, <1>4, <1>5 DEF CFrame

LEMMA CountSame ==
  ASSUME NEW c, NEW d, NEW n, \A i \in 1..n : Counted(c[i]) <=> Counted(d[i])
  PROVE  Count(c, n) = Count(d, n)
<1>1. {i \in 1..n : Counted(c[i])} = {i \in 1..n : Counted(d[i])}
  OBVIOUS
<1> QED
  BY <1>1 DEF Count

LEMMA CountNext ==
  ASSUME NEW c, NEW n \in Nat
  PROVE  /\ Count(c, n) \in Nat
         /\ Count(c, n + 1) = Count(c, n) + (IF Counted(c[n + 1]) THEN 1 ELSE 0)
<1> DEFINE A == {i \in 1..n : Counted(c[i])}
           B == {i \in 1..(n + 1) : Counted(c[i])}
<1>1. IsFiniteSet(A) /\ Cardinality(A) \in Nat
  <2>1. IsFiniteSet(1..n)
    BY FS_Interval
  <2>2. A \subseteq 1..n
    OBVIOUS
  <2> QED
    BY <2>1, <2>2, FS_Subset, FS_CardinalityType
<1>2. n + 1 \notin A
  OBVIOUS
<1>3. Counted(c[n + 1]) => B = A \cup {n + 1}
  OBVIOUS
<1>4. ~Counted(c[n + 1]) => B = A
  OBVIOUS
<1> HIDE DEF A, B
<1>5. Cardinality(A \cup {n + 1}) = Cardinality(A) + 1
  BY <1>1, <1>2, FS_AddElement
<1>6. Count(c, n) = Cardinality(A) /\ Count(c, n + 1) = Cardinality(B)
  BY DEF Count, A, B
<1>7. CASE Counted(c[n + 1])
  BY <1>1, <1>3, <1>5, <1>6, <1>7
<1>8. CASE ~Counted(c[n + 1])
  BY <1>1, <1>4, <1>6, <1>8
<1> QED
  BY <1>7, <1>8

LEMMA CountZero ==
  ASSUME NEW c
  PROVE  Count(c, 0) = 0
<1>1. {i \in 1..0 : Counted(c[i])} = {}
  OBVIOUS
<1> QED
  BY <1>1, FS_EmptySet DEF Count

\* Two frames that differ only in what the C function called last has returned.
Alike(x, y) == x = y \/ (x.fn = "C" /\ y.fn = "C" /\ x.L = y.L /\ x.via = y.via)

\* Two lists of activations that are the same for a frame of function fn and level n.
Agree(fn, a, b, n) ==
  /\ \A i \in 1..(n - 1) : b[i] = a[i]
  /\ n > 0 => \/ b[n] = a[n]
              \/ fn = "C" /\ b[n].f = a[n].f /\ b[n].hooked = a[n].hooked
              \/ fn = "luaV_execute" /\ b[n].f = a[n].f /\ b[n].fresh = a[n].fresh

LEMMA AgreeIs ==
  ASSUME NEW fn, NEW a, NEW b, NEW n \in Nat, Agree(fn, a, b, n)
  PROVE  /\ \A i \in 1..n : b[i].f = a[i].f
         /\ \A i \in 1..(n - 1) : b[i] = a[i]
         /\ fn \notin {"C", "luaV_execute"} => \A i \in 1..n : b[i] = a[i]
         /\ \A i \in 1..n : fn # "C" => b[i].fresh = a[i].fresh
         /\ fn = "C" => \A i \in 1..n : b[i].hooked = a[i].hooked
<1>1. \A i \in 1..n : i = n \/ i \in 1..(n - 1)
  OBVIOUS
<1> QED
  BY <1>1 DEF Agree

LEMMA BarrierSame ==
  ASSUME NEW fn, NEW a, NEW b, NEW s \in Past, Agree(fn, a, b, s.level), NEW L, Barrier(L, s, a)
  PROVE  Barrier(L, s, b)
<1>1. s.level \in Nat
  BY DEF Past
<1>2. /\ \A i \in 1..s.level : b[i].f = a[i].f
      /\ \A i \in 1..(s.level - 1) : b[i] = a[i]
  BY <1>1, AgreeIs
<1>3. NoBarrier(b, s.level) => NoBarrier(a, s.level)
  BY <1>2 DEF NoBarrier
<1>4. Passable(a, s.level - 1) => Passable(b, s.level - 1)
  BY <1>2 DEF Passable
<1>5. s.level > 0 => b[s.level].f = a[s.level].f
  BY <1>1, <1>2
<1> QED
  BY <1>3, <1>4, <1>5 DEF Barrier

LEMMA CallingSame ==
  ASSUME NEW a, NEW b, NEW y, NEW z, Alike(z, y), NEW q, NEW via,
         y.fn \in {"C", "luaV_execute"} => b[q.level] = a[q.level], Calling(y, q, via, a)
  PROVE  Calling(z, q, via, b)
<1>1. z.fn = y.fn
  BY DEF Alike
<1>2. CASE y.fn \in {"C", "luaV_execute"}
  BY <1>1, <1>2 DEF Calling
<1>3. CASE y.fn \notin {"C", "luaV_execute"}
  BY <1>1, <1>3 DEF Calling
<1> QED
  BY <1>2, <1>3

LEMMA CalledSame ==
  ASSUME NEW a, NEW b, NEW y, NEW z, Alike(z, y), NEW x, NEW w, Alike(w, x), x.fn \in {"C", "luaV_execute"},
         NEW q \in Past, NEW s \in Past, q.level < s.level, Agree(x.fn, a, b, s.level),
         y.fn \in {"C", "luaV_execute"} => q.level > 0, Called(y, q, x, s, a)
  PROVE  Called(z, q, w, s, b)
<1>1. s.level \in Nat /\ q.level \in Nat
  BY DEF Past
<1>2. /\ \A i \in 1..s.level : b[i].f = a[i].f
      /\ \A i \in 1..(s.level - 1) : b[i] = a[i]
  BY <1>1, AgreeIs
<1>3. z.fn = y.fn /\ w.fn = x.fn /\ w.via = x.via
  BY DEF Alike
<1>4. y.fn \in {"C", "luaV_execute"} => b[q.level] = a[q.level]
  BY <1>1, <1>2
<1>5. b[q.level + 1].f = a[q.level + 1].f
  BY <1>1, <1>2
<1>6. CASE y.fn # "luaG_errormsg" /\ Calling(y, q, x.via, a) /\ Counters(q, x.via, s)
  BY <1>3, <1>4, <1>6, CallingSame DEF Called
<1>7. CASE /\ y.fn = "luaG_errormsg" /\ x.via = "callnoyield"
           /\ x.fn = "luaV_execute" /\ a[q.level + 1].f = "handler" /\ s.nny > 0
  BY <1>3, <1>5, <1>7 DEF Called
<1> QED
  BY <1>6, <1>7 DEF Called

\* What a frame says of the activations up to its level.
LEMMA KindSame ==
  ASSUME NEW a, NEW b, NEW y, NEW z, Alike(z, y), NEW x, NEW w, Alike(w, x),
         NEW q \in Past, NEW s \in Past, Agree(x.fn, a, b, s.level),
         y.fn \in {"C", "luaV_execute"} => q.level > 0, Kind(y, q, x, s, a)
  PROVE  Kind(z, q, w, s, b)
<1>1. s.level \in Nat /\ q.level \in Nat
  BY DEF Past
<1>2. /\ \A i \in 1..s.level : b[i].f = a[i].f
      /\ \A i \in 1..(s.level - 1) : b[i] = a[i]
      /\ x.fn \notin {"C", "luaV_execute"} => \A i \in 1..s.level : b[i] = a[i]
      /\ \A i \in 1..s.level : x.fn # "C" => b[i].fresh = a[i].fresh
      /\ x.fn = "C" => \A i \in 1..s.level : b[i].hooked = a[i].hooked
  BY <1>1, AgreeIs
<1>3. z.fn = y.fn /\ w.fn = x.fn /\ z.L = y.L /\ w.L = x.L /\ (x.fn # "C" => w = x)
  BY DEF Alike
<1>4. Barrier(x.L, s, a) => Barrier(w.L, s, b)
  BY <1>3, BarrierSame
<1>5. x.fn \in {"C", "luaV_execute"} /\ q.level < s.level /\ Called(y, q, x, s, a) => Called(z, q, w, s, b)
  BY CalledSame
<1>6. CASE OfLua(y, q, x, s, a)
  <2>1. /\ b[q.level + 1].fresh
        /\ \A m \in (q.level + 1)..s.level : IsLua(b[m])
        /\ \A m \in (q.level + 2)..s.level : ~b[m].fresh /\ b[m].f = "lua"
        /\ \A m \in (q.level + 1)..(s.level - 1) : ~b[m].hooked
    <3>1. x.fn = "luaV_execute" /\ q.level < s.level
      BY <1>6 DEF OfLua
    <3>2. /\ \A m \in (q.level + 1)..s.level : m \in 1..s.level
          /\ \A m \in (q.level + 2)..s.level : m \in 1..s.level
          /\ \A m \in (q.level + 1)..(s.level - 1) : m \in 1..(s.level - 1)
          /\ q.level + 1 \in 1..s.level
      BY <1>1, <3>1
    <3> QED
      BY <1>2, <1>6, <3>1, <3>2 DEF OfLua, IsLua
  <2> QED
    BY <1>3, <1>4, <1>5, <1>6, <2>1 DEF OfLua, Kind
<1>7. CASE OfC(y, q, x, s, a)
  <2>1. s.level \in 1..s.level /\ x.fn = "C" /\ q.level < s.level
    BY <1>1, <1>7 DEF OfC
  <2>2. ~IsLua(b[s.level]) /\ ~b[s.level].hooked
    BY <1>2, <1>7, <2>1 DEF OfC, IsLua
  <2> QED
    BY <1>3, <1>4, <1>5, <1>7, <2>1, <2>2 DEF OfC, Kind
<1>8. CASE OfHook(y, q, x, s, a)
  <2>1. s.level \in 1..s.level /\ b[s.level] = a[s.level]
    BY <1>1, <1>2, <1>8 DEF OfHook
  <2>2. HooksOn(b, s.level - 1)
    BY <1>2, <1>8 DEF OfHook, HooksOn
  <2> QED
    BY <1>3, <1>4, <1>8, <2>1, <2>2 DEF OfHook, Kind
<1>9. CASE OfError(y, q, x, s, a)
  BY <1>3, <1>9 DEF OfError, Kind
<1>10. CASE OfPcall(y, q, x, s, a)
  <2>1. s.level \in 1..s.level /\ b[s.level] = a[s.level]
    BY <1>1, <1>2, <1>10 DEF OfPcall
  <2>2. \A i \in 1..s.level : b[i] = a[i]
    BY <1>2, <1>10 DEF OfPcall
  <2>3. (HooksOn(b, s.level) <=> HooksOn(a, s.level)) /\ Handler(b, s.level) = Handler(a, s.level)
    BY <1>2, <2>2, HandlerSame DEF HooksOn
  <2> QED
    BY <1>3, <1>4, <1>10, <2>1, <2>3 DEF OfPcall, Kind
<1>11. CASE OfResume(y, q, x, s, a)
  <2>1. \A i \in 1..s.level : b[i] = a[i]
    BY <1>2, <1>11 DEF OfResume
  <2>2. Passable(b, s.level)
    BY <1>11, <2>1 DEF OfResume, Passable
  <2> QED
    BY <1>3, <1>11, <2>2 DEF OfResume, Kind
<1> QED
  BY <1>6, <1>7, <1>8, <1>9, <1>10, <1>11 DEF Kind

\* A frame of a Lua or C function is above the frame that called it.
LEMMA FrameRises ==
  ASSUME NEW T, NEW c \in Seq(CFrame), NEW g \in Seq(Past), Len(g) = Len(c), NEW j \in 1..Len(c),
         FrameAt(T, c, g, j), c[j].fn \in {"C", "luaV_execute"}
  PROVE  j > 1 /\ g[j].level > g[j - 1].level /\ c[j - 1].L = c[j].L /\ g[j].level > 0
<1>1. j \in Nat /\ j # 1 /\ Kind(c[j - 1], g[j - 1], c[j], g[j], T[c[j].L].ci)
  BY DEF FrameAt, Frame, OfHost
<1>2. j \in 1..Len(g) /\ j - 1 \in 1..Len(g)
  BY <1>1
<1>3. g[j] \in Past /\ g[j - 1] \in Past
  BY <1>2
<1>4. OfLua(c[j - 1], g[j - 1], c[j], g[j], T[c[j].L].ci) \/ OfC(c[j - 1], g[j - 1], c[j], g[j], T[c[j].L].ci)
  BY <1>1 DEF Kind, OfHook, OfError, OfPcall, OfResume
<1>5. g[j].level \in Nat /\ g[j - 1].level \in Nat
  BY <1>3 DEF Past
<1>6. g[j].level > g[j - 1].level /\ c[j - 1].L = c[j].L
  <2>1. CASE OfLua(c[j - 1], g[j - 1], c[j], g[j], T[c[j].L].ci)
    <3>1. c[j - 1].L = c[j].L /\ g[j - 1].level < g[j].level
      BY <2>1 DEF OfLua
    <3> QED
      BY <1>5, <3>1
  <2>2. CASE OfC(c[j - 1], g[j - 1], c[j], g[j], T[c[j].L].ci)
    <3>1. c[j - 1].L = c[j].L /\ g[j].level = g[j - 1].level + 1
      BY <2>2 DEF OfC
    <3> QED
      BY <1>5, <3>1
  <2> QED
    BY <1>4, <2>1, <2>2
<1> QED
  BY <1>1, <1>5, <1>6

\* The first m frames are good.
AllAt(T, c, g, m) == \A j \in 1..m : FrameAt(T, c, g, j)

\* They are the same in d and h.
Same(c, g, d, h, m) == \A j \in 1..m : Alike(d[j], c[j]) /\ h[j] = g[j]

\* Thread L, which runs the last of them or none, changes above it, and no other thread.
Above(T, U, L, c, g, m) ==
  /\ \A l \in Thread : l # L => U[l] = T[l]
  /\ \/ \A j \in 1..m : c[j].L # L
     \/ /\ m > 0 /\ c[m].L = L /\ U[L].status = LUA_OK
        /\ Len(U[L].ci) \in Nat /\ g[m].level <= Len(U[L].ci)
        /\ Agree(c[m].fn, T[L].ci, U[L].ci, g[m].level)

LEMMA FramesSame ==
  ASSUME NEW T, NEW U, NEW c \in Seq(CFrame), NEW g \in Seq(Past), Len(g) = Len(c), NEW m \in 0..Len(c),
         NEW L, NEW d, NEW h, AllAt(T, c, g, m), Same(c, g, d, h, m), Above(T, U, L, c, g, m)
  PROVE  AllAt(U, d, h, m)
<1>0. /\ \A j \in 1..m : FrameAt(T, c, g, j)
      /\ \A j \in 1..m : Alike(d[j], c[j]) /\ h[j] = g[j]
      /\ \A l \in Thread : l # L => U[l] = T[l]
      /\ \/ \A j \in 1..m : c[j].L # L
         \/ /\ m > 0 /\ c[m].L = L /\ U[L].status = LUA_OK
            /\ Len(U[L].ci) \in Nat /\ g[m].level <= Len(U[L].ci)
            /\ Agree(c[m].fn, T[L].ci, U[L].ci, g[m].level)
  BY DEF AllAt, Same, Above
<1> SUFFICES ASSUME NEW j \in 1..m PROVE FrameAt(U, d, h, j)
  BY DEF AllAt
<1>1. \A i \in 1..m : /\ d[i].fn = c[i].fn /\ d[i].L = c[i].L /\ (Counted(d[i]) <=> Counted(c[i]))
                      /\ Slack(d[i]) = Slack(c[i]) /\ h[i] = g[i]
                      /\ c[i].fn # "C" => d[i] = c[i]
  BY <1>0 DEF Alike, Counted, Slack
<1>2. m \in Nat /\ j \in Nat /\ \A i \in 1..j : i \in 1..m
  OBVIOUS
<1>3. \A i \in 1..m : c[i] \in CFrame /\ c[i].L \in Thread /\ g[i] \in Past /\ g[i].level \in Nat
  <2>1. \A i \in 1..m : i \in 1..Len(c) /\ i \in 1..Len(g)
    OBVIOUS
  <2>2. \A i \in 1..m : c[i] \in CFrame /\ g[i] \in Past
    BY <2>1
  <2> QED
    BY <2>2, CFrameIs DEF Past
<1>4. Count(d, j) = Count(c, j)
  BY <1>1, <1>2, CountSame
<1>5. ASSUME NEW i \in 1..(j - 1) PROVE Pair(d, h, i, j)
  <2>1. i \in 1..m /\ i + 1 \in 1..m /\ \A k \in (i + 1)..j : k \in 1..m
    BY <1>2
  <2>2. Pair(c, g, i, j)
    BY <1>0 DEF FrameAt
  <2> QED
    BY <1>1, <2>1, <2>2 DEF Pair
<1>6. FrameAt(T, c, g, j)
  BY <1>0
<1>7. c[j].fn = "lua_resume" => j > 1 /\ c[j - 1].L # L
  <2> SUFFICES ASSUME c[j].fn = "lua_resume" PROVE j > 1 /\ c[j - 1].L # L
    OBVIOUS
  <2>1. j > 1 /\ j - 1 \in 1..m
    BY <1>6 DEF FrameAt, Frame, OfHost
  <2>2. CASE m > 0 /\ c[m].L = L /\ c[j - 1].L = L
    <3>1. j - 1 \in 1..(m - 1) /\ (j - 1) + 1 = j
      BY <2>1
    <3>2. FrameAt(T, c, g, m)
      BY <1>0, <2>2
    <3>3. Pair(c, g, j - 1, m)
      BY <3>1, <3>2 DEF FrameAt
    <3> QED
      BY <2>2, <3>1, <3>3 DEF Pair
  <2> QED
    BY <1>0, <2>1, <2>2
<1>8. ASSUME c[j].fn = "lua_resume" PROVE Awake(d[j - 1], U[d[j - 1].L], h[j - 1])
  <2>1. j - 1 \in 1..m /\ U[c[j - 1].L] = T[c[j - 1].L]
    BY <1>0, <1>3, <1>7, <1>8
  <2>2. Awake(c[j - 1], T[c[j - 1].L], g[j - 1])
    BY <1>6, <1>8 DEF FrameAt
  <2> QED
    BY <1>1, <2>1, <2>2 DEF Awake
<1>9. /\ U[c[j].L].status = LUA_OK /\ g[j].level \in 0..Len(U[c[j].L].ci)
      /\ Agree(c[j].fn, T[c[j].L].ci, U[c[j].L].ci, g[j].level)
  <2>1. CASE c[j].L # L
    <3>1. U[c[j].L] = T[c[j].L]
      BY <1>0, <1>3, <2>1
    <3> QED
      BY <1>6, <3>1 DEF FrameAt, Agree
  <2>2. CASE c[j].L = L /\ j = m
    BY <1>0, <1>3, <2>2
  <2>3. CASE c[j].L = L /\ j # m
    <3>1. /\ m > 0 /\ c[m].L = L /\ U[L].status = LUA_OK
          /\ Len(U[L].ci) \in Nat /\ g[m].level <= Len(U[L].ci)
          /\ Agree(c[m].fn, T[L].ci, U[L].ci, g[m].level)
      BY <1>0, <2>3
    <3>2. j \in 1..(m - 1) /\ m \in 1..m /\ FrameAt(T, c, g, m)
      BY <1>0, <1>2, <2>3
    <3>3. g[j].level <= g[m].level
      BY <2>3, <3>1, <3>2 DEF FrameAt, Pair
    <3>4. g[j].level \in Nat /\ g[m].level \in Nat
      BY <1>3, <3>2
    <3>7. SUFFICES Agree(c[j].fn, T[L].ci, U[L].ci, g[j].level)
      BY <2>3, <3>1, <3>3, <3>4
    <3>5. CASE c[m].fn \in {"C", "luaV_execute"}
      <4>1. m > 1 /\ g[m].level > g[m - 1].level /\ c[m - 1].L = L /\ m \in 1..Len(c)
        BY <3>1, <3>2, <3>5, FrameRises
      <4>2. m - 1 \in 1..m /\ FrameAt(T, c, g, m - 1)
        BY <1>0, <1>2, <4>1
      <4>3. g[j].level <= g[m - 1].level
        <5>1. CASE j = m - 1
          BY <3>4, <5>1
        <5>2. CASE j # m - 1
          <6>1. j \in 1..((m - 1) - 1)
            BY <3>2, <5>2
          <6>2. Pair(c, g, j, m - 1)
            BY <4>2, <6>1 DEF FrameAt
          <6> QED
            BY <2>3, <4>1, <6>2 DEF Pair
        <5> QED
          BY <5>1, <5>2
      <4>4. g[m - 1].level \in Nat
        BY <1>3, <4>2
      <4>5. \A i \in 1..g[j].level : i \in 1..(g[m].level - 1)
        BY <3>4, <4>1, <4>3, <4>4
      <4>6. \A i \in 1..g[j].level : U[L].ci[i] = T[L].ci[i]
        BY <3>1, <4>5 DEF Agree
      <4>7. (\A i \in 1..(g[j].level - 1) : i \in 1..g[j].level) /\ (g[j].level > 0 => g[j].level \in 1..g[j].level)
        BY <3>4
      <4>8. Agree(c[j].fn, T[L].ci, U[L].ci, g[j].level)
        BY <4>6, <4>7 DEF Agree
      <4> QED
        BY <4>8
    <3>6. CASE c[m].fn \notin {"C", "luaV_execute"}
      <4>1. \A i \in 1..g[m].level : U[L].ci[i] = T[L].ci[i]
        BY <3>1, <3>4, <3>6, AgreeIs
      <4>2. /\ \A i \in 1..(g[j].level - 1) : i \in 1..g[m].level
            /\ g[j].level > 0 => g[j].level \in 1..g[m].level
        BY <3>3, <3>4
      <4>3. Agree(c[j].fn, T[L].ci, U[L].ci, g[j].level)
        BY <4>1, <4>2 DEF Agree
      <4> QED
        BY <4>3
    <3> QED
      BY <3>5, <3>6
  <2> QED
    BY <2>1, <2>2, <2>3
<1>10. Frame(d, h, U[c[j].L].ci, j)
  <2>1. CASE j = 1
    <3>1. OfHost(c[1], g[1])
      BY <1>6, <2>1 DEF FrameAt, Frame
    <3>2. d[1] = c[1] /\ h[1] = g[1]
      BY <1>1, <2>1, <3>1 DEF OfHost
    <3> QED
      BY <2>1, <3>1, <3>2 DEF Frame
  <2>2. CASE j # 1
    <3>1. j - 1 \in 1..m /\ j - 1 \in 1..Len(c)
      BY <2>2
    <3>2. Kind(c[j - 1], g[j - 1], c[j], g[j], T[c[j].L].ci)
      BY <1>6, <2>2 DEF FrameAt, Frame
    <3>3. c[j - 1].fn \in {"C", "luaV_execute"} => g[j - 1].level > 0
      BY <1>0, <3>1, FrameRises
    <3>4. Kind(d[j - 1], g[j - 1], d[j], g[j], U[c[j].L].ci)
      BY <1>0, <1>3, <1>9, <3>1, <3>2, <3>3, KindSame
    <3> QED
      BY <1>1, <2>2, <3>1, <3>4 DEF Frame
  <2> QED
    BY <2>1, <2>2
<1>11. d[j].L = c[j].L /\ d[j].fn = c[j].fn /\ h[j] = g[j] /\ Slack(d[j]) = Slack(c[j])
  BY <1>1
<1>12. g[j].nCcalls < MaxCCalls + Extra /\ Count(c, j) + Slack(c[j]) <= g[j].nCcalls
  BY <1>6 DEF FrameAt
<1> QED
  BY <1>4, <1>5, <1>8, <1>9, <1>10, <1>11, <1>12 DEF FrameAt

-----------------------------------------------------------------------------
(* Steps: thread L changes, frames are removed from the stack and put on it *)

LEMMA BaseTypes ==
  ASSUME NEW L, NEW t, NEW c, NEW g, Base(L, t, c, g)
  PROVE  /\ t \in State /\ L \in Thread /\ Len(c) \in Nat /\ Len(g) = Len(c)
         /\ t.ci \in Seq(Info) /\ Len(t.ci) \in Nat
         /\ \A j \in 1..Len(c) : /\ c[j] \in CFrame /\ g[j] \in Past /\ c[j].L \in Thread
                                 /\ g[j].level \in Nat /\ g[j].nny \in Nat /\ g[j].nCcalls \in Nat
         /\ \A j \in 1..Len(c) : FrameAt(With(L, t), c, g, j)
         /\ With(L, t) \in [Thread -> State] /\ With(L, t)[L] = t
         /\ \A l \in Thread : l # L => With(L, t)[l] = th[l]
<1>1. t \in State /\ th \in [Thread -> State] /\ L \in Thread /\ c \in Seq(CFrame) /\ g \in Seq(Past) /\ Len(g) = Len(c)
  BY DEF Base, Sound
<1>2. t.ci \in Seq(Info) /\ Len(t.ci) \in Nat
  BY <1>1 DEF State
<1>3. \A j \in 1..Len(c) : c[j] \in CFrame /\ g[j] \in Past
  BY <1>1
<1>4. \A j \in 1..Len(c) : g[j].level \in Nat /\ g[j].nny \in Nat /\ g[j].nCcalls \in Nat
  BY <1>3 DEF Past
<1>5. \A j \in 1..Len(c) : c[j].L \in Thread
  BY <1>3, CFrameIs
<1>6. \A j \in 1..Len(c) : FrameAt(With(L, t), c, g, j)
  BY DEF Base
<1>7. /\ With(L, t) \in [Thread -> State] /\ With(L, t)[L] = t
      /\ \A l \in Thread : l # L => With(L, t)[l] = th[l]
  BY <1>1 DEF With
<1>8. Len(c) \in Nat
  BY <1>1
<1> QED
  BY <1>1, <1>2, <1>3, <1>4, <1>5, <1>6, <1>7, <1>8

LEMMA BaseAt ==
  ASSUME NEW L, NEW t, NEW c, NEW g, Base(L, t, c, g), NEW j \in 1..Len(c)
  PROVE  /\ FrameAt(With(L, t), c, g, j) /\ c[j] \in CFrame /\ g[j] \in Past /\ c[j].L \in Thread
         /\ g[j].level \in Nat /\ g[j].nny \in Nat /\ g[j].nCcalls \in Nat
  BY BaseTypes

LEMMA BaseWith ==
  ASSUME NEW L, NEW t, NEW c, NEW g, Base(L, t, c, g)
  PROVE  With(L, t)[L] = t /\ \A l \in Thread : l # L => With(L, t)[l] = th[l]
  BY BaseTypes

LEMMA BaseIs ==
  ASSUME NEW L, NEW t, NEW c, NEW g, Base(L, t, c, g)
  PROVE  /\ t \in State /\ t.ci \in Seq(Info) /\ Len(t.ci) \in Nat /\ Sound(t)
         /\ c \in Seq(CFrame) /\ g \in Seq(Past) /\ Len(g) = Len(c) /\ Len(c) \in Nat
         /\ L \in Thread /\ th \in [Thread -> State]
<1>1. /\ c \in Seq(CFrame) /\ g \in Seq(Past) /\ Len(g) = Len(c)
      /\ Sound(t) /\ th \in [Thread -> State] /\ L \in Thread
  BY DEF Base
<1>2. t \in State
  BY <1>1 DEF Sound
<1>3. t.ci \in Seq(Info) /\ Len(t.ci) \in Nat
  BY <1>2 DEF State
<1>4. Len(c) \in Nat
  BY <1>1
<1> QED
  BY <1>1, <1>2, <1>3, <1>4

\* All frames from n on are those of thread L.
Owned(c, L, n) == \A j \in n..Len(c) : c[j].L = L

\* The activations that the first m frames of the stack are about are the same in u.
Fits(c, g, m, L, t, u) ==
  \/ \A j \in 1..m : c[j].L # L
  \/ /\ m > 0 /\ c[m].L = L /\ u.status = LUA_OK
     /\ g[m].level <= Len(u.ci) /\ Agree(c[m].fn, t.ci, u.ci, g[m].level)

LEMMA BaseCut ==
  ASSUME NEW L, NEW t, NEW c, NEW g, Base(L, t, c, g), NEW m \in 0..Len(c), Owned(c, L, m + 1),
         NEW u, Sound(u), Fits(c, g, m, L, t, u),
         NEW d \in Seq(CFrame), NEW h \in Seq(Past), Len(d) = m, Len(h) = m, Same(c, g, d, h, m)
  PROVE  Base(L, u, d, h)
<1> DEFINE T == With(L, t)
           U == With(L, u)
<1>1. /\ th \in [Thread -> State] /\ L \in Thread /\ t \in State /\ u \in State
      /\ c \in Seq(CFrame) /\ g \in Seq(Past) /\ Len(g) = Len(c) /\ Len(c) \in Nat
      /\ \A l \in Thread \ {L} : Sound(th[l])
      /\ \A l \in Thread \ {L} : (\A j \in 1..Len(c) : c[j].L # l) => Asleep(l, th[l])
      /\ \A j \in 1..Len(c) : FrameAt(T, c, g, j)
  BY BaseTypes DEF Base, Sound
<1>2. T[L] = t /\ U[L] = u /\ (\A l \in Thread : l # L => U[l] = T[l]) /\ Len(u.ci) \in Nat
  <2>1. u.ci \in Seq(Info)
    BY <1>1 DEF State
  <2> QED
    BY <1>1, <2>1 DEF With
<1> HIDE DEF T, U
<1>3. \A j \in 1..m : j \in 1..Len(c) /\ d[j].L = c[j].L
  BY DEF Alike, Same
<1>4. \A j \in 1..Len(c) : j \in 1..m \/ c[j].L = L
  <2>1. \A j \in 1..Len(c) : j \in 1..m \/ j \in (m + 1)..Len(c)
    OBVIOUS
  <2> QED
    BY <2>1 DEF Owned
<1>5. ASSUME NEW l \in Thread \ {L}, \A j \in 1..Len(d) : d[j].L # l PROVE Asleep(l, th[l])
  BY <1>1, <1>3, <1>4, <1>5
<1>6. AllAt(T, c, g, m)
  BY <1>1, <1>3 DEF AllAt
<1>7. Above(T, U, L, c, g, m)
  BY <1>2 DEF Above, Fits
<1>9. AllAt(U, d, h, m)
  BY <1>1, <1>6, <1>7, FramesSame
<1> QED
  BY <1>1, <1>5, <1>9 DEF Base, AllAt, U

LEMMA AgreeSame ==
  ASSUME NEW fn, NEW a, NEW b, NEW n \in Nat, \A i \in 1..n : b[i] = a[i]
  PROVE  Agree(fn, a, b, n)
<1>1. (\A i \in 1..(n - 1) : i \in 1..n) /\ (n > 0 => n \in 1..n)
  OBVIOUS
<1> QED
  BY <1>1 DEF Agree

LEMMA BasePush ==
  ASSUME NEW L, NEW t, NEW c, NEW g, Base(L, t, c, g), c # <<>>, t.status = LUA_OK,
         NEW x \in CFrame, NEW s \in Past, x.L = L, s.level <= Len(t.ci), s.nCcalls < MaxCCalls + Extra,
         \/ /\ x.fn # "lua_resume" /\ c[Len(c)].L = L /\ s.level >= g[Len(c)].level
            /\ g[Len(c)].nny > 0 \/ c[Len(c)].fn = "luaD_pcall" => s.nny > 0
         \/ /\ x.fn = "lua_resume" /\ \A j \in 1..Len(c) : c[j].L # L
            /\ Awake(c[Len(c)], th[c[Len(c)].L], g[Len(c)]),
         g[Len(c)].nCcalls + (IF Counted(x) THEN 1 ELSE 0) + Slack(x) <= s.nCcalls + Slack(c[Len(c)]),
         Kind(c[Len(c)], g[Len(c)], x, s, t.ci)
  PROVE  Base(L, t, Append(c, x), Append(g, s))
<1> DEFINE T == With(L, t)
           n == Len(c)
           d == Append(c, x)
           h == Append(g, s)
<1>1. /\ th \in [Thread -> State] /\ L \in Thread /\ t \in State /\ Sound(t)
      /\ c \in Seq(CFrame) /\ g \in Seq(Past) /\ Len(g) = n /\ n \in Nat
      /\ \A l \in Thread \ {L} : Sound(th[l])
      /\ \A l \in Thread \ {L} : (\A j \in 1..n : c[j].L # l) => Asleep(l, th[l])
      /\ \A j \in 1..n : FrameAt(T, c, g, j)
  BY BaseTypes DEF Base, Sound
<1>2. \A j \in 1..n : c[j] \in CFrame /\ g[j] \in Past /\ c[j].L \in Thread /\ g[j].level \in Nat
                       /\ g[j].nny \in Nat /\ g[j].nCcalls \in Nat
  <2>1. \A j \in 1..n : c[j] \in CFrame /\ g[j] \in Past
    BY <1>1
  <2> QED
    BY <2>1, CFrameIs DEF Past
<1>a. T[L] = t /\ (\A l \in Thread : l # L => T[l] = th[l]) /\ Len(t.ci) \in Nat
  BY BaseTypes
<1>3. n > 0 /\ n \in 1..n
  BY <1>1
<1>4. /\ d \in Seq(CFrame) /\ Len(d) = n + 1 /\ d[n + 1] = x /\ \A i \in 1..n : d[i] = c[i]
      /\ h \in Seq(Past) /\ Len(h) = n + 1 /\ h[n + 1] = s /\ \A i \in 1..n : h[i] = g[i]
  BY <1>1, AppendSeq
<1> HIDE DEF T, n, d, h
<1>5. \A j \in 1..n : FrameAt(T, d, h, j)
  <2>1. Same(c, g, d, h, n)
    BY <1>4 DEF Alike, Same
  <2>2. \/ \A j \in 1..n : c[j].L # L
        \/ /\ n > 0 /\ c[n].L = L /\ T[L].status = LUA_OK
           /\ Len(T[L].ci) \in Nat /\ g[n].level <= Len(T[L].ci)
           /\ Agree(c[n].fn, T[L].ci, T[L].ci, g[n].level)
    <3>1. CASE \A j \in 1..n : c[j].L # L
      BY <3>1
    <3>2. CASE c[n].L = L
      <4>1. FrameAt(T, c, g, n)
        BY <1>1, <1>3
      <4>2. g[n].level <= Len(T[L].ci)
        BY <1>2, <1>a, <1>3, <3>2, <4>1 DEF FrameAt
      <4>3. Agree(c[n].fn, T[L].ci, T[L].ci, g[n].level)
        BY <1>2, <1>3, AgreeSame
      <4> QED
        BY <1>2, <1>a, <1>3, <3>2, <4>2, <4>3
    <3> QED
      BY <3>1, <3>2 DEF n
  <2>3. n \in 0..Len(c)
    BY <1>1 DEF n
  <2>4. Above(T, T, L, c, g, n)
    BY <2>2 DEF Above
  <2>5. AllAt(T, c, g, n)
    BY <1>1 DEF AllAt
  <2>6. Len(g) = Len(c)
    BY <1>1 DEF n
  <2>7. AllAt(T, d, h, n)
    BY <1>1, <2>1, <2>3, <2>4, <2>5, <2>6, FramesSame
  <2> QED
    BY <2>7 DEF AllAt
<1>6. FrameAt(T, d, h, n + 1)
  <2>1. FrameAt(T, c, g, n)
    BY <1>1, <1>3
  <2>2. Count(d, n + 1) + Slack(x) <= s.nCcalls
    <3>1. Count(d, n) = Count(c, n)
      BY <1>4, CountSame
    <3>2. Count(d, n + 1) = Count(d, n) + (IF Counted(x) THEN 1 ELSE 0) /\ Count(d, n) \in Nat
      BY <1>1, <1>4, CountNext
    <3>3. Count(c, n) + Slack(c[n]) <= g[n].nCcalls
      BY <2>1 DEF FrameAt
    <3>4. g[n].nCcalls + (IF Counted(x) THEN 1 ELSE 0) + Slack(x) <= s.nCcalls + Slack(c[n])
      BY DEF n
    <3>5. Slack(x) \in Nat /\ Slack(c[n]) \in Nat /\ (IF Counted(x) THEN 1 ELSE 0) \in Nat
      BY DEF Slack
    <3>6. g[n].nCcalls \in Nat /\ s.nCcalls \in Nat
      BY <1>2, <1>3 DEF Past
    <3> HIDE DEF n
    <3>7. PICK b \in Nat : b = (IF Counted(x) THEN 1 ELSE 0)
      BY <3>5
    <3>8. PICK k \in Nat : k = Count(d, n)
      BY <3>2
    <3>9. PICK m \in Nat : m = s.nCcalls
      BY <3>6
    <3>10. PICK l \in Nat : l = g[n].nCcalls
      BY <3>6
    <3>11. PICK y \in Nat : y = Slack(x)
      BY <3>5
    <3>12. PICK z \in Nat : z = Slack(c[n])
      BY <3>5
    <3>13. Count(d, n + 1) = k + b
      BY <3>2, <3>7, <3>8
    <3>14. k + z <= l /\ l + b + y <= m + z
      BY <3>1, <3>3, <3>4, <3>7, <3>8, <3>9, <3>10, <3>11, <3>12
    <3>15. k + b + y <= m
      BY <3>14
    <3> QED
      BY <3>9, <3>11, <3>13, <3>15
  <2>3. ASSUME NEW i \in 1..n PROVE Pair(d, h, i, n + 1)
    <3>1. d[i] = c[i] /\ h[i] = g[i] /\ g[i].level \in Nat /\ g[n].level \in Nat /\ s.level \in Nat
      BY <1>2, <1>3, <1>4 DEF Past
    <3>2. CASE x.fn = "lua_resume"
      <4>1. \A j \in 1..n : c[j].L # L
        BY <3>2 DEF n
      <4>2. n + 1 \in (i + 1)..(n + 1)
        BY <1>1
      <4> QED
        BY <1>4, <3>1, <3>2, <4>1, <4>2 DEF Pair
    <3>3. CASE x.fn # "lua_resume"
      <4>1. /\ c[n].L = L /\ s.level >= g[n].level
            /\ g[n].nny > 0 \/ c[n].fn = "luaD_pcall" => s.nny > 0
        BY <3>3 DEF n
      <4>2. CASE i = n
        <5>1. d[i + 1] = x /\ d[n] = c[n] /\ h[n] = g[n]
          BY <1>3, <1>4, <4>2
        <5> QED
          BY <1>4, <3>1, <3>3, <4>1, <4>2, <5>1 DEF Pair
      <4>3. CASE i # n
        <5>1. i \in 1..(n - 1) /\ i + 1 \in 1..n
          BY <1>1, <4>3
        <5>2. Pair(c, g, i, n) /\ d[i + 1] = c[i + 1]
          BY <1>4, <2>1, <5>1 DEF FrameAt
        <5>3. \A k \in (i + 1)..n : k \in (i + 1)..(n + 1) /\ k \in 1..n
          BY <1>1, <5>1
        <5>4. (\A k \in (i + 1)..(n + 1) : d[k].fn # "lua_resume") => c[i].L = L
          BY <1>4, <4>1, <5>2, <5>3 DEF Pair
        <5>5. c[i].L = L => /\ c[i + 1].fn # "lua_resume" /\ g[i].level <= s.level
                            /\ c[i].fn = "luaD_pcall" => s.nny > 0
          BY <3>1, <4>1, <5>2 DEF Pair
        <5> QED
          BY <1>4, <3>1, <3>3, <5>2, <5>4, <5>5 DEF Pair
      <4> QED
        BY <4>2, <4>3
    <3> QED
      BY <3>2, <3>3
  <2>4. Frame(d, h, t.ci, n + 1)
    <3>1. n + 1 # 1 /\ (n + 1) - 1 = n
      BY <1>1, <1>3
    <3>2. Kind(d[n], h[n], d[n + 1], h[n + 1], t.ci)
      BY <1>3, <1>4 DEF n
    <3> QED
      BY <3>1, <3>2 DEF Frame
  <2>5. x.fn = "lua_resume" => Awake(d[(n + 1) - 1], T[d[(n + 1) - 1].L], h[(n + 1) - 1])
    <3> SUFFICES ASSUME x.fn = "lua_resume" PROVE Awake(d[(n + 1) - 1], T[d[(n + 1) - 1].L], h[(n + 1) - 1])
      OBVIOUS
    <3>1. (n + 1) - 1 = n /\ d[n] = c[n] /\ h[n] = g[n]
      BY <1>1, <1>3, <1>4
    <3>2. c[n].L # L /\ Awake(c[n], th[c[n].L], g[n])
      BY <1>3 DEF n
    <3>3. T[c[n].L] = th[c[n].L]
      BY <1>2, <1>a, <1>3, <3>2
    <3> QED
      BY <3>1, <3>2, <3>3
  <2>6. s.level \in 0..Len(t.ci)
    BY <1>a DEF Past
  <2>7. \A i \in 1..((n + 1) - 1) : i \in 1..n
    BY <1>1
  <2> QED
    BY <1>a, <1>4, <2>2, <2>3, <2>4, <2>5, <2>6, <2>7 DEF FrameAt
<1>7. \A j \in 1..Len(d) : FrameAt(T, d, h, j)
  <2>1. \A j \in 1..Len(d) : j \in 1..n \/ j = n + 1
    BY <1>1, <1>4
  <2> QED
    BY <1>5, <1>6, <2>1
<1>8. ASSUME NEW l \in Thread \ {L}, \A j \in 1..Len(d) : d[j].L # l PROVE Asleep(l, th[l])
  <2>1. \A j \in 1..n : j \in 1..Len(d) /\ d[j] = c[j]
    BY <1>1, <1>4
  <2> QED
    BY <1>1, <1>8, <2>1
<1>9. Len(h) = Len(d)
  BY <1>4
<1> QED
  BY <1>1, <1>4, <1>7, <1>8, <1>9 DEF Base, T, d, h

LEMMA BaseOf ==
  ASSUME NEW g, Good(th, cstack, g), NEW L \in Thread
  PROVE  Base(L, th[L], cstack, g)
<1>1. With(L, th[L]) = th
  BY DEF Good, With
<1> QED
  BY <1>1 DEF Good, Base

LEMMA Conclude ==
  ASSUME NEW L, NEW t, NEW c, NEW g, Base(L, t, c, g),
         th' = With(L, t), cstack' = c,
         (\A j \in 1..Len(c) : c[j].L # L) => Asleep(L, t),
         c # <<>> => Awake(c[Len(c)], With(L, t)[c[Len(c)].L], g[Len(c)])
  PROVE  IInv'
<1>1. /\ th' \in [Thread -> State] /\ L \in Thread /\ Sound(t)
      /\ c \in Seq(CFrame) /\ g \in Seq(Past) /\ Len(g) = Len(c)
      /\ th'[L] = t /\ \A l \in Thread : l # L => th'[l] = th[l]
  BY BaseTypes DEF Base
<1>2. \A l \in Thread : Sound(th'[l])
  BY <1>1 DEF Base
<1>3. \A l \in Thread : (\A j \in 1..Len(c) : c[j].L # l) => Asleep(l, th'[l])
  BY <1>1 DEF Base
<1>4. \A j \in 1..Len(c) : FrameAt(th', c, g, j)
  BY DEF Base
<1>5. Good(th', cstack', g)
  BY <1>1, <1>2, <1>3, <1>4 DEF Good
<1> QED
  BY <1>1, <1>5 DEF IInv

LEMMA SoundKept ==
  ASSUME NEW t, Sound(t), NEW n \in 0..Len(t.ci), NEW u \in State, Len(u.ci) = n,
         \A i \in 1..n : u.ci[i] = t.ci[i], u.errfunc <= n,
         \A l \in u.openupval : l \in t.openupval /\ l <= n
  PROVE  Sound(u)
<1>1. t \in State /\ t.ci \in Seq(Info) /\ Len(t.ci) \in Nat
  <2>1. t \in State
    BY DEF Sound
  <2> QED
    BY <2>1 DEF State
<1>2. \A l \in u.openupval : l \in 1..n /\ IsLua(u.ci[l])
  BY <1>1 DEF Sound, IsLua
<1>3. ASSUME NEW i \in 1..n PROVE Saved(u.ci, i)
  <2>1. i \in 1..Len(t.ci) /\ i \in Nat \ {0} /\ \A k \in 1..i : k \in 1..n
    BY <1>1
  <2>2. Saved(t.ci, i)
    BY <2>1 DEF Sound
  <2> QED
    BY <2>1, <2>2, SavedSame
<1> QED
  BY <1>2, <1>3 DEF Sound

LEMMA SoundGrown ==
  ASSUME NEW t, Sound(t), NEW a \in Info, ~a.ypcall, NEW u \in State, Len(u.ci) = Len(t.ci) + 1,
         u.ci[Len(t.ci) + 1] = a, \A i \in 1..Len(t.ci) : u.ci[i] = t.ci[i],
         u.errfunc <= Len(u.ci), u.openupval = t.openupval
  PROVE  Sound(u)
<1> DEFINE n == Len(t.ci)
<1>1. t \in State /\ t.ci \in Seq(Info) /\ n \in Nat
  <2>1. t \in State
    BY DEF Sound
  <2> QED
    BY <2>1 DEF State
<1>2. \A l \in u.openupval : l \in 1..(n + 1) /\ IsLua(u.ci[l])
  <2>1. \A l \in t.openupval : l \in 1..n /\ IsLua(t.ci[l])
    BY DEF Sound
  <2> QED
    BY <1>1, <2>1 DEF IsLua
<1>3. ASSUME NEW i \in 1..n PROVE Saved(u.ci, i)
  <2>1. i \in 1..Len(t.ci) /\ i \in Nat \ {0} /\ \A k \in 1..i : k \in 1..n
    BY <1>1
  <2>2. Saved(t.ci, i)
    BY <2>1 DEF Sound
  <2> QED
    BY <2>1, <2>2, SavedSame
<1>4. Saved(u.ci, n + 1)
  BY DEF Saved
<1>5. \A i \in 1..(n + 1) : i \in 1..n \/ i = n + 1
  BY <1>1
<1> QED
  BY <1>2, <1>3, <1>4, <1>5 DEF Sound

LEMMA DoneIs ==
  ASSUME NEW c \in Seq(CFrame), NEW how \in {"no", "ok", "error"}, c # <<>> => c[Len(c)].fn = "C"
  PROVE  /\ Done(c, how) \in Seq(CFrame) /\ Len(Done(c, how)) = Len(c)
         /\ \A j \in 1..Len(c) : /\ Alike(Done(c, how)[j], c[j]) /\ Done(c, how)[j].L = c[j].L
                                 /\ Done(c, how)[j].fn = c[j].fn
<1>1. CASE c = <<>>
  BY <1>1 DEF Done
<1>2. CASE c # <<>>
  <2> DEFINE x == c[Len(c)]
             e == [x EXCEPT !.done = how]
  <2>1. Len(c) \in 1..Len(c)
    BY <1>2
  <2>2. x \in CFrame /\ x.fn = "C"
    BY <1>2, <2>1
  <2>3. x \in [fn : {"C"}, L : Thread, via : Via, done : {"no", "ok", "error"}]
    BY <2>2, CFrameIs
  <2>4. /\ e \in [fn : {"C"}, L : Thread, via : Via, done : {"no", "ok", "error"}]
        /\ e.fn = "C" /\ e.L = x.L /\ e.via = x.via
    BY <2>3
  <2>5. e \in CFrame
    BY <2>4 DEF CFrame
  <2>6. Done(c, how) = [c EXCEPT ![Len(c)] = e]
    BY <1>2 DEF Done
  <2> HIDE DEF e
  <2>7. /\ Done(c, how) \in Seq(CFrame) /\ Len(Done(c, how)) = Len(c)
        /\ \A j \in 1..Len(c) : Done(c, how)[j] = IF j = Len(c) THEN e ELSE c[j]
    BY <2>1, <2>5, <2>6, ExceptSeq
  <2>8. Alike(e, x)
    BY <2>2, <2>4 DEF Alike
  <2>9. ASSUME NEW j \in 1..Len(c)
        PROVE  Alike(Done(c, how)[j], c[j]) /\ Done(c, how)[j].L = c[j].L /\ Done(c, how)[j].fn = c[j].fn
    <3>1. CASE j = Len(c)
      BY <2>2, <2>4, <2>7, <2>8, <3>1
    <3>2. CASE j # Len(c)
      BY <2>7, <3>2 DEF Alike
    <3> QED
      BY <3>1, <3>2
  <2> QED
    BY <2>7, <2>9
<1> QED
  BY <1>1, <1>2

\* Where luaD_throw goes: every frame above belongs to the thread.
Innermost(c) == CHOOSE h \in {h \in DOMAIN c : c[h].fn \in {"luaD_pcall", "lua_resume"}} :
                  \A i \in {h2 \in DOMAIN c : c[h2].fn \in {"luaD_pcall", "lua_resume"}} : i <= h

LEMMA InnermostIs ==
  ASSUME NEW L, NEW t, NEW c, NEW g, Base(L, t, c, g), c # <<>>, c[Len(c)].L = L
  PROVE  /\ Innermost(c) \in 1..Len(c) /\ c[Innermost(c)].fn \in {"luaD_pcall", "lua_resume"}
         /\ Owned(c, L, Innermost(c))
<1> DEFINE T == With(L, t)
           H == {h \in DOMAIN c : c[h].fn \in {"luaD_pcall", "lua_resume"}}
           n == Len(c)
<1>1. c \in Seq(CFrame) /\ n \in Nat /\ n > 0 /\ DOMAIN c = 1..n
  BY DEF Base
<1>2. \A j \in 1..n : FrameAt(T, c, g, j)
  BY DEF Base
<1>3. 1 \in H
  <2> HIDE DEF T, n
  <2>1. 1 \in 1..n
    BY <1>1
  <2>2. FrameAt(T, c, g, 1)
    BY <1>2, <2>1
  <2> USE DEF n
  <2> QED
    BY <1>1, <2>1, <2>2 DEF FrameAt, Frame, OfHost
<1>4. \A i \in H : i \in Nat /\ i \in 1..n /\ i <= n
  BY <1>1
<1> HIDE DEF T, n, H
<1>5. H \in SUBSET Nat /\ H # {}
  BY <1>3, <1>4
<1>6. \E m \in H : \A i \in H : i <= m
  BY <1>1, <1>4, <1>5, GreatestOf
<1>7. Innermost(c) = CHOOSE h \in H : \A i \in H : i <= h
  BY DEF Innermost, H
<1>8. Innermost(c) \in H /\ \A i \in H : i <= Innermost(c)
  BY <1>6, <1>7
<1>9. Innermost(c) \in 1..n /\ c[Innermost(c)].fn \in {"luaD_pcall", "lua_resume"}
  BY <1>4, <1>8 DEF H
<1>10. ASSUME NEW j \in Innermost(c)..n PROVE c[j].L = L
  <2>1. CASE j = n
    BY <2>1 DEF n
  <2>2. CASE j # n
    <3>0. c[n].L = L
      BY DEF n
    <3>1. j \in 1..(n - 1) /\ n \in 1..n /\ c[n].L = L
      BY <1>1, <1>9, <2>2, <3>0
    <3>2. Pair(c, g, j, n)
      BY <1>2, <3>1 DEF FrameAt
    <3>3. \A k \in (j + 1)..n : k \in 1..n /\ k > Innermost(c)
      BY <1>1, <1>9
    <3>4. \A k \in (j + 1)..n : k \notin H
      BY <1>4, <1>8, <1>9, <3>3
    <3>5. \A k \in (j + 1)..n : c[k].fn # "lua_resume"
      BY <1>1, <3>3, <3>4 DEF H
    <3> QED
      BY <3>1, <3>2, <3>5 DEF Pair
  <2> QED
    BY <2>1, <2>2
<1> QED
  BY <1>9, <1>10 DEF n, Owned

-----------------------------------------------------------------------------
(* Frames are left *)

\* A sequence made of the first n elements of another.
LEMMA CutIs ==
  ASSUME NEW S, NEW s \in Seq(S), NEW n \in 1..Len(s)
  PROVE  /\ SubSeq(s, 1, n) \in Seq(S) /\ Len(SubSeq(s, 1, n)) = n /\ SubSeq(s, 1, n) # <<>>
         /\ \A i \in 1..n : SubSeq(s, 1, n)[i] = s[i]
         /\ Last(SubSeq(s, 1, n)) = s[n]
         /\ Front(SubSeq(s, 1, n)) \in Seq(S) /\ Len(Front(SubSeq(s, 1, n))) = n - 1
         /\ \A i \in 1..(n - 1) : Front(SubSeq(s, 1, n))[i] = s[i]
<1> DEFINE d == SubSeq(s, 1, n)
<1>1. n \in 0..Len(s) /\ n \in Nat /\ n > 0
  OBVIOUS
<1>2. d \in Seq(S) /\ Len(d) = n /\ \A i \in 1..n : d[i] = s[i]
  BY <1>1, CutSeq
<1> HIDE DEF d
<1>3. d # <<>>
  BY <1>1, <1>2
<1>4. /\ Front(d) \in Seq(S) /\ Len(Front(d)) = Len(d) - 1
      /\ \A i \in 1..(Len(d) - 1) : Front(d)[i] = d[i]
      /\ Last(d) = d[Len(d)]
  BY <1>2, <1>3, FrontSeq
<1>5. /\ Len(Front(d)) = n - 1 /\ Last(d) = s[n]
      /\ \A i \in 1..(n - 1) : Front(d)[i] = s[i]
  BY <1>1, <1>2, <1>4
<1> QED
  BY <1>2, <1>3, <1>4, <1>5 DEF d

LEMMA CutTop ==
  ASSUME NEW S, NEW s \in Seq(S), NEW n \in 1..Len(s)
  PROVE  /\ SubSeq(s, 1, n) \in Seq(S) /\ Len(SubSeq(s, 1, n)) = n /\ SubSeq(s, 1, n) # <<>>
         /\ \A i \in 1..n : SubSeq(s, 1, n)[i] = s[i]
         /\ Last(SubSeq(s, 1, n)) = s[n]
  BY CutIs

\* What luaD_pcall leaves when it returns: the activations that it was called with.
Ended(t, x, s, u) ==
  /\ u.ci = SubSeq(t.ci, 1, s.level) /\ u.status = LUA_OK /\ u.nny = s.nny /\ u.nCcalls = s.nCcalls
  /\ u.errfunc = x.errfunc /\ (u.allowhook <=> x.allowhook)
  /\ \A l \in u.openupval : l \in t.openupval /\ l <= s.level

LEMMA PcallEnds ==
  ASSUME NEW L, NEW t, NEW c, NEW g, Base(L, t, c, g), NEW h \in 1..Len(c), c[h].fn = "luaD_pcall",
         Owned(c, L, h), NEW u \in State, Ended(t, c[h], g[h], u), NEW how \in {"no", "ok", "error"},
         th' = With(L, u), cstack' = Done(Front(SubSeq(c, 1, h)), how)
  PROVE  IInv'
<1>1. /\ t \in State /\ t.ci \in Seq(Info) /\ Len(t.ci) \in Nat /\ c \in Seq(CFrame) /\ g \in Seq(Past)
      /\ Len(g) = Len(c) /\ Len(c) \in Nat /\ h \in Nat /\ h > 0 /\ L \in Thread /\ Sound(t)
      /\ h - 1 \in 0..Len(c)
  BY BaseIs
<1> DEFINE p == c[h]
           n == g[h].level
           d == SubSeq(c, 1, h)
           b == Front(d)
           e == Done(b, how)
           k == SubSeq(g, 1, h - 1)
<1>2. FrameAt(With(L, t), c, g, h) /\ With(L, t)[L] = t /\ p.L = L /\ p \in CFrame
      /\ n \in Nat /\ g[h].nny \in Nat /\ g[h].nCcalls \in Nat /\ g[h] \in Past
  <2>1. h \in h..Len(c)
    BY <1>1
  <2> QED
    BY <2>1, BaseTypes DEF Owned
<1>3. t.status = LUA_OK /\ n <= Len(t.ci) /\ Frame(c, g, t.ci, h)
  BY <1>2 DEF FrameAt
<1>4. /\ h > 1 => OfPcall(c[h - 1], g[h - 1], c[h], g[h], t.ci)
      /\ h = 1 => OfHost(c[1], g[1])
  BY <1>1, <1>3 DEF Frame, Kind, OfLua, OfC, OfHook, OfError, OfResume
<1>5. h > 1 => c[h - 1].fn = "C" /\ c[h - 1].L = L /\ g[h - 1] = g[h] /\ n > 0
  BY <1>2, <1>4 DEF OfPcall
<1>6. p.ci = n /\ p.nny = g[h].nny /\ p.nCcalls = g[h].nCcalls
  BY <1>1, <1>4 DEF OfPcall, OfHost
<1>7. p.errfunc = Handler(t.ci, n) /\ (p.allowhook <=> HooksOn(t.ci, n)) /\ p.errfunc <= n /\ p.errfunc \in Nat
  <2>1. CASE h = 1
    <3>1. n = 0 /\ p.errfunc = 0 /\ p.allowhook
      BY <1>4, <2>1 DEF OfHost
    <3> QED
      BY <3>1, HandlerZero DEF HooksOn
  <2>2. CASE h > 1
    <3>1. p.errfunc = Handler(t.ci, n) /\ (p.allowhook <=> HooksOn(t.ci, n))
      BY <1>4, <2>2 DEF OfPcall
    <3> QED
      BY <1>2, <1>5, <2>2, <3>1, HandlerBound
  <2> QED
    BY <1>1, <2>1, <2>2
<1>9. n \in 0..Len(t.ci)
  BY <1>1, <1>2, <1>3
<1> HIDE DEF n
<1> DEFINE q == SubSeq(t.ci, 1, n)
<1>10. q \in Seq(Info) /\ Len(q) = n /\ (\A i \in 1..n : q[i] = t.ci[i]) /\ (n = 0 => q = <<>>)
  BY <1>1, <1>9, CutSeq
<1> HIDE DEF q
<1>11. /\ u.ci = q /\ u.status = LUA_OK /\ u.nny = g[h].nny /\ u.nCcalls = g[h].nCcalls
       /\ u.errfunc = p.errfunc /\ (u.allowhook <=> p.allowhook)
       /\ \A l \in u.openupval : l \in t.openupval /\ l <= n
  BY DEF Ended, q, n
<1>12. b \in Seq(CFrame) /\ Len(b) = h - 1 /\ \A i \in 1..(h - 1) : b[i] = c[i]
  <2>1. c \in Seq(CFrame) /\ h \in 1..Len(c)
    BY <1>1
  <2> HIDE DEF p
  <2>2. /\ Front(SubSeq(c, 1, h)) \in Seq(CFrame) /\ Len(Front(SubSeq(c, 1, h))) = h - 1
        /\ \A i \in 1..(h - 1) : Front(SubSeq(c, 1, h))[i] = c[i]
    BY <2>1, CutIs
  <2> QED
    BY <2>2
<1> HIDE DEF d, b, p
<1>13. Sound(u)
  BY <1>1, <1>7, <1>9, <1>10, <1>11, SoundKept
<1>14. b # <<>> => h > 1 /\ b[Len(b)].fn = "C" /\ b[Len(b)].L = L /\ Len(b) \in 1..(h - 1)
  BY <1>1, <1>5, <1>12
<1>15. /\ e \in Seq(CFrame) /\ Len(e) = h - 1
       /\ \A j \in 1..(h - 1) : Alike(e[j], c[j]) /\ e[j].L = c[j].L /\ e[j].fn = c[j].fn
  <2>1. b # <<>> => b[Len(b)].fn = "C"
    BY <1>14
  <2>2. /\ Done(b, how) \in Seq(CFrame) /\ Len(Done(b, how)) = Len(b)
        /\ \A j \in 1..Len(b) : /\ Alike(Done(b, how)[j], b[j]) /\ Done(b, how)[j].L = b[j].L
                                /\ Done(b, how)[j].fn = b[j].fn
    BY <1>12, <2>1, DoneIs
  <2> QED
    BY <1>12, <2>2
<1>16. k \in Seq(Past) /\ Len(k) = h - 1 /\ \A j \in 1..(h - 1) : k[j] = g[j]
  <2>1. h - 1 \in 0..Len(g)
    BY <1>1
  <2> QED
    BY <1>1, <2>1, CutSeq
<1> HIDE DEF e, k
<1>17. Base(L, u, e, k)
  <2>1. (h - 1) + 1 = h /\ Owned(c, L, (h - 1) + 1)
    <3>1. (h - 1) + 1 = h
      BY <1>1
    <3> QED
      BY <3>1
  <2>2. Same(c, g, e, k, h - 1)
    BY <1>15, <1>16 DEF Same
  <2>3. Fits(c, g, h - 1, L, t, u)
    <3>1. CASE h = 1
      BY <3>1 DEF Fits
    <3>2. CASE h > 1
      <4>1. g[h - 1].level = n
        BY <1>5, <3>2 DEF n
      <4>2. Agree(c[h - 1].fn, t.ci, u.ci, n)
        BY <1>2, <1>10, <1>11, AgreeSame DEF n
      <4> QED
        BY <1>1, <1>2, <1>5, <1>10, <1>11, <3>2, <4>1, <4>2 DEF n, Fits
    <3> QED
      BY <1>1, <3>1, <3>2
  <2> QED
    BY <1>1, <1>13, <1>15, <1>16, <2>1, <2>2, <2>3, BaseCut
<1>18. cstack' = e
  BY DEF e, b, d
<1>19. (\A j \in 1..Len(e) : e[j].L # L) => Asleep(L, u)
  <2>1. CASE h = 1
    <3>1. n = 0 /\ p.errfunc = 0 /\ p.allowhook /\ p.L = Main /\ g[h].nny = 1
      BY <1>4, <2>1 DEF OfHost, n, p
    <3> QED
      BY <1>2, <1>10, <1>11, <3>1 DEF Asleep, LUA_OK, LUA_YIELD
  <2>2. CASE h > 1
    <3>1. h - 1 \in 1..Len(e) /\ e[h - 1].L = L
      BY <1>1, <1>5, <1>15, <2>2
    <3> QED
      BY <3>1
  <2> QED
    BY <1>1, <2>1, <2>2
<1>20. e # <<>> => Awake(e[Len(e)], With(L, u)[e[Len(e)].L], k[Len(e)])
  <2> SUFFICES ASSUME e # <<>> PROVE Awake(e[Len(e)], With(L, u)[e[Len(e)].L], k[Len(e)])
    OBVIOUS
  <2>1. h > 1 /\ h - 1 \in 1..(h - 1)
    BY <1>1, <1>15
  <2>2. e[Len(e)].fn = "C" /\ e[Len(e)].L = L /\ k[Len(e)] = g[h]
    BY <1>5, <1>15, <1>16, <2>1
  <2>3. With(L, u)[L] = u
    BY <1>17, BaseTypes
  <2>4. g[h] = [level |-> n, nny |-> u.nny, nCcalls |-> u.nCcalls]
    BY <1>2, <1>11 DEF Past, n
  <2>5. (HooksOn(u.ci, n) <=> HooksOn(t.ci, n)) /\ Handler(u.ci, n) = Handler(t.ci, n)
    <3>1. \A i \in 1..(n - 1) : i \in 1..n
      BY <1>2 DEF n
    <3> QED
      BY <1>10, <1>11, <3>1, HandlerSame DEF HooksOn
  <2>6. n > 0
    BY <1>5, <2>1
  <2> QED
    BY <1>7, <1>10, <1>11, <2>2, <2>3, <2>4, <2>5, <2>6 DEF Awake
<1> QED
  BY <1>17, <1>18, <1>19, <1>20, Conclude

LEMMA TopIs ==
  ASSUME NEW L, NEW t, NEW c, NEW g, Base(L, t, c, g), c # <<>>, c[Len(c)].L = L
  PROVE  /\ Len(c) \in 1..Len(c) /\ t.status = LUA_OK /\ c[Len(c)] \in CFrame /\ g[Len(c)] \in Past
         /\ g[Len(c)].level \in 0..Len(t.ci) /\ Frame(c, g, t.ci, Len(c))
         /\ g[Len(c)].level \in Nat /\ g[Len(c)].nny \in Nat /\ g[Len(c)].nCcalls \in Nat
         /\ g[Len(c)].nCcalls < MaxCCalls + Extra
         /\ Count(c, Len(c)) + Slack(c[Len(c)]) <= g[Len(c)].nCcalls
         /\ \A i \in 1..(Len(c) - 1) : Pair(c, g, i, Len(c))
<1> DEFINE m == Len(c)
           T == With(L, t)
<1>1. c \in Seq(CFrame) /\ m \in Nat
  BY BaseIs
<1>2. m \in 1..m
  BY <1>1
<1>3. FrameAt(T, c, g, m) /\ T[L] = t
  BY <1>2, BaseAt, BaseWith
<1>4. c[m] \in CFrame /\ g[m] \in Past /\ g[m].level \in Nat /\ g[m].nny \in Nat /\ g[m].nCcalls \in Nat
  BY <1>2, BaseAt
<1> HIDE DEF T
<1>5. c[m].L = L
  OBVIOUS
<1> HIDE DEF m
<1>6. /\ t.status = LUA_OK /\ g[m].level \in 0..Len(t.ci) /\ Frame(c, g, t.ci, m)
      /\ g[m].nCcalls < MaxCCalls + Extra /\ Count(c, m) + Slack(c[m]) <= g[m].nCcalls
      /\ \A i \in 1..(m - 1) : Pair(c, g, i, m)
  BY <1>3, <1>5 DEF FrameAt
<1> QED
  BY <1>2, <1>4, <1>6 DEF m

\* The thread on top changes above what its frames are about.
LEMMA BaseSet ==
  ASSUME NEW L, NEW t, NEW c, NEW g, Base(L, t, c, g), c # <<>>, c[Len(c)].L = L,
         NEW u, Sound(u), u.status = LUA_OK, g[Len(c)].level <= Len(u.ci),
         Agree(c[Len(c)].fn, t.ci, u.ci, g[Len(c)].level)
  PROVE  Base(L, u, c, g)
<1>1. c \in Seq(CFrame) /\ g \in Seq(Past) /\ Len(g) = Len(c) /\ Len(c) \in Nat /\ Len(c) > 0
  BY BaseIs
<1>2. Len(c) \in 0..Len(c)
  BY <1>1
<1>3. Owned(c, L, Len(c) + 1)
  BY <1>1 DEF Owned
<1>4. Fits(c, g, Len(c), L, t, u)
  BY <1>1 DEF Fits
<1>5. Same(c, g, c, g, Len(c))
  BY DEF Same, Alike
<1> QED
  BY <1>1, <1>2, <1>3, <1>4, <1>5, BaseCut

\* A thread without a frame changes.
LEMMA BaseFree ==
  ASSUME NEW L, NEW t, NEW c, NEW g, Base(L, t, c, g), \A j \in 1..Len(c) : c[j].L # L, NEW u, Sound(u),
         NEW d \in Seq(CFrame), Len(d) = Len(c), Same(c, g, d, g, Len(c))
  PROVE  Base(L, u, d, g)
<1>1. c \in Seq(CFrame) /\ g \in Seq(Past) /\ Len(g) = Len(c) /\ Len(c) \in Nat
  BY BaseIs
<1>2. Len(c) \in 0..Len(c)
  BY <1>1
<1>3. Owned(c, L, Len(c) + 1)
  BY <1>1 DEF Owned
<1>4. Fits(c, g, Len(c), L, t, u)
  BY <1>1 DEF Fits
<1> QED
  BY <1>1, <1>2, <1>3, <1>4, BaseCut

LEMMA FrontAppend ==
  ASSUME NEW S, NEW s \in Seq(S), s # <<>>
  PROVE  Append(Front(s), s[Len(s)]) = s
<1>1. Front(s) \in Seq(S) /\ Len(Front(s)) = Len(s) - 1 /\ Len(s) \in Nat \ {0} /\ s[Len(s)] \in S
      /\ \A i \in 1..(Len(s) - 1) : Front(s)[i] = s[i]
  BY FrontSeq
<1> DEFINE a == Append(Front(s), s[Len(s)])
<1>2. a \in Seq(S) /\ Len(a) = Len(s) /\ a[Len(s)] = s[Len(s)] /\ \A i \in 1..(Len(s) - 1) : a[i] = s[i]
  <2>1. (Len(s) - 1) + 1 = Len(s)
    BY <1>1
  <2> QED
    BY <1>1, <2>1, AppendSeq
<1> HIDE DEF a
<1>3. \A i \in 1..Len(s) : a[i] = s[i]
  <2>1. \A i \in 1..Len(s) : i = Len(s) \/ i \in 1..(Len(s) - 1)
    BY <1>1
  <2> QED
    BY <1>2, <2>1
<1>4. a = s
  BY <1>2, <1>3, SeqEqual
<1> QED
  BY <1>4 DEF a

\* The stack without the frame on top.
LEMMA DropIs ==
  ASSUME NEW L, NEW t, NEW c, NEW g, Base(L, t, c, g), c # <<>>
  PROVE  /\ Front(c) \in Seq(CFrame) /\ Front(g) \in Seq(Past)
         /\ Len(Front(c)) = Len(c) - 1 /\ Len(Front(g)) = Len(c) - 1
         /\ \A j \in 1..(Len(c) - 1) : Front(c)[j] = c[j]
         /\ \A j \in 1..(Len(c) - 1) : Front(g)[j] = g[j]
         /\ Append(Front(c), c[Len(c)]) = c
<1>1. c \in Seq(CFrame) /\ g \in Seq(Past) /\ Len(g) = Len(c) /\ g # <<>>
  <2>1. c \in Seq(CFrame) /\ g \in Seq(Past) /\ Len(g) = Len(c)
    BY BaseIs
  <2> QED
    BY <2>1
<1>2. /\ Front(c) \in Seq(CFrame) /\ Len(Front(c)) = Len(c) - 1
      /\ \A j \in 1..(Len(c) - 1) : Front(c)[j] = c[j]
      /\ Front(g) \in Seq(Past) /\ Len(Front(g)) = Len(c) - 1
      /\ \A j \in 1..(Len(c) - 1) : Front(g)[j] = g[j]
  BY <1>1, FrontSeq
<1> QED
  BY <1>1, <1>2, FrontAppend

\* What the frames below the one on top are about is the same in u.
Below(c, g, L, t, u) == Fits(c, g, Len(c) - 1, L, t, u)

LEMMA BaseDrop ==
  ASSUME NEW L, NEW t, NEW c, NEW g, Base(L, t, c, g), c # <<>>, c[Len(c)].L = L,
         NEW u, Sound(u), Below(c, g, L, t, u)
  PROVE  Base(L, u, Front(c), Front(g))
<1>1. Len(c) \in Nat /\ Len(c) > 0
  <2>1. c \in Seq(CFrame)
    BY BaseIs
  <2> QED
    BY <2>1
<1>2. /\ Front(c) \in Seq(CFrame) /\ Len(Front(c)) = Len(c) - 1
      /\ \A j \in 1..(Len(c) - 1) : Front(c)[j] = c[j]
      /\ Front(g) \in Seq(Past) /\ Len(Front(g)) = Len(c) - 1
      /\ \A j \in 1..(Len(c) - 1) : Front(g)[j] = g[j]
  BY DropIs
<1>3. Same(c, g, Front(c), Front(g), Len(c) - 1)
  BY <1>2 DEF Same, Alike
<1>4. Len(c) - 1 \in 0..Len(c) /\ (Len(c) - 1) + 1 = Len(c)
  BY <1>1
<1>5. Owned(c, L, Len(c))
  BY <1>1 DEF Owned
<1>6. Owned(c, L, (Len(c) - 1) + 1)
  BY <1>4, <1>5
<1>7. Fits(c, g, Len(c) - 1, L, t, u)
  BY DEF Below
<1> QED
  BY <1>2, <1>3, <1>4, <1>6, <1>7, BaseCut

\* The thread on top runs.
LEMMA ConcludeTop ==
  ASSUME NEW L, NEW t, NEW c, NEW g, Base(L, t, c, g), c # <<>>, c[Len(c)].L = L, Awake(c[Len(c)], t, g[Len(c)]),
         th' = With(L, t), cstack' = c
  PROVE  IInv'
<1>1. Len(c) \in 1..Len(c)
  BY TopIs
<1>2. With(L, t)[L] = t
  BY BaseWith
<1> QED
  BY <1>1, <1>2, Conclude

-----------------------------------------------------------------------------
(* Long jumps *)

LEMMA ResumeIs ==
  ASSUME NEW L, NEW t, NEW c, NEW g, Base(L, t, c, g), NEW h \in 1..Len(c), c[h].fn = "lua_resume", c[h].L = L
  PROVE  /\ h > 1 /\ h - 1 \in 1..Len(c) /\ t.status = LUA_OK
         /\ OfResume(c[h - 1], g[h - 1], c[h], g[h], t.ci)
         /\ \A j \in 1..(h - 1) : c[j].L # L
         /\ c[h - 1].L \in Thread /\ c[h - 1].L # L /\ Awake(c[h - 1], th[c[h - 1].L], g[h - 1])
<1>1. Len(c) \in Nat /\ h \in Nat
  BY BaseIs
<1>2. FrameAt(With(L, t), c, g, h) /\ With(L, t)[L] = t
  BY BaseAt, BaseWith
<1>3. /\ t.status = LUA_OK /\ Frame(c, g, t.ci, h) /\ Awake(c[h - 1], With(L, t)[c[h - 1].L], g[h - 1])
      /\ \A i \in 1..(h - 1) : Pair(c, g, i, h)
  BY <1>2 DEF FrameAt
<1>4. h > 1
  BY <1>1, <1>3 DEF Frame, OfHost
<1>5. h - 1 \in 1..Len(c) /\ h - 1 \in 1..(h - 1)
  BY <1>1, <1>4
<1>6. OfResume(c[h - 1], g[h - 1], c[h], g[h], t.ci)
  BY <1>3, <1>4 DEF Frame, Kind, OfLua, OfC, OfHook, OfError, OfPcall
<1>7. \A j \in 1..(h - 1) : c[j].L # L
  BY <1>3 DEF Pair
<1>8. c[h - 1].L \in Thread /\ c[h - 1].L # L
  BY <1>5, <1>7, BaseAt
<1>9. With(L, t)[c[h - 1].L] = th[c[h - 1].L]
  BY <1>8, BaseWith
<1> QED
  BY <1>3, <1>4, <1>5, <1>6, <1>7, <1>8, <1>9

LEMMA SoundMore ==
  ASSUME NEW t, Sound(t), NEW u \in State, u.ci = t.ci, u.errfunc = t.errfunc, u.openupval = t.openupval
  PROVE  Sound(u)
<1> QED
  BY DEF Sound

LEMMA AwakeSame ==
  ASSUME NEW x, NEW y, y.fn = x.fn, NEW t, NEW s, Awake(x, t, s)
  PROVE  Awake(y, t, s)
<1> QED
  BY DEF Awake

\* The thread may be left, once lua_resume has restored its counters.
Leaves(L, v) ==
  \A u \in State :
    (/\ u.ci = v.ci /\ u.status = v.status /\ u.nny = 1 /\ u.errfunc = v.errfunc
     /\ (u.allowhook <=> v.allowhook) /\ (u.fn <=> v.fn)) => Asleep(L, u)

\* lua_resume ends: the thread is left without a frame.
LEMMA ResumedStep ==
  ASSUME NEW L, NEW t, NEW c, NEW g, Base(L, t, c, g), Run = L, NEW h \in 1..Len(c), c[h].fn = "lua_resume",
         Owned(c, L, h), NEW v, Sound(v), NEW how \in {"no", "ok", "error"}, Resumed(v, SubSeq(c, 1, h), how),
         Leaves(L, v)
  PROVE  IInv'
<1>1. /\ c \in Seq(CFrame) /\ g \in Seq(Past) /\ Len(g) = Len(c) /\ Len(c) \in Nat /\ h \in Nat /\ h > 0
      /\ L \in Thread /\ v \in State
  <2>1. c \in Seq(CFrame) /\ g \in Seq(Past) /\ Len(g) = Len(c) /\ Len(c) \in Nat /\ L \in Thread
    BY BaseIs
  <2> QED
    BY <2>1 DEF Sound
<1>2. c[h].L = L
  BY <1>1 DEF Owned
<1>3. /\ h > 1 /\ h - 1 \in 1..Len(c) /\ t.status = LUA_OK
      /\ OfResume(c[h - 1], g[h - 1], c[h], g[h], t.ci)
      /\ \A j \in 1..(h - 1) : c[j].L # L
      /\ c[h - 1].L \in Thread /\ c[h - 1].L # L /\ Awake(c[h - 1], th[c[h - 1].L], g[h - 1])
  BY <1>2, ResumeIs
<1>4. c[h].nny = 1 /\ c[h].nCcalls - 1 \in Nat /\ c[h - 1].fn = "C"
  <2>1. g[h - 1].nCcalls \in Nat
    BY <1>3, BaseAt
  <2>2. c[h].nny = 1 /\ c[h].nCcalls = g[h - 1].nCcalls + 1 /\ c[h - 1].fn = "C"
    BY <1>3 DEF OfResume
  <2> QED
    BY <2>1, <2>2
<1> DEFINE b == Front(SubSeq(c, 1, h))
           e == Done(b, how)
           k == SubSeq(g, 1, h - 1)
           n == c[h].nCcalls - 1
           u == [v EXCEPT !.nny = 1, !.nCcalls = n]
<1>5. b \in Seq(CFrame) /\ Len(b) = h - 1 /\ (\A i \in 1..(h - 1) : b[i] = c[i]) /\ Last(SubSeq(c, 1, h)) = c[h]
  <2>1. c \in Seq(CFrame) /\ h \in 1..Len(c)
    BY <1>1
  <2>2. /\ Last(SubSeq(c, 1, h)) = c[h]
        /\ Front(SubSeq(c, 1, h)) \in Seq(CFrame) /\ Len(Front(SubSeq(c, 1, h))) = h - 1
        /\ \A i \in 1..(h - 1) : Front(SubSeq(c, 1, h))[i] = c[i]
    BY <2>1, CutIs
  <2> QED
    BY <2>2
<1>6. th' = With(L, u) /\ cstack' = e
  BY <1>4, <1>5 DEF Resumed, Step, With
<1>a. n \in Nat
  BY <1>4
<1> HIDE DEF n
<1>7. /\ u \in State /\ u.ci = v.ci /\ u.errfunc = v.errfunc /\ u.openupval = v.openupval /\ Asleep(L, u)
  <2>1. u \in State /\ u.ci = v.ci /\ u.errfunc = v.errfunc /\ u.openupval = v.openupval
    BY <1>1, <1>a DEF State
  <2>2. u.status = v.status /\ u.nny = 1 /\ u.allowhook = v.allowhook /\ u.fn = v.fn
    BY <1>1, <1>a DEF State
  <2> HIDE DEF u
  <2> QED
    BY <2>1, <2>2 DEF Leaves
<1>8. k \in Seq(Past) /\ Len(k) = h - 1 /\ \A j \in 1..(h - 1) : k[j] = g[j]
  <2>1. h - 1 \in 0..Len(g)
    BY <1>1
  <2> QED
    BY <1>1, <2>1, CutSeq
<1> HIDE DEF b, k, u
<1>9. /\ e \in Seq(CFrame) /\ Len(e) = h - 1
      /\ \A j \in 1..(h - 1) : Alike(e[j], c[j]) /\ e[j].L = c[j].L /\ e[j].fn = c[j].fn
  <2>1. b # <<>> => b[Len(b)].fn = "C"
    BY <1>1, <1>3, <1>4, <1>5
  <2>2. /\ Done(b, how) \in Seq(CFrame) /\ Len(Done(b, how)) = Len(b)
        /\ \A j \in 1..Len(b) : /\ Alike(Done(b, how)[j], b[j]) /\ Done(b, how)[j].L = b[j].L
                                /\ Done(b, how)[j].fn = b[j].fn
    BY <1>5, <2>1, DoneIs
  <2> QED
    BY <1>5, <2>2
<1> HIDE DEF e
<1>10. Sound(u)
  BY <1>7, SoundMore
<1>11. Base(L, u, e, k)
  <2>1. Same(c, g, e, k, h - 1)
    BY <1>8, <1>9 DEF Same
  <2>2. Fits(c, g, h - 1, L, t, u)
    BY <1>3 DEF Fits
  <2>3. h - 1 \in 0..Len(c) /\ (h - 1) + 1 = h
    BY <1>1
  <2>4. Owned(c, L, (h - 1) + 1)
    BY <2>3
  <2> QED
    BY <1>8, <1>9, <1>10, <2>1, <2>2, <2>3, <2>4, BaseCut
<1>12. e # <<>> => Awake(e[Len(e)], With(L, u)[e[Len(e)].L], k[Len(e)])
  <2>1. h - 1 \in 1..(h - 1)
    BY <1>1, <1>3
  <2>2. e[Len(e)].L = c[h - 1].L /\ e[Len(e)].fn = c[h - 1].fn /\ k[Len(e)] = g[h - 1]
    BY <1>8, <1>9, <2>1
  <2>3. With(L, u)[c[h - 1].L] = th[c[h - 1].L]
    BY <1>3, <1>11, BaseWith
  <2>4. Awake(e[Len(e)], th[c[h - 1].L], g[h - 1])
    BY <1>3, <2>2, AwakeSame
  <2> QED
    BY <2>2, <2>3, <2>4
<1> QED
  BY <1>6, <1>7, <1>11, <1>12, Conclude

\* lua_resume is the frame on top, and goes on with the first n activations of u.
LEMMA ResumeBase ==
  ASSUME NEW L, NEW t, NEW c, NEW g, Base(L, t, c, g), NEW h \in 1..Len(c), c[h].fn = "lua_resume",
         Owned(c, L, h), NEW u, Sound(u), u.status = LUA_OK, NEW n \in 0..Len(u.ci), Passable(u.ci, n)
  PROVE  \E k : /\ Base(L, u, SubSeq(c, 1, h), k)
                /\ k[h] = [level |-> n, nny |-> 0, nCcalls |-> c[h].nCcalls]
<1>1. /\ c \in Seq(CFrame) /\ g \in Seq(Past) /\ Len(g) = Len(c) /\ Len(c) \in Nat /\ h \in Nat /\ h > 0
      /\ L \in Thread
  BY BaseIs
<1>2. c[h].L = L
  BY <1>1 DEF Owned
<1>3. /\ h > 1 /\ h - 1 \in 1..Len(c) /\ t.status = LUA_OK
      /\ OfResume(c[h - 1], g[h - 1], c[h], g[h], t.ci)
      /\ \A j \in 1..(h - 1) : c[j].L # L
      /\ c[h - 1].L \in Thread /\ c[h - 1].L # L /\ Awake(c[h - 1], th[c[h - 1].L], g[h - 1])
  BY <1>2, ResumeIs
<1> DEFINE d == SubSeq(c, 1, h)
           b == Front(d)
           k == SubSeq(g, 1, h - 1)
           s == [level |-> n, nny |-> 0, nCcalls |-> c[h].nCcalls]
<1>4. /\ b \in Seq(CFrame) /\ Len(b) = h - 1 /\ \A i \in 1..(h - 1) : b[i] = c[i]
      /\ d \in Seq(CFrame) /\ Len(d) = h /\ d # <<>> /\ d[h] = c[h]
  <2>1. h \in 1..h
    BY <1>1
  <2> QED
    BY <1>1, <2>1, CutIs
<1>5. k \in Seq(Past) /\ Len(k) = h - 1 /\ \A j \in 1..(h - 1) : k[j] = g[j]
  <2>1. h - 1 \in 0..Len(g)
    BY <1>1
  <2> QED
    BY <1>1, <2>1, CutSeq
<1>6. Append(b, c[h]) = d
  BY <1>4, FrontAppend
<1> HIDE DEF b, k, d
<1>7. Base(L, u, b, k)
  <2>1. Same(c, g, b, k, h - 1)
    BY <1>4, <1>5 DEF Same, Alike
  <2>2. Fits(c, g, h - 1, L, t, u)
    BY <1>3 DEF Fits
  <2>3. h - 1 \in 0..Len(c) /\ (h - 1) + 1 = h
    BY <1>1
  <2>4. Owned(c, L, (h - 1) + 1)
    BY <2>3
  <2> QED
    BY <1>4, <1>5, <2>1, <2>2, <2>3, <2>4, BaseCut
<1>8. /\ c[h] \in CFrame /\ g[h].nCcalls \in Nat /\ g[h - 1].nCcalls \in Nat /\ g[h].nCcalls < MaxCCalls + Extra
      /\ c[h].nCcalls = g[h].nCcalls /\ g[h].nCcalls = g[h - 1].nCcalls + 1 /\ c[h - 1].fn = "C"
  <2>1. FrameAt(With(L, t), c, g, h)
    BY BaseAt
  <2> QED
    BY <1>3, <2>1, BaseAt DEF OfResume, FrameAt
<1>9. s \in Past /\ s.level = n /\ s.nny = 0 /\ s.nCcalls = g[h].nCcalls
  BY <1>8 DEF Past
<1> HIDE DEF s
<1>10. h - 1 \in 1..(h - 1) /\ b # <<>>
  BY <1>1, <1>3, <1>4
<1>11. Kind(b[Len(b)], k[Len(b)], c[h], s, u.ci)
  <2>1. b[Len(b)] = c[h - 1] /\ k[Len(b)] = g[h - 1]
    BY <1>4, <1>5, <1>10
  <2>2. OfResume(c[h - 1], g[h - 1], c[h], s, u.ci)
    BY <1>3, <1>8, <1>9 DEF OfResume
  <2> QED
    BY <2>1, <2>2 DEF Kind
<1>12. (\A j \in 1..Len(b) : b[j].L # L) /\ Awake(b[Len(b)], th[b[Len(b)].L], k[Len(b)])
  BY <1>3, <1>4, <1>5, <1>10
<1>13. k[Len(b)].nCcalls + (IF Counted(c[h]) THEN 1 ELSE 0) + Slack(c[h]) <= s.nCcalls + Slack(b[Len(b)])
  <2>1. Counted(c[h]) /\ Slack(c[h]) = 0 /\ Slack(b[Len(b)]) = 0
    BY <1>4, <1>8, <1>10 DEF Counted, Slack
  <2>2. k[Len(b)].nCcalls = g[h - 1].nCcalls /\ (IF Counted(c[h]) THEN 1 ELSE 0) = 1
    BY <1>4, <1>5, <1>10, <2>1
  <2> QED
    BY <1>8, <1>9, <2>1, <2>2
<1>14. Base(L, u, Append(b, c[h]), Append(k, s))
  <2>1. s.level <= Len(u.ci) /\ s.nCcalls < MaxCCalls + Extra
    BY <1>8, <1>9
  <2> QED
    BY <1>2, <1>7, <1>8, <1>9, <1>10, <1>11, <1>12, <1>13, <2>1, BasePush
<1>15. Append(k, s)[h] = s
  <2>1. (h - 1) + 1 = h
    BY <1>1
  <2> QED
    BY <1>5, <1>9, <2>1, AppendSeq
<1> QED
  BY <1>6, <1>14, <1>15 DEF d, s

LEMMA PcallIs ==
  ASSUME NEW L, NEW t, NEW c, NEW g, Base(L, t, c, g), NEW h \in 1..Len(c), c[h].fn = "luaD_pcall", c[h].L = L
  PROVE  /\ c[h].ci = g[h].level /\ c[h].nny = g[h].nny /\ c[h].nCcalls = g[h].nCcalls
         /\ c[h].errfunc \in Nat /\ c[h].allowhook \in BOOLEAN
         /\ g[h].level \in 0..Len(t.ci) /\ g[h].nny \in Nat \ {0} /\ g[h].nCcalls \in Nat /\ t.status = LUA_OK
<1>1. Len(c) \in Nat /\ h \in Nat
  BY BaseIs
<1>2. FrameAt(With(L, t), c, g, h) /\ With(L, t)[L] = t /\ c[h] \in CFrame
  BY BaseAt, BaseWith
<1>3. t.status = LUA_OK /\ Frame(c, g, t.ci, h) /\ g[h].level \in 0..Len(t.ci)
  BY <1>2 DEF FrameAt
<1>4. c[h].errfunc \in Nat /\ c[h].allowhook \in BOOLEAN
  BY <1>2, CFrameIs
<1>5. g[h].nny \in Nat /\ g[h].nCcalls \in Nat
  BY BaseAt
<1>6. CASE h = 1
  <2>1. OfHost(c[h], g[h])
    BY <1>3, <1>6 DEF Frame
  <2> QED
    BY <1>3, <1>4, <1>5, <2>1 DEF OfHost
<1>7. CASE h # 1
  <2>1. OfPcall(c[h - 1], g[h - 1], c[h], g[h], t.ci)
    BY <1>3, <1>7 DEF Frame, Kind, OfLua, OfC, OfHook, OfError, OfResume
  <2> QED
    BY <1>3, <1>4, <1>5, <2>1 DEF OfPcall
<1> QED
  BY <1>6, <1>7

\* What is left of a thread above level n, and what has been restored.
LEMMA KeptIs ==
  ASSUME NEW t \in State, NEW n \in 0..Len(t.ci)
  PROVE  /\ Closed(Kept(t, n), n) \in State /\ Closed(Kept(t, n), n).ci = SubSeq(t.ci, 1, n)
         /\ Closed(Kept(t, n), n).status = t.status /\ Closed(Kept(t, n), n).fn = t.fn
         /\ Closed(Kept(t, n), n).openupval = {l \in t.openupval : l <= n}
<1>1. t.ci \in Seq(Info)
  BY DEF State
<1>2. SubSeq(t.ci, 1, n) \in Seq(Info)
  BY <1>1, CutSeq
<1> DEFINE k == Kept(t, n)
<1>3. /\ k \in State /\ k.ci = SubSeq(t.ci, 1, n) /\ k.status = t.status /\ k.fn = t.fn
      /\ k.openupval = t.openupval
  BY <1>2 DEF State, Kept
<1> HIDE DEF k
<1>4. {l \in k.openupval : l <= n} \in SUBSET Nat
  BY <1>3 DEF State
<1>5. /\ Closed(k, n) \in State /\ Closed(k, n).ci = k.ci /\ Closed(k, n).status = k.status
      /\ Closed(k, n).fn = k.fn /\ Closed(k, n).openupval = {l \in k.openupval : l <= n}
  BY <1>3, <1>4 DEF State, Closed
<1> QED
  BY <1>3, <1>5 DEF k

\* An error in a protected call that has a C frame.
LEMMA PcallFailsStep ==
  ASSUME NEW L, NEW t, NEW c, NEW g, Base(L, t, c, g), Run = L, NEW h \in 1..Len(c), c[h].fn = "luaD_pcall",
         Owned(c, L, h), PcallFails(t, SubSeq(c, 1, h))
  PROVE  IInv'
<1>1. t \in State /\ t.ci \in Seq(Info) /\ Len(t.ci) \in Nat /\ c \in Seq(CFrame) /\ Len(c) \in Nat
  BY BaseIs
<1>2. c[h].L = L
  BY <1>1 DEF Owned
<1> DEFINE p == c[h]
           e == Closed(Kept(t, p.ci), p.ci)
           u == [e EXCEPT !.allowhook = p.allowhook, !.nny = p.nny, !.errfunc = p.errfunc, !.nCcalls = p.nCcalls]
<1>3. /\ p.ci = g[h].level /\ p.nny = g[h].nny /\ p.nCcalls = g[h].nCcalls
      /\ p.errfunc \in Nat /\ p.allowhook \in BOOLEAN
      /\ g[h].level \in 0..Len(t.ci) /\ g[h].nny \in Nat \ {0} /\ g[h].nCcalls \in Nat /\ t.status = LUA_OK
  BY <1>2, PcallIs
<1>5. Last(SubSeq(c, 1, h)) = p
  BY <1>1, CutIs
<1>6. th' = With(L, u) /\ cstack' = Done(Front(SubSeq(c, 1, h)), "error")
  BY <1>5 DEF PcallFails, Step, With
<1>a. /\ e \in State /\ e.ci = SubSeq(t.ci, 1, p.ci) /\ e.status = t.status
      /\ e.openupval = {l \in t.openupval : l <= p.ci}
  BY <1>1, <1>3, KeptIs
<1>b. p.allowhook \in BOOLEAN /\ p.nny \in Nat /\ p.errfunc \in Nat /\ p.nCcalls \in Nat
  BY <1>3
<1> HIDE DEF p, e
<1>c. /\ u \in State /\ u.ci = e.ci /\ u.status = e.status /\ u.openupval = e.openupval
      /\ u.allowhook = p.allowhook /\ u.nny = p.nny /\ u.errfunc = p.errfunc /\ u.nCcalls = p.nCcalls
  BY <1>a, <1>b DEF State
<1> HIDE DEF u
<1>7. /\ u \in State /\ u.ci = SubSeq(t.ci, 1, g[h].level) /\ u.status = LUA_OK
      /\ u.nny = g[h].nny /\ u.nCcalls = g[h].nCcalls /\ u.errfunc = p.errfunc /\ u.allowhook = p.allowhook
      /\ u.openupval = {l \in t.openupval : l <= g[h].level}
  BY <1>3, <1>a, <1>c DEF p
<1>8. Ended(t, c[h], g[h], u)
  BY <1>7 DEF Ended, p
<1> QED
  BY <1>6, <1>7, <1>8, PcallEnds

\* An error in a protected call that could yield, and has lost its C frame.
LEMMA RecoverStep ==
  ASSUME NEW L, NEW t, NEW c, NEW g, Base(L, t, c, g), Run = L, NEW h \in 1..Len(c), c[h].fn = "lua_resume",
         Owned(c, L, h), \E j \in DOMAIN t.ci : t.ci[j].ypcall, Recover(t, SubSeq(c, 1, h))
  PROVE  IInv'
<1>1. /\ t \in State /\ t.ci \in Seq(Info) /\ Len(t.ci) \in Nat /\ Sound(t)
      /\ c \in Seq(CFrame) /\ Len(c) \in Nat /\ h \in Nat /\ h > 0
  BY BaseIs
<1>2. c[h].L = L
  BY <1>1 DEF Owned
<1>3. t.status = LUA_OK /\ OfResume(c[h - 1], g[h - 1], c[h], g[h], t.ci) /\ g[h].nCcalls \in Nat
  BY <1>2, ResumeIs, BaseAt
<1> DEFINE Y == {j \in DOMAIN t.ci : t.ci[j].ypcall}
           j == CHOOSE m \in Y : \A i \in Y : i <= m
           d == SubSeq(c, 1, h)
           a == t.ci[j].oah
           b == OldErrfunc(t, t.ci[j])
           n == c[h].nCcalls
           e == Closed(Kept(t, j), j)
           u == [e EXCEPT !.allowhook = a, !.nny = 0, !.errfunc = b, !.nCcalls = n]
<1>4. d \in Seq(CFrame) /\ Len(d) = h /\ d # <<>> /\ d[h] = c[h] /\ Last(d) = c[h]
  <2>1. h \in 1..h
    BY <1>1
  <2>2. d \in Seq(CFrame) /\ Len(d) = h /\ d # <<>> /\ (\A i \in 1..h : d[i] = c[i]) /\ Last(d) = c[h]
    BY <1>1, CutTop
  <2> HIDE DEF d
  <2> QED
    BY <2>1, <2>2
<1>5. th' = With(L, u) /\ cstack' = d
  BY <1>4 DEF Recover, Step, With
<1>6. j \in 1..Len(t.ci) /\ t.ci[j].ypcall
  <2>1. \A i \in Y : i \in 1..Len(t.ci) /\ i \in Nat /\ i <= Len(t.ci) /\ t.ci[i].ypcall
    BY <1>1
  <2>2. Y # {} /\ Y \in SUBSET Nat
    BY <2>1
  <2> HIDE DEF Y
  <2>3. \E m \in Y : \A i \in Y : i <= m
    BY <1>1, <2>1, <2>2, GreatestOf
  <2>4. j \in Y
    BY <2>3
  <2> QED
    BY <2>1, <2>4
<1> HIDE DEF j, d
<1>7. Saved(t.ci, j) /\ j \in Nat /\ j > 0 /\ j \in 0..Len(t.ci) /\ t.ci[j] \in Info
  BY <1>1, <1>6 DEF Sound
<1>8. /\ t.ci[j].f \in Protecting /\ Passable(t.ci, j)
      /\ t.ci[j].old_errfunc = Handler(t.ci, j) /\ (t.ci[j].oah <=> HooksOn(t.ci, j))
      /\ t.ci[j].old_errfunc \in Nat /\ t.ci[j].oah \in BOOLEAN
  BY <1>6, <1>7 DEF Saved, Info
<1>9. c[h].nCcalls = g[h].nCcalls
  BY <1>3 DEF OfResume
<1> DEFINE q == SubSeq(t.ci, 1, j)
<1>10. q \in Seq(Info) /\ Len(q) = j /\ \A i \in 1..j : q[i] = t.ci[i]
  BY <1>1, <1>7, CutSeq
<1>a. e \in State /\ e.ci = q /\ e.status = t.status /\ e.openupval = {l \in t.openupval : l <= j}
  BY <1>1, <1>7, KeptIs
<1>b. a \in BOOLEAN /\ b = t.ci[j].old_errfunc /\ b \in Nat /\ n \in Nat
  BY <1>3, <1>6, <1>8, <1>9 DEF OldErrfunc
<1>c. a = t.ci[j].oah /\ n = c[h].nCcalls
  OBVIOUS
<1> HIDE DEF q, a, b, n, e
<1>d. /\ u \in State /\ u.ci = e.ci /\ u.status = e.status /\ u.openupval = e.openupval
      /\ u.allowhook = a /\ u.nny = 0 /\ u.errfunc = b /\ u.nCcalls = n
  BY <1>a, <1>b DEF State
<1> HIDE DEF u
<1>11. /\ u \in State /\ u.ci = q /\ u.status = LUA_OK /\ u.nny = 0 /\ u.nCcalls = c[h].nCcalls
       /\ u.errfunc = t.ci[j].old_errfunc /\ u.allowhook = t.ci[j].oah
       /\ u.openupval = {l \in t.openupval : l <= j}
  BY <1>3, <1>a, <1>b, <1>c, <1>d
<1>12. Handler(t.ci, j) <= j
  BY <1>7, HandlerBound
<1>13. Sound(u)
  BY <1>1, <1>7, <1>8, <1>10, <1>11, <1>12, SoundKept
<1>14. Passable(u.ci, j) /\ (HooksOn(u.ci, j) <=> HooksOn(t.ci, j)) /\ u.ci[j].ypcall
  <2>1. j \in 1..j
    BY <1>7
  <2> QED
    BY <1>6, <1>8, <1>10, <1>11, <2>1 DEF Passable, HooksOn
<1>15. j \in 0..Len(u.ci)
  BY <1>7, <1>10, <1>11
<1>16. PICK k : Base(L, u, d, k) /\ k[h] = [level |-> j, nny |-> 0, nCcalls |-> c[h].nCcalls]
  <2>1. \E k : /\ Base(L, u, SubSeq(c, 1, h), k)
               /\ k[h] = [level |-> j, nny |-> 0, nCcalls |-> c[h].nCcalls]
    BY <1>11, <1>13, <1>14, <1>15, ResumeBase
  <2> QED
    BY <2>1 DEF d
<1>17. Awake(d[Len(d)], u, k[Len(d)])
  <2>1. Len(u.ci) = j /\ k[Len(d)] = [level |-> j, nny |-> u.nny, nCcalls |-> u.nCcalls]
    BY <1>4, <1>10, <1>11, <1>16
  <2>2. d[Len(d)].fn = "lua_resume"
    BY <1>4
  <2> QED
    BY <1>7, <1>8, <1>11, <1>14, <2>1, <2>2 DEF Awake
<1> QED
  BY <1>2, <1>4, <1>5, <1>16, <1>17, ConcludeTop

\* The cases of luaD_throw.
LEMMA ThrowIs ==
  ASSUME NEW t, NEW c, NEW status, Throw(t, c, status), NEW h, h = Innermost(c),
         Last(SubSeq(c, 1, h)) = c[h], c[h].fn \in {"luaD_pcall", "lua_resume"}
  PROVE  \/ c[h].fn = "luaD_pcall" /\ PcallFails(t, SubSeq(c, 1, h))
         \/ c[h].fn = "lua_resume" /\ status = LUA_YIELD /\ Resumed(t, SubSeq(c, 1, h), "ok")
         \/ /\ c[h].fn = "lua_resume" /\ status # LUA_YIELD
            /\ (\E j \in DOMAIN t.ci : t.ci[j].ypcall) /\ Recover(t, SubSeq(c, 1, h))
         \/ /\ c[h].fn = "lua_resume" /\ status # LUA_YIELD
            /\ Resumed([t EXCEPT !.status = status], SubSeq(c, 1, h), "error")
<1> DEFINE d == SubSeq(c, 1, h)
           Q == \E j \in DOMAIN t.ci : t.ci[j].ypcall
<1>1. (CASE Last(d).fn = "luaD_pcall" -> PcallFails(t, d)
         [] Last(d).fn # "luaD_pcall" /\ status = LUA_YIELD -> Resumed(t, d, "ok")
         [] OTHER -> IF Q THEN Recover(t, d) ELSE Resumed([t EXCEPT !.status = status], d, "error"))
  BY DEF Throw, Innermost
<1>2. Last(d) = c[h]
  OBVIOUS
<1> HIDE DEF d, Q
<1>3. CASE c[h].fn = "luaD_pcall"
  <2>1. PcallFails(t, d)
    BY <1>1, <1>2, <1>3
  <2> QED
    BY <1>3, <2>1 DEF d
<1>4. CASE c[h].fn = "lua_resume" /\ status = LUA_YIELD
  <2>1. Resumed(t, d, "ok")
    BY <1>1, <1>2, <1>4
  <2> QED
    BY <1>4, <2>1 DEF d
<1>5. CASE c[h].fn = "lua_resume" /\ status # LUA_YIELD /\ Q
  <2>1. Recover(t, d)
    BY <1>1, <1>2, <1>5
  <2> QED
    BY <1>5, <2>1 DEF d, Q
<1>6. CASE c[h].fn = "lua_resume" /\ status # LUA_YIELD /\ ~Q
  <2>1. Resumed([t EXCEPT !.status = status], d, "error")
    BY <1>1, <1>2, <1>6
  <2> QED
    BY <1>6, <2>1 DEF d
<1> QED
  BY <1>3, <1>4, <1>5, <1>6

\* An error never leaves the invariant, wherever it is caught.
LEMMA ThrowError ==
  ASSUME NEW L, NEW t, NEW c, NEW g, Base(L, t, c, g), Run = L, c # <<>>, c[Len(c)].L = L,
         NEW status \in {LUA_ERRRUN, LUA_ERRERR}, Throw(t, c, status)
  PROVE  IInv'
<1> DEFINE h == Innermost(c)
<1>1. /\ t \in State /\ Sound(t) /\ c \in Seq(CFrame) /\ Len(c) \in Nat
  BY BaseIs
<1>2. h \in 1..Len(c) /\ c[h].fn \in {"luaD_pcall", "lua_resume"} /\ Owned(c, L, h)
  BY InnermostIs
<1>3. Last(SubSeq(c, 1, h)) = c[h] /\ c[h].L = L
  <2>1. h \in h..Len(c)
    BY <1>1, <1>2
  <2> QED
    BY <1>1, <1>2, <2>1, CutIs DEF Owned
<1>4. status # LUA_YIELD /\ status # LUA_OK
  BY DEF LUA_ERRRUN, LUA_ERRERR, LUA_YIELD, LUA_OK
<1> HIDE DEF h
<1>5. \/ c[h].fn = "luaD_pcall" /\ PcallFails(t, SubSeq(c, 1, h))
      \/ c[h].fn = "lua_resume" /\ (\E j \in DOMAIN t.ci : t.ci[j].ypcall) /\ Recover(t, SubSeq(c, 1, h))
      \/ c[h].fn = "lua_resume" /\ Resumed([t EXCEPT !.status = status], SubSeq(c, 1, h), "error")
  <2>1. h = Innermost(c)
    BY DEF h
  <2> QED
    BY <1>2, <1>3, <1>4, <2>1, ThrowIs
<1>6. CASE c[h].fn = "luaD_pcall" /\ PcallFails(t, SubSeq(c, 1, h))
  BY <1>2, <1>6, PcallFailsStep
<1>7. CASE c[h].fn = "lua_resume" /\ (\E j \in DOMAIN t.ci : t.ci[j].ypcall) /\ Recover(t, SubSeq(c, 1, h))
  BY <1>2, <1>7, RecoverStep
<1>8. CASE c[h].fn = "lua_resume" /\ Resumed([t EXCEPT !.status = status], SubSeq(c, 1, h), "error")
  <2> DEFINE v == [t EXCEPT !.status = status]
  <2>1. /\ v \in State /\ v.ci = t.ci /\ v.errfunc = t.errfunc /\ v.openupval = t.openupval
        /\ v.status = status
    BY <1>1 DEF State
  <2>2. Resumed(v, SubSeq(c, 1, h), "error")
    BY <1>8
  <2> HIDE DEF v
  <2>3. Sound(v)
    BY <1>1, <2>1, SoundMore
  <2>4. L # Main
    <3>1. OfResume(c[h - 1], g[h - 1], c[h], g[h], t.ci)
      BY <1>2, <1>3, <1>8, ResumeIs
    <3> QED
      BY <1>3, <3>1 DEF OfResume
  <2>5. Leaves(L, v)
    BY <1>4, <2>1, <2>4 DEF Leaves, Asleep
  <2> QED
    BY <1>2, <1>8, <2>2, <2>3, <2>5, ResumedStep
<1> QED
  BY <1>5, <1>6, <1>7, <1>8

\* A yield ends in lua_resume: nothing between that needs its C frame.
LEMMA ThrowYield ==
  ASSUME NEW L, NEW t, NEW c, NEW g, Base(L, t, c, g), Run = L, c # <<>>, c[Len(c)].L = L,
         c[Len(c)].fn # "luaD_pcall", g[Len(c)].nny = 0,
         NEW v, Sound(v), Leaves(L, v), Throw(v, c, LUA_YIELD)
  PROVE  IInv'
<1> DEFINE h == Innermost(c)
<1>1. c \in Seq(CFrame) /\ Len(c) \in Nat
  BY BaseIs
<1>2. h \in 1..Len(c) /\ c[h].fn \in {"luaD_pcall", "lua_resume"} /\ Owned(c, L, h)
  BY InnermostIs
<1>3. Last(SubSeq(c, 1, h)) = c[h] /\ c[h].L = L
  <2>1. h \in h..Len(c)
    BY <1>1, <1>2
  <2> QED
    BY <1>1, <1>2, <2>1, CutIs DEF Owned
<1> HIDE DEF h
<1>4. c[h].fn # "luaD_pcall"
  <2> SUFFICES ASSUME c[h].fn = "luaD_pcall" PROVE FALSE
    OBVIOUS
  <2>1. h \in 1..(Len(c) - 1)
    BY <1>1, <1>2
  <2>2. Pair(c, g, h, Len(c))
    BY <2>1, TopIs
  <2> QED
    BY <1>3, <2>2 DEF Pair
<1>5. Resumed(v, SubSeq(c, 1, h), "ok")
  <2>1. h = Innermost(c)
    BY DEF h
  <2> QED
    BY <1>2, <1>3, <1>4, <2>1, ThrowIs
<1> QED
  BY <1>2, <1>4, <1>5, ResumedStep

-----------------------------------------------------------------------------
(* Calls *)

\* The frame of the called function, and the activations then.
Callee(L, f, via) == IF f \notin {"lua", "handler"} THEN CFunction(L, via) ELSE Execute(L, via)
Longer(t, f, via) == Append(t.ci, CI(f, via # "precall"))
Snap(t, n) == [level |-> n, nny |-> t.nny, nCcalls |-> t.nCcalls]

\* The frame on top has called f with what luaD_precall needs.
Enters(L, t, c, g, f, via) ==
  LET y == c[Len(c)]  q == g[Len(c)]  n == Len(t.ci)
      x == Callee(L, f, via)  s == Snap(t, n + 1)  ci == Longer(t, f, via)
  IN /\ Called(y, q, x, s, ci) /\ Barrier(L, s, ci)
     /\ q.level = n /\ q.nCcalls + (IF Counted(x) THEN 1 ELSE 0) <= t.nCcalls + Slack(y)
     /\ q.nny > 0 \/ y.fn = "luaD_pcall" => t.nny > 0
     /\ t.nCcalls < MaxCCalls + Extra
     /\ t.allowhook <=> HooksOn(t.ci, n)
     /\ t.errfunc = Handler(t.ci, n + 1)

LEMMA HooksNext ==
  ASSUME NEW a, NEW b, NEW n \in Nat, \A i \in 1..n : b[i] = a[i], ~b[n + 1].hooked
  PROVE  HooksOn(b, n + 1) <=> HooksOn(a, n)
<1>1. \A i \in 1..(n + 1) : i = n + 1 \/ i \in 1..n
  OBVIOUS
<1>2. \A i \in 1..n : i \in 1..(n + 1)
  OBVIOUS
<1> QED
  BY <1>1, <1>2 DEF HooksOn

LEMMA CIIs ==
  ASSUME NEW f \in Kinds \cup {"handler"}, NEW fresh \in BOOLEAN
  PROVE  /\ CI(f, fresh) \in Info /\ CI(f, fresh).f = f /\ CI(f, fresh).fresh = fresh
         /\ ~CI(f, fresh).ypcall /\ ~CI(f, fresh).hooked
  BY DEF CI, Info

LEMMA CalleeIs ==
  ASSUME NEW L \in Thread, NEW f, NEW via \in Via
  PROVE  /\ Callee(L, f, via) \in CFrame /\ Callee(L, f, via).L = L /\ Callee(L, f, via).via = via
         /\ Callee(L, f, via).fn = (IF f \notin {"lua", "handler"} THEN "C" ELSE "luaV_execute")
         /\ Slack(Callee(L, f, via)) = 0
<1>1. CASE f \notin {"lua", "handler"}
  BY <1>1, CFrameOf DEF Callee, CFunction, Slack
<1>2. CASE f \in {"lua", "handler"}
  BY <1>2, CFrameOf DEF Callee, Execute, Slack
<1> QED
  BY <1>1, <1>2

LEMMA LongerIs ==
  ASSUME NEW t \in State, NEW f \in Kinds \cup {"handler"}, NEW via
  PROVE  /\ Longer(t, f, via) \in Seq(Info) /\ Len(t.ci) \in Nat /\ Len(Longer(t, f, via)) = Len(t.ci) + 1
         /\ Longer(t, f, via)[Len(t.ci) + 1] = CI(f, via # "precall")
         /\ Longer(t, f, via)[Len(t.ci) + 1].f = f
         /\ \A i \in 1..Len(t.ci) : Longer(t, f, via)[i] = t.ci[i]
<1> DEFINE a == CI(f, via # "precall")
<1>1. a \in Info /\ a.f = f
  BY CIIs
<1>2. t.ci \in Seq(Info) /\ Len(t.ci) \in Nat
  BY DEF State
<1>3. Longer(t, f, via) = Append(t.ci, a)
  BY DEF Longer
<1> HIDE DEF a
<1>4. /\ Append(t.ci, a) \in Seq(Info) /\ Len(Append(t.ci, a)) = Len(t.ci) + 1 /\ Append(t.ci, a)[Len(t.ci) + 1] = a
      /\ \A i \in 1..Len(t.ci) : Append(t.ci, a)[i] = t.ci[i]
  BY <1>1, <1>2, AppendSeq
<1>5. /\ Longer(t, f, via) \in Seq(Info) /\ Len(t.ci) \in Nat /\ Len(Longer(t, f, via)) = Len(t.ci) + 1
      /\ Longer(t, f, via)[Len(t.ci) + 1] = a /\ Longer(t, f, via)[Len(t.ci) + 1].f = f
      /\ \A i \in 1..Len(t.ci) : Longer(t, f, via)[i] = t.ci[i]
  BY <1>1, <1>2, <1>3, <1>4
<1> QED
  BY <1>5 DEF a

\* luaD_precall, with a new frame.
LEMMA EnterStep ==
  ASSUME NEW L, NEW t, NEW c, NEW g, Base(L, t, c, g), Run = L, c # <<>>, c[Len(c)].L = L,
         NEW f \in Kinds \cup {"handler"}, NEW via \in Via, via # "precall" \/ f \notin {"lua", "handler"},
         Enters(L, t, c, g, f, via), Enter(t, c, f, via)
  PROVE  IInv'
<1> DEFINE n == Len(t.ci)
           m == Len(c)
           y == c[m]
           q == g[m]
           x == Callee(L, f, via)
           s == Snap(t, n + 1)
           ci == Longer(t, f, via)
           a == CI(f, via # "precall")
           u == [t EXCEPT !.ci = Append(@, a)]
<1>1. t \in State /\ Sound(t) /\ L \in Thread /\ n \in Nat /\ t.nny \in Nat /\ t.nCcalls \in Nat
  <2>1. t \in State /\ Sound(t) /\ L \in Thread /\ n \in Nat
    BY BaseIs
  <2> QED
    BY <2>1 DEF State
<1>2. /\ Called(y, q, x, s, ci) /\ Barrier(L, s, ci)
      /\ q.level = n /\ q.nCcalls + (IF Counted(x) THEN 1 ELSE 0) <= t.nCcalls + Slack(y)
      /\ q.nny > 0 \/ y.fn = "luaD_pcall" => t.nny > 0
      /\ t.nCcalls < MaxCCalls + Extra
      /\ t.allowhook <=> HooksOn(t.ci, n)
      /\ t.errfunc = Handler(t.ci, n + 1)
  BY DEF Enters
<1>a. /\ ci \in Seq(Info) /\ Len(ci) = n + 1 /\ ci[n + 1] = a
      /\ \A i \in 1..n : ci[i] = t.ci[i]
  BY <1>1, LongerIs
<1>b. u = [t EXCEPT !.ci = ci]
  BY DEF Longer
<1>c. ci \in Seq(Info) => LET v == [t EXCEPT !.ci = ci] IN
      /\ v \in State /\ v.ci = ci /\ v.status = t.status /\ v.nny = t.nny /\ v.nCcalls = t.nCcalls
      /\ v.errfunc = t.errfunc /\ v.allowhook = t.allowhook /\ v.openupval = t.openupval
  <2> HIDE DEF ci
  <2> QED
    BY <1>1 DEF State
<1>3. /\ u \in State /\ u.ci = ci /\ u.status = t.status /\ u.nny = t.nny /\ u.nCcalls = t.nCcalls
      /\ u.errfunc = t.errfunc /\ u.allowhook = t.allowhook /\ u.openupval = t.openupval
      /\ Len(ci) = n + 1 /\ ci[n + 1] = a /\ a \in Info
      /\ \A i \in 1..n : ci[i] = t.ci[i]
  <2>1. a \in Info
    BY CIIs
  <2> HIDE DEF u, ci, a
  <2> QED
    BY <1>a, <1>b, <1>c, <2>1
<1>4. a.f = f /\ a.fresh = (via # "precall") /\ ~a.ypcall /\ ~a.hooked
  BY CIIs
<1>5. /\ x \in CFrame /\ x.L = L /\ x.via = via /\ Slack(x) = 0
      /\ x.fn = (IF f \notin {"lua", "handler"} THEN "C" ELSE "luaV_execute")
  BY <1>1, CalleeIs
<1>6. th' = With(L, u) /\ cstack' = Append(c, x)
  BY DEF Enter, Step, With, Callee
<1>7. s.level = n + 1 /\ s.nny = t.nny /\ s.nCcalls = t.nCcalls /\ s \in Past
  BY <1>1 DEF Snap, Past
<1>8. m \in 1..m /\ t.status = LUA_OK
  BY TopIs
<1>9. c \in Seq(CFrame) /\ g \in Seq(Past) /\ Len(g) = m /\ y.L = L
  BY BaseIs
<1> HIDE DEF u, ci, s, x, a, n
<1>10. Sound(u)
  <2>1. t.errfunc <= n
    BY <1>1 DEF Sound, n
  <2>2. t.errfunc \in Nat
    BY <1>1 DEF State
  <2>3. u.errfunc <= n + 1
    BY <1>1, <1>3, <2>1, <2>2
  <2> QED
    BY <1>1, <1>3, <1>4, <2>3, SoundGrown DEF n
<1>11. Base(L, u, c, g)
  <2>1. Agree(y.fn, t.ci, u.ci, n)
    BY <1>1, <1>3, AgreeSame
  <2>2. q.level <= Len(u.ci)
    BY <1>1, <1>2, <1>3
  <2> QED
    BY <1>2, <1>3, <1>8, <1>10, <2>1, <2>2, BaseSet
<1>12. Kind(y, q, x, s, ci)
  <2>1. CASE f \notin {"lua", "handler"}
    <3>1. OfC(y, q, x, s, ci)
      BY <1>2, <1>3, <1>4, <1>5, <1>7, <1>9, <2>1 DEF OfC, IsLua
    <3> QED
      BY <3>1 DEF Kind
  <2>2. CASE f \in {"lua", "handler"}
    <3>1. via # "precall" /\ ci[q.level + 1].fresh /\ IsLua(ci[n + 1])
      BY <1>2, <1>3, <1>4, <2>2 DEF IsLua
    <3>2. /\ q.level < s.level
          /\ \A k \in (q.level + 1)..s.level : k = n + 1
          /\ (q.level + 2)..s.level = {} /\ (q.level + 1)..(s.level - 1) = {}
      BY <1>1, <1>2, <1>7
    <3>3. OfLua(y, q, x, s, ci)
      BY <1>2, <1>5, <1>9, <2>2, <3>1, <3>2 DEF OfLua
    <3> QED
      BY <3>3 DEF Kind
  <2> QED
    BY <2>1, <2>2
<1>13. Base(L, u, Append(c, x), Append(g, s))
  <2>1. s.level <= Len(u.ci) /\ s.nCcalls < MaxCCalls + Extra /\ s.level >= q.level /\ x.fn # "lua_resume"
    BY <1>1, <1>2, <1>3, <1>5, <1>7
  <2>2. q.nCcalls + (IF Counted(x) THEN 1 ELSE 0) + Slack(x) <= s.nCcalls + Slack(y)
    <3>1. (IF Counted(x) THEN 1 ELSE 0) \in Nat /\ q.nCcalls \in Nat
      BY TopIs
    <3>2. \A b \in Nat : q.nCcalls + b <= t.nCcalls + Slack(y) => q.nCcalls + b + Slack(x) <= s.nCcalls + Slack(y)
      BY <1>5, <1>7, <3>1
    <3> QED
      BY <1>2, <3>1, <3>2
  <2>3. q.nny > 0 \/ y.fn = "luaD_pcall" => s.nny > 0
    BY <1>2, <1>7
  <2>4. u.status = LUA_OK /\ Kind(y, q, x, s, u.ci)
    BY <1>3, <1>8, <1>12
  <2> HIDE DEF y, q
  <2>5. c[Len(c)] = y /\ g[Len(c)] = q
    BY DEF y, q
  <2> QED
    BY <1>5, <1>7, <1>11, <2>1, <2>2, <2>3, <2>4, <2>5, BasePush
<1>14. Awake(x, u, s)
  <2>1. HooksOn(ci, n + 1) <=> HooksOn(t.ci, n)
    BY <1>1, <1>3, <1>4, HooksNext
  <2>2. Handler(ci, n + 1) = Handler(t.ci, n + 1)
    <3>1. \A i \in 1..((n + 1) - 1) : i \in 1..n
      BY <1>1
    <3> QED
      BY <1>3, <3>1, HandlerSame
  <2>3. s = [level |-> n + 1, nny |-> u.nny, nCcalls |-> u.nCcalls]
    BY <1>3 DEF s, Snap
  <2>4. n + 1 > 0
    BY <1>1
  <2> QED
    BY <1>2, <1>3, <1>4, <1>5, <2>1, <2>2, <2>3, <2>4 DEF Awake
<1>15. /\ Append(c, x) # <<>> /\ Append(c, x)[Len(Append(c, x))] = x
       /\ Append(g, s)[Len(Append(c, x))] = s
  BY <1>5, <1>7, <1>9, AppendSeq
<1> QED
  BY <1>5, <1>6, <1>13, <1>14, <1>15, ConcludeTop

\* The thread on top is where its last frame has left it.
Stands(t, c, g) ==
  /\ g[Len(c)].level = Len(t.ci)
  /\ t.allowhook <=> HooksOn(t.ci, Len(t.ci))
  /\ t.errfunc = Handler(t.ci, Len(t.ci) + 1)

\* A thread with the same activations and other counters.
WithCounts(t, a, b) == [t EXCEPT !.nCcalls = a, !.nny = b]

LEMMA BaseCounts ==
  ASSUME NEW L, NEW t, NEW c, NEW g, Base(L, t, c, g), c # <<>>, c[Len(c)].L = L,
         NEW a \in Nat, NEW b \in Nat
  PROVE  /\ Base(L, WithCounts(t, a, b), c, g) /\ WithCounts(t, a, b) \in State
         /\ WithCounts(t, a, b).ci = t.ci /\ WithCounts(t, a, b).nCcalls = a /\ WithCounts(t, a, b).nny = b
         /\ WithCounts(t, a, b).errfunc = t.errfunc /\ WithCounts(t, a, b).allowhook = t.allowhook
<1> DEFINE u == WithCounts(t, a, b)
<1>1. t \in State /\ Sound(t) /\ Len(t.ci) \in Nat
  BY BaseIs
<1>2. /\ u \in State /\ u.ci = t.ci /\ u.status = t.status /\ u.openupval = t.openupval
      /\ u.nCcalls = a /\ u.nny = b /\ u.errfunc = t.errfunc /\ u.allowhook = t.allowhook
  BY <1>1 DEF State, WithCounts
<1> HIDE DEF u
<1>3. t.status = LUA_OK /\ g[Len(c)].level \in 0..Len(t.ci) /\ g[Len(c)].level \in Nat
  BY TopIs
<1>4. Sound(u)
  BY <1>1, <1>2, SoundMore
<1>5. Agree(c[Len(c)].fn, t.ci, u.ci, g[Len(c)].level) /\ g[Len(c)].level <= Len(u.ci)
  BY <1>1, <1>2, <1>3, AgreeSame
<1>6. Base(L, u, c, g)
  BY <1>2, <1>3, <1>4, <1>5, BaseSet
<1> QED
  BY <1>2, <1>3, <1>6 DEF u

\* luaG_errormsg calls the message handler.
Message(L) == [fn |-> "luaG_errormsg", L |-> L]

LEMMA MessageIs ==
  ASSUME NEW L \in Thread
  PROVE  /\ Message(L) \in CFrame /\ Message(L).L = L /\ Message(L).fn = "luaG_errormsg"
         /\ Slack(Message(L)) = 1 /\ ~Counted(Message(L))
<1>1. Message(L) \in CFrame
  BY CFrameOf DEF Via, Message
<1> QED
  BY <1>1 DEF Slack, Counted, Message

LEMMA HandlerEnters ==
  ASSUME NEW L \in Thread, NEW u \in State, NEW d, NEW h, NEW n \in Nat, n = Len(u.ci),
         d[Len(d)] = Message(L), h[Len(d)] = Snap(u, n), u.nny > 0, u.nCcalls < MaxCCalls + Extra,
         u.allowhook <=> HooksOn(u.ci, n), u.errfunc = Handler(u.ci, n + 1)
  PROVE  Enters(L, u, d, h, "handler", "callnoyield")
<1> DEFINE z == Callee(L, "handler", "callnoyield")
           r == Snap(u, Len(u.ci) + 1)
           s == Snap(u, n)
           x == Message(L)
           ci == Longer(u, "handler", "callnoyield")
<1>1. z.fn = "luaV_execute" /\ z.via = "callnoyield"
  BY CalleeIs DEF Via
<1>2. ci[n + 1].f = "handler"
  <2> DEFINE e == CI("handler", "callnoyield" # "precall")
  <2>2. e \in Info /\ e.f = "handler"
    BY DEF CI, Info
  <2>3. ci = Append(u.ci, e)
    BY DEF Longer
  <2>4. u.ci \in Seq(Info)
    BY DEF State
  <2> HIDE DEF e, ci
  <2>1. ci[Len(u.ci) + 1] = e
    BY <2>2, <2>3, <2>4, AppendSeq
  <2> QED
    BY <2>1, <2>2
<1>3. r.level = n + 1 /\ r.nny = u.nny /\ r.nCcalls = u.nCcalls /\ s.level = n /\ s.nCcalls = u.nCcalls
  BY DEF Snap
<1>4. x.fn = "luaG_errormsg" /\ Slack(x) = 1
  BY MessageIs
<1>0. u.nny \in Nat /\ u.nCcalls \in Nat
  BY DEF State
<1> HIDE DEF z, r, s, ci, x
<1>5. Called(x, s, z, r, ci)
  BY <1>0, <1>1, <1>2, <1>3, <1>4 DEF Called
<1>6. Barrier(L, r, ci)
  <2>1. n + 1 \in 1..(n + 1)
    OBVIOUS
  <2>2. ~NoBarrier(ci, r.level)
    BY <1>2, <1>3, <2>1 DEF NoBarrier
  <2>3. r.nny # 0
    BY <1>0, <1>3
  <2> QED
    BY <2>2, <2>3 DEF Barrier
<1>7. (IF Counted(z) THEN 1 ELSE 0) = 1
  BY <1>1 DEF Counted
<1>8. s.nCcalls + (IF Counted(z) THEN 1 ELSE 0) <= u.nCcalls + Slack(x)
  <2>1. s.nCcalls + 1 <= u.nCcalls + 1
    BY <1>0, <1>3
  <2> QED
    BY <1>4, <1>7, <2>1
<1>9. d[Len(d)] = x /\ h[Len(d)] = s
  BY DEF x, s
<1> QED
  BY <1>3, <1>5, <1>6, <1>8, <1>9 DEF Enters, z, r, ci

LEMMA HandlerStep ==
  ASSUME NEW L, NEW u, NEW c, NEW g, Base(L, u, c, g), Run = L, c # <<>>, c[Len(c)].L = L, Stands(u, c, g),
         u.nny > 0, g[Len(c)].nCcalls + 1 <= u.nCcalls, u.nCcalls < MaxCCalls + Extra,
         Enter(u, Append(c, Message(L)), "handler", "callnoyield")
  PROVE  IInv'
<1> DEFINE n == Len(u.ci)
           m == Len(c)
           q == g[m]
           x == Message(L)
           s == Snap(u, n)
<1>1. u \in State /\ L \in Thread /\ n \in Nat /\ u.nny \in Nat /\ u.nCcalls \in Nat
  <2>1. u \in State /\ L \in Thread /\ n \in Nat
    BY BaseIs
  <2> QED
    BY <2>1 DEF State
<1>2. /\ q.level = n /\ (u.allowhook <=> HooksOn(u.ci, n)) /\ u.errfunc = Handler(u.ci, n + 1)
      /\ q.nny \in Nat /\ q.nCcalls \in Nat /\ m \in 1..m /\ u.status = LUA_OK
  BY TopIs DEF Stands
<1>3. /\ x \in CFrame /\ x.L = L /\ x.fn = "luaG_errormsg" /\ Slack(x) = 1 /\ ~Counted(x)
  BY <1>1, MessageIs
<1>4. s \in Past /\ s.level = n /\ s.nny = u.nny /\ s.nCcalls = u.nCcalls
  BY <1>1 DEF Snap, Past
<1>5. c \in Seq(CFrame) /\ g \in Seq(Past) /\ Len(g) = m
  BY BaseIs
<1> DEFINE d == Append(c, x)
           h == Append(g, s)
<1> HIDE DEF x, s
<1>6. Kind(c[m], q, x, s, u.ci)
  BY <1>2, <1>3, <1>4 DEF Kind, OfError
<1>7. q.nCcalls + (IF Counted(x) THEN 1 ELSE 0) + Slack(x) <= s.nCcalls + Slack(c[m])
  <2>1. Slack(c[m]) \in {0, 1} /\ (IF Counted(x) THEN 1 ELSE 0) = 0
    BY <1>3 DEF Slack
  <2>2. \A k \in {0, 1} : q.nCcalls + 0 + 1 <= u.nCcalls + k
    <3> HIDE DEF q
    <3>1. q.nCcalls + 1 <= u.nCcalls
      BY DEF q
    <3> QED
      BY <1>1, <1>2, <3>1
  <2> HIDE DEF q
  <2> QED
    BY <1>3, <1>4, <2>1, <2>2
<1>8. Base(L, u, d, h)
  <2>1. x.fn # "lua_resume" /\ s.level <= Len(u.ci) /\ s.nCcalls < MaxCCalls + Extra /\ s.level >= q.level /\ s.nny > 0
    BY <1>1, <1>2, <1>3, <1>4
  <2> QED
    BY <1>2, <1>3, <1>4, <1>6, <1>7, <2>1, BasePush
<1>9. d # <<>> /\ d[Len(d)] = x /\ h[Len(d)] = s
  BY <1>3, <1>4, <1>5, AppendSeq
<1> HIDE DEF d, h
<1>10. Enters(L, u, d, h, "handler", "callnoyield")
  <2>1. d[Len(d)] = Message(L) /\ h[Len(d)] = Snap(u, n)
    BY <1>9 DEF x, s
  <2> QED
    BY <1>1, <1>2, <2>1, HandlerEnters
<1>11. Enter(u, d, "handler", "callnoyield")
  BY DEF d, x
<1> QED
  BY <1>3, <1>8, <1>9, <1>10, <1>11, EnterStep DEF Via

LEMMA RunErrorIs ==
  ASSUME NEW t \in State, NEW c, RunError(t, c)
  PROVE  \/ Throw(t, c, LUA_ERRRUN)
         \/ \E a, b \in Nat :
              /\ a >= t.nCcalls + 1 /\ b >= t.nny + 1
              /\ \/ Throw(WithCounts(t, a, b), c, LUA_ERRERR)
                 \/ /\ a < MaxCCalls + Extra
                    /\ Enter(WithCounts(t, a, b), Append(c, Message(Run)), "handler", "callnoyield")
<1> DEFINE more == IF t.nCcalls + 1 = MaxCCalls THEN 2 ELSE 1
           a == t.nCcalls + more
           b == t.nny + more
           u == WithCounts(t, a, b)
<1>1. t.nCcalls \in Nat /\ t.nny \in Nat
  BY DEF State
<1>2. more \in {1, 2}
  OBVIOUS
<1>3. a \in Nat /\ b \in Nat /\ a >= t.nCcalls + 1 /\ b >= t.nny + 1
  <2>1. \A k \in {1, 2} : /\ t.nCcalls + k \in Nat /\ t.nny + k \in Nat
                          /\ t.nCcalls + k >= t.nCcalls + 1 /\ t.nny + k >= t.nny + 1
    BY <1>1
  <2> HIDE DEF more
  <2> QED
    BY <1>2, <2>1
<1>4. u.nCcalls = a
  BY DEF State, WithCounts
<1>5. u = [t EXCEPT !.nCcalls = @ + more, !.nny = @ + more]
  BY DEF WithCounts
<1>6. \/ Throw(t, c, LUA_ERRRUN)
      \/ Throw(u, c, LUA_ERRERR)
      \/ ~(u.nCcalls >= MaxCCalls + Extra) /\ Enter(u, Append(c, Message(Run)), "handler", "callnoyield")
  <2> HIDE DEF u
  <2>1. RunError(t, c)
    OBVIOUS
  <2> QED
    BY <1>5, <2>1 DEF RunError, Message
<1> HIDE DEF a, b
<1>7. u.nCcalls >= MaxCCalls + Extra \/ a < MaxCCalls + Extra
  BY <1>3, <1>4, CallsAssumption
<1> QED
  BY <1>3, <1>6, <1>7

\* luaG_errormsg: an error is thrown, or its handler is called.
LEMMA RunErrorStep ==
  ASSUME NEW L, NEW t, NEW c, NEW g, Base(L, t, c, g), Run = L, c # <<>>, c[Len(c)].L = L, Stands(t, c, g),
         t.nCcalls >= g[Len(c)].nCcalls, RunError(t, c)
  PROVE  IInv'
<1>1. t \in State /\ t.nCcalls \in Nat /\ t.nny \in Nat /\ g[Len(c)].nCcalls \in Nat
  <2>1. t \in State /\ g[Len(c)].nCcalls \in Nat
    BY BaseIs, TopIs
  <2> QED
    BY <2>1 DEF State
<1>2. CASE Throw(t, c, LUA_ERRRUN)
  BY <1>2, ThrowError
<1>4. ASSUME NEW a \in Nat, NEW b \in Nat
      PROVE  /\ Base(L, WithCounts(t, a, b), c, g) /\ WithCounts(t, a, b).ci = t.ci
             /\ WithCounts(t, a, b).nCcalls = a /\ WithCounts(t, a, b).nny = b
             /\ WithCounts(t, a, b).errfunc = t.errfunc /\ WithCounts(t, a, b).allowhook = t.allowhook
  <2>1. Base(L, WithCounts(t, a, b), c, g)
    BY BaseCounts
  <2> QED
    BY <1>1, <2>1 DEF WithCounts, State
<1>5. \A a, b \in Nat : a >= t.nCcalls + 1 /\ b >= t.nny + 1 => b > 0 /\ g[Len(c)].nCcalls + 1 <= a
  BY <1>1
<1>3. ASSUME NEW a \in Nat, NEW b \in Nat, a >= t.nCcalls + 1, b >= t.nny + 1,
             \/ Throw(WithCounts(t, a, b), c, LUA_ERRERR)
             \/ /\ a < MaxCCalls + Extra
                /\ Enter(WithCounts(t, a, b), Append(c, Message(Run)), "handler", "callnoyield")
      PROVE  IInv'
  <2> DEFINE u == WithCounts(t, a, b)
  <2>1. Base(L, u, c, g) /\ u.ci = t.ci /\ u.nCcalls = a /\ u.nny = b /\ u.errfunc = t.errfunc /\ u.allowhook = t.allowhook
    BY <1>4
  <2>2. Throw(u, c, LUA_ERRERR) \/ (a < MaxCCalls + Extra /\ Enter(u, Append(c, Message(L)), "handler", "callnoyield"))
    BY <1>3
  <2> HIDE DEF u
  <2>3. CASE Throw(u, c, LUA_ERRERR)
    BY <2>1, <2>3, ThrowError
  <2>4. CASE a < MaxCCalls + Extra /\ Enter(u, Append(c, Message(L)), "handler", "callnoyield")
    <3>1. Stands(u, c, g)
      BY <2>1 DEF Stands
    <3>2. u.nny > 0 /\ g[Len(c)].nCcalls + 1 <= u.nCcalls /\ u.nCcalls < MaxCCalls + Extra
      <4>1. b > 0 /\ g[Len(c)].nCcalls + 1 <= a
        BY <1>3, <1>5
      <4> QED
        BY <2>1, <2>4, <4>1
    <3> QED
      BY <2>1, <2>4, <3>1, <3>2, HandlerStep
  <2> QED
    BY <2>2, <2>3, <2>4
<1> QED
  BY <1>1, <1>2, <1>3, RunErrorIs

-----------------------------------------------------------------------------
(* The frame on top *)

LEMMA TopKind ==
  ASSUME NEW L, NEW t, NEW c, NEW g, Base(L, t, c, g), c # <<>>, c[Len(c)].L = L
  PROVE  /\ c[Len(c)].fn = "luaV_execute" => 
              Len(c) > 1 /\ OfLua(c[Len(c) - 1], g[Len(c) - 1], c[Len(c)], g[Len(c)], t.ci)
         /\ c[Len(c)].fn = "C" =>
              Len(c) > 1 /\ OfC(c[Len(c) - 1], g[Len(c) - 1], c[Len(c)], g[Len(c)], t.ci)
         /\ c[Len(c)].fn = "luaD_hook" =>
              Len(c) > 1 /\ OfHook(c[Len(c) - 1], g[Len(c) - 1], c[Len(c)], g[Len(c)], t.ci)
         /\ c[Len(c)].fn = "luaD_pcall" =>
              g[Len(c)].nny > 0 /\ (L = Main \/ Barrier(L, g[Len(c)], t.ci))
         /\ c[Len(c)].fn = "lua_resume" =>
              Len(c) > 1 /\ OfResume(c[Len(c) - 1], g[Len(c) - 1], c[Len(c)], g[Len(c)], t.ci)
<1> DEFINE m == Len(c)
           x == c[m]
           s == g[m]
           y == c[m - 1]
           q == g[m - 1]
<1>1. Frame(c, g, t.ci, m) /\ m \in 1..m
  BY TopIs
<1>2. m \in Nat
  BY BaseIs
<1>3. CASE m = 1
  <2>1. OfHost(x, s)
    BY <1>1, <1>3 DEF Frame
  <2>2. x.fn = "luaD_pcall" /\ s.nny > 0 /\ L = Main
    BY <2>1 DEF OfHost
  <2> QED
    BY <2>2
<1>4. CASE m # 1
  <2>1. Kind(y, q, x, s, t.ci) /\ m > 1
    <3>1. Frame(c, g, t.ci, m) = Kind(y, q, x, s, t.ci)
      BY <1>4 DEF Frame
    <3>2. m > 1
      BY <1>1, <1>2, <1>4
    <3> QED
      BY <1>1, <3>1, <3>2
  <2> HIDE DEF y, q, x, s, m
  <2>2. x.L = L
    BY DEF x, m
  <2>3. CASE OfLua(y, q, x, s, t.ci)
    <3>1. x.fn = "luaV_execute"
      BY <2>3 DEF OfLua
    <3> QED
      BY <2>1, <2>3, <3>1 DEF y, q, x, s, m
  <2>4. CASE OfC(y, q, x, s, t.ci)
    <3>1. x.fn = "C"
      BY <2>4 DEF OfC
    <3> QED
      BY <2>1, <2>4, <3>1 DEF y, q, x, s, m
  <2>5. CASE OfHook(y, q, x, s, t.ci)
    <3>1. x.fn = "luaD_hook"
      BY <2>5 DEF OfHook
    <3> QED
      BY <2>1, <2>5, <3>1 DEF y, q, x, s, m
  <2>6. CASE OfError(y, q, x, s, t.ci)
    <3>1. x.fn = "luaG_errormsg"
      BY <2>6 DEF OfError
    <3> QED
      BY <2>1, <3>1 DEF x, m
  <2>7. CASE OfPcall(y, q, x, s, t.ci)
    <3>1. x.fn = "luaD_pcall" /\ s.nny > 0 /\ Barrier(L, s, t.ci)
      BY <2>2, <2>7 DEF OfPcall
    <3> QED
      BY <2>1, <3>1 DEF x, s, m
  <2>8. CASE OfResume(y, q, x, s, t.ci)
    <3>1. x.fn = "lua_resume"
      BY <2>8 DEF OfResume
    <3> QED
      BY <2>1, <2>8, <3>1 DEF y, q, x, s, m
  <2> QED
    BY <2>1, <2>3, <2>4, <2>5, <2>6, <2>7, <2>8 DEF Kind
<1> QED
  BY <1>3, <1>4

\* What the frames that call functions are about.
LEMMA CallerIs ==
  ASSUME NEW L, NEW t, NEW c, NEW g, Base(L, t, c, g), c # <<>>, c[Len(c)].L = L
  PROVE  /\ c[Len(c)].fn \in {"luaV_execute", "C", "luaD_hook"} =>
              g[Len(c)].level > 0 /\ Barrier(L, g[Len(c)], t.ci)
         /\ c[Len(c)].fn = "luaV_execute" => IsLua(t.ci[g[Len(c)].level])
         /\ c[Len(c)].fn = "luaD_hook" => t.ci[g[Len(c)].level].hooked /\ IsLua(t.ci[g[Len(c)].level])
<1> DEFINE x == c[Len(c)]
           s == g[Len(c)]
           y == c[Len(c) - 1]
           q == g[Len(c) - 1]
<1>1. x.L = L /\ s.level \in Nat
  BY TopIs
<1>2. /\ x.fn = "luaV_execute" => Len(c) > 1 /\ OfLua(y, q, x, s, t.ci)
      /\ x.fn = "C" => Len(c) > 1 /\ OfC(y, q, x, s, t.ci)
      /\ x.fn = "luaD_hook" => Len(c) > 1 /\ OfHook(y, q, x, s, t.ci)
  BY TopKind
<1>3. Len(c) > 1 => q.level \in Nat
  <2>1. Len(c) \in Nat
    BY BaseIs
  <2>2. Len(c) > 1 => Len(c) - 1 \in 1..Len(c)
    BY <2>1
  <2> QED
    BY <2>2, BaseAt
<1> HIDE DEF x, s, y, q
<1>4. x.fn = "luaV_execute" => s.level > 0 /\ Barrier(L, s, t.ci) /\ IsLua(t.ci[s.level])
  <2> SUFFICES ASSUME x.fn = "luaV_execute" PROVE s.level > 0 /\ Barrier(L, s, t.ci) /\ IsLua(t.ci[s.level])
    OBVIOUS
  <2>1. /\ q.level < s.level /\ Barrier(x.L, s, t.ci)
        /\ \A k \in (q.level + 1)..s.level : IsLua(t.ci[k])
    BY <1>2 DEF OfLua
  <2>2. s.level > 0 /\ s.level \in (q.level + 1)..s.level
    BY <1>1, <1>2, <1>3, <2>1
  <2> QED
    BY <1>1, <2>1, <2>2
<1>5. x.fn = "C" => s.level > 0 /\ Barrier(L, s, t.ci)
  <2> SUFFICES ASSUME x.fn = "C" PROVE s.level > 0 /\ Barrier(L, s, t.ci)
    OBVIOUS
  <2>1. s.level = q.level + 1 /\ Barrier(x.L, s, t.ci)
    BY <1>2 DEF OfC
  <2> QED
    BY <1>1, <1>2, <1>3, <2>1
<1>6. x.fn = "luaD_hook" => s.level > 0 /\ Barrier(L, s, t.ci) /\ t.ci[s.level].hooked /\ IsLua(t.ci[s.level])
  BY <1>1, <1>2 DEF OfHook
<1> QED
  BY <1>4, <1>5, <1>6 DEF x, s

-----------------------------------------------------------------------------
(* luaD_call *)

\* The function on top may call another one in this way.
MayCall(t, y, q, via) ==
  /\ y.fn \in {"luaV_execute", "C", "luaD_hook", "luaD_pcall"}
  /\ Calling(y, q, via, t.ci)
  /\ y.fn = "C" /\ via = "callnoyield" => t.ci[Len(t.ci)].f = "call" \/ t.nny > 0

LEMMA BarrierGrown ==
  ASSUME NEW L, NEW t \in State, NEW y, NEW q \in Past, NEW via \in Via, q.level = Len(t.ci), q.nny = t.nny,
         MayCall(t, y, q, via), NEW s \in Past, s.level = Len(t.ci) + 1,
         s.nny = t.nny + (IF via = "callnoyield" THEN 1 ELSE 0),
         NEW ci, \A i \in 1..Len(t.ci) : ci[i] = t.ci[i], ci[Len(t.ci) + 1].f # "handler",
         y.fn = "luaD_pcall" => t.nny > 0 /\ (L = Main \/ Barrier(L, q, t.ci)),
         y.fn # "luaD_pcall" => q.level > 0 /\ Barrier(L, q, t.ci),
         y.fn = "luaV_execute" => IsLua(t.ci[q.level]),
         y.fn = "luaD_hook" => t.ci[q.level].hooked
  PROVE  Barrier(L, s, ci)
<1> DEFINE n == Len(t.ci)
<1>1. n \in Nat /\ t.nny \in Nat
  BY DEF State
<1>2. s.nny = 0 => L # Main /\ Passable(ci, n) /\ ci[n + 1].f # "handler"
  <2> SUFFICES ASSUME s.nny = 0 PROVE L # Main /\ Passable(ci, n)
    OBVIOUS
  <2>1. t.nny = 0 /\ via # "callnoyield"
    BY <1>1
  <2>2. y.fn \in {"luaV_execute", "C"}
    BY <2>1 DEF MayCall, Calling
  <2>3. L # Main /\ Passable(t.ci, n - 1) /\ t.ci[n].f # "handler" /\ n > 0
    BY <2>1, <2>2 DEF Barrier
  <2>4. Passes(t.ci[n])
    <3>1. CASE y.fn = "C"
      <4>1. Calling(y, q, via, t.ci)
        BY DEF MayCall
      <4>2. via = "call"
        BY <2>1, <3>1, <4>1 DEF Calling
      <4> QED
        BY <3>1, <4>1, <4>2 DEF Calling
    <3>2. CASE y.fn = "luaV_execute"
      <4>1. ~t.ci[n].hooked
        BY <3>2 DEF MayCall, Calling
      <4>2. t.ci[n].f = "lua"
        BY <2>3, <3>2 DEF IsLua
      <4> QED
        BY <4>1, <4>2 DEF Passes, Protecting
    <3> QED
      BY <2>2, <3>1, <3>2
  <2>5. \A i \in 1..n : i \in 1..(n - 1) \/ i = n
    BY <1>1
  <2>6. \A i \in 1..n : Passes(ci[i])
    BY <2>3, <2>4, <2>5 DEF Passable
  <2> QED
    BY <2>3, <2>6 DEF Passable
<1>3. L # Main /\ NoBarrier(ci, n + 1) => s.nny = 0
  <2> SUFFICES ASSUME L # Main, NoBarrier(ci, n + 1) PROVE s.nny = 0
    OBVIOUS
  <2>1. \A i \in 1..n : i \in 1..((n + 1) - 1) /\ i \in 1..(n + 1)
    BY <1>1
  <2>2. \A i \in 1..n : t.ci[i].f # "call" /\ ~t.ci[i].hooked /\ t.ci[i].f # "handler"
    BY <2>1 DEF NoBarrier
  <2>3. \A i \in 1..(n - 1) : i \in 1..n
    BY <1>1
  <2>4. NoBarrier(t.ci, n)
    BY <2>2, <2>3 DEF NoBarrier
  <2>5. t.nny = 0
    BY <2>4 DEF Barrier
  <2>6. y.fn # "luaD_pcall"
    BY <1>1, <2>5
  <2>7. n \in 1..n
    BY <1>1, <2>6
  <2>8. y.fn # "luaD_hook"
    BY <2>2, <2>7
  <2>9. via # "callnoyield"
    BY <1>1, <2>2, <2>5, <2>6, <2>7, <2>8 DEF MayCall, Calling
  <2> QED
    BY <1>1, <2>5, <2>9
<1>4. s.level - 1 = n /\ s.level = n + 1
  BY <1>1
<1> QED
  BY <1>2, <1>3, <1>4 DEF Barrier

LEMMA CallIs ==
  ASSUME NEW t \in State, NEW c, NEW f, NEW via, Call(t, c, f, via)
  PROVE  \E a, b \in Nat :
           /\ a = t.nCcalls + 1 /\ b = t.nny + (IF via = "callnoyield" THEN 1 ELSE 0)
           /\ \/ RunError(WithCounts(t, a, b), c)
              \/ Throw(WithCounts(t, a, b), c, LUA_ERRERR)
              \/ a < MaxCCalls + Extra /\ Enter(WithCounts(t, a, b), c, f, via)
<1> DEFINE a == t.nCcalls + 1
           b == t.nny + (IF via = "callnoyield" THEN 1 ELSE 0)
           u == WithCounts(t, a, b)
<1>1. t.nCcalls \in Nat /\ t.nny \in Nat
  BY DEF State
<1>2. a \in Nat /\ b \in Nat
  BY <1>1
<1>3. u.nCcalls = a
  BY DEF State, WithCounts
<1>4. u = [t EXCEPT !.nCcalls = @ + 1, !.nny = IF via = "callnoyield" THEN @ + 1 ELSE @]
  <2>1. b = IF via = "callnoyield" THEN t.nny + 1 ELSE t.nny
    BY <1>1
  <2> HIDE DEF b
  <2> QED
    BY <2>1 DEF WithCounts
<1> HIDE DEF u
<1>5. (CASE Overflow(u.nCcalls) = "error" -> RunError(u, c)
         [] Overflow(u.nCcalls) = "fatal" -> Throw(u, c, LUA_ERRERR)
         [] OTHER -> Enter(u, c, f, via))
  BY <1>4 DEF Call
<1>6. \/ RunError(u, c)
      \/ Throw(u, c, LUA_ERRERR)
      \/ a < MaxCCalls + Extra /\ Enter(u, c, f, via)
  <2> DEFINE o == Overflow(u.nCcalls)
  <2>1. o \in {"error", "fatal", "no"} /\ (o = "no" => ~(a >= MaxCCalls + Extra))
    BY <1>3 DEF Overflow
  <2>2. a >= MaxCCalls + Extra \/ a < MaxCCalls + Extra
    BY <1>2, CallsAssumption
  <2> HIDE DEF o, a
  <2>3. (CASE o = "error" -> RunError(u, c)
           [] o = "fatal" -> Throw(u, c, LUA_ERRERR)
           [] OTHER -> Enter(u, c, f, via))
    BY <1>5 DEF o
  <2>4. CASE o = "error"
    BY <2>3, <2>4
  <2>5. CASE o = "fatal"
    BY <2>3, <2>5
  <2>6. CASE o = "no"
    BY <2>1, <2>2, <2>3, <2>6
  <2> QED
    BY <2>1, <2>4, <2>5, <2>6
<1> HIDE DEF a, b
<1>7. a = t.nCcalls + 1 /\ b = t.nny + (IF via = "callnoyield" THEN 1 ELSE 0)
  BY DEF a, b
<1> QED
  BY <1>2, <1>6, <1>7 DEF u

\* A call that the function on top may make has what luaD_precall needs.
LEMMA EntersIs ==
  ASSUME NEW L, NEW t, NEW c, NEW g, Base(L, t, c, g), c # <<>>, c[Len(c)].L = L, Stands(t, c, g),
         t.nny = g[Len(c)].nny, t.nCcalls = g[Len(c)].nCcalls,
         NEW f \in Kinds, NEW via \in Via, MayCall(t, c[Len(c)], g[Len(c)], via),
         NEW u \in State, u.ci = t.ci, u.errfunc = t.errfunc, u.allowhook = t.allowhook,
         u.nCcalls = t.nCcalls + (IF via # "precall" THEN 1 ELSE 0),
         u.nny = t.nny + (IF via = "callnoyield" THEN 1 ELSE 0), u.nCcalls < MaxCCalls + Extra
  PROVE  Enters(L, u, c, g, f, via)
<1> DEFINE n == Len(t.ci)
           y == c[Len(c)]
           q == g[Len(c)]
           x == Callee(L, f, via)
           s == Snap(u, Len(u.ci) + 1)
           ci == Longer(u, f, via)
<1>1. t \in State /\ L \in Thread /\ n \in Nat /\ t.nCcalls \in Nat /\ t.nny \in Nat /\ q \in Past
      /\ u.nCcalls \in Nat /\ u.nny \in Nat
  <2>1. t \in State /\ L \in Thread /\ n \in Nat /\ q \in Past
    BY BaseIs, TopIs
  <2> QED
    BY <2>1 DEF State
<1>2. x.via = via /\ x.fn \in {"C", "luaV_execute"} /\ Slack(x) = 0
  BY <1>1, CalleeIs
<1>3. /\ \A i \in 1..n : ci[i] = t.ci[i]
      /\ ci[n + 1].f = f
  BY LongerIs
<1>4. s.level = n + 1 /\ s.nny = u.nny /\ s.nCcalls = u.nCcalls /\ s \in Past
  BY <1>1 DEF Snap, Past
<1>5. q.level = n
  BY DEF Stands
<1>6. /\ y.fn = "luaD_pcall" => q.nny > 0 /\ (L = Main \/ Barrier(L, q, t.ci))
      /\ y.fn \in {"luaV_execute", "C", "luaD_hook"} => q.level > 0 /\ Barrier(L, q, t.ci)
      /\ y.fn = "luaV_execute" => IsLua(t.ci[q.level])
      /\ y.fn = "luaD_hook" => t.ci[q.level].hooked
  BY TopKind, CallerIs
<1>7. y.fn \in {"luaV_execute", "C", "luaD_hook", "luaD_pcall"} /\ Calling(y, q, via, t.ci)
  BY DEF MayCall
<1>8. q.nny = t.nny /\ q.nCcalls = t.nCcalls /\ MayCall(t, y, q, via)
  OBVIOUS
<1> HIDE DEF x, s, ci, y, q
<1>9. Barrier(L, s, ci)
  <2>1. f # "handler" /\ ci[Len(t.ci) + 1].f # "handler" /\ s.level = Len(t.ci) + 1
        /\ s.nny = t.nny + (IF via = "callnoyield" THEN 1 ELSE 0)
    BY <1>3, <1>4 DEF Kinds
  <2>2. y.fn # "luaD_pcall" => q.level > 0 /\ Barrier(L, q, t.ci)
    BY <1>6, <1>7
  <2> QED
    BY <1>1, <1>3, <1>4, <1>5, <1>6, <1>8, <2>1, <2>2, BarrierGrown
<1>10. Called(y, q, x, s, ci)
  <2>1. Calling(y, q, via, ci)
    <3>1. y.fn \in {"C", "luaV_execute"} => ci[q.level] = t.ci[q.level]
      <4>1. y.fn \in {"C", "luaV_execute"} => n \in 1..n
        BY <1>1, <1>5, <1>6
      <4> QED
        BY <1>3, <1>5, <4>1
    <3>2. Alike(y, y)
      BY DEF Alike
    <3> QED
      BY <1>7, <3>1, <3>2, CallingSame
  <2>2. Counters(q, via, s)
    BY <1>4, <1>8 DEF Counters
  <2> QED
    BY <1>2, <1>7, <2>1, <2>2 DEF Called
<1>11. q.nCcalls + (IF Counted(x) THEN 1 ELSE 0) <= u.nCcalls + Slack(y)
  <2>1. Slack(y) = 0
    BY <1>7 DEF Slack
  <2>2. (IF Counted(x) THEN 1 ELSE 0) \in {0, 1} /\ (Counted(x) => via # "precall")
    BY <1>2 DEF Counted
  <2>3. \A k \in {0, 1} : (k = 1 => via # "precall") => t.nCcalls + k <= u.nCcalls + 0
    BY <1>1
  <2> DEFINE k == IF Counted(x) THEN 1 ELSE 0
  <2>4. k \in {0, 1} /\ (k = 1 => via # "precall")
    BY <2>2
  <2> HIDE DEF k
  <2>5. t.nCcalls + k <= u.nCcalls + 0
    BY <2>3, <2>4
  <2> QED
    BY <1>8, <2>1, <2>5 DEF k
<1>12. q.nny > 0 \/ y.fn = "luaD_pcall" => u.nny > 0
  <2>1. t.nny > 0 => u.nny > 0
    BY <1>1
  <2> QED
    BY <1>6, <1>8, <2>1
<1>13. /\ q.level = Len(u.ci)
       /\ (u.allowhook <=> HooksOn(u.ci, Len(u.ci)))
       /\ u.errfunc = Handler(u.ci, Len(u.ci) + 1)
  BY <1>5 DEF Stands
<1> QED
  BY <1>9, <1>10, <1>11, <1>12, <1>13 DEF Enters, x, s, ci, y, q

\* luaD_call and luaD_callnoyield.
LEMMA CallStep ==
  ASSUME NEW L, NEW t, NEW c, NEW g, Base(L, t, c, g), Run = L, c # <<>>, c[Len(c)].L = L, Stands(t, c, g),
         t.nny = g[Len(c)].nny, t.nCcalls = g[Len(c)].nCcalls,
         NEW f \in Kinds, NEW via \in {"call", "callnoyield"}, MayCall(t, c[Len(c)], g[Len(c)], via),
         Call(t, c, f, via)
  PROVE  IInv'
<1>1. t \in State /\ L \in Thread /\ t.nCcalls \in Nat /\ t.nny \in Nat
  <2>1. t \in State /\ L \in Thread
    BY BaseIs
  <2> QED
    BY <2>1 DEF State
<1>2. ASSUME NEW a \in Nat, NEW b \in Nat, a = t.nCcalls + 1,
             b = t.nny + (IF via = "callnoyield" THEN 1 ELSE 0),
             \/ RunError(WithCounts(t, a, b), c)
             \/ Throw(WithCounts(t, a, b), c, LUA_ERRERR)
             \/ a < MaxCCalls + Extra /\ Enter(WithCounts(t, a, b), c, f, via)
      PROVE  IInv'
  <2> DEFINE u == WithCounts(t, a, b)
  <2>1. Base(L, u, c, g)
    BY BaseCounts
  <2>2. /\ u.ci = t.ci /\ u.nCcalls = a /\ u.nny = b /\ u.errfunc = t.errfunc /\ u.allowhook = t.allowhook
        /\ u \in State
    BY <1>1 DEF WithCounts, State
  <2>3. \/ RunError(u, c)
        \/ Throw(u, c, LUA_ERRERR)
        \/ a < MaxCCalls + Extra /\ Enter(u, c, f, via)
    BY <1>2
  <2>4. Stands(u, c, g)
    BY <2>2 DEF Stands
  <2>5. u.nCcalls >= g[Len(c)].nCcalls
    <3>1. a >= t.nCcalls
      BY <1>1, <1>2
    <3> QED
      BY <2>2, <3>1
  <2> HIDE DEF u
  <2>6. CASE RunError(u, c)
    BY <2>1, <2>4, <2>5, <2>6, RunErrorStep
  <2>7. CASE Throw(u, c, LUA_ERRERR)
    BY <2>1, <2>7, ThrowError
  <2>8. CASE a < MaxCCalls + Extra /\ Enter(u, c, f, via)
    <3>1. via \in Via /\ via # "precall" /\ f \in Kinds \cup {"handler"}
      BY DEF Via
    <3>2. /\ u.nCcalls = t.nCcalls + (IF via # "precall" THEN 1 ELSE 0)
          /\ u.nny = t.nny + (IF via = "callnoyield" THEN 1 ELSE 0)
          /\ u.nCcalls < MaxCCalls + Extra
      BY <1>2, <2>2, <2>8, <3>1
    <3>3. Enters(L, u, c, g, f, via)
      BY <2>2, <3>1, <3>2, EntersIs
    <3> QED
      BY <2>1, <2>8, <3>1, <3>3, EnterStep
  <2> QED
    BY <2>3, <2>6, <2>7, <2>8
<1> QED
  BY <1>1, <1>2, CallIs

-----------------------------------------------------------------------------
(* The activation on top *)

LEMMA SoundTop ==
  ASSUME NEW t, Sound(t), NEW u \in State, NEW n \in Nat, n = Len(t.ci), n > 0, Len(u.ci) = n,
         \A i \in 1..(n - 1) : u.ci[i] = t.ci[i], u.ci[n].f = t.ci[n].f, Saved(u.ci, n), u.errfunc <= n,
         \A l \in u.openupval : l \in t.openupval \/ (l = n /\ IsLua(t.ci[n]))
  PROVE  Sound(u)
<1>1. \A i \in 1..n : i \in 1..(n - 1) \/ i = n
  OBVIOUS
<1>2. n \in 1..n /\ \A i \in 1..(n - 1) : i \in 1..n /\ i \in Nat \ {0}
  OBVIOUS
<1>3. (\A l \in t.openupval : l \in 1..n /\ IsLua(t.ci[l])) /\ \A i \in 1..n : Saved(t.ci, i)
  BY DEF Sound
<1>4. \A l \in u.openupval : l \in 1..n /\ IsLua(t.ci[l])
  BY <1>2, <1>3
<1>5. \A l \in u.openupval : l \in 1..n /\ IsLua(u.ci[l])
  BY <1>1, <1>4 DEF IsLua
<1>6. ASSUME NEW i \in 1..n
      PROVE  Saved(u.ci, i)
  <2>1. CASE i = n
    BY <2>1
  <2>2. CASE i # n
    <3>1. i \in 1..(n - 1)
      BY <1>1, <2>2
    <3>2. i \in Nat \ {0} /\ Saved(t.ci, i)
      BY <1>2, <1>3, <3>1
    <3>3. \A k \in 1..i : k \in 1..(n - 1)
      BY <3>1
    <3>4. \A k \in 1..i : t.ci[k] = u.ci[k]
      BY <3>3
    <3> QED
      BY <3>2, <3>4, SavedSame
  <2> QED
    BY <2>1, <2>2
<1> QED
  BY <1>5, <1>6 DEF Sound

\* The activation on top is replaced.
SetTop(s, a) == [s EXCEPT ![Len(s)] = a]

LEMMA SetTopIs ==
  ASSUME NEW s \in Seq(Info), s # <<>>, NEW a \in Info
  PROVE  /\ SetTop(s, a) \in Seq(Info) /\ Len(SetTop(s, a)) = Len(s) /\ SetTop(s, a)[Len(s)] = a
         /\ \A i \in 1..(Len(s) - 1) : SetTop(s, a)[i] = s[i]
         /\ Len(s) \in Nat /\ Len(s) > 0 /\ s[Len(s)] \in Info
<1>1. Len(s) \in 1..Len(s) /\ Len(s) \in Nat /\ Len(s) > 0
  OBVIOUS
<1>2. \A i \in 1..(Len(s) - 1) : i \in 1..Len(s) /\ i # Len(s)
  BY <1>1
<1>3. /\ SetTop(s, a) \in Seq(Info) /\ Len(SetTop(s, a)) = Len(s)
      /\ \A j \in 1..Len(s) : SetTop(s, a)[j] = IF j = Len(s) THEN a ELSE s[j]
  BY <1>1, ExceptSeq DEF SetTop
<1> QED
  BY <1>1, <1>2, <1>3

SameBelow(a, b, n) == \A i \in 1..(n - 1) : b[i] = a[i]

LEMMA SetTopHooks ==
  ASSUME NEW a, NEW b, NEW n \in Nat, n > 0, SameBelow(a, b, n)
  PROVE  HooksOn(b, n) <=> HooksOn(a, n - 1) /\ ~b[n].hooked
<1>1. \A i \in 1..n : i \in 1..(n - 1) \/ i = n
  OBVIOUS
<1>2. n \in 1..n /\ \A i \in 1..(n - 1) : i \in 1..n
  OBVIOUS
<1> QED
  BY <1>1, <1>2 DEF HooksOn, SameBelow

-----------------------------------------------------------------------------
(* luaD_poscall *)

\* The thread without the activation that returns.
Popped(t, via) ==
  [t EXCEPT !.ci = Front(@),
            !.nCcalls = IF via \in {"call", "callnoyield"} THEN @ - 1 ELSE @,
            !.nny = IF via = "callnoyield" THEN @ - 1 ELSE @]

LEMMA PoppedIs ==
  ASSUME NEW t \in State, t.ci # <<>>, NEW via \in Via,
         via = "callnoyield" => t.nny > 0, via # "precall" => t.nCcalls > 0
  PROVE  /\ Popped(t, via) \in State /\ Popped(t, via).ci \in Seq(Info)
         /\ Len(t.ci) \in Nat \ {0} /\ Len(Popped(t, via).ci) = Len(t.ci) - 1
         /\ \A i \in 1..(Len(t.ci) - 1) : Popped(t, via).ci[i] = t.ci[i]
         /\ t.nCcalls = Popped(t, via).nCcalls + (IF via # "precall" THEN 1 ELSE 0)
         /\ t.nny = Popped(t, via).nny + (IF via = "callnoyield" THEN 1 ELSE 0)
         /\ Popped(t, via).errfunc = t.errfunc /\ Popped(t, via).allowhook = t.allowhook
         /\ Popped(t, via).openupval = t.openupval /\ Popped(t, via).status = t.status
<1> DEFINE r == Front(t.ci)
           a == IF via \in {"call", "callnoyield"} THEN t.nCcalls - 1 ELSE t.nCcalls
           b == IF via = "callnoyield" THEN t.nny - 1 ELSE t.nny
           u == [t EXCEPT !.ci = r, !.nCcalls = a, !.nny = b]
<1>1. t.ci \in Seq(Info) /\ t.nCcalls \in Nat /\ t.nny \in Nat
  BY DEF State
<1>2. /\ r \in Seq(Info) /\ Len(r) = Len(t.ci) - 1 /\ Len(t.ci) \in Nat \ {0}
      /\ \A i \in 1..(Len(t.ci) - 1) : r[i] = t.ci[i]
  BY <1>1, FrontSeq
<1>3. a \in Nat /\ t.nCcalls = a + (IF via # "precall" THEN 1 ELSE 0)
  BY <1>1 DEF Via
<1>4. b \in Nat /\ t.nny = b + (IF via = "callnoyield" THEN 1 ELSE 0)
  BY <1>1
<1>5. Popped(t, via) = u
  BY DEF Popped
<1> HIDE DEF r, a, b
<1>6. /\ u \in State /\ u.ci = r /\ u.nCcalls = a /\ u.nny = b /\ u.errfunc = t.errfunc
      /\ u.allowhook = t.allowhook /\ u.openupval = t.openupval /\ u.status = t.status
  BY <1>2, <1>3, <1>4 DEF State
<1> HIDE DEF u
<1> QED
  BY <1>2, <1>3, <1>4, <1>5, <1>6

\* lua_pcallk takes its handler back.
Restored(u) == [u EXCEPT !.ci[Len(u.ci)].ypcall = FALSE, !.errfunc = OldErrfunc(u, Last(u.ci))]

LEMMA RestoredIs ==
  ASSUME NEW u \in State, u.ci # <<>>
  PROVE  /\ Restored(u) \in State /\ Restored(u).ci \in Seq(Info) /\ Len(Restored(u).ci) = Len(u.ci)
         /\ Len(u.ci) \in Nat \ {0}
         /\ \A i \in 1..(Len(u.ci) - 1) : Restored(u).ci[i] = u.ci[i]
         /\ Restored(u).ci[Len(u.ci)].f = u.ci[Len(u.ci)].f
         /\ Restored(u).ci[Len(u.ci)].hooked = u.ci[Len(u.ci)].hooked
         /\ ~Restored(u).ci[Len(u.ci)].ypcall
         /\ Restored(u).errfunc = (IF u.ci[Len(u.ci)].ypcall THEN u.ci[Len(u.ci)].old_errfunc ELSE u.errfunc)
         /\ Restored(u).nny = u.nny /\ Restored(u).nCcalls = u.nCcalls /\ Restored(u).allowhook = u.allowhook
         /\ Restored(u).openupval = u.openupval /\ Restored(u).status = u.status
<1> DEFINE s == u.ci
           a == s[Len(s)]
           e == [a EXCEPT !.ypcall = FALSE]
           r == SetTop(s, e)
           o == IF a.ypcall THEN a.old_errfunc ELSE u.errfunc
           v == [u EXCEPT !.ci = r, !.errfunc = o]
<1>1. s \in Seq(Info) /\ u.errfunc \in Nat
  BY DEF State
<1>2. Len(s) \in 1..Len(s) /\ Len(s) \in Nat \ {0}
  BY <1>1
<1>3. a \in Info
  BY <1>1, <1>2
<1>4. e \in Info /\ e.f = a.f /\ e.hooked = a.hooked /\ ~e.ypcall
  BY <1>3 DEF Info
<1>5. o \in Nat
  BY <1>1, <1>3 DEF Info
<1>6. Last(u.ci) = a
  BY <1>1, FrontSeq
<1>7. Restored(u) = v
  <2>1. OldErrfunc(u, Last(u.ci)) = o
    BY <1>6 DEF OldErrfunc
  <2> HIDE DEF o
  <2> QED
    BY <2>1 DEF Restored, SetTop
<1> HIDE DEF e
<1>8. /\ r \in Seq(Info) /\ Len(r) = Len(s) /\ r[Len(s)] = e
      /\ \A i \in 1..(Len(s) - 1) : r[i] = s[i]
  BY <1>1, <1>4, SetTopIs
<1>0. o = (IF u.ci[Len(u.ci)].ypcall THEN u.ci[Len(u.ci)].old_errfunc ELSE u.errfunc)
  OBVIOUS
<1> HIDE DEF r, o
<1>9. /\ v \in State /\ v.ci = r /\ v.errfunc = o /\ v.nny = u.nny /\ v.nCcalls = u.nCcalls
      /\ v.allowhook = u.allowhook /\ v.openupval = u.openupval /\ v.status = u.status
  BY <1>5, <1>8 DEF State
<1> HIDE DEF v
<1> QED
  BY <1>0, <1>2, <1>4, <1>7, <1>8, <1>9

LEMMA ReturnIs ==
  ASSUME NEW t, NEW c, NEW via, Return(t, c, via), NEW b, b = Last(c), NEW u, u = Popped(t, via)
  PROVE  \/ b.fn = "C" /\ Step(Restored(u), Done(c, "ok"))
         \/ /\ b.fn = "luaD_pcall"
            /\ Step([u EXCEPT !.nCcalls = b.nCcalls, !.errfunc = b.errfunc], Done(Front(c), "ok"))
         \/ b.fn = "luaG_errormsg" /\ Throw(u, c, LUA_ERRRUN)
         \/ b.fn \notin {"C", "luaD_pcall", "luaG_errormsg"} /\ Step(u, c)
<1> DEFINE P == Step(Restored(u), Done(c, "ok"))
           Q == Step([u EXCEPT !.nCcalls = b.nCcalls, !.errfunc = b.errfunc], Done(Front(c), "ok"))
           R == Throw(u, c, LUA_ERRRUN)
           S == Step(u, c)
<1>1. (CASE b.fn = "C" -> P [] b.fn = "luaD_pcall" -> Q [] b.fn = "luaG_errormsg" -> R [] OTHER -> S)
  BY DEF Return, Popped, Restored
<1> HIDE DEF P, Q, R, S
<1>2. CASE b.fn = "C"
  <2>1. P
    BY <1>1, <1>2
  <2> QED
    BY <1>2, <2>1 DEF P
<1>3. CASE b.fn = "luaD_pcall"
  <2>1. Q
    BY <1>1, <1>3
  <2> QED
    BY <1>3, <2>1 DEF Q
<1>4. CASE b.fn = "luaG_errormsg"
  <2>1. R
    BY <1>1, <1>4
  <2> QED
    BY <1>4, <2>1 DEF R
<1>5. CASE b.fn \notin {"C", "luaD_pcall", "luaG_errormsg"}
  <2>1. S
    BY <1>1, <1>5
  <2> QED
    BY <1>5, <2>1 DEF S
<1> QED
  BY <1>2, <1>3, <1>4, <1>5

LEMMA PcallHooks ==
  ASSUME NEW L, NEW t, NEW c, NEW g, Base(L, t, c, g), c # <<>>, c[Len(c)].L = L, c[Len(c)].fn = "luaD_pcall"
  PROVE  c[Len(c)].allowhook <=> HooksOn(t.ci, g[Len(c)].level)
<1>1. Frame(c, g, t.ci, Len(c))
  BY TopIs
<1>2. CASE Len(c) = 1
  <2>1. OfHost(c[1], g[1])
    BY <1>1, <1>2 DEF Frame
  <2> QED
    BY <1>2, <2>1, HandlerZero DEF OfHost, HooksOn
<1>3. CASE Len(c) # 1
  <2>1. Kind(c[Len(c) - 1], g[Len(c) - 1], c[Len(c)], g[Len(c)], t.ci)
    BY <1>1, <1>3 DEF Frame
  <2>2. OfPcall(c[Len(c) - 1], g[Len(c) - 1], c[Len(c)], g[Len(c)], t.ci)
    BY <2>1 DEF Kind, OfLua, OfC, OfHook, OfError, OfResume
  <2> QED
    BY <2>2 DEF OfPcall
<1> QED
  BY <1>2, <1>3

\* The function on top returns.
Ends(t, c, g) ==
  LET m == Len(c)  n == Len(t.ci) IN
  /\ c[m].fn \in {"C", "luaV_execute"} /\ n > 0 /\ g[m].level = n /\ g[m - 1].level = n - 1
  /\ g[m].nny = t.nny /\ g[m].nCcalls = t.nCcalls
  /\ Called(c[m - 1], g[m - 1], c[m], g[m], t.ci)
  /\ t.allowhook <=> HooksOn(t.ci, n)
  /\ t.errfunc = Handler(t.ci, n) /\ ~t.ci[n].hooked /\ n \notin t.openupval

LEMMA ReturnBase ==
  ASSUME NEW L, NEW t, NEW c, NEW g, Base(L, t, c, g), c # <<>>, c[Len(c)].L = L, Ends(t, c, g),
         NEW m \in Nat, m = Len(c), NEW n \in Nat, n = Len(t.ci), NEW u, u = Popped(t, c[m].via)
  PROVE  /\ m > 1 /\ n > 0 /\ c[m - 1].L = L /\ Base(L, u, Front(c), Front(g))
         /\ Front(c) # <<>> /\ Len(Front(c)) = m - 1 /\ Front(c)[m - 1] = c[m - 1] /\ Front(g)[m - 1] = g[m - 1]
         /\ u \in State /\ u.ci \in Seq(Info) /\ Len(u.ci) = n - 1 /\ \A i \in 1..(n - 1) : u.ci[i] = t.ci[i]
         /\ u.ci = SubSeq(t.ci, 1, n - 1)
         /\ u.errfunc = Handler(t.ci, n) /\ u.errfunc <= n - 1 /\ (u.allowhook <=> HooksOn(u.ci, n - 1))
         /\ u.openupval = t.openupval /\ u.status = LUA_OK
         /\ \A l \in u.openupval : l \in t.openupval /\ l <= n - 1
         /\ c[m - 1].fn # "luaG_errormsg" =>
              /\ u.nny = g[m - 1].nny /\ u.nCcalls = g[m - 1].nCcalls /\ Calling(c[m - 1], g[m - 1], c[m].via, t.ci)
<1> DEFINE x == c[m]
           s == g[m]
           y == c[m - 1]
           q == g[m - 1]
<1>1. /\ x.fn \in {"C", "luaV_execute"} /\ n > 0 /\ s.level = n /\ q.level = n - 1
      /\ s.nny = t.nny /\ s.nCcalls = t.nCcalls /\ Called(y, q, x, s, t.ci)
      /\ (t.allowhook <=> HooksOn(t.ci, n))
      /\ t.errfunc = Handler(t.ci, n) /\ ~t.ci[n].hooked /\ n \notin t.openupval
  BY DEF Ends
<1>2. /\ t \in State /\ Sound(t) /\ t.ci \in Seq(Info) /\ c \in Seq(CFrame) /\ g \in Seq(Past) /\ Len(g) = m
      /\ t.nny \in Nat /\ t.nCcalls \in Nat
  <2>1. /\ t \in State /\ Sound(t) /\ t.ci \in Seq(Info) /\ c \in Seq(CFrame) /\ g \in Seq(Past) /\ Len(g) = m
    BY BaseIs
  <2> QED
    BY <2>1 DEF State
<1>3. /\ m \in 1..m /\ t.status = LUA_OK /\ x \in CFrame
      /\ Count(c, m) + Slack(x) <= t.nCcalls /\ x.L = L
  <2>1. /\ Len(c) \in 1..Len(c) /\ t.status = LUA_OK /\ c[Len(c)] \in CFrame
        /\ Count(c, Len(c)) + Slack(c[Len(c)]) <= g[Len(c)].nCcalls
    BY TopIs
  <2> QED
    BY <1>1, <2>1
<1>4. FrameAt(With(L, t), c, g, m)
  BY <1>3, BaseAt
<1>5. m > 1 /\ y.L = L
  BY <1>1, <1>2, <1>3, <1>4, FrameRises
<1>6. q.nny \in Nat /\ q.nCcalls \in Nat /\ q \in Past /\ m - 1 \in 1..m
  <2>1. m - 1 \in 1..m
    BY <1>5
  <2> QED
    BY <2>1, BaseAt
<1>7. x.via \in Via
  BY <1>1, <1>3, CFrameIs
<1> HIDE DEF y, q, x, s
<1>8. x.via # "precall" => t.nCcalls > 0
  <2> SUFFICES ASSUME x.via # "precall" PROVE t.nCcalls > 0
    OBVIOUS
  <2>1. Counted(c[m])
    BY <1>1 DEF Counted, x
  <2>2. Count(c, m - 1) \in Nat /\ Count(c, (m - 1) + 1) = Count(c, m - 1) + (IF Counted(c[(m - 1) + 1]) THEN 1 ELSE 0)
    <3>1. m - 1 \in Nat
      BY <1>5
    <3> QED
      BY <3>1, CountNext
  <2>3. (m - 1) + 1 = m
    OBVIOUS
  <2>4. Count(c, m) = Count(c, m - 1) + 1
    BY <2>1, <2>2, <2>3
  <2>5. Slack(x) = 0
    BY <1>1 DEF Slack
  <2> QED
    BY <1>2, <1>3, <2>2, <2>4, <2>5
<1>9. x.via = "callnoyield" => t.nny > 0
  BY <1>1, <1>6 DEF Called, Counters
<1>10. t.ci # <<>>
  BY <1>1, <1>2
<1>11. u = Popped(t, x.via)
  BY DEF x
<1>12. /\ u \in State /\ u.ci \in Seq(Info) /\ Len(u.ci) = n - 1
       /\ \A i \in 1..(n - 1) : u.ci[i] = t.ci[i]
       /\ t.nCcalls = u.nCcalls + (IF x.via # "precall" THEN 1 ELSE 0)
       /\ t.nny = u.nny + (IF x.via = "callnoyield" THEN 1 ELSE 0)
       /\ u.errfunc = t.errfunc /\ u.allowhook = t.allowhook /\ u.openupval = t.openupval /\ u.status = t.status
  BY <1>2, <1>7, <1>8, <1>9, <1>10, <1>11, PoppedIs
<1>13. u.ci = SubSeq(t.ci, 1, n - 1)
  <2>1. Front(t.ci) = SubSeq(t.ci, 1, n - 1)
    BY <1>2, <1>10, FrontSeq
  <2>2. u.ci = Front(t.ci)
    BY <1>2, <1>11 DEF Popped, State
  <2> QED
    BY <2>1, <2>2
<1>14. y.fn # "luaG_errormsg" => u.nny = q.nny /\ u.nCcalls = q.nCcalls /\ Calling(y, q, x.via, t.ci)
  <2> SUFFICES ASSUME y.fn # "luaG_errormsg" PROVE u.nny = q.nny /\ u.nCcalls = q.nCcalls /\ Calling(y, q, x.via, t.ci)
    OBVIOUS
  <2>1. Calling(y, q, x.via, t.ci) /\ Counters(q, x.via, s)
    BY <1>1 DEF Called
  <2>2. u.nny \in Nat /\ u.nCcalls \in Nat /\ q.nny \in Nat /\ q.nCcalls \in Nat
    BY <1>6, <1>12 DEF State
  <2>3. s.nny = u.nny + (IF x.via = "callnoyield" THEN 1 ELSE 0)
    BY <1>1, <1>12
  <2>4. s.nCcalls = u.nCcalls + (IF x.via # "precall" THEN 1 ELSE 0)
    BY <1>1, <1>12
  <2>5. /\ s.nny = q.nny + (IF x.via = "callnoyield" THEN 1 ELSE 0)
        /\ s.nCcalls = q.nCcalls + (IF x.via # "precall" THEN 1 ELSE 0)
    BY <2>1 DEF Counters
  <2>6. u.nny = q.nny
    BY <2>2, <2>3, <2>5
  <2>7. u.nCcalls = q.nCcalls
    BY <2>2, <2>4, <2>5
  <2> QED
    BY <2>1, <2>6, <2>7
<1>15. u.errfunc <= n - 1 /\ u.errfunc \in Nat
  BY <1>1, <1>12, HandlerBound
<1>16. u.allowhook <=> HooksOn(u.ci, n - 1)
  <2>1. HooksOn(t.ci, n) <=> HooksOn(u.ci, n - 1) /\ ~t.ci[n].hooked
    <3>1. n > 0 /\ \A i \in 1..(n - 1) : t.ci[i] = u.ci[i]
      BY <1>1, <1>12
    <3>9. SameBelow(u.ci, t.ci, n)
      BY <3>1 DEF SameBelow
    <3> QED
      BY <3>1, <3>9, SetTopHooks
  <2> QED
    BY <1>1, <1>12, <2>1
<1>17. \A l \in u.openupval : l \in t.openupval /\ l <= n - 1
  <2>1. \A l \in t.openupval : l \in 1..n
    BY <1>2 DEF Sound
  <2>2. \A l \in 1..n : l # n => l <= n - 1
    OBVIOUS
  <2> QED
    BY <1>1, <1>12, <2>1, <2>2
<1>18. Sound(u)
  <2>1. n - 1 \in 0..Len(t.ci)
    BY <1>1
  <2> QED
    BY <1>2, <1>12, <1>15, <1>17, <2>1, SoundKept
<1>19. Fits(c, g, m - 1, L, t, u)
  <2>1. Agree(y.fn, t.ci, u.ci, n - 1)
    <3>1. n - 1 \in Nat
      BY <1>1
    <3> QED
      BY <1>12, <3>1, AgreeSame
  <2>2. q.level <= Len(u.ci) /\ Agree(y.fn, t.ci, u.ci, q.level) /\ m - 1 > 0
    BY <1>1, <1>5, <1>6, <1>12, <2>1
  <2> QED
    BY <1>3, <1>5, <1>12, <2>2 DEF Fits, y, q
<1>20. /\ Base(L, u, Front(c), Front(g)) /\ Len(Front(c)) = m - 1
       /\ \A j \in 1..(m - 1) : Front(c)[j] = c[j] /\ Front(g)[j] = g[j]
  <2>1. Fits(c, g, Len(c) - 1, L, t, u)
    BY <1>19
  <2>2. /\ Base(L, u, Front(c), Front(g)) /\ Len(Front(c)) = Len(c) - 1
        /\ \A j \in 1..(Len(c) - 1) : Front(c)[j] = c[j] /\ Front(g)[j] = g[j]
    <3>1. Below(c, g, L, t, u)
      BY <2>1 DEF Below
    <3>2. Base(L, u, Front(c), Front(g))
      BY <1>18, <3>1, BaseDrop
    <3> QED
      BY <3>2, DropIs
  <2> QED
    BY <2>2
<1>21. m - 1 \in 1..(m - 1) /\ Front(c) # <<>>
  BY <1>5, <1>20
<1> QED
  BY <1>1, <1>3, <1>5, <1>12, <1>13, <1>14, <1>15, <1>16, <1>17, <1>20, <1>21 DEF x, y, q

\* A C function goes on: lua_callk has returned, or lua_pcallk with a continuation.
LEMMA ReturnToC ==
  ASSUME NEW L, NEW u, NEW d, NEW h, Base(L, u, d, h), Run = L, d # <<>>, d[Len(d)].L = L, d[Len(d)].fn = "C",
         h[Len(d)].level = Len(u.ci), h[Len(d)].nny = u.nny, h[Len(d)].nCcalls = u.nCcalls,
         u.allowhook <=> HooksOn(u.ci, Len(u.ci)), u.errfunc = Handler(u.ci, Len(u.ci) + 1),
         u.ci[Len(u.ci)].f \in Protecting => u.ci[Len(u.ci)].ypcall,
         Step(Restored(u), Done(d, "ok"))
  PROVE  IInv'
<1> DEFINE n == Len(u.ci)
           v == Restored(u)
           e == Done(d, "ok")
           m == Len(d)
           q == h[m]
<1>1. /\ u \in State /\ Sound(u) /\ u.ci \in Seq(Info) /\ d \in Seq(CFrame) /\ h \in Seq(Past) /\ Len(h) = m /\ m \in Nat
      /\ n \in Nat
  BY BaseIs
<1>2. /\ m \in 1..m /\ u.status = LUA_OK /\ d[m] \in CFrame /\ q \in Past
  BY TopIs
<1>3. n > 0
  BY CallerIs
<1>4. /\ v \in State /\ v.ci \in Seq(Info) /\ Len(v.ci) = n
      /\ \A i \in 1..(n - 1) : v.ci[i] = u.ci[i]
      /\ v.ci[n].f = u.ci[n].f /\ v.ci[n].hooked = u.ci[n].hooked /\ ~v.ci[n].ypcall
      /\ v.errfunc = (IF u.ci[n].ypcall THEN u.ci[n].old_errfunc ELSE u.errfunc)
      /\ v.nny = u.nny /\ v.nCcalls = u.nCcalls /\ v.allowhook = u.allowhook
      /\ v.openupval = u.openupval /\ v.status = u.status
  <2>1. u.ci # <<>>
    BY <1>3
  <2> QED
    BY <1>1, <2>1, RestoredIs
<1> HIDE DEF v
<1>5. v.errfunc = Handler(u.ci, n)
  <2>1. CASE u.ci[n].ypcall
    <3>1. Saved(u.ci, n)
      BY <1>1, <1>3 DEF Sound
    <3> QED
      BY <1>4, <2>1, <3>1 DEF Saved
  <2>2. CASE ~u.ci[n].ypcall
    <3>1. u.ci[n].f \notin Protecting /\ n \in Nat \ {0}
      BY <1>3, <2>2
    <3>2. Handler(u.ci, n + 1) = Handler(u.ci, n)
      BY <3>1, HandlerNext
    <3> QED
      BY <1>4, <2>2, <3>2
  <2> QED
    BY <2>1, <2>2
<1>6. Handler(v.ci, n) = Handler(u.ci, n)
  BY <1>4, HandlerSame
<1>7. Sound(v)
  <2>1. v.errfunc <= n
    BY <1>3, <1>5, HandlerBound
  <2>2. Saved(v.ci, n)
    BY <1>4 DEF Saved
  <2>3. \A l \in v.openupval : l \in u.openupval \/ (l = n /\ IsLua(u.ci[n]))
    BY <1>4
  <2> QED
    BY <1>1, <1>3, <1>4, <2>1, <2>2, <2>3, SoundTop
<1>8. d # <<>> => d[Len(d)].fn = "C"
  OBVIOUS
<1>9. /\ e \in Seq(CFrame) /\ Len(e) = m
      /\ \A j \in 1..m : Alike(e[j], d[j]) /\ e[j].L = d[j].L /\ e[j].fn = d[j].fn
  BY <1>1, <1>8, DoneIs
<1> HIDE DEF e
<1>10. Base(L, v, e, h)
  <2>1. Owned(d, L, m + 1)
    BY <1>1 DEF Owned
  <2>2. Agree("C", u.ci, v.ci, n)
    BY <1>4 DEF Agree
  <2>3. Fits(d, h, m, L, u, v)
    BY <1>2, <1>4, <2>2 DEF Fits
  <2>4. Same(d, h, e, h, m)
    BY <1>9 DEF Same
  <2>5. m \in 0..Len(d)
    BY <1>1
  <2> QED
    BY <1>1, <1>7, <1>9, <2>1, <2>3, <2>4, <2>5, BaseCut
<1>11. e # <<>> /\ e[Len(e)].L = L /\ e[Len(e)].fn = "C" /\ h[Len(e)] = q
  BY <1>2, <1>9
<1>12. Awake(e[Len(e)], v, h[Len(e)])
  <2>1. q = [level |-> n, nny |-> v.nny, nCcalls |-> v.nCcalls]
    BY <1>2, <1>4 DEF Past
  <2>2. v.allowhook <=> HooksOn(v.ci, n)
    <3>1. HooksOn(v.ci, n) <=> HooksOn(u.ci, n - 1) /\ ~v.ci[n].hooked
      <4>1. n \in Nat /\ n > 0 /\ \A i \in 1..(n - 1) : v.ci[i] = u.ci[i]
        BY <1>1, <1>3, <1>4
      <4> HIDE DEF n
      <4>9. SameBelow(u.ci, v.ci, n)
        BY <4>1 DEF SameBelow
      <4> QED
        BY <4>1, <4>9, SetTopHooks
    <3>2. HooksOn(u.ci, n) <=> HooksOn(u.ci, n - 1) /\ ~u.ci[n].hooked
      <4>1. SameBelow(u.ci, u.ci, n)
        BY <1>3 DEF SameBelow
      <4> QED
        BY <1>3, <4>1, SetTopHooks
    <3> QED
      BY <1>4, <3>1, <3>2
  <2> QED
    BY <1>3, <1>4, <1>5, <1>6, <1>11, <2>1, <2>2 DEF Awake
<1>13. th' = With(L, v) /\ cstack' = e
  BY DEF Step, With, v, e
<1> QED
  BY <1>10, <1>11, <1>12, <1>13, ConcludeTop

LEMMA ReturnStep ==
  ASSUME NEW L, NEW t, NEW c, NEW g, Base(L, t, c, g), Run = L, c # <<>>, c[Len(c)].L = L, Ends(t, c, g),
         Return(t, Front(c), c[Len(c)].via)
  PROVE  IInv'
<1> DEFINE m == Len(c)
           n == Len(t.ci)
           y == c[m - 1]
           q == g[m - 1]
           via == c[m].via
           u == Popped(t, via)
           d == Front(c)
           h == Front(g)
<1>1. /\ t \in State /\ n \in Nat /\ m \in Nat /\ Sound(t) /\ c \in Seq(CFrame) /\ t.ci \in Seq(Info) /\ L \in Thread
  BY BaseIs
<1>2. /\ m > 1 /\ n > 0 /\ y.L = L /\ Base(L, u, d, h)
      /\ d # <<>> /\ Len(d) = m - 1 /\ d[m - 1] = y /\ h[m - 1] = q
      /\ u \in State /\ u.ci \in Seq(Info) /\ Len(u.ci) = n - 1 /\ \A i \in 1..(n - 1) : u.ci[i] = t.ci[i]
      /\ u.ci = SubSeq(t.ci, 1, n - 1)
      /\ u.errfunc = Handler(t.ci, n) /\ u.errfunc <= n - 1 /\ (u.allowhook <=> HooksOn(u.ci, n - 1))
      /\ u.openupval = t.openupval /\ u.status = LUA_OK
      /\ \A l \in u.openupval : l \in t.openupval /\ l <= n - 1
      /\ y.fn # "luaG_errormsg" =>
           /\ u.nny = q.nny /\ u.nCcalls = q.nCcalls /\ Calling(y, q, via, t.ci)
  BY <1>1, ReturnBase
<1>3. q.level = n - 1
  BY DEF Ends
<1>4. Last(d) = y
  BY <1>2 DEF Last
<1>5. \/ y.fn = "C" /\ Step(Restored(u), Done(d, "ok"))
      \/ /\ y.fn = "luaD_pcall"
         /\ Step([u EXCEPT !.nCcalls = y.nCcalls, !.errfunc = y.errfunc], Done(Front(d), "ok"))
      \/ y.fn = "luaG_errormsg" /\ Throw(u, d, LUA_ERRRUN)
      \/ y.fn \notin {"C", "luaD_pcall", "luaG_errormsg"} /\ Step(u, d)
  BY <1>4, ReturnIs
<1>6. d[Len(d)] = y /\ h[Len(d)] = q /\ Len(d) \in 1..Len(d) /\ q \in Past
  <2>1. d[Len(d)] = y /\ h[Len(d)] = q
    BY <1>2
  <2> QED
    BY <1>2, <2>1, TopIs
<1>9. Return(t, d, via)
  OBVIOUS
<1> HIDE DEF u, d, h, y, q, via
<1>7. u.errfunc = Handler(u.ci, n)
  <2>1. \A i \in 1..(n - 1) : t.ci[i].f = u.ci[i].f
    BY <1>2
  <2>2. Handler(t.ci, n) = Handler(u.ci, n)
    BY <2>1, HandlerSame
  <2> QED
    BY <1>2, <2>2
<1>8. /\ y.fn \in {"luaV_execute", "C", "luaD_hook"} => q.level > 0
      /\ y.fn \in {"luaV_execute", "luaD_hook"} => IsLua(u.ci[q.level])
  <2>1. /\ d[Len(d)].fn \in {"luaV_execute", "C", "luaD_hook"} => h[Len(d)].level > 0
        /\ d[Len(d)].fn = "luaV_execute" => IsLua(u.ci[h[Len(d)].level])
        /\ d[Len(d)].fn = "luaD_hook" => IsLua(u.ci[h[Len(d)].level])
    <3>1. Base(L, u, d, h) /\ d # <<>> /\ d[Len(d)].L = L
      BY <1>2, <1>6
    <3> QED
      BY <3>1, CallerIs
  <2> QED
    BY <1>6, <2>1
<1>10. CASE y.fn = "C" /\ Step(Restored(u), Done(d, "ok"))
  <2>1. n - 1 \in Nat /\ (n - 1) + 1 = n /\ n - 1 \in 1..(n - 1)
    BY <1>1, <1>2, <1>3, <1>8, <1>10
  <2>2. u.ci[n - 1].f \in Protecting => u.ci[n - 1].ypcall
    <3>1. /\ via \in {"call", "callnoyield"}
          /\ via = "call" => Passes(t.ci[n - 1])
          /\ via = "callnoyield" => t.ci[n - 1].f \notin Protecting
      BY <1>2, <1>3, <1>10 DEF Calling
    <3> QED
      BY <1>2, <2>1, <3>1 DEF Passes
  <2>3. /\ Base(L, u, d, h) /\ d # <<>> /\ d[Len(d)].L = L /\ d[Len(d)].fn = "C"
        /\ h[Len(d)].level = Len(u.ci) /\ h[Len(d)].nny = u.nny /\ h[Len(d)].nCcalls = u.nCcalls
    BY <1>2, <1>3, <1>6, <1>10
  <2>4. /\ u.allowhook <=> HooksOn(u.ci, Len(u.ci))
        /\ u.errfunc = Handler(u.ci, Len(u.ci) + 1)
        /\ u.ci[Len(u.ci)].f \in Protecting => u.ci[Len(u.ci)].ypcall
    BY <1>2, <1>7, <2>1, <2>2
  <2> QED
    BY <1>10, <2>3, <2>4, ReturnToC
<1>11. CASE /\ y.fn = "luaD_pcall"
            /\ Step([u EXCEPT !.nCcalls = y.nCcalls, !.errfunc = y.errfunc], Done(Front(d), "ok"))
  <2> DEFINE v == [u EXCEPT !.nCcalls = y.nCcalls, !.errfunc = y.errfunc]
  <2>1. y.nCcalls = q.nCcalls /\ y.errfunc \in Nat /\ q.nCcalls \in Nat
    <3>1. Len(d) \in 1..Len(d) /\ d[Len(d)].fn = "luaD_pcall" /\ d[Len(d)].L = L
      BY <1>2, <1>6, <1>11
    <3> QED
      BY <1>2, <1>6, <3>1, PcallIs
  <2>2. y.allowhook <=> HooksOn(u.ci, q.level)
    <3>1. d[Len(d)].fn = "luaD_pcall" /\ d[Len(d)].L = L
      BY <1>2, <1>6, <1>11
    <3>2. d[Len(d)].allowhook <=> HooksOn(u.ci, h[Len(d)].level)
      BY <1>2, <3>1, PcallHooks
    <3> QED
      BY <1>6, <3>2
  <2>3. /\ v \in State /\ v.ci = u.ci /\ v.status = u.status /\ v.nny = u.nny /\ v.nCcalls = y.nCcalls
        /\ v.errfunc = y.errfunc /\ v.allowhook = u.allowhook /\ v.openupval = u.openupval
    BY <1>2, <2>1 DEF State
  <2>4. th' = With(L, v) /\ cstack' = Done(Front(d), "ok")
    BY <1>11 DEF Step, With
  <2> HIDE DEF v
  <2>5. Ended(t, y, q, v)
    BY <1>2, <1>3, <1>11, <2>1, <2>2, <2>3 DEF Ended
  <2>6. m - 1 \in 1..Len(c) /\ c[m - 1] = y /\ g[m - 1] = q
    BY <1>1, <1>2 DEF y, q
  <2>7. Owned(c, L, m - 1)
    <3>1. \A j \in (m - 1)..Len(c) : j = m - 1 \/ j = Len(c)
      BY <1>1
    <3> QED
      BY <1>2, <2>6, <3>1 DEF Owned
  <2>8. d = SubSeq(c, 1, m - 1)
    BY <1>1, FrontSeq DEF d
  <2> QED
    BY <1>11, <2>3, <2>4, <2>5, <2>6, <2>7, <2>8, PcallEnds
<1>12. CASE y.fn = "luaG_errormsg" /\ Throw(u, d, LUA_ERRRUN)
  BY <1>2, <1>6, <1>12, ThrowError
<1>13. CASE y.fn \notin {"C", "luaD_pcall", "luaG_errormsg"} /\ Step(u, d)
  <2>1. y.fn \in {"luaV_execute", "luaD_hook", "lua_resume"}
    <3>1. y \in CFrame
      BY <1>2, <1>6, TopIs
    <3> QED
      BY <1>13, <3>1, CFrameIs
  <2>2. q = [level |-> n - 1, nny |-> u.nny, nCcalls |-> u.nCcalls]
    BY <1>2, <1>3, <1>6, <1>13 DEF Past
  <2>3. y.fn # "lua_resume" => n - 1 > 0 /\ u.errfunc = Handler(u.ci, n - 1)
    <3> SUFFICES ASSUME y.fn # "lua_resume" PROVE n - 1 > 0 /\ u.errfunc = Handler(u.ci, n - 1)
      OBVIOUS
    <3>1. n - 1 > 0 /\ n - 1 \in Nat \ {0} /\ u.ci[n - 1].f \notin Protecting /\ (n - 1) + 1 = n
      BY <1>1, <1>2, <1>3, <1>8, <2>1 DEF IsLua, Protecting
    <3>2. Handler(u.ci, (n - 1) + 1) = Handler(u.ci, n - 1)
      BY <3>1, HandlerNext
    <3>3. Handler(u.ci, n) = Handler(u.ci, n - 1)
      <4>1. (n - 1) + 1 = n
        BY <3>1
      <4> QED
        BY <3>2, <4>1, Zenon
    <3>4. n - 1 > 0
      BY <3>1
    <3> QED
      BY <1>7, <3>3, <3>4, Zenon
  <2>4. y.fn = "luaV_execute" => ~u.ci[n - 1].hooked
    <3> SUFFICES ASSUME y.fn = "luaV_execute" PROVE ~u.ci[n - 1].hooked
      OBVIOUS
    <3>1. n - 1 \in 1..(n - 1)
      BY <1>1, <1>2, <1>3, <1>8
    <3>2. ~t.ci[q.level].hooked
      BY <1>2 DEF Calling
    <3> QED
      BY <1>2, <1>3, <3>1, <3>2
  <2>5. y.fn = "lua_resume" => u.errfunc = Handler(u.ci, (n - 1) + 1)
    <3>1. (n - 1) + 1 = n
      BY <1>1
    <3> QED
      BY <1>7, <3>1
  <2>6. Awake(y, u, q)
    BY <1>2, <2>1, <2>2, <2>3, <2>4, <2>5 DEF Awake
  <2>7. th' = With(L, u) /\ cstack' = d
    BY <1>13 DEF Step, With
  <2> QED
    BY <1>2, <1>6, <2>6, <2>7, ConcludeTop
<1> QED
  BY <1>5, <1>10, <1>11, <1>12, <1>13

-----------------------------------------------------------------------------
(* luaV_execute goes on with another activation *)

LEMMA CalledLevel ==
  ASSUME NEW y, NEW q, NEW x, NEW s, NEW a, Called(y, q, x, s, a), NEW z, z.nny = s.nny, z.nCcalls = s.nCcalls,
         NEW b, y.fn \in {"C", "luaV_execute"} => b[q.level] = a[q.level], b[q.level + 1].f = a[q.level + 1].f
  PROVE  Called(y, q, x, z, b)
<1>1. Counters(q, x.via, s) => Counters(q, x.via, z)
  BY DEF Counters
<1>2. Calling(y, q, x.via, a) => Calling(y, q, x.via, b)
  BY DEF Calling
<1> QED
  BY <1>1, <1>2 DEF Called

\* The frame on top may stand for the activations of u, with record z.
Replaces(c, g, t, u, z) ==
  /\ c[Len(c)].fn = "luaV_execute" /\ u.status = LUA_OK /\ z.level = Len(u.ci)
  /\ z.nny = g[Len(c)].nny /\ z.nCcalls = g[Len(c)].nCcalls
  /\ OfLua(c[Len(c) - 1], g[Len(c) - 1], c[Len(c)], z, u.ci)
  /\ \A i \in 1..g[Len(c) - 1].level : u.ci[i] = t.ci[i]
  /\ Awake(c[Len(c)], u, z)

LEMMA LuaLevel ==
  ASSUME NEW L, NEW t, NEW c, NEW g, Base(L, t, c, g), c # <<>>, c[Len(c)].L = L,
         NEW u, Sound(u), NEW z \in Past, Replaces(c, g, t, u, z), th' = With(L, u), cstack' = c
  PROVE  IInv'
<1> DEFINE m == Len(c)
           x == c[m]
           y == c[m - 1]
           q == g[m - 1]
           d == Front(c)
           h == Front(g)
<1>0. /\ x.fn = "luaV_execute" /\ u.status = LUA_OK /\ z.level = Len(u.ci)
      /\ z.nny = g[m].nny /\ z.nCcalls = g[m].nCcalls
      /\ OfLua(y, q, x, z, u.ci)
      /\ \A i \in 1..q.level : u.ci[i] = t.ci[i]
      /\ Awake(x, u, z)
  BY DEF Replaces
<1>1. c \in Seq(CFrame) /\ g \in Seq(Past) /\ Len(g) = m /\ m \in Nat
  BY BaseIs
<1>2. /\ x \in CFrame /\ g[m] \in Past /\ g[m].nCcalls < MaxCCalls + Extra
      /\ g[m].nny \in Nat /\ g[m].nCcalls \in Nat
      /\ \A i \in 1..(m - 1) : Pair(c, g, i, m)
  BY TopIs
<1>3. m > 1 /\ m - 1 \in 1..m /\ m - 1 \in 1..(m - 1)
  <2>1. m > 1
    BY <1>0, TopKind
  <2> QED
    BY <1>1, <2>1
<1>4. y.L = L /\ q.level < z.level /\ Called(y, q, x, z, u.ci)
  BY <1>0 DEF OfLua
<1>5. q \in Past /\ q.level \in Nat /\ q.nny \in Nat /\ q.nCcalls \in Nat
  BY <1>3, BaseAt
<1>6. z.level \in Nat /\ z.nny \in Nat /\ z.nCcalls \in Nat
  BY DEF Past
<1>7. x.fn = "luaV_execute" /\ x.L = L
  BY <1>0
<1>8. Pair(c, g, m - 1, m)
  BY <1>2, <1>3
<1>9. Kind(y, q, x, z, u.ci)
  BY <1>0 DEF Kind
<1>10. Fits(c, g, m - 1, L, t, u)
  <2>1. Agree(y.fn, t.ci, u.ci, q.level)
    BY <1>0, <1>5, AgreeSame
  <2>2. q.level <= Len(u.ci) /\ m - 1 > 0
    BY <1>0, <1>3, <1>4, <1>5, <1>6
  <2> QED
    BY <1>0, <1>4, <2>1, <2>2 DEF Fits
<1>11. /\ Base(L, u, d, h) /\ Len(d) = m - 1
       /\ \A j \in 1..(m - 1) : d[j] = c[j] /\ h[j] = g[j]
       /\ Append(d, x) = c
  <2>1. Below(c, g, L, t, u)
    BY <1>10 DEF Below
  <2>2. Base(L, u, Front(c), Front(g))
    BY <2>1, BaseDrop
  <2> QED
    BY <2>2, DropIs
<1>12. d[Len(d)] = y /\ h[Len(d)] = q /\ d # <<>> /\ d \in Seq(CFrame) /\ h \in Seq(Past) /\ Len(h) = m - 1
  <2>1. d[Len(d)] = y /\ h[Len(d)] = q /\ d # <<>>
    BY <1>3, <1>11
  <2>2. d \in Seq(CFrame) /\ h \in Seq(Past) /\ Len(h) = Len(d)
    BY <1>11, BaseIs
  <2> QED
    BY <1>11, <2>1, <2>2
<1> HIDE DEF y, q, x, d, h
<1>13. q.nny > 0 \/ y.fn = "luaD_pcall" => z.nny > 0
  <2>1. y.fn = "luaD_pcall" => z.nny > 0
    BY <1>0, <1>4, <1>7, <1>8 DEF Pair, y, x
  <2>2. q.nny > 0 => z.nny > 0
    BY <1>4, <1>5, <1>6 DEF Called, Counters
  <2> QED
    BY <2>1, <2>2
<1>14. q.nCcalls + (IF Counted(x) THEN 1 ELSE 0) + Slack(x) <= z.nCcalls + Slack(y)
  <2>1. Slack(x) = 0 /\ (Counted(x) <=> x.via # "precall")
    BY <1>7 DEF Slack, Counted
  <2>2. CASE y.fn = "luaG_errormsg"
    <3>1. Slack(y) = 1 /\ (IF Counted(x) THEN 1 ELSE 0) \in {0, 1}
      BY <2>2 DEF Slack
    <3>2. q.nCcalls <= z.nCcalls
      BY <1>4, <2>2 DEF Called
    <3>3. \A k \in {0, 1} : q.nCcalls + k + 0 <= z.nCcalls + 1
      BY <1>5, <1>6, <3>2
    <3> QED
      BY <2>1, <3>1, <3>3
  <2>3. CASE y.fn # "luaG_errormsg"
    <3>1. Slack(y) = 0
      BY <2>3 DEF Slack
    <3>2. z.nCcalls = q.nCcalls + (IF Counted(x) THEN 1 ELSE 0)
      BY <1>4, <2>1, <2>3 DEF Called, Counters
    <3>3. (IF Counted(x) THEN 1 ELSE 0) \in {0, 1}
      OBVIOUS
    <3>4. \A k \in {0, 1} : z.nCcalls = q.nCcalls + k => q.nCcalls + k + 0 <= z.nCcalls + 0
      BY <1>5, <1>6
    <3> QED
      BY <2>1, <3>1, <3>2, <3>3, <3>4
  <2> QED
    BY <2>2, <2>3
<1>15. Base(L, u, Append(d, x), Append(h, z))
  <2>1. z.level <= Len(u.ci) /\ z.nCcalls < MaxCCalls + Extra /\ z.level >= q.level /\ x.fn # "lua_resume"
    BY <1>0, <1>2, <1>4, <1>5, <1>6, <1>7
  <2>2. x \in CFrame
    BY <1>2 DEF x
  <2> QED
    BY <1>0, <1>4, <1>7, <1>9, <1>11, <1>12, <1>13, <1>14, <2>1, <2>2, BasePush
<1>16. Append(h, z)[m] = z
  <2>1. Append(h, z)[Len(h) + 1] = z
    BY <1>12, AppendSeq
  <2>2. Len(h) + 1 = m
    BY <1>1, <1>12
  <2> QED
    BY <2>1, <2>2
<1>17. Base(L, u, c, Append(h, z))
  BY <1>11, <1>15
<1>18. Awake(c[Len(c)], u, Append(h, z)[Len(c)])
  BY <1>0, <1>16 DEF x
<1> QED
  BY <1>17, <1>18, ConcludeTop

-----------------------------------------------------------------------------
(* The actions.  A thread is ready to take its next step. *)

Ready(L, t, c, g) ==
  Base(L, t, c, g) /\ Run = L /\ c # <<>> /\ c[Len(c)].L = L /\ Awake(c[Len(c)], t, g[Len(c)])

LEMMA ReadyIs ==
  ASSUME NEW L, NEW t, NEW c, NEW g, Ready(L, t, c, g)
  PROVE  /\ Base(L, t, c, g) /\ Run = L /\ c # <<>> /\ c[Len(c)].L = L /\ Awake(c[Len(c)], t, g[Len(c)])
         /\ t \in State /\ Sound(t) /\ L \in Thread /\ Len(t.ci) \in Nat /\ t.ci \in Seq(Info) /\ t.status = LUA_OK
         /\ g[Len(c)].level = Len(t.ci) /\ g[Len(c)].nny = t.nny /\ g[Len(c)].nCcalls = t.nCcalls
         /\ (t.allowhook <=> HooksOn(t.ci, Len(t.ci)))
         /\ c[Len(c)].fn # "lua_resume" => Len(t.ci) > 0 /\ t.errfunc = Handler(t.ci, Len(t.ci))
         /\ c[Len(c)].fn = "luaV_execute" => ~t.ci[Len(t.ci)].hooked
         /\ c[Len(c)].fn \in {"luaV_execute", "luaD_hook"} => IsLua(t.ci[Len(t.ci)])
         /\ t.nny \in Nat /\ t.nCcalls \in Nat
<1>1. Base(L, t, c, g) /\ Run = L /\ c # <<>> /\ c[Len(c)].L = L /\ Awake(c[Len(c)], t, g[Len(c)])
  BY DEF Ready
<1>2. t \in State /\ Sound(t) /\ L \in Thread /\ Len(t.ci) \in Nat /\ t.ci \in Seq(Info)
  BY <1>1, BaseIs
<1>3. t.status = LUA_OK
  BY <1>1, TopIs
<1>4. /\ g[Len(c)].level = Len(t.ci) /\ g[Len(c)].nny = t.nny /\ g[Len(c)].nCcalls = t.nCcalls
      /\ (t.allowhook <=> HooksOn(t.ci, Len(t.ci)))
      /\ c[Len(c)].fn # "lua_resume" => Len(t.ci) > 0 /\ t.errfunc = Handler(t.ci, Len(t.ci))
      /\ c[Len(c)].fn = "luaV_execute" => ~t.ci[Len(t.ci)].hooked
  BY <1>1 DEF Awake
<1>5. c[Len(c)].fn \in {"luaV_execute", "luaD_hook"} => IsLua(t.ci[Len(t.ci)])
  <2>1. c[Len(c)].fn \in {"luaV_execute", "luaD_hook"} => IsLua(t.ci[g[Len(c)].level])
    BY <1>1, CallerIs
  <2> QED
    BY <1>4, <2>1
<1>6. t.nny \in Nat /\ t.nCcalls \in Nat
  BY <1>2 DEF State
<1> QED
  BY <1>1, <1>2, <1>3, <1>4, <1>5, <1>6

\* But a protected call, everything leaves the handler that its own call has found.
LEMMA StandsIs ==
  ASSUME NEW L, NEW t, NEW c, NEW g, Ready(L, t, c, g), c[Len(c)].fn # "lua_resume",
         t.ci[Len(t.ci)].f \notin Protecting
  PROVE  Stands(t, c, g)
<1>1. /\ Len(t.ci) \in Nat \ {0} /\ t.errfunc = Handler(t.ci, Len(t.ci)) /\ g[Len(c)].level = Len(t.ci)
      /\ (t.allowhook <=> HooksOn(t.ci, Len(t.ci)))
  <2>1. /\ Len(t.ci) \in Nat /\ Len(t.ci) > 0 /\ t.errfunc = Handler(t.ci, Len(t.ci)) /\ g[Len(c)].level = Len(t.ci)
        /\ (t.allowhook <=> HooksOn(t.ci, Len(t.ci)))
    BY ReadyIs
  <2> QED
    BY <2>1
<1>2. Handler(t.ci, Len(t.ci) + 1) = Handler(t.ci, Len(t.ci))
  BY <1>1, HandlerNext
<1> QED
  BY <1>1, <1>2 DEF Stands

LEMMA ErrorStep ==
  ASSUME NEW L, NEW t, NEW c, NEW g, Ready(L, t, c, g), c[Len(c)].fn # "lua_resume",
         t.ci[Len(t.ci)].f \notin Protecting, RunError(t, c)
  PROVE  IInv'
<1>1. Stands(t, c, g)
  BY StandsIs
<1>2. Base(L, t, c, g) /\ Run = L /\ c # <<>> /\ c[Len(c)].L = L
  BY ReadyIs
<1>3. t.nCcalls >= g[Len(c)].nCcalls
  <2>1. g[Len(c)].nCcalls = t.nCcalls /\ t.nCcalls \in Nat
    BY ReadyIs
  <2> QED
    BY <2>1
<1> QED
  BY <1>1, <1>2, <1>3, RunErrorStep

LEMMA CallsStep ==
  ASSUME NEW L, NEW t, NEW c, NEW g, Ready(L, t, c, g), c[Len(c)].fn # "lua_resume",
         t.ci[Len(t.ci)].f \notin Protecting, NEW f \in Kinds, NEW via \in {"call", "callnoyield"},
         MayCall(t, c[Len(c)], g[Len(c)], via), Call(t, c, f, via)
  PROVE  IInv'
<1>1. Stands(t, c, g)
  BY StandsIs
<1>2. /\ Base(L, t, c, g) /\ Run = L /\ c # <<>> /\ c[Len(c)].L = L
      /\ t.nny = g[Len(c)].nny /\ t.nCcalls = g[Len(c)].nCcalls
  BY ReadyIs
<1> QED
  BY <1>1, <1>2, CallStep

-----------------------------------------------------------------------------
(* A Lua function *)

\* Only the open upvalues change.
LEMMA LocalReady ==
  ASSUME NEW L, NEW t, NEW c, NEW g, Ready(L, t, c, g), c[Len(c)].fn # "lua_resume",
         NEW o \in SUBSET Nat, \A l \in o : l \in t.openupval \/ (l = Len(t.ci) /\ IsLua(t.ci[Len(t.ci)]))
  PROVE  Ready(L, [t EXCEPT !.openupval = o], c, g)
<1> DEFINE n == Len(t.ci)
           m == Len(c)
           u == [t EXCEPT !.openupval = o]
<1>1. /\ Base(L, t, c, g) /\ Run = L /\ c # <<>> /\ c[m].L = L /\ Awake(c[m], t, g[m])
      /\ t \in State /\ Sound(t) /\ n \in Nat /\ t.ci \in Seq(Info) /\ t.status = LUA_OK /\ n > 0 /\ g[m].level = n
  BY ReadyIs
<1>2. /\ u \in State /\ u.ci = t.ci /\ u.status = t.status /\ u.nny = t.nny /\ u.nCcalls = t.nCcalls
      /\ u.errfunc = t.errfunc /\ u.allowhook = t.allowhook /\ u.openupval = o
  BY <1>1 DEF State
<1> HIDE DEF u
<1>4. Sound(u)
  <2>1. t.errfunc <= n /\ Saved(t.ci, n)
    BY <1>1 DEF Sound
  <2>2. u.errfunc <= n /\ Saved(u.ci, n)
    BY <1>2, <2>1
  <2>3. \A l \in u.openupval : l \in t.openupval \/ (l = n /\ IsLua(t.ci[n]))
    BY <1>2
  <2> QED
    BY <1>1, <1>2, <2>2, <2>3, SoundTop
<1>5. Base(L, u, c, g)
  <2>1. Agree(c[Len(c)].fn, t.ci, u.ci, g[Len(c)].level) /\ g[Len(c)].level <= Len(u.ci)
    BY <1>1, <1>2, AgreeSame
  <2> QED
    BY <1>1, <1>2, <1>4, <2>1, BaseSet
<1>6. Awake(c[Len(c)], u, g[Len(c)])
  BY <1>1, <1>2 DEF Awake
<1> QED
  BY <1>1, <1>5, <1>6 DEF Ready, u

LEMMA LocalStep ==
  ASSUME NEW L, NEW t, NEW c, NEW g, Ready(L, t, c, g), c[Len(c)].fn # "lua_resume",
         NEW o \in SUBSET Nat, \A l \in o : l \in t.openupval \/ (l = Len(t.ci) /\ IsLua(t.ci[Len(t.ci)])),
         Step([t EXCEPT !.openupval = o], c)
  PROVE  IInv'
<1> DEFINE u == [t EXCEPT !.openupval = o]
<1>1. Ready(L, u, c, g)
  BY LocalReady
<1>2. Run = L
  BY ReadyIs
<1>3. th' = With(L, u) /\ cstack' = c
  BY <1>2 DEF Step, With
<1> HIDE DEF u
<1> QED
  BY <1>1, <1>3, ConcludeTop DEF Ready

LEMMA CaptureStep ==
  ASSUME NEW L, NEW t, NEW c, NEW g, Ready(L, t, c, g), c[Len(c)].fn = "luaV_execute",
         Step([t EXCEPT !.openupval = @ \cup {Len(t.ci)}], c)
  PROVE  IInv'
<1> DEFINE o == t.openupval \cup {Len(t.ci)}
<1>1. IsLua(t.ci[Len(t.ci)]) /\ t \in State /\ Len(t.ci) \in Nat
  BY ReadyIs
<1>2. o \in SUBSET Nat
  BY <1>1 DEF State
<1>3. \A l \in o : l \in t.openupval \/ (l = Len(t.ci) /\ IsLua(t.ci[Len(t.ci)]))
  BY <1>1
<1>4. Step([t EXCEPT !.openupval = o], c)
  OBVIOUS
<1> HIDE DEF o
<1> QED
  BY <1>2, <1>3, <1>4, LocalStep

LEMMA OpTailCallStep ==
  ASSUME NEW L, NEW t, NEW c, NEW g, Ready(L, t, c, g), c[Len(c)].fn = "luaV_execute",
         Step(Closed(t, Len(t.ci) - 1), c)
  PROVE  IInv'
<1> DEFINE o == {l \in t.openupval : l <= Len(t.ci) - 1}
<1>1. t \in State
  BY ReadyIs
<1>2. o \in SUBSET Nat
  BY <1>1 DEF State
<1>3. \A l \in o : l \in t.openupval
  OBVIOUS
<1>4. Step([t EXCEPT !.openupval = o], c)
  BY DEF Closed
<1> HIDE DEF o
<1> QED
  BY <1>2, <1>3, <1>4, LocalStep

LEMMA CallTMStep ==
  ASSUME NEW L, NEW t, NEW c, NEW g, Ready(L, t, c, g), c[Len(c)].fn = "luaV_execute",
         NEW f \in Kinds, Call(t, c, f, "call")
  PROVE  IInv'
<1>1. t.ci[Len(t.ci)].f \notin Protecting
  <2>1. IsLua(t.ci[Len(t.ci)])
    BY ReadyIs
  <2> QED
    BY <2>1 DEF IsLua, Protecting
<1>2. MayCall(t, c[Len(c)], g[Len(c)], "call")
  <2>1. ~t.ci[g[Len(c)].level].hooked
    <3>1. ~t.ci[Len(t.ci)].hooked /\ g[Len(c)].level = Len(t.ci)
      BY ReadyIs
    <3> QED
      BY <3>1
  <2> QED
    BY <2>1 DEF MayCall, Calling
<1> QED
  BY <1>1, <1>2, CallsStep

LEMMA ErrorIsStep ==
  ASSUME NEW L, NEW t, NEW c, NEW g, Ready(L, t, c, g), c[Len(c)].fn \in {"luaV_execute", "luaD_hook"}, RunError(t, c)
  PROVE  IInv'
<1>1. t.ci[Len(t.ci)].f \notin Protecting
  <2>1. IsLua(t.ci[Len(t.ci)])
    BY ReadyIs
  <2> QED
    BY <2>1 DEF IsLua, Protecting
<1> QED
  BY <1>1, ErrorStep

LEMMA OpCallC ==
  ASSUME NEW L, NEW t, NEW c, NEW g, Ready(L, t, c, g), c[Len(c)].fn = "luaV_execute",
         NEW f \in Kinds, f # "lua", Enter(t, c, f, "precall")
  PROVE  IInv'
<1>1. t.ci[Len(t.ci)].f \notin Protecting
  <2>1. IsLua(t.ci[Len(t.ci)])
    BY ReadyIs
  <2> QED
    BY <2>1 DEF IsLua, Protecting
<1>2. /\ Base(L, t, c, g) /\ Run = L /\ c # <<>> /\ c[Len(c)].L = L
      /\ t.nny = g[Len(c)].nny /\ t.nCcalls = g[Len(c)].nCcalls /\ t \in State /\ t.nny \in Nat /\ t.nCcalls \in Nat
      /\ ~t.ci[Len(t.ci)].hooked /\ g[Len(c)].level = Len(t.ci)
  BY ReadyIs
<1>3. MayCall(t, c[Len(c)], g[Len(c)], "precall")
  BY <1>2 DEF MayCall, Calling
<1>4. g[Len(c)].nCcalls < MaxCCalls + Extra
  BY <1>2, TopIs
<1>5. Stands(t, c, g)
  BY <1>1, StandsIs
<1>6. "precall" \in Via /\ f \in Kinds \cup {"handler"} /\ f \notin {"lua", "handler"}
  BY DEF Via, Kinds
<1>7. Enters(L, t, c, g, f, "precall")
  <2>1. t.nCcalls = t.nCcalls + (IF "precall" # "precall" THEN 1 ELSE 0)
    BY <1>2
  <2>2. t.nny = t.nny + (IF "precall" = "callnoyield" THEN 1 ELSE 0)
    BY <1>2
  <2>3. t.nCcalls < MaxCCalls + Extra
    BY <1>2, <1>4
  <2> QED
    BY <1>2, <1>3, <1>5, <1>6, <2>1, <2>2, <2>3, EntersIs
<1> QED
  BY <1>2, <1>6, <1>7, EnterStep

LEMMA OpCallLua ==
  ASSUME NEW L, NEW t, NEW c, NEW g, Ready(L, t, c, g), c[Len(c)].fn = "luaV_execute", Enter(t, c, "lua", "precall")
  PROVE  IInv'
<1> DEFINE n == Len(t.ci)
           m == Len(c)
           x == c[m]
           s == g[m]
           y == c[m - 1]
           q == g[m - 1]
           e == CI("lua", FALSE)
           ci == Append(t.ci, e)
           u == [t EXCEPT !.ci = ci]
           z == Snap(u, n + 1)
<1>1. /\ Base(L, t, c, g) /\ Run = L /\ c # <<>> /\ x.L = L
      /\ t \in State /\ Sound(t) /\ n \in Nat /\ n > 0 /\ t.ci \in Seq(Info) /\ t.status = LUA_OK
      /\ s.level = n /\ s.nny = t.nny /\ s.nCcalls = t.nCcalls
      /\ (t.allowhook <=> HooksOn(t.ci, n)) /\ t.errfunc = Handler(t.ci, n) /\ ~t.ci[n].hooked /\ IsLua(t.ci[n])
      /\ t.nny \in Nat /\ t.nCcalls \in Nat
  BY ReadyIs
<1>2. e \in Info /\ e.f = "lua" /\ ~e.fresh /\ ~e.ypcall /\ ~e.hooked
  BY DEF CI, Info, Kinds
<1>3. th' = With(L, u) /\ cstack' = c
  <2>1. u = [t EXCEPT !.ci = Append(@, CI("lua", "precall" # "precall"))]
    OBVIOUS
  <2> HIDE DEF u
  <2>2. Step(u, c)
    BY <2>1 DEF Enter
  <2> QED
    BY <1>1, <2>2 DEF Step, With
<1> HIDE DEF e
<1>4. ci \in Seq(Info) /\ Len(ci) = n + 1 /\ ci[n + 1] = e /\ \A i \in 1..n : ci[i] = t.ci[i]
  BY <1>1, <1>2, AppendSeq
<1> HIDE DEF ci
<1>5. /\ u \in State /\ u.ci = ci /\ u.status = t.status /\ u.nny = t.nny /\ u.nCcalls = t.nCcalls
      /\ u.errfunc = t.errfunc /\ u.allowhook = t.allowhook /\ u.openupval = t.openupval
  BY <1>1, <1>4 DEF State
<1> HIDE DEF u
<1>6. z \in Past /\ z.level = n + 1 /\ z.nny = t.nny /\ z.nCcalls = t.nCcalls
  BY <1>1, <1>5 DEF Snap, Past
<1>7. m > 1 /\ OfLua(y, q, x, s, t.ci)
  BY <1>1, TopKind
<1>8. q \in Past /\ q.level \in Nat
  <2>1. m - 1 \in 1..m
    <3>1. m \in Nat
      BY <1>1, BaseIs
    <3> QED
      BY <1>7, <3>1
  <2> QED
    BY <1>1, <2>1, BaseAt
<1>9. s \in Past
  BY <1>1, TopIs
<1>10. y.fn \in {"C", "luaV_execute"} => q.level > 0
  <2>1. m - 1 \in 1..m /\ FrameAt(With(L, t), c, g, m - 1) /\ c \in Seq(CFrame) /\ g \in Seq(Past) /\ Len(g) = m
    <3>1. c \in Seq(CFrame) /\ g \in Seq(Past) /\ Len(g) = m /\ m \in Nat
      BY <1>1, BaseIs
    <3>2. m - 1 \in 1..m
      BY <1>7, <3>1
    <3> QED
      BY <1>1, <3>1, <3>2, BaseAt
  <2> HIDE DEF m
  <2>2. m = Len(c)
    BY DEF m
  <2> QED
    BY <2>1, <2>2, FrameRises
<1> HIDE DEF x, s, y, q, z
<1>11. x.fn = "luaV_execute"
  BY DEF x
<1>12. Sound(u)
  <2>1. t.errfunc <= n /\ t.errfunc \in Nat
    BY <1>1, HandlerBound
  <2>2. u.errfunc <= Len(u.ci)
    BY <1>1, <1>4, <1>5, <2>1
  <2> QED
    BY <1>1, <1>2, <1>4, <1>5, <2>2, SoundGrown
<1>13. Barrier(L, z, ci)
  <2>1. MayCall(t, x, s, "precall")
    BY <1>1, <1>11 DEF MayCall, Calling
  <2>2. Barrier(L, s, t.ci)
    BY <1>1, <1>7 DEF OfLua
  <2>3. z.nny = t.nny + (IF "precall" = "callnoyield" THEN 1 ELSE 0) /\ "precall" \in Via
    BY <1>1, <1>6 DEF Via
  <2>4. ci[Len(t.ci) + 1].f # "handler"
    BY <1>2, <1>4
  <2> QED
    BY <1>1, <1>4, <1>6, <1>9, <1>11, <2>1, <2>2, <2>3, <2>4, BarrierGrown
<1>14. OfLua(y, q, x, z, u.ci)
  <2>1. /\ y.L = x.L /\ q.level < n /\ t.ci[q.level + 1].fresh
        /\ \A k \in (q.level + 1)..n : IsLua(t.ci[k])
        /\ \A k \in (q.level + 2)..n : ~t.ci[k].fresh /\ t.ci[k].f = "lua"
        /\ \A k \in (q.level + 1)..(n - 1) : ~t.ci[k].hooked
        /\ Called(y, q, x, s, t.ci)
    BY <1>1, <1>7 DEF OfLua
  <2>2. q.level < n + 1 /\ q.level + 1 \in 1..n /\ n \in 1..n
    BY <1>1, <1>8, <2>1
  <2>3. \A k \in (q.level + 1)..(n + 1) : k = n + 1 \/ (k \in (q.level + 1)..n /\ k \in 1..n)
    BY <1>1, <1>8
  <2>4. \A k \in (q.level + 2)..(n + 1) : k = n + 1 \/ (k \in (q.level + 2)..n /\ k \in 1..n)
    <3>1. n \in Nat
      BY <1>1
    <3> HIDE DEF n
    <3> QED
      BY <1>8, <3>1
  <2>5. \A k \in (q.level + 1)..((n + 1) - 1) : k \in 1..n /\ (k = n \/ k \in (q.level + 1)..(n - 1))
    BY <1>1, <1>8
  <2>6. ci[q.level + 1].fresh
    BY <1>4, <2>1, <2>2
  <2>7. \A k \in (q.level + 1)..(n + 1) : IsLua(ci[k])
    BY <1>2, <1>4, <2>1, <2>3 DEF IsLua
  <2>8. \A k \in (q.level + 2)..(n + 1) : ~ci[k].fresh /\ ci[k].f = "lua"
    BY <1>2, <1>4, <2>1, <2>4
  <2>9. \A k \in (q.level + 1)..((n + 1) - 1) : ~ci[k].hooked
    BY <1>1, <1>4, <2>1, <2>5
  <2>10. Called(y, q, x, z, ci)
    <3>1. y.fn \in {"C", "luaV_execute"} => ci[q.level] = t.ci[q.level]
      <4>1. y.fn \in {"C", "luaV_execute"} => q.level \in 1..n
        BY <1>1, <1>8, <1>10, <2>1
      <4> QED
        BY <1>4, <4>1
    <3>2. ci[q.level + 1].f = t.ci[q.level + 1].f /\ z.nny = s.nny /\ z.nCcalls = s.nCcalls
      BY <1>1, <1>4, <1>6, <2>2
    <3> QED
      BY <2>1, <3>1, <3>2, CalledLevel
  <2>11. x.L = L /\ z.level = n + 1 /\ u.ci = ci
    BY <1>1, <1>5, <1>6
  <2> QED
    BY <1>11, <1>13, <2>1, <2>2, <2>6, <2>7, <2>8, <2>9, <2>10, <2>11 DEF OfLua
<1>15. Awake(x, u, z)
  <2>1. z = [level |-> n + 1, nny |-> u.nny, nCcalls |-> u.nCcalls]
    BY <1>6, <1>5 DEF Past
  <2>2. HooksOn(ci, n + 1) <=> HooksOn(t.ci, n)
    BY <1>1, <1>2, <1>4, HooksNext
  <2>3. Handler(ci, n + 1) = Handler(t.ci, n)
    <3>1. \A i \in 1..((n + 1) - 1) : i \in 1..n
      BY <1>1
    <3>2. Handler(t.ci, n + 1) = Handler(ci, n + 1)
      BY <1>4, <3>1, HandlerSame
    <3>3. n \in Nat \ {0} /\ t.ci[n].f \notin Protecting
      BY <1>1 DEF IsLua, Protecting
    <3>4. Handler(t.ci, n + 1) = Handler(t.ci, n)
      BY <3>3, HandlerNext
    <3> QED
      BY <3>2, <3>4
  <2>4. Len(u.ci) = n + 1 /\ n + 1 > 0 /\ ~u.ci[n + 1].hooked /\ u.ci = ci
    BY <1>1, <1>2, <1>4, <1>5
  <2>5. (u.allowhook <=> HooksOn(u.ci, n + 1)) /\ u.errfunc = Handler(u.ci, n + 1)
    BY <1>1, <1>5, <2>2, <2>3
  <2> QED
    BY <1>11, <2>1, <2>4, <2>5 DEF Awake
<1>16. \A i \in 1..q.level : u.ci[i] = t.ci[i]
  <2>1. q.level < n
    BY <1>1, <1>7 DEF OfLua
  <2>2. \A i \in 1..q.level : i \in 1..n
    BY <1>1, <1>8, <2>1
  <2> QED
    BY <1>4, <1>5, <2>2
<1>17. Replaces(c, g, t, u, z)
  <2>1. z.level = Len(u.ci) /\ z.nny = s.nny /\ z.nCcalls = s.nCcalls /\ u.status = LUA_OK
    BY <1>1, <1>4, <1>5, <1>6
  <2> QED
    BY <1>11, <1>14, <1>15, <1>16, <2>1 DEF x, s, y, q, Replaces
<1>18. c[Len(c)].L = L
  BY <1>1 DEF x
<1> QED
  BY <1>1, <1>3, <1>6, <1>12, <1>17, <1>18, LuaLevel

LEMMA OpCallStep ==
  ASSUME NEW L, NEW t, NEW c, NEW g, Ready(L, t, c, g), c[Len(c)].fn = "luaV_execute",
         NEW f \in Kinds, Enter(t, c, f, "precall")
  PROVE  IInv'
<1>1. CASE f = "lua"
  BY <1>1, OpCallLua
<1>2. CASE f # "lua"
  BY <1>2, OpCallC
<1> QED
  BY <1>1, <1>2

\* OP_RETURN, when the open upvalues of the function have been closed.
LEMMA OpReturnFresh ==
  ASSUME NEW L, NEW t, NEW c, NEW g, Ready(L, t, c, g), c[Len(c)].fn = "luaV_execute", Len(t.ci) \notin t.openupval,
         t.ci[Len(t.ci)].fresh, Return(t, Front(c), c[Len(c)].via)
  PROVE  IInv'
<1> DEFINE n == Len(t.ci)
           m == Len(c)
           q == g[m - 1]
<1>1. /\ Base(L, t, c, g) /\ Run = L /\ c # <<>> /\ c[m].L = L /\ n \in Nat /\ n > 0
      /\ g[m].level = n /\ g[m].nny = t.nny /\ g[m].nCcalls = t.nCcalls
      /\ (t.allowhook <=> HooksOn(t.ci, n)) /\ t.errfunc = Handler(t.ci, n) /\ ~t.ci[n].hooked
  BY ReadyIs
<1>2. m > 1 /\ OfLua(c[m - 1], q, c[m], g[m], t.ci)
  BY <1>1, TopKind
<1>3. q.level \in Nat
  <2>1. m - 1 \in 1..m
    <3>1. m \in Nat
      BY <1>1, BaseIs
    <3> QED
      BY <1>2, <3>1
  <2> QED
    BY <1>1, <2>1, BaseAt
<1>4. q.level = n - 1 /\ Called(c[m - 1], q, c[m], g[m], t.ci)
  <2>1. /\ q.level < n /\ Called(c[m - 1], q, c[m], g[m], t.ci)
        /\ \A k \in (q.level + 2)..n : ~t.ci[k].fresh
    BY <1>1, <1>2 DEF OfLua
  <2>2. n \notin (q.level + 2)..n
    BY <2>1
  <2> HIDE DEF n, q
  <2> QED
    BY <1>1, <1>3, <2>1, <2>2
<1>5. Ends(t, c, g)
  BY <1>1, <1>4 DEF Ends
<1> QED
  BY <1>1, <1>5, ReturnStep

LEMMA OpReturnLua ==
  ASSUME NEW L, NEW t, NEW c, NEW g, Ready(L, t, c, g), c[Len(c)].fn = "luaV_execute", Len(t.ci) \notin t.openupval,
         ~t.ci[Len(t.ci)].fresh, Return(t, c, "precall")
  PROVE  IInv'
<1> DEFINE n == Len(t.ci)
           m == Len(c)
           x == c[m]
           s == g[m]
           y == c[m - 1]
           q == g[m - 1]
           u == Popped(t, "precall")
           z == Snap(u, n - 1)
<1>1. /\ Base(L, t, c, g) /\ Run = L /\ c # <<>> /\ x.L = L
      /\ t \in State /\ Sound(t) /\ n \in Nat /\ n > 0 /\ t.ci \in Seq(Info) /\ t.status = LUA_OK
      /\ s.level = n /\ s.nny = t.nny /\ s.nCcalls = t.nCcalls
      /\ (t.allowhook <=> HooksOn(t.ci, n)) /\ t.errfunc = Handler(t.ci, n) /\ ~t.ci[n].hooked /\ IsLua(t.ci[n])
      /\ t.nny \in Nat /\ t.nCcalls \in Nat
  BY ReadyIs
<1>2. /\ u \in State /\ u.ci \in Seq(Info) /\ Len(u.ci) = n - 1
      /\ (\A i \in 1..(n - 1) : u.ci[i] = t.ci[i])
      /\ t.nCcalls = u.nCcalls /\ t.nny = u.nny
      /\ u.errfunc = t.errfunc /\ u.allowhook = t.allowhook /\ u.openupval = t.openupval /\ u.status = t.status
  <2>1. t.ci # <<>> /\ "precall" \in Via
    BY <1>1 DEF Via
  <2>2. /\ Popped(t, "precall") \in State /\ Popped(t, "precall").ci \in Seq(Info)
        /\ Len(Popped(t, "precall").ci) = Len(t.ci) - 1
        /\ \A i \in 1..(Len(t.ci) - 1) : Popped(t, "precall").ci[i] = t.ci[i]
        /\ t.nCcalls = Popped(t, "precall").nCcalls + (IF "precall" # "precall" THEN 1 ELSE 0)
        /\ t.nny = Popped(t, "precall").nny + (IF "precall" = "callnoyield" THEN 1 ELSE 0)
        /\ Popped(t, "precall").errfunc = t.errfunc /\ Popped(t, "precall").allowhook = t.allowhook
        /\ Popped(t, "precall").openupval = t.openupval /\ Popped(t, "precall").status = t.status
    BY <1>1, <2>1, PoppedIs
  <2>3. u.nny \in Nat /\ u.nCcalls \in Nat
    BY <2>2 DEF State
  <2> HIDE DEF u
  <2>4. t.nCcalls = u.nCcalls + 0 /\ t.nny = u.nny + 0
    BY <2>2 DEF u
  <2>5. t.nCcalls = u.nCcalls /\ t.nny = u.nny
    BY <2>3, <2>4
  <2> QED
    BY <2>2, <2>5 DEF u
<1>3. Last(c) = x
  <2>1. c \in Seq(CFrame)
    BY <1>1, BaseIs
  <2> QED
    BY <1>1, <2>1, FrontSeq
<1>4. Step(u, c)
  BY <1>3, ReturnIs
<1>5. th' = With(L, u) /\ cstack' = c
  BY <1>1, <1>4 DEF Step, With
<1> HIDE DEF u
<1>6. m > 1 /\ OfLua(y, q, x, s, t.ci)
  BY <1>1, TopKind
<1>7. q \in Past /\ q.level \in Nat
  <2>1. m - 1 \in 1..m
    <3>1. m \in Nat
      BY <1>1, BaseIs
    <3> QED
      BY <1>6, <3>1
  <2> QED
    BY <1>1, <2>1, BaseAt
<1>8. y.fn \in {"C", "luaV_execute"} => q.level > 0
  <2>1. m - 1 \in 1..m /\ FrameAt(With(L, t), c, g, m - 1) /\ c \in Seq(CFrame) /\ g \in Seq(Past) /\ Len(g) = m
    <3>1. c \in Seq(CFrame) /\ g \in Seq(Past) /\ Len(g) = m /\ m \in Nat
      BY <1>1, BaseIs
    <3>2. m - 1 \in 1..m
      BY <1>6, <3>1
    <3> QED
      BY <1>1, <3>1, <3>2, BaseAt
  <2> HIDE DEF m
  <2>2. m = Len(c)
    BY DEF m
  <2> QED
    BY <2>1, <2>2, FrameRises
<1> HIDE DEF x, s, y, q
<1>9. x.fn = "luaV_execute"
  BY DEF x
<1>10. /\ y.L = x.L /\ q.level < n /\ t.ci[q.level + 1].fresh
       /\ \A k \in (q.level + 1)..n : IsLua(t.ci[k])
       /\ \A k \in (q.level + 2)..n : ~t.ci[k].fresh /\ t.ci[k].f = "lua"
       /\ \A k \in (q.level + 1)..(n - 1) : ~t.ci[k].hooked
       /\ Called(y, q, x, s, t.ci) /\ Barrier(L, s, t.ci)
  BY <1>1, <1>6 DEF OfLua
<1>11. ~t.ci[n].fresh
  OBVIOUS
<1> HIDE DEF n
<1>12. q.level < n - 1 /\ n - 1 \in 1..(n - 1) /\ q.level + 1 \in 1..(n - 1) /\ n \in (q.level + 2)..n
       /\ n - 1 \in (q.level + 1)..n /\ n - 1 \in (q.level + 1)..(n - 1) /\ n - 1 \in Nat \ {0} /\ (n - 1) + 1 = n
  <2>1. q.level + 1 # n
    BY <1>10, <1>11
  <2>2. q.level \in Nat /\ n \in Nat /\ q.level < n
    BY <1>1, <1>7, <1>10
  <2> PICK a \in Nat : a = q.level
    BY <2>2
  <2>3. a + 1 # n /\ a < n
    BY <2>1, <2>2
  <2>4. a < n - 1 /\ n - 1 \in 1..(n - 1) /\ a + 1 \in 1..(n - 1) /\ n \in (a + 2)..n
    BY <2>2, <2>3
  <2>5. n - 1 \in (a + 1)..n /\ n - 1 \in (a + 1)..(n - 1) /\ n - 1 \in Nat \ {0} /\ (n - 1) + 1 = n
    BY <2>2, <2>3
  <2> QED
    BY <2>4, <2>5
<1>13. z \in Past /\ z.level = n - 1 /\ z.nny = s.nny /\ z.nCcalls = s.nCcalls
       /\ z = [level |-> n - 1, nny |-> u.nny, nCcalls |-> u.nCcalls]
  BY <1>1, <1>2, <1>12 DEF Snap, Past
<1> HIDE DEF z
<1>14. IsLua(u.ci[n - 1]) /\ ~u.ci[n - 1].hooked /\ t.ci[n].f = "lua"
  BY <1>2, <1>10, <1>12
<1>15. Sound(u)
  <2>1. u.errfunc <= n - 1
    <3>1. t.errfunc \in Nat /\ t.errfunc < n
      BY <1>1, HandlerBound
    <3> QED
      BY <1>1, <1>2, <3>1
  <2>2. n \notin t.openupval /\ \A l \in t.openupval : l \in 1..n
    BY <1>1 DEF Sound, n
  <2>3. \A l \in u.openupval : l \in t.openupval /\ l <= n - 1
    <3>1. \A l \in 1..n : l # n => l <= n - 1
      BY <1>1
    <3> QED
      BY <1>2, <2>2, <3>1
  <2>4. n - 1 \in 0..Len(t.ci)
    BY <1>1 DEF n
  <2> QED
    BY <1>1, <1>2, <2>1, <2>3, <2>4, SoundKept
<1>16. Barrier(L, z, u.ci)
  <2>1. z.nny = 0 => L # Main /\ Passable(u.ci, (n - 1) - 1) /\ u.ci[n - 1].f # "handler"
    <3> SUFFICES ASSUME z.nny = 0 PROVE L # Main /\ Passable(u.ci, (n - 1) - 1) /\ u.ci[n - 1].f # "handler"
      OBVIOUS
    <3>1. L # Main /\ Passable(t.ci, n - 1)
      BY <1>1, <1>10, <1>13 DEF Barrier
    <3>2. \A k \in 1..(n - 1) : Passes(u.ci[k])
      BY <1>2, <3>1 DEF Passable
    <3>3. \A k \in 1..((n - 1) - 1) : k \in 1..(n - 1)
      BY <1>1
    <3>4. Passable(u.ci, (n - 1) - 1)
      BY <3>2, <3>3 DEF Passable
    <3>5. u.ci[n - 1].f # "handler"
      BY <1>12, <3>2 DEF Passes
    <3> QED
      BY <3>1, <3>4, <3>5
  <2>2. L # Main /\ NoBarrier(u.ci, n - 1) => z.nny = 0
    <3> SUFFICES ASSUME L # Main, NoBarrier(u.ci, n - 1) PROVE z.nny = 0
      OBVIOUS
    <3>1. \A k \in 1..(n - 1) : k = n - 1 \/ k \in 1..((n - 1) - 1)
      BY <1>1
    <3>2. \A k \in 1..(n - 1) : u.ci[k].f # "call" /\ ~u.ci[k].hooked
      BY <1>14, <3>1 DEF NoBarrier, IsLua
    <3>3. \A k \in 1..n : k = n \/ k \in 1..(n - 1)
      BY <1>1
    <3>4. \A k \in 1..n : t.ci[k].f # "handler"
      BY <1>2, <1>14, <3>3 DEF NoBarrier
    <3>5. NoBarrier(t.ci, n)
      BY <1>2, <3>2, <3>4 DEF NoBarrier
    <3> QED
      BY <1>1, <1>10, <1>13, <3>5 DEF Barrier
  <2>3. z.level > 0
    BY <1>12, <1>13
  <2> QED
    BY <1>13, <2>1, <2>2, <2>3 DEF Barrier
<1>17. OfLua(y, q, x, z, u.ci)
  <2>1. /\ \A k \in (q.level + 1)..(n - 1) : k \in (q.level + 1)..n /\ k \in 1..(n - 1)
        /\ \A k \in (q.level + 2)..(n - 1) : k \in (q.level + 2)..n /\ k \in 1..(n - 1)
        /\ \A k \in (q.level + 1)..((n - 1) - 1) : k \in (q.level + 1)..(n - 1) /\ k \in 1..(n - 1)
    BY <1>1, <1>7
  <2>2. u.ci[q.level + 1] = t.ci[q.level + 1]
    BY <1>2, <1>12
  <2>3. \A k \in (q.level + 1)..(n - 1) : IsLua(u.ci[k])
    BY <1>2, <1>10, <2>1
  <2>4. \A k \in (q.level + 2)..(n - 1) : ~u.ci[k].fresh /\ u.ci[k].f = "lua"
    BY <1>2, <1>10, <2>1
  <2>5. \A k \in (q.level + 1)..((n - 1) - 1) : ~u.ci[k].hooked
    BY <1>2, <1>10, <2>1
  <2>6. Called(y, q, x, z, u.ci)
    <3>1. y.fn \in {"C", "luaV_execute"} => u.ci[q.level] = t.ci[q.level]
      <4>1. y.fn \in {"C", "luaV_execute"} => q.level \in 1..(n - 1)
        BY <1>1, <1>7, <1>8, <1>12
      <4> QED
        BY <1>2, <4>1
    <3> QED
      BY <1>10, <1>13, <2>2, <3>1, CalledLevel
  <2> QED
    BY <1>1, <1>9, <1>10, <1>12, <1>13, <1>16, <2>2, <2>3, <2>4, <2>5, <2>6 DEF OfLua
<1>18. Awake(x, u, z)
  <2>1. u.allowhook <=> HooksOn(u.ci, n - 1)
    <3>1. \A i \in 1..(n - 1) : t.ci[i] = u.ci[i]
      BY <1>2
    <3>2. n \in Nat /\ n > 0
      BY <1>1, <1>12
    <3>3. HooksOn(t.ci, n) <=> HooksOn(u.ci, n - 1) /\ ~t.ci[n].hooked
      <4>1. SameBelow(u.ci, t.ci, n)
        BY <3>1, <3>2 DEF SameBelow
      <4> QED
        BY <3>1, <3>2, <4>1, SetTopHooks
    <3> QED
      BY <1>1, <1>2, <3>3
  <2>2. u.errfunc = Handler(u.ci, n - 1)
    <3>1. \A i \in 1..(n - 1) : t.ci[i].f = u.ci[i].f
      BY <1>2
    <3>2. Handler(t.ci, n) = Handler(u.ci, n)
      BY <3>1, HandlerSame
    <3>3. u.ci[n - 1].f \notin Protecting
      BY <1>14 DEF IsLua, Protecting
    <3>4. Handler(u.ci, (n - 1) + 1) = Handler(u.ci, n - 1)
      BY <1>12, <3>3, HandlerNext
    <3>5. Handler(u.ci, n) = Handler(u.ci, n - 1)
      BY <1>12, <3>4, Zenon
    <3> QED
      BY <1>1, <1>2, <3>2, <3>5
  <2>3. n - 1 > 0
    BY <1>12
  <2> QED
    BY <1>2, <1>9, <1>13, <1>14, <2>1, <2>2, <2>3 DEF Awake
<1>19. Replaces(c, g, t, u, z)
  <2>1. \A i \in 1..q.level : u.ci[i] = t.ci[i]
    <3>1. \A i \in 1..q.level : i \in 1..(n - 1)
      BY <1>1, <1>7, <1>12
    <3> QED
      BY <1>2, <3>1
  <2>2. z.level = Len(u.ci) /\ u.status = LUA_OK
    BY <1>1, <1>2, <1>13
  <2> QED
    BY <1>9, <1>13, <1>17, <1>18, <2>1, <2>2 DEF x, s, y, q, Replaces
<1>20. c[Len(c)].L = L
  BY <1>1 DEF x
<1> QED
  BY <1>1, <1>5, <1>13, <1>15, <1>19, <1>20, LuaLevel

LEMMA OpReturnStep ==
  ASSUME NEW L, NEW t, NEW c, NEW g, Ready(L, t, c, g), c[Len(c)].fn = "luaV_execute",
         LET v == Closed(t, Len(t.ci) - 1) IN
         IF Last(v.ci).fresh THEN Return(v, Front(c), c[Len(c)].via) ELSE Return(v, c, "precall")
  PROVE  IInv'
<1> DEFINE o == {l \in t.openupval : l <= Len(t.ci) - 1}
           v == [t EXCEPT !.openupval = o]
<1>1. t \in State /\ Len(t.ci) \in Nat /\ Len(t.ci) > 0 /\ t.ci \in Seq(Info)
  BY ReadyIs
<1>2. o \in SUBSET Nat /\ Len(t.ci) \notin o
  BY <1>1 DEF State
<1>3. v = Closed(t, Len(t.ci) - 1)
  BY DEF Closed
<1>4. v.ci = t.ci /\ v.openupval = o
  BY <1>1 DEF State
<1>5. Ready(L, v, c, g)
  <2>1. \A l \in o : l \in t.openupval
    OBVIOUS
  <2> HIDE DEF o
  <2> QED
    BY <1>2, <2>1, LocalReady
<1> HIDE DEF v, o
<1>6. IF Last(v.ci).fresh THEN Return(v, Front(c), c[Len(c)].via) ELSE Return(v, c, "precall")
  BY <1>3
<1>7. Last(v.ci) = v.ci[Len(v.ci)] /\ Len(v.ci) \notin v.openupval
  <2>1. t.ci # <<>>
    BY <1>1
  <2> QED
    BY <1>1, <1>2, <1>4, <2>1, FrontSeq
<1>8. CASE v.ci[Len(v.ci)].fresh
  <2>1. Return(v, Front(c), c[Len(c)].via)
    BY <1>6, <1>7, <1>8
  <2> QED
    BY <1>5, <1>7, <1>8, <2>1, OpReturnFresh
<1>9. CASE ~v.ci[Len(v.ci)].fresh
  <2>1. Return(v, c, "precall")
    BY <1>6, <1>7, <1>9
  <2> QED
    BY <1>5, <1>7, <1>9, <2>1, OpReturnLua
<1> QED
  BY <1>8, <1>9

-----------------------------------------------------------------------------
(* A hook *)

\* The function on top, when its hook starts or ends.
Marked(t, allow, mark) == [t EXCEPT !.allowhook = allow, !.ci[Len(t.ci)].hooked = mark]

LEMMA MarkedIs ==
  ASSUME NEW t \in State, t.ci # <<>>, NEW allow \in BOOLEAN, NEW mark \in BOOLEAN, NEW n, n = Len(t.ci),
         NEW u, u = Marked(t, allow, mark)
  PROVE  /\ u \in State /\ u.ci \in Seq(Info) /\ Len(u.ci) = n /\ n \in Nat /\ n > 0
         /\ \A i \in 1..(n - 1) : u.ci[i] = t.ci[i]
         /\ u.ci[n].f = t.ci[n].f /\ u.ci[n].fresh = t.ci[n].fresh /\ u.ci[n].k = t.ci[n].k
         /\ u.ci[n].ypcall = t.ci[n].ypcall /\ u.ci[n].hooked = mark
         /\ u.allowhook = allow /\ u.errfunc = t.errfunc /\ u.nny = t.nny /\ u.nCcalls = t.nCcalls
         /\ u.openupval = t.openupval /\ u.status = t.status /\ u.fn = t.fn
<1> DEFINE s == t.ci
           a == s[Len(s)]
           e == [a EXCEPT !.hooked = mark]
           r == SetTop(s, e)
           v == [t EXCEPT !.allowhook = allow, !.ci = r]
<1>1. s \in Seq(Info)
  BY DEF State
<1>2. Len(s) \in 1..Len(s) /\ Len(s) \in Nat /\ Len(s) > 0
  BY <1>1
<1>3. a \in Info
  BY <1>1, <1>2
<1>4. e \in Info /\ e.f = a.f /\ e.fresh = a.fresh /\ e.k = a.k /\ e.ypcall = a.ypcall /\ e.hooked = mark
  BY <1>3 DEF Info
<1>5. u = v
  BY DEF Marked, SetTop
<1> HIDE DEF e
<1>6. /\ r \in Seq(Info) /\ Len(r) = Len(s) /\ r[Len(s)] = e
      /\ \A i \in 1..(Len(s) - 1) : r[i] = s[i]
  BY <1>1, <1>4, SetTopIs
<1> HIDE DEF r
<1>7. /\ v \in State /\ v.ci = r /\ v.errfunc = t.errfunc /\ v.nny = t.nny /\ v.nCcalls = t.nCcalls
      /\ v.allowhook = allow /\ v.openupval = t.openupval /\ v.status = t.status /\ v.fn = t.fn
  BY <1>6 DEF State
<1> HIDE DEF v
<1> QED
  BY <1>2, <1>4, <1>5, <1>6, <1>7

LEMMA MarkedSound ==
  ASSUME NEW t, Sound(t), NEW n, n = Len(t.ci), t.ci # <<>>, IsLua(t.ci[n]), NEW allow \in BOOLEAN, NEW mark \in BOOLEAN,
         NEW u, u = Marked(t, allow, mark)
  PROVE  Sound(u)
<1>1. t \in State /\ t.errfunc <= n
  BY DEF Sound
<1>2. /\ u \in State /\ Len(u.ci) = n /\ n \in Nat /\ n > 0
      /\ \A i \in 1..(n - 1) : u.ci[i] = t.ci[i]
      /\ u.ci[n].f = t.ci[n].f /\ u.ci[n].ypcall = t.ci[n].ypcall
      /\ u.errfunc = t.errfunc /\ u.openupval = t.openupval
  BY <1>1, MarkedIs
<1>3. ~t.ci[n].ypcall
  <2>1. Saved(t.ci, n)
    BY <1>2 DEF Sound
  <2> QED
    BY <2>1 DEF Saved, IsLua, Protecting
<1>4. Saved(u.ci, n)
  BY <1>2, <1>3 DEF Saved
<1>5. \A l \in u.openupval : l \in t.openupval \/ (l = n /\ IsLua(t.ci[n]))
  BY <1>2
<1>6. u.errfunc <= n
  BY <1>1, <1>2
<1> QED
  BY <1>2, <1>4, <1>5, <1>6, SoundTop

Hook(L) == [fn |-> "luaD_hook", L |-> L]

LEMMA HookIs ==
  ASSUME NEW L \in Thread
  PROVE  /\ Hook(L) \in CFrame /\ Hook(L).L = L /\ Hook(L).fn = "luaD_hook"
         /\ Slack(Hook(L)) = 0 /\ ~Counted(Hook(L))
<1>1. "precall" \in Via
  BY DEF Via
<1>2. Hook(L) \in CFrame
  BY <1>1, CFrameOf DEF Hook
<1> QED
  BY <1>2 DEF Hook, Slack, Counted

LEMMA StartHookStep ==
  ASSUME NEW L, NEW t, NEW c, NEW g, Ready(L, t, c, g), c[Len(c)].fn = "luaV_execute", t.allowhook,
         Step(Marked(t, FALSE, TRUE), Append(c, Hook(L)))
  PROVE  IInv'
<1> DEFINE n == Len(t.ci)
           m == Len(c)
           u == Marked(t, FALSE, TRUE)
           s == g[m]
           x == Hook(L)
<1>1. /\ Base(L, t, c, g) /\ Run = L /\ c # <<>> /\ c[m].L = L /\ n \in Nat /\ n > 0
      /\ t \in State /\ Sound(t) /\ L \in Thread /\ t.status = LUA_OK
      /\ s.level = n /\ s.nny = t.nny /\ s.nCcalls = t.nCcalls
      /\ t.errfunc = Handler(t.ci, n) /\ (t.allowhook <=> HooksOn(t.ci, n)) /\ IsLua(t.ci[n])
  BY ReadyIs
<1>2. /\ u \in State /\ Len(u.ci) = n
      /\ \A i \in 1..(n - 1) : u.ci[i] = t.ci[i]
      /\ u.ci[n].f = t.ci[n].f /\ u.ci[n].fresh = t.ci[n].fresh /\ u.ci[n].hooked
      /\ ~u.allowhook /\ u.errfunc = t.errfunc /\ u.nny = t.nny /\ u.nCcalls = t.nCcalls
      /\ u.status = t.status
  <2>1. t.ci # <<>>
    BY <1>1
  <2>0. PICK allow \in BOOLEAN, mark \in BOOLEAN : allow = FALSE /\ mark = TRUE
    OBVIOUS
  <2>2. u = Marked(t, allow, mark) /\ n = Len(t.ci)
    BY <2>0
  <2> HIDE DEF u, n
  <2>3. /\ u \in State /\ u.ci \in Seq(Info) /\ Len(u.ci) = n
        /\ \A i \in 1..(n - 1) : u.ci[i] = t.ci[i]
        /\ u.ci[n].f = t.ci[n].f /\ u.ci[n].fresh = t.ci[n].fresh
        /\ u.ci[n].hooked = mark
        /\ u.allowhook = allow /\ u.errfunc = t.errfunc /\ u.nny = t.nny /\ u.nCcalls = t.nCcalls
        /\ u.status = t.status
    BY <1>1, <2>1, <2>2, MarkedIs
  <2> QED
    BY <2>0, <2>3
<1>3. Sound(u)
  <2>1. t.ci # <<>>
    BY <1>1
  <2> QED
    BY <1>1, <2>1, MarkedSound
<1> HIDE DEF u
<1>4. Agree("luaV_execute", t.ci, u.ci, n)
  BY <1>2 DEF Agree
<1>5. Base(L, u, c, g)
  <2>1. g[Len(c)].level <= Len(u.ci) /\ u.status = LUA_OK
    BY <1>1, <1>2
  <2>2. Agree(c[Len(c)].fn, t.ci, u.ci, g[Len(c)].level)
    BY <1>1, <1>4
  <2> QED
    BY <1>1, <1>3, <2>1, <2>2, BaseSet
<1>6. s \in Past /\ s.nCcalls < MaxCCalls + Extra /\ m \in 1..m /\ s.nCcalls \in Nat
  BY <1>1, TopIs
<1>7. Kind(c[m], s, x, s, u.ci)
  <2>1. Barrier(L, s, u.ci)
    <3>1. Barrier(L, s, t.ci)
      BY <1>1, CallerIs
    <3>2. Agree("luaV_execute", t.ci, u.ci, s.level)
      BY <1>1, <1>4
    <3> QED
      BY <1>6, <3>1, <3>2, BarrierSame
  <2>2. HooksOn(u.ci, n - 1)
    <3>1. \A i \in 1..(n - 1) : ~t.ci[i].hooked
      BY <1>1 DEF HooksOn
    <3> QED
      BY <1>2, <3>1 DEF HooksOn
  <2>3. x.fn = "luaD_hook" /\ x.L = L
    BY <1>1, HookIs
  <2>4. OfHook(c[m], s, x, s, u.ci)
    BY <1>1, <1>2, <2>1, <2>2, <2>3 DEF OfHook, IsLua
  <2> QED
    BY <2>4 DEF Kind
<1>8. x \in CFrame /\ x.L = L /\ x.fn = "luaD_hook" /\ Slack(x) = 0 /\ ~Counted(x)
  BY <1>1, HookIs
<1> HIDE DEF x
<1>9. Base(L, u, Append(c, x), Append(g, s))
  <2>1. g[m].nCcalls + (IF Counted(x) THEN 1 ELSE 0) + Slack(x) <= s.nCcalls + Slack(c[m])
    <3>1. Slack(c[m]) = 0
      BY DEF Slack
    <3> QED
      BY <1>6, <1>8, <3>1
  <2>2. s.level <= Len(u.ci) /\ u.status = LUA_OK
    BY <1>1, <1>2
  <2>3. s.level >= g[m].level
    BY <1>1
  <2>4. g[m].nny > 0 \/ c[m].fn = "luaD_pcall" => s.nny > 0
    OBVIOUS
  <2>5. x.fn # "lua_resume"
    BY <1>8
  <2> QED
    BY <1>1, <1>5, <1>6, <1>7, <1>8, <2>1, <2>2, <2>3, <2>4, <2>5, BasePush
<1> DEFINE d == Append(c, x)
           h == Append(g, s)
<1>10. /\ c \in Seq(CFrame) /\ g \in Seq(Past) /\ Len(g) = m /\ m \in Nat
  BY <1>1, BaseIs
<1>11. d # <<>> /\ Len(d) = m + 1 /\ d[m + 1] = x /\ h[m + 1] = s
  <2>1. Append(c, x) # <<>> /\ Len(Append(c, x)) = Len(c) + 1 /\ Append(c, x)[Len(c) + 1] = x
    BY <1>8, <1>10, AppendSeq
  <2>2. Append(g, s)[Len(g) + 1] = s
    BY <1>6, <1>10, AppendSeq
  <2> QED
    BY <1>10, <2>1, <2>2
<1>12. Awake(x, u, s)
  <2>1. s = [level |-> n, nny |-> u.nny, nCcalls |-> u.nCcalls]
    BY <1>1, <1>2, <1>6 DEF Past
  <2>2. ~HooksOn(u.ci, n)
    <3>1. n \in 1..n
      BY <1>1
    <3> QED
      BY <1>2, <3>1 DEF HooksOn
  <2>3. Handler(u.ci, n) = Handler(t.ci, n)
    BY <1>2, HandlerSame
  <2> QED
    BY <1>1, <1>2, <1>8, <2>1, <2>2, <2>3 DEF Awake
<1>13. th' = With(L, u) /\ cstack' = d
  BY <1>1 DEF Step, With, u, x
<1> HIDE DEF d, h
<1>14. Base(L, u, d, h)
  BY <1>9 DEF d, h
<1>15. d[Len(d)].L = L /\ Awake(d[Len(d)], u, h[Len(d)])
  BY <1>8, <1>11, <1>12
<1> QED
  BY <1>11, <1>13, <1>14, <1>15, ConcludeTop

LEMMA HookReturnsStep ==
  ASSUME NEW L, NEW t, NEW c, NEW g, Ready(L, t, c, g), c[Len(c)].fn = "luaD_hook",
         Step(Marked(t, TRUE, FALSE), Front(c))
  PROVE  IInv'
<1> DEFINE n == Len(t.ci)
           m == Len(c)
           u == Marked(t, TRUE, FALSE)
           s == g[m]
           q == g[m - 1]
           y == c[m - 1]
<1>1. /\ Base(L, t, c, g) /\ Run = L /\ c # <<>> /\ c[m].L = L /\ n \in Nat /\ n > 0
      /\ t \in State /\ Sound(t) /\ L \in Thread /\ t.status = LUA_OK
      /\ s.level = n /\ s.nny = t.nny /\ s.nCcalls = t.nCcalls
      /\ t.errfunc = Handler(t.ci, n) /\ (t.allowhook <=> HooksOn(t.ci, n)) /\ IsLua(t.ci[n])
  BY ReadyIs
<1>2. /\ u \in State /\ Len(u.ci) = n
      /\ \A i \in 1..(n - 1) : u.ci[i] = t.ci[i]
      /\ u.ci[n].f = t.ci[n].f /\ u.ci[n].fresh = t.ci[n].fresh /\ ~u.ci[n].hooked
      /\ u.allowhook /\ u.errfunc = t.errfunc /\ u.nny = t.nny /\ u.nCcalls = t.nCcalls
      /\ u.status = t.status
  <2>1. t.ci # <<>>
    BY <1>1
  <2>0. PICK allow \in BOOLEAN, mark \in BOOLEAN : allow = TRUE /\ mark = FALSE
    OBVIOUS
  <2>2. u = Marked(t, allow, mark) /\ n = Len(t.ci)
    BY <2>0
  <2> HIDE DEF u, n
  <2>3. /\ u \in State /\ u.ci \in Seq(Info) /\ Len(u.ci) = n
        /\ \A i \in 1..(n - 1) : u.ci[i] = t.ci[i]
        /\ u.ci[n].f = t.ci[n].f /\ u.ci[n].fresh = t.ci[n].fresh
        /\ u.ci[n].hooked = mark
        /\ u.allowhook = allow /\ u.errfunc = t.errfunc /\ u.nny = t.nny /\ u.nCcalls = t.nCcalls
        /\ u.status = t.status
    BY <1>1, <2>1, <2>2, MarkedIs
  <2> QED
    BY <2>0, <2>3
<1>3. Sound(u)
  <2>1. t.ci # <<>>
    BY <1>1
  <2> QED
    BY <1>1, <2>1, MarkedSound
<1> HIDE DEF u
<1>4. Agree("luaV_execute", t.ci, u.ci, n)
  BY <1>2 DEF Agree
<1>5. m > 1 /\ OfHook(y, q, c[m], s, t.ci)
  BY <1>1, TopKind
<1>6. y.fn = "luaV_execute" /\ y.L = L /\ s = q /\ HooksOn(t.ci, n - 1)
  BY <1>1, <1>5 DEF OfHook
<1>7. Below(c, g, L, t, u)
  <2>1. m \in Nat /\ m - 1 > 0
    BY <1>1, <1>5, BaseIs
  <2>2. g[m - 1].level <= Len(u.ci) /\ Agree(c[m - 1].fn, t.ci, u.ci, g[m - 1].level) /\ u.status = LUA_OK
    BY <1>1, <1>2, <1>4, <1>6
  <2> QED
    BY <1>6, <2>1, <2>2 DEF Below, Fits
<1>8. Base(L, u, Front(c), Front(g))
  BY <1>1, <1>3, <1>7, BaseDrop
<1>9. /\ Len(Front(c)) = m - 1 /\ m - 1 \in 1..(m - 1) /\ Front(c)[m - 1] = y /\ Front(g)[m - 1] = q
      /\ Front(c) # <<>>
  <2>1. m \in Nat /\ m - 1 \in 1..(m - 1)
    BY <1>1, <1>5, BaseIs
  <2>2. /\ Front(c) \in Seq(CFrame) /\ Len(Front(c)) = m - 1
        /\ \A j \in 1..(m - 1) : Front(c)[j] = c[j]
        /\ \A j \in 1..(m - 1) : Front(g)[j] = g[j]
    BY <1>1, DropIs
  <2>3. Front(c) # <<>>
    BY <2>1, <2>2
  <2> QED
    BY <2>1, <2>2, <2>3
<1>10. Awake(y, u, q)
  <2>0. s \in Past
    BY <1>1, TopIs
  <2>1. q = [level |-> n, nny |-> u.nny, nCcalls |-> u.nCcalls]
    BY <1>1, <1>2, <1>6, <2>0 DEF Past
  <2>2. HooksOn(u.ci, n)
    <3>1. HooksOn(u.ci, n) <=> HooksOn(t.ci, n - 1) /\ ~u.ci[n].hooked
      <4>1. n \in Nat /\ n > 0 /\ \A i \in 1..(n - 1) : u.ci[i] = t.ci[i]
        BY <1>1, <1>2
      <4> HIDE DEF n
      <4>9. SameBelow(t.ci, u.ci, n)
        BY <4>1 DEF SameBelow
      <4> QED
        BY <4>1, <4>9, SetTopHooks
    <3> QED
      BY <1>2, <1>6, <3>1
  <2>3. Handler(u.ci, n) = Handler(t.ci, n)
    BY <1>2, HandlerSame
  <2> QED
    BY <1>1, <1>2, <1>6, <2>1, <2>2, <2>3 DEF Awake
<1>11. th' = With(L, u) /\ cstack' = Front(c)
  BY <1>1 DEF Step, With, u
<1>12. Front(c)[Len(Front(c))].L = L /\ Awake(Front(c)[Len(Front(c))], u, Front(g)[Len(Front(c))])
  BY <1>6, <1>9, <1>10
<1> QED
  BY <1>8, <1>9, <1>11, <1>12, ConcludeTop

LEMMA HookCallsStep ==
  ASSUME NEW L, NEW t, NEW c, NEW g, Ready(L, t, c, g), c[Len(c)].fn = "luaD_hook",
         NEW f \in Kinds, Call(t, c, f, "callnoyield")
  PROVE  IInv'
<1>1. t.ci[Len(t.ci)].f \notin Protecting
  <2>1. IsLua(t.ci[Len(t.ci)])
    BY ReadyIs
  <2> QED
    BY <2>1 DEF IsLua, Protecting
<1>2. MayCall(t, c[Len(c)], g[Len(c)], "callnoyield")
  BY DEF MayCall, Calling
<1>3. "callnoyield" \in {"call", "callnoyield"}
  OBVIOUS
<1> QED
  BY <1>1, <1>2, <1>3, CallsStep

LEMMA YieldLeaves ==
  ASSUME NEW L, L # Main, NEW v, v.status = LUA_YIELD, NEW n \in Nat, n = Len(v.ci), n > 0,
         Passable(v.ci, n - 1), v.ci[n].f \in {"yield", "lua"}, v.errfunc = Handler(v.ci, n),
         v.allowhook, HooksOn(v.ci, n)
  PROVE  Leaves(L, v)
<1> SUFFICES ASSUME NEW u \in State, u.ci = v.ci, u.status = v.status, u.nny = 1, u.errfunc = v.errfunc,
                    u.allowhook <=> v.allowhook
             PROVE  Asleep(L, u)
  BY DEF Leaves
<1>1. LUA_YIELD # LUA_OK
  BY DEF LUA_YIELD, LUA_OK
<1> QED
  BY <1>1 DEF Asleep

\* A thread that can yield: its activations may all be passed.
LEMMA YieldableIs ==
  ASSUME NEW L, NEW t, NEW c, NEW g, Ready(L, t, c, g), c[Len(c)].fn \in {"C", "luaD_hook"}, t.nny = 0
  PROVE  /\ L # Main /\ Passable(t.ci, Len(t.ci) - 1) /\ HooksOn(t.ci, Len(t.ci) - 1)
         /\ t.ci[Len(t.ci)].f # "handler" /\ g[Len(c)].nny = 0
<1>1. /\ Base(L, t, c, g) /\ c # <<>> /\ c[Len(c)].L = L
      /\ g[Len(c)].level = Len(t.ci) /\ g[Len(c)].nny = t.nny /\ Len(t.ci) > 0
  BY ReadyIs
<1>2. Barrier(L, g[Len(c)], t.ci)
  BY <1>1, CallerIs
<1>3. /\ L # Main /\ Passable(t.ci, Len(t.ci) - 1) /\ t.ci[Len(t.ci)].f # "handler"
  BY <1>1, <1>2 DEF Barrier
<1> QED
  BY <1>1, <1>3 DEF Passable, Passes, HooksOn

LEMMA HookYieldsStep ==
  ASSUME NEW L, NEW t, NEW c, NEW g, Ready(L, t, c, g), c[Len(c)].fn = "luaD_hook", t.nny = 0,
         Throw([Marked(t, TRUE, FALSE) EXCEPT !.status = LUA_YIELD], c, LUA_YIELD)
  PROVE  IInv'
<1> DEFINE n == Len(t.ci)
           u == Marked(t, TRUE, FALSE)
           v == [u EXCEPT !.status = LUA_YIELD]
<1>1. /\ Base(L, t, c, g) /\ Run = L /\ c # <<>> /\ c[Len(c)].L = L /\ n \in Nat /\ n > 0
      /\ t \in State /\ Sound(t)
      /\ t.errfunc = Handler(t.ci, n) /\ IsLua(t.ci[n])
  BY ReadyIs
<1>2. /\ u \in State /\ Len(u.ci) = n
      /\ \A i \in 1..(n - 1) : u.ci[i] = t.ci[i]
      /\ u.ci[n].f = t.ci[n].f /\ ~u.ci[n].hooked
      /\ u.allowhook /\ u.errfunc = t.errfunc
  <2>1. t.ci # <<>>
    BY <1>1
  <2>0. PICK allow \in BOOLEAN, mark \in BOOLEAN : allow = TRUE /\ mark = FALSE
    OBVIOUS
  <2>2. u = Marked(t, allow, mark) /\ n = Len(t.ci)
    BY <2>0
  <2> HIDE DEF u, n
  <2>3. /\ u \in State /\ Len(u.ci) = n
        /\ \A i \in 1..(n - 1) : u.ci[i] = t.ci[i]
        /\ u.ci[n].f = t.ci[n].f
        /\ u.ci[n].hooked = mark
        /\ u.allowhook = allow /\ u.errfunc = t.errfunc
    BY <1>1, <2>1, <2>2, MarkedIs
  <2> QED
    BY <2>0, <2>3
<1>3. Sound(u)
  <2>1. t.ci # <<>>
    BY <1>1
  <2> QED
    BY <1>1, <2>1, MarkedSound
<1> HIDE DEF u
<1>4. /\ v \in State /\ v.ci = u.ci /\ v.errfunc = u.errfunc /\ v.openupval = u.openupval
      /\ (v.allowhook <=> u.allowhook) /\ v.status = LUA_YIELD
  BY <1>2 DEF State
<1>5. Throw(v, c, LUA_YIELD)
  BY DEF v, u
<1> HIDE DEF v
<1>6. Sound(v)
  BY <1>3, <1>4, SoundMore
<1>7. /\ L # Main /\ Passable(t.ci, n - 1) /\ HooksOn(t.ci, n - 1) /\ t.ci[n].f # "handler" /\ g[Len(c)].nny = 0
  BY YieldableIs
<1>8. Leaves(L, v)
  <2>1. Passable(v.ci, n - 1)
    BY <1>2, <1>4, <1>7 DEF Passable
  <2>2. HooksOn(v.ci, n)
    <3>1. HooksOn(v.ci, n) <=> HooksOn(t.ci, n - 1) /\ ~v.ci[n].hooked
      <4>1. n \in Nat /\ n > 0 /\ \A i \in 1..(n - 1) : v.ci[i] = t.ci[i]
        BY <1>1, <1>2, <1>4
      <4> HIDE DEF n
      <4>9. SameBelow(t.ci, v.ci, n)
        BY <4>1 DEF SameBelow
      <4> QED
        BY <4>1, <4>9, SetTopHooks
    <3> QED
      BY <1>2, <1>4, <1>7, <3>1
  <2>3. v.errfunc = Handler(v.ci, n)
    <3>1. \A i \in 1..(n - 1) : v.ci[i].f = t.ci[i].f
      BY <1>2, <1>4
    <3>2. Handler(v.ci, n) = Handler(t.ci, n)
      BY <3>1, HandlerSame
    <3> QED
      BY <1>1, <1>2, <1>4, <3>2
  <2>4. v.ci[n].f \in {"yield", "lua"} /\ v.allowhook /\ n = Len(v.ci)
    BY <1>1, <1>2, <1>4, <1>7 DEF IsLua
  <2> HIDE DEF n
  <2> QED
    BY <1>1, <1>4, <1>7, <2>1, <2>2, <2>3, <2>4, YieldLeaves
<1>9. c[Len(c)].fn # "luaD_pcall"
  OBVIOUS
<1> QED
  BY <1>1, <1>5, <1>6, <1>7, <1>8, <1>9, ThrowYield

-----------------------------------------------------------------------------
(* A C function *)

LEMMA InC ==
  ASSUME NEW L, NEW t, NEW c, NEW g, Ready(L, t, c, g), c[Len(c)].fn = "C"
  PROVE  /\ ~IsLua(t.ci[Len(t.ci)]) /\ ~t.ci[Len(t.ci)].hooked /\ Len(c) > 1
         /\ OfC(c[Len(c) - 1], g[Len(c) - 1], c[Len(c)], g[Len(c)], t.ci)
<1>1. /\ Base(L, t, c, g) /\ c # <<>> /\ c[Len(c)].L = L /\ g[Len(c)].level = Len(t.ci)
  BY ReadyIs
<1>2. Len(c) > 1 /\ OfC(c[Len(c) - 1], g[Len(c) - 1], c[Len(c)], g[Len(c)], t.ci)
  BY <1>1, TopKind
<1> QED
  BY <1>1, <1>2 DEF OfC

LEMMA YieldStep ==
  ASSUME NEW L, NEW t, NEW c, NEW g, Ready(L, t, c, g), c[Len(c)].fn = "C", t.ci[Len(t.ci)].f = "yield", t.nny = 0,
         Throw([t EXCEPT !.status = LUA_YIELD], c, LUA_YIELD)
  PROVE  IInv'
<1> DEFINE n == Len(t.ci)
           v == [t EXCEPT !.status = LUA_YIELD]
<1>1. /\ Base(L, t, c, g) /\ Run = L /\ c # <<>> /\ c[Len(c)].L = L /\ n \in Nat /\ n > 0
      /\ t \in State /\ Sound(t)
      /\ t.errfunc = Handler(t.ci, n) /\ (t.allowhook <=> HooksOn(t.ci, n))
  BY ReadyIs
<1>4. /\ v \in State /\ v.ci = t.ci /\ v.errfunc = t.errfunc /\ v.openupval = t.openupval
      /\ (v.allowhook <=> t.allowhook) /\ v.status = LUA_YIELD
  BY <1>1 DEF State
<1>5. Throw(v, c, LUA_YIELD)
  BY DEF v
<1> HIDE DEF v
<1>6. Sound(v)
  BY <1>1, <1>4, SoundMore
<1>7. /\ L # Main /\ Passable(t.ci, n - 1) /\ HooksOn(t.ci, n - 1) /\ g[Len(c)].nny = 0
  BY YieldableIs
<1>8. Leaves(L, v)
  <2>1. HooksOn(t.ci, n)
    <3>1. HooksOn(t.ci, n) <=> HooksOn(t.ci, n - 1) /\ ~t.ci[n].hooked
      <4>1. n \in Nat /\ n > 0 /\ \A i \in 1..(n - 1) : t.ci[i] = t.ci[i]
        BY <1>1
      <4> HIDE DEF n
      <4>9. SameBelow(t.ci, t.ci, n)
        BY <4>1 DEF SameBelow
      <4> QED
        BY <4>1, <4>9, SetTopHooks
    <3> QED
      BY <1>7, <3>1, InC
  <2>2. n = Len(v.ci) /\ v.ci[n].f \in {"yield", "lua"}
    BY <1>4
  <2> HIDE DEF n
  <2> QED
    BY <1>1, <1>4, <1>7, <2>1, <2>2, YieldLeaves
<1>9. c[Len(c)].fn # "luaD_pcall"
  OBVIOUS
<1> QED
  BY <1>1, <1>5, <1>6, <1>7, <1>8, <1>9, ThrowYield

LEMMA CErrorStep ==
  ASSUME NEW L, NEW t, NEW c, NEW g, Ready(L, t, c, g), c[Len(c)].fn = "C", t.ci[Len(t.ci)].f \notin Protecting,
         RunError(t, c)
  PROVE  IInv'
<1>1. c[Len(c)].fn # "lua_resume"
  OBVIOUS
<1> QED
  BY <1>1, ErrorStep

LEMMA CReturnStep ==
  ASSUME NEW L, NEW t, NEW c, NEW g, Ready(L, t, c, g), c[Len(c)].fn = "C", Return(t, Front(c), c[Len(c)].via)
  PROVE  IInv'
<1> DEFINE n == Len(t.ci)
           m == Len(c)
<1>1. /\ Base(L, t, c, g) /\ Run = L /\ c # <<>> /\ c[m].L = L /\ n \in Nat /\ n > 0 /\ Sound(t)
      /\ g[m].level = n /\ g[m].nny = t.nny /\ g[m].nCcalls = t.nCcalls
      /\ t.errfunc = Handler(t.ci, n) /\ (t.allowhook <=> HooksOn(t.ci, n))
  BY ReadyIs
<1>2. ~IsLua(t.ci[n]) /\ ~t.ci[n].hooked /\ m > 1 /\ OfC(c[m - 1], g[m - 1], c[m], g[m], t.ci)
  BY InC
<1>3. g[m - 1].level = n - 1
  <2>1. m - 1 \in 1..m
    BY <1>1, <1>2, BaseIs
  <2>2. g[m - 1].level \in Nat
    BY <1>1, <2>1, BaseAt
  <2> QED
    BY <1>1, <1>2, <2>2 DEF OfC
<1>4. Called(c[m - 1], g[m - 1], c[m], g[m], t.ci)
  BY <1>2 DEF OfC
<1>5. n \notin t.openupval
  BY <1>1, <1>2 DEF Sound
<1>6. Ends(t, c, g)
  BY <1>1, <1>2, <1>3, <1>4, <1>5 DEF Ends
<1> QED
  BY <1>1, <1>6, ReturnStep

\* lua_callk and lua_pcallk with a continuation, when the activation on top is that of u.
Continues(t, u, n) ==
  /\ Len(u.ci) = n /\ \A i \in 1..(n - 1) : u.ci[i] = t.ci[i]
  /\ u.ci[n].f = t.ci[n].f /\ u.ci[n].hooked = t.ci[n].hooked
  /\ u.nny = t.nny /\ u.nCcalls = t.nCcalls /\ (u.allowhook <=> t.allowhook) /\ u.status = t.status
  /\ Passes(u.ci[n]) /\ u.ci[n].f \in Protecting \cup {"call", "dofile"}

LEMMA ContinuesStep ==
  ASSUME NEW L, NEW t, NEW c, NEW g, Ready(L, t, c, g), c[Len(c)].fn = "C", NEW n, n = Len(t.ci),
         NEW u, Sound(u), Continues(t, u, n), u.errfunc = Handler(u.ci, n + 1), NEW f \in Kinds, Call(u, c, f, "call")
  PROVE  IInv'
<1>1. /\ Base(L, t, c, g) /\ Run = L /\ c # <<>> /\ c[Len(c)].L = L /\ n \in Nat /\ n > 0 /\ t.status = LUA_OK
      /\ g[Len(c)].level = n /\ g[Len(c)].nny = t.nny /\ g[Len(c)].nCcalls = t.nCcalls
      /\ (t.allowhook <=> HooksOn(t.ci, n))
  BY ReadyIs
<1>2. /\ Len(u.ci) = n /\ \A i \in 1..(n - 1) : u.ci[i] = t.ci[i]
      /\ u.ci[n].f = t.ci[n].f /\ u.ci[n].hooked = t.ci[n].hooked
      /\ u.nny = t.nny /\ u.nCcalls = t.nCcalls /\ (u.allowhook <=> t.allowhook) /\ u.status = t.status
      /\ Passes(u.ci[n]) /\ u.ci[n].f \in Protecting \cup {"call", "dofile"}
  BY DEF Continues
<1>3. Base(L, u, c, g)
  <2>1. Agree("C", t.ci, u.ci, n)
    BY <1>2 DEF Agree
  <2>2. g[Len(c)].level <= Len(u.ci) /\ u.status = LUA_OK
    BY <1>1, <1>2
  <2>3. Agree(c[Len(c)].fn, t.ci, u.ci, g[Len(c)].level)
    BY <1>1, <2>1
  <2> QED
    BY <1>1, <2>2, <2>3, BaseSet
<1>4. Stands(u, c, g)
  <2>1. u.allowhook <=> HooksOn(u.ci, n)
    <3>1. HooksOn(u.ci, n) <=> HooksOn(t.ci, n - 1) /\ ~u.ci[n].hooked
      <4>1. SameBelow(t.ci, u.ci, n)
        BY <1>1, <1>2 DEF SameBelow
      <4> QED
        BY <1>1, <1>2, <4>1, SetTopHooks
    <3>2. \A i \in 1..(n - 1) : t.ci[i] = t.ci[i]
      OBVIOUS
    <3>3. HooksOn(t.ci, n) <=> HooksOn(t.ci, n - 1) /\ ~t.ci[n].hooked
      <4>1. SameBelow(t.ci, t.ci, n)
        BY <1>1, <3>2 DEF SameBelow
      <4> QED
        BY <1>1, <3>2, <4>1, SetTopHooks
    <3> QED
      BY <1>1, <1>2, <3>1, <3>3
  <2> QED
    BY <1>1, <1>2, <2>1 DEF Stands
<1>5. MayCall(u, c[Len(c)], g[Len(c)], "call")
  <2>1. Calling(c[Len(c)], g[Len(c)], "call", u.ci)
    BY <1>1, <1>2 DEF Calling
  <2> QED
    BY <2>1 DEF MayCall
<1>6. u.nny = g[Len(c)].nny /\ u.nCcalls = g[Len(c)].nCcalls /\ "call" \in {"call", "callnoyield"}
  BY <1>1, <1>2
<1> QED
  BY <1>1, <1>3, <1>4, <1>5, <1>6, CallStep

Continued(t) == [t EXCEPT !.ci[Len(t.ci)].k = TRUE]

LEMMA ContinuedIs ==
  ASSUME NEW t \in State, t.ci # <<>>, NEW n, n = Len(t.ci), NEW u, u = Continued(t)
  PROVE  /\ u \in State /\ Len(u.ci) = n /\ n \in Nat /\ n > 0
         /\ \A i \in 1..(n - 1) : u.ci[i] = t.ci[i]
         /\ u.ci[n].f = t.ci[n].f /\ u.ci[n].k /\ u.ci[n].ypcall = t.ci[n].ypcall /\ u.ci[n].hooked = t.ci[n].hooked
         /\ u.allowhook = t.allowhook /\ u.errfunc = t.errfunc /\ u.nny = t.nny /\ u.nCcalls = t.nCcalls
         /\ u.openupval = t.openupval /\ u.status = t.status
<1> DEFINE s == t.ci
           a == s[Len(s)]
           e == [a EXCEPT !.k = TRUE]
           r == SetTop(s, e)
           v == [t EXCEPT !.ci = r]
<1>1. s \in Seq(Info)
  BY DEF State
<1>2. Len(s) \in 1..Len(s) /\ Len(s) \in Nat /\ Len(s) > 0
  BY <1>1
<1>3. a \in Info
  BY <1>1, <1>2
<1>4. e \in Info /\ e.f = a.f /\ e.k /\ e.ypcall = a.ypcall /\ e.hooked = a.hooked
  BY <1>3 DEF Info
<1>5. u = v
  BY DEF Continued, SetTop
<1> HIDE DEF e
<1>6. /\ r \in Seq(Info) /\ Len(r) = Len(s) /\ r[Len(s)] = e
      /\ \A i \in 1..(Len(s) - 1) : r[i] = s[i]
  BY <1>1, <1>4, SetTopIs
<1> HIDE DEF r
<1>7. /\ v \in State /\ v.ci = r /\ v.errfunc = t.errfunc /\ v.nny = t.nny /\ v.nCcalls = t.nCcalls
      /\ v.allowhook = t.allowhook /\ v.openupval = t.openupval /\ v.status = t.status
  BY <1>6 DEF State
<1> HIDE DEF v
<1> QED
  BY <1>2, <1>4, <1>5, <1>6, <1>7

\* lua_callk, by dofile in a coroutine that can yield.
LEMMA CallkStep ==
  ASSUME NEW L, NEW t, NEW c, NEW g, Ready(L, t, c, g), c[Len(c)].fn = "C", t.ci[Len(t.ci)].f = "dofile",
         NEW f \in Kinds, Call(Continued(t), c, f, "call")
  PROVE  IInv'
<1> DEFINE n == Len(t.ci)
           u == Continued(t)
<1>1. /\ n \in Nat /\ n > 0 /\ t \in State /\ Sound(t) /\ t.errfunc = Handler(t.ci, n)
  BY ReadyIs
<1>2. /\ u \in State /\ Len(u.ci) = n
      /\ \A i \in 1..(n - 1) : u.ci[i] = t.ci[i]
      /\ u.ci[n].f = t.ci[n].f /\ u.ci[n].k /\ u.ci[n].ypcall = t.ci[n].ypcall /\ u.ci[n].hooked = t.ci[n].hooked
      /\ u.allowhook = t.allowhook /\ u.errfunc = t.errfunc /\ u.nny = t.nny /\ u.nCcalls = t.nCcalls
      /\ u.openupval = t.openupval /\ u.status = t.status
  <2>1. t.ci # <<>>
    BY <1>1
  <2>2. u = Continued(t) /\ n = Len(t.ci)
    OBVIOUS
  <2> HIDE DEF u, n
  <2> QED
    BY <1>1, <2>1, <2>2, ContinuedIs
<1>3. Call(u, c, f, "call")
  OBVIOUS
<1> HIDE DEF u
<1>4. Sound(u)
  <2>1. ~t.ci[n].ypcall
    <3>1. Saved(t.ci, n)
      BY <1>1 DEF Sound
    <3> QED
      BY <3>1 DEF Saved, Protecting
  <2>2. Saved(u.ci, n)
    BY <1>2, <2>1 DEF Saved
  <2>3. u.errfunc <= n
    BY <1>1, <1>2 DEF Sound
  <2>4. \A l \in u.openupval : l \in t.openupval \/ (l = n /\ IsLua(t.ci[n]))
    BY <1>2
  <2> QED
    BY <1>1, <1>2, <2>2, <2>3, <2>4, SoundTop
<1>5. ~t.ci[n].hooked
  BY InC
<1>6. Continues(t, u, n)
  <2>1. Passes(u.ci[n]) /\ u.ci[n].f \in Protecting \cup {"call", "dofile"}
    BY <1>2, <1>5 DEF Passes, Protecting
  <2> QED
    BY <1>2, <2>1 DEF Continues
<1>7. u.errfunc = Handler(u.ci, n + 1)
  <2>1. u.ci[n].f \notin Protecting /\ n \in Nat \ {0}
    BY <1>1, <1>2 DEF Protecting
  <2>2. Handler(u.ci, n + 1) = Handler(u.ci, n)
    BY <2>1, HandlerNext
  <2>3. \A i \in 1..(n - 1) : u.ci[i].f = t.ci[i].f
    BY <1>2
  <2>4. Handler(u.ci, n) = Handler(t.ci, n)
    BY <2>3, HandlerSame
  <2> QED
    BY <1>1, <1>2, <2>2, <2>4
<1>8. n = Len(t.ci)
  OBVIOUS
<1> HIDE DEF n
<1> QED
  BY <1>3, <1>4, <1>6, <1>7, <1>8, ContinuesStep

\* lua_callk without a continuation.
LEMMA CallNoYieldStep ==
  ASSUME NEW L, NEW t, NEW c, NEW g, Ready(L, t, c, g), c[Len(c)].fn = "C", t.ci[Len(t.ci)].f \in {"call", "dofile"},
         t.ci[Len(t.ci)].f = "call" \/ t.nny # 0, NEW f \in Kinds, Call(t, c, f, "callnoyield")
  PROVE  IInv'
<1>1. t.nny \in Nat /\ g[Len(c)].level = Len(t.ci)
  BY ReadyIs
<1>2. Calling(c[Len(c)], g[Len(c)], "callnoyield", t.ci)
  BY <1>1 DEF Calling, Protecting
<1>3. MayCall(t, c[Len(c)], g[Len(c)], "callnoyield")
  BY <1>1, <1>2 DEF MayCall
<1>4. t.ci[Len(t.ci)].f \notin Protecting /\ c[Len(c)].fn # "lua_resume" /\ "callnoyield" \in {"call", "callnoyield"}
  BY DEF Protecting
<1> QED
  BY <1>3, <1>4, CallsStep

\* The activation of a protected call that can yield.
Guarded(t, e) ==
  [t EXCEPT !.ci[Len(t.ci)].k = TRUE, !.ci[Len(t.ci)].ypcall = TRUE, !.ci[Len(t.ci)].oah = t.allowhook,
            !.ci[Len(t.ci)].old_errfunc = t.errfunc, !.errfunc = e]

\* What the steps of PcallkStep need of it.
GuardSet(t, n, e, u) ==
  /\ u \in State /\ Len(u.ci) = n
  /\ \A i \in 1..(n - 1) : u.ci[i] = t.ci[i]
  /\ u.ci[n].f = t.ci[n].f /\ u.ci[n].k /\ u.ci[n].ypcall /\ u.ci[n].hooked = t.ci[n].hooked
  /\ u.ci[n].oah = t.allowhook /\ u.ci[n].old_errfunc = t.errfunc
  /\ u.allowhook = t.allowhook /\ u.errfunc = e /\ u.nny = t.nny /\ u.nCcalls = t.nCcalls
  /\ u.openupval = t.openupval /\ u.status = t.status

LEMMA GuardedIs ==
  ASSUME NEW t \in State, t.ci # <<>>, NEW n, n = Len(t.ci), NEW e \in Nat, NEW u, u = Guarded(t, e)
  PROVE  GuardSet(t, n, e, u)
<1> SUFFICES /\ u \in State /\ Len(u.ci) = n /\ n \in Nat /\ n > 0
             /\ \A i \in 1..(n - 1) : u.ci[i] = t.ci[i]
             /\ u.ci[n].f = t.ci[n].f /\ u.ci[n].k /\ u.ci[n].ypcall /\ u.ci[n].hooked = t.ci[n].hooked
             /\ u.ci[n].oah = t.allowhook /\ u.ci[n].old_errfunc = t.errfunc
             /\ u.allowhook = t.allowhook /\ u.errfunc = e /\ u.nny = t.nny /\ u.nCcalls = t.nCcalls
             /\ u.openupval = t.openupval /\ u.status = t.status
  BY DEF GuardSet
<1> DEFINE s == t.ci
           a == s[Len(s)]
           b == [a EXCEPT !.k = TRUE, !.ypcall = TRUE, !.oah = t.allowhook, !.old_errfunc = t.errfunc]
           r == SetTop(s, b)
           v == [t EXCEPT !.ci = r, !.errfunc = e]
<1>1. s \in Seq(Info) /\ t.allowhook \in BOOLEAN /\ t.errfunc \in Nat
  BY DEF State
<1>2. Len(s) \in 1..Len(s) /\ Len(s) \in Nat /\ Len(s) > 0
  BY <1>1
<1>3. a \in Info
  BY <1>1, <1>2
<1>4. /\ b \in Info /\ b.f = a.f /\ b.k /\ b.ypcall /\ b.hooked = a.hooked
      /\ b.oah = t.allowhook /\ b.old_errfunc = t.errfunc
  BY <1>1, <1>3 DEF Info
<1>6. /\ r \in Seq(Info) /\ Len(r) = Len(s) /\ r[Len(s)] = b
      /\ \A i \in 1..(Len(s) - 1) : r[i] = s[i]
  <2> HIDE DEF b
  <2> QED
    BY <1>1, <1>4, SetTopIs
<1>5. u = v
  <2>1. Guarded(t, e) = [t EXCEPT !.ci = [@ EXCEPT ![Len(s)] = b], !.errfunc = e]
    <3>1. t.ci[Len(t.ci)] = a
      OBVIOUS
    <3>2. [t.ci EXCEPT ![Len(t.ci)].k = TRUE, ![Len(t.ci)].ypcall = TRUE, ![Len(t.ci)].oah = t.allowhook,
                       ![Len(t.ci)].old_errfunc = t.errfunc] = [t.ci EXCEPT ![Len(s)] = b]
      BY <1>1, <1>2
    <3> QED
      BY <3>2 DEF Guarded
  <2> QED
    BY <2>1 DEF SetTop
<1> HIDE DEF b, r
<1>7. /\ v \in State /\ v.ci = r /\ v.errfunc = e /\ v.nny = t.nny /\ v.nCcalls = t.nCcalls
      /\ v.allowhook = t.allowhook /\ v.openupval = t.openupval /\ v.status = t.status
  BY <1>6 DEF State
<1> HIDE DEF v
<1> QED
  BY <1>2, <1>4, <1>5, <1>6, <1>7

\* The handler that lua_pcallk sets.
NewHandler(t) == IF t.ci[Len(t.ci)].f = "xpcall" THEN Len(t.ci) ELSE 0

LEMMA PcallkStep ==
  ASSUME NEW L, NEW t, NEW c, NEW g, Ready(L, t, c, g), c[Len(c)].fn = "C", t.ci[Len(t.ci)].f \in Protecting,
         t.nny = 0, NEW f \in Kinds, Call(Guarded(t, NewHandler(t)), c, f, "call")
  PROVE  IInv'
<1> DEFINE n == Len(t.ci)
           e == NewHandler(t)
           u == Guarded(t, e)
<1>1. /\ n \in Nat /\ n > 0 /\ t \in State /\ Sound(t) /\ t.errfunc = Handler(t.ci, n)
      /\ (t.allowhook <=> HooksOn(t.ci, n))
  BY ReadyIs
<1>2. /\ u \in State /\ Len(u.ci) = n
      /\ \A i \in 1..(n - 1) : u.ci[i] = t.ci[i]
      /\ u.ci[n].f = t.ci[n].f /\ u.ci[n].k /\ u.ci[n].ypcall /\ u.ci[n].hooked = t.ci[n].hooked
      /\ u.ci[n].oah = t.allowhook /\ u.ci[n].old_errfunc = t.errfunc
      /\ u.allowhook = t.allowhook /\ u.errfunc = e /\ u.nny = t.nny /\ u.nCcalls = t.nCcalls
      /\ u.openupval = t.openupval /\ u.status = t.status
  <2>1. t.ci # <<>> /\ e \in Nat
    BY <1>1 DEF NewHandler
  <2>2. u = Guarded(t, e) /\ n = Len(t.ci)
    OBVIOUS
  <2> HIDE DEF u, n, e
  <2>3. t \in State
    BY <1>1
  <2>4. GuardSet(t, n, e, u)
    BY <2>1, <2>2, <2>3, GuardedIs
  <2> QED
    BY <2>4 DEF GuardSet
<1>3. Call(u, c, f, "call")
  OBVIOUS
<1> HIDE DEF u
<1>4. ~t.ci[n].hooked
  BY InC
<1>5. Passable(t.ci, n - 1)
  BY YieldableIs
<1>6. Passes(u.ci[n])
  BY <1>2, <1>4 DEF Passes, Protecting
<1>7. Handler(u.ci, n) = Handler(t.ci, n)
  <2>1. \A i \in 1..(n - 1) : u.ci[i].f = t.ci[i].f
    BY <1>2
  <2> QED
    BY <2>1, HandlerSame
<1>8. Saved(u.ci, n)
  <2>1. Passable(u.ci, n)
    <3>1. \A i \in 1..n : i = n \/ i \in 1..(n - 1)
      BY <1>1
    <3>2. \A i \in 1..(n - 1) : Passes(u.ci[i])
      BY <1>2, <1>5 DEF Passable
    <3> QED
      BY <1>6, <3>1, <3>2 DEF Passable
  <2>2. HooksOn(u.ci, n) <=> HooksOn(t.ci, n)
    <3> HIDE DEF n
    <3>1. HooksOn(u.ci, n) <=> HooksOn(t.ci, n - 1) /\ ~u.ci[n].hooked
      <4>1. SameBelow(t.ci, u.ci, n)
        BY <1>1, <1>2 DEF SameBelow
      <4> QED
        BY <1>1, <1>2, <4>1, SetTopHooks
    <3>2. \A i \in 1..(n - 1) : t.ci[i] = t.ci[i]
      OBVIOUS
    <3>3. HooksOn(t.ci, n) <=> HooksOn(t.ci, n - 1) /\ ~t.ci[n].hooked
      <4>1. SameBelow(t.ci, t.ci, n)
        BY <1>1, <3>2 DEF SameBelow
      <4> QED
        BY <1>1, <3>2, <4>1, SetTopHooks
    <3> QED
      BY <1>2, <3>1, <3>3
  <2>3. u.ci[n].f \in Protecting
    BY <1>2
  <2>4. u.ci[n].old_errfunc = Handler(u.ci, n)
    BY <1>1, <1>2, <1>7
  <2>5. u.ci[n].oah <=> HooksOn(u.ci, n)
    BY <1>1, <1>2, <2>2
  <2> QED
    BY <2>1, <2>3, <2>4, <2>5 DEF Saved
<1>9. Sound(u)
  <2>1. u.errfunc <= n
    BY <1>1, <1>2 DEF NewHandler
  <2>2. \A l \in u.openupval : l \in t.openupval \/ (l = n /\ IsLua(t.ci[n]))
    BY <1>2
  <2> QED
    BY <1>1, <1>2, <1>8, <2>1, <2>2, SoundTop
<1>10. Continues(t, u, n)
  BY <1>2, <1>6 DEF Continues
<1>11. u.errfunc = Handler(u.ci, n + 1)
  <2>1. Handler(u.ci, n + 1) = IF u.ci[n].f = "xpcall" THEN n ELSE 0
    BY <1>1, <1>2, HandlerSet
  <2> QED
    BY <1>2, <2>1 DEF NewHandler
<1>12. n = Len(t.ci)
  OBVIOUS
<1> HIDE DEF n
<1> QED
  BY <1>3, <1>9, <1>10, <1>11, <1>12, ContinuesStep

\* The frame of a protected call.
Pcall(L, t) == [fn |-> "luaD_pcall", L |-> L, ci |-> Len(t.ci), nny |-> t.nny, allowhook |-> t.allowhook,
                errfunc |-> t.errfunc, nCcalls |-> t.nCcalls]

LEMMA PcallFrame ==
  ASSUME NEW L \in Thread, NEW t \in State
  PROVE  /\ Pcall(L, t) \in CFrame /\ Pcall(L, t).L = L /\ Pcall(L, t).fn = "luaD_pcall"
         /\ Pcall(L, t).ci = Len(t.ci) /\ Pcall(L, t).nny = t.nny /\ Pcall(L, t).allowhook = t.allowhook
         /\ Pcall(L, t).errfunc = t.errfunc /\ Pcall(L, t).nCcalls = t.nCcalls
         /\ Slack(Pcall(L, t)) = 0 /\ ~Counted(Pcall(L, t))
<1>1. /\ Len(t.ci) \in Nat /\ t.nny \in Nat /\ t.allowhook \in BOOLEAN /\ t.errfunc \in Nat /\ t.nCcalls \in Nat
      /\ "precall" \in Via
  BY DEF State, Via
<1>2. Pcall(L, t) \in CFrame
  BY <1>1, CFrameOf DEF Pcall
<1> QED
  BY <1>2 DEF Pcall, Slack, Counted

LEMMA PcallCStep ==
  ASSUME NEW L, NEW t, NEW c, NEW g, Ready(L, t, c, g), c[Len(c)].fn = "C", t.ci[Len(t.ci)].f \in Protecting,
         t.nny # 0, NEW f \in Kinds, Call([t EXCEPT !.errfunc = NewHandler(t)], Append(c, Pcall(L, t)), f, "callnoyield")
  PROVE  IInv'
<1> DEFINE n == Len(t.ci)
           m == Len(c)
           e == NewHandler(t)
           u == [t EXCEPT !.errfunc = e]
           x == Pcall(L, t)
           s == g[m]
           d == Append(c, x)
           h == Append(g, s)
<1>1. /\ Base(L, t, c, g) /\ Run = L /\ c # <<>> /\ c[m].L = L /\ n \in Nat /\ n > 0 /\ t.status = LUA_OK
      /\ t \in State /\ Sound(t) /\ L \in Thread
      /\ s.level = n /\ s.nny = t.nny /\ s.nCcalls = t.nCcalls
      /\ t.errfunc = Handler(t.ci, n) /\ (t.allowhook <=> HooksOn(t.ci, n)) /\ t.nny \in Nat
  BY ReadyIs
<1>2. e \in Nat /\ e <= n
  BY <1>1 DEF NewHandler
<1> HIDE DEF e
<1>3. /\ u \in State /\ u.ci = t.ci /\ u.errfunc = e /\ u.openupval = t.openupval /\ u.allowhook = t.allowhook
      /\ u.nny = t.nny /\ u.nCcalls = t.nCcalls /\ u.status = t.status
  BY <1>1, <1>2 DEF State
<1>4. Call(u, d, f, "callnoyield")
  BY DEF e
<1> HIDE DEF u, x
<1>5. Sound(u)
  <2>1. Saved(u.ci, n)
    BY <1>1, <1>3 DEF Sound
  <2>2. \A l \in u.openupval : l \in t.openupval \/ (l = n /\ IsLua(t.ci[n]))
    BY <1>3
  <2>3. /\ Len(u.ci) = n /\ (\A i \in 1..(n - 1) : u.ci[i] = t.ci[i])
        /\ u.ci[n].f = t.ci[n].f /\ u.errfunc <= n
    BY <1>2, <1>3
  <2> QED
    BY <1>1, <1>3, <2>1, <2>2, <2>3, SoundTop
<1>6. s \in Past /\ s.nCcalls < MaxCCalls + Extra /\ m \in 1..m /\ s.nCcalls \in Nat
  BY <1>1, TopIs
<1>7. Base(L, u, c, g)
  <2>1. Agree(c[m].fn, t.ci, u.ci, s.level)
    <3>1. \A i \in 1..n : u.ci[i] = t.ci[i]
      BY <1>3
    <3> QED
      BY <1>1, <3>1, AgreeSame
  <2>2. s.level <= Len(u.ci) /\ u.status = LUA_OK
    BY <1>1, <1>3
  <2> QED
    BY <1>1, <1>5, <2>1, <2>2, BaseSet
<1>8. /\ x \in CFrame /\ x.L = L /\ x.fn = "luaD_pcall" /\ x.ci = n /\ x.nny = t.nny /\ x.allowhook = t.allowhook
      /\ x.errfunc = t.errfunc /\ x.nCcalls = t.nCcalls /\ Slack(x) = 0 /\ ~Counted(x)
  BY <1>1, PcallFrame DEF x
<1>9. Kind(c[m], s, x, s, u.ci)
  <2>1. Barrier(L, s, u.ci)
    BY <1>1, <1>3, CallerIs
  <2>2. OfPcall(c[m], s, x, s, u.ci)
    BY <1>1, <1>3, <1>8, <2>1 DEF OfPcall
  <2> QED
    BY <2>2 DEF Kind
<1>10. Base(L, u, d, h)
  <2>1. g[m].nCcalls + (IF Counted(x) THEN 1 ELSE 0) + Slack(x) <= s.nCcalls + Slack(c[m])
    <3>1. Slack(c[m]) = 0
      BY DEF Slack
    <3> QED
      BY <1>6, <1>8, <3>1
  <2>2. s.level <= Len(u.ci) /\ u.status = LUA_OK
    BY <1>1, <1>3
  <2>3. s.level >= g[m].level
    BY <1>1
  <2>4. g[m].nny > 0 \/ c[m].fn = "luaD_pcall" => s.nny > 0
    OBVIOUS
  <2>5. x.fn # "lua_resume"
    BY <1>8
  <2> QED
    BY <1>1, <1>6, <1>7, <1>8, <1>9, <2>1, <2>2, <2>3, <2>4, <2>5, BasePush
<1>11. /\ c \in Seq(CFrame) /\ g \in Seq(Past) /\ Len(g) = m /\ m \in Nat
  BY <1>1, BaseIs
<1>12. d # <<>> /\ Len(d) = m + 1 /\ d[m + 1] = x /\ h[m + 1] = s
  <2>1. Append(c, x) # <<>> /\ Len(Append(c, x)) = Len(c) + 1 /\ Append(c, x)[Len(c) + 1] = x
    BY <1>8, <1>11, AppendSeq
  <2>2. Append(g, s)[Len(g) + 1] = s
    BY <1>6, <1>11, AppendSeq
  <2> QED
    BY <1>11, <2>1, <2>2
<1> HIDE DEF d, h
<1>13. d[Len(d)] = x /\ h[Len(d)] = s
  BY <1>12
<1>14. Stands(u, d, h)
  <2>1. Handler(t.ci, n + 1) = IF t.ci[n].f = "xpcall" THEN n ELSE 0
    BY <1>1, HandlerSet
  <2> QED
    BY <1>1, <1>3, <1>13, <2>1 DEF Stands, e, NewHandler
<1>15. MayCall(u, d[Len(d)], h[Len(d)], "callnoyield")
  BY <1>8, <1>13 DEF MayCall, Calling
<1>16. u.nny = h[Len(d)].nny /\ u.nCcalls = h[Len(d)].nCcalls /\ d[Len(d)].L = L /\ "callnoyield" \in {"call", "callnoyield"}
  BY <1>1, <1>3, <1>8, <1>13
<1> QED
  BY <1>1, <1>4, <1>10, <1>12, <1>14, <1>15, <1>16, CallStep

-----------------------------------------------------------------------------
(* lua_resume *)

\* lua_resume runs the function on top.
Resumes(L, u, d, k, n, x) ==
  /\ L # Main /\ d[Len(d)].fn = "lua_resume" /\ n > 0 /\ n = Len(u.ci)
  /\ k[Len(d)] = [level |-> n - 1, nny |-> 0, nCcalls |-> u.nCcalls]
  /\ u.nny = 0 /\ u.status = LUA_OK /\ (u.allowhook <=> HooksOn(u.ci, n)) /\ u.errfunc = Handler(u.ci, n)
  /\ Passable(u.ci, n - 1) /\ ~u.ci[n].hooked
  /\ \/ x = Execute(L, "precall") /\ u.ci[n].f = "lua" /\ u.ci[n].fresh
     \/ x = CFunction(L, "precall") /\ ~IsLua(u.ci[n])

LEMMA ResumesStep ==
  ASSUME NEW L, NEW u, NEW d, NEW k, Base(L, u, d, k), d # <<>>, d[Len(d)].L = L, NEW n \in Nat, NEW x,
         Resumes(L, u, d, k, n, x), th' = With(L, u), cstack' = Append(d, x)
  PROVE  IInv'
<1> DEFINE m == Len(d)
           y == d[m]
           q == k[m]
           s == [level |-> n, nny |-> 0, nCcalls |-> u.nCcalls]
<1>1. /\ L # Main /\ y.fn = "lua_resume" /\ n > 0 /\ n = Len(u.ci)
      /\ q = [level |-> n - 1, nny |-> 0, nCcalls |-> u.nCcalls]
      /\ u.nny = 0 /\ u.status = LUA_OK /\ (u.allowhook <=> HooksOn(u.ci, n)) /\ u.errfunc = Handler(u.ci, n)
      /\ Passable(u.ci, n - 1) /\ ~u.ci[n].hooked
  BY DEF Resumes
<1>2. \/ x = Execute(L, "precall") /\ u.ci[n].f = "lua" /\ u.ci[n].fresh
      \/ x = CFunction(L, "precall") /\ ~IsLua(u.ci[n])
  BY DEF Resumes
<1>3. /\ u \in State /\ L \in Thread /\ d \in Seq(CFrame) /\ k \in Seq(Past) /\ Len(k) = m /\ m \in Nat
  BY BaseIs
<1>4. m \in 1..m /\ q.nCcalls < MaxCCalls + Extra /\ q \in Past
  BY TopIs
<1>5. u.nCcalls \in Nat /\ s \in Past /\ q.level = n - 1 /\ q.nny = 0 /\ q.nCcalls = u.nCcalls
  BY <1>1, <1>3 DEF State, Past
<1>6. s.level = n /\ s.nny = 0 /\ s.nCcalls = u.nCcalls
  OBVIOUS
<1>7. /\ x \in CFrame /\ x.L = L /\ x.via = "precall" /\ Slack(x) = 0 /\ ~Counted(x)
      /\ x.fn \in {"luaV_execute", "C"}
      /\ x.fn = "luaV_execute" => u.ci[n].f = "lua" /\ u.ci[n].fresh
      /\ x.fn = "C" => ~IsLua(u.ci[n])
  <2>1. "precall" \in Via
    BY DEF Via
  <2>2. x \in CFrame
    BY <1>2, <1>3, <2>1, CFrameOf
  <2> QED
    BY <1>2, <2>2 DEF Execute, CFunction, Slack, Counted
<1> HIDE DEF s
<1>8. Barrier(L, s, u.ci)
  BY <1>1, <1>2, <1>6 DEF Barrier, IsLua
<1>9. Called(y, q, x, s, u.ci)
  <2>1. Calling(y, q, x.via, u.ci)
    BY <1>1, <1>7 DEF Calling
  <2>2. Counters(q, x.via, s)
    BY <1>5, <1>6, <1>7 DEF Counters
  <2> QED
    BY <1>1, <2>1, <2>2 DEF Called
<1>10. (n - 1) + 1 = n /\ (n - 1) + 2 = n + 1 /\ n - 1 \in Nat /\ n - 1 < n
  BY <1>1
<1>11. Kind(y, q, x, s, u.ci)
  <2>1. CASE x.fn = "luaV_execute"
    <3>1. \A j \in (q.level + 1)..s.level : j = n
      BY <1>5, <1>6
    <3>2. \A j \in (q.level + 2)..s.level : FALSE
      BY <1>5, <1>6
    <3>3. \A j \in (q.level + 1)..(s.level - 1) : FALSE
      BY <1>5, <1>6
    <3>4. u.ci[q.level + 1].fresh /\ q.level < s.level
      BY <1>5, <1>6, <1>7, <1>10, <2>1
    <3>5. IsLua(u.ci[n])
      BY <1>7, <2>1 DEF IsLua
    <3>6. OfLua(y, q, x, s, u.ci)
      BY <1>7, <1>8, <1>9, <2>1, <3>1, <3>2, <3>3, <3>4, <3>5 DEF OfLua
    <3> QED
      BY <3>6 DEF Kind
  <2>2. CASE x.fn = "C"
    <3>1. s.level = q.level + 1
      BY <1>5, <1>6, <1>10
    <3>2. OfC(y, q, x, s, u.ci)
      BY <1>1, <1>6, <1>7, <1>8, <1>9, <2>2, <3>1 DEF OfC
    <3> QED
      BY <3>2 DEF Kind
  <2> QED
    BY <1>7, <2>1, <2>2
<1>12. Base(L, u, Append(d, x), Append(k, s))
  <2>1. k[m].nCcalls + (IF Counted(x) THEN 1 ELSE 0) + Slack(x) <= s.nCcalls + Slack(d[m])
    <3>1. Slack(d[m]) = 0
      BY <1>1 DEF Slack
    <3> QED
      BY <1>5, <1>6, <1>7, <3>1
  <2>2. s.level <= Len(u.ci) /\ s.nCcalls < MaxCCalls + Extra
    BY <1>1, <1>4, <1>5, <1>6
  <2>3. s.level >= k[m].level
    BY <1>5, <1>6, <1>10
  <2>4. k[m].nny > 0 \/ d[m].fn = "luaD_pcall" => s.nny > 0
    BY <1>1, <1>5
  <2>5. x.fn # "lua_resume"
    BY <1>7
  <2> QED
    BY <1>1, <1>5, <1>7, <1>11, <2>1, <2>2, <2>3, <2>4, <2>5, BasePush
<1> DEFINE e == Append(d, x)
           h == Append(k, s)
<1>13. e # <<>> /\ Len(e) = m + 1 /\ e[m + 1] = x /\ h[m + 1] = s
  <2>1. Append(d, x) # <<>> /\ Len(Append(d, x)) = Len(d) + 1 /\ Append(d, x)[Len(d) + 1] = x
    BY <1>3, <1>7, AppendSeq
  <2>2. Append(k, s)[Len(k) + 1] = s
    BY <1>3, <1>5, AppendSeq
  <2> QED
    BY <1>3, <2>1, <2>2
<1>14. Awake(x, u, s)
  BY <1>1, <1>7 DEF Awake, s
<1>15. th' = With(L, u) /\ cstack' = e /\ Base(L, u, e, h)
  BY <1>12
<1> HIDE DEF e, h
<1>16. e[Len(e)].L = L /\ Awake(e[Len(e)], u, h[Len(e)])
  BY <1>7, <1>13, <1>14
<1> QED
  BY <1>13, <1>15, <1>16, ConcludeTop

Freshened(t) == [t EXCEPT !.ci[Len(t.ci)].fresh = TRUE]

LEMMA FreshenedIs ==
  ASSUME NEW t \in State, t.ci # <<>>, NEW n, n = Len(t.ci), NEW u, u = Freshened(t)
  PROVE  /\ u \in State /\ Len(u.ci) = n /\ n \in Nat /\ n > 0
         /\ \A i \in 1..(n - 1) : u.ci[i] = t.ci[i]
         /\ u.ci[n].f = t.ci[n].f /\ u.ci[n].k = t.ci[n].k /\ u.ci[n].ypcall = t.ci[n].ypcall
         /\ u.ci[n].hooked = t.ci[n].hooked /\ u.ci[n].fresh
         /\ u.allowhook = t.allowhook /\ u.errfunc = t.errfunc /\ u.nny = t.nny /\ u.nCcalls = t.nCcalls
         /\ u.openupval = t.openupval /\ u.status = t.status
<1> DEFINE s == t.ci
           a == s[Len(s)]
           e == [a EXCEPT !.fresh = TRUE]
           r == SetTop(s, e)
           v == [t EXCEPT !.ci = r]
<1>1. s \in Seq(Info)
  BY DEF State
<1>2. Len(s) \in 1..Len(s) /\ Len(s) \in Nat /\ Len(s) > 0
  BY <1>1
<1>3. a \in Info
  BY <1>1, <1>2
<1>4. e \in Info /\ e.f = a.f /\ e.k = a.k /\ e.ypcall = a.ypcall /\ e.hooked = a.hooked /\ e.fresh
  BY <1>3 DEF Info
<1>5. u = v
  BY DEF Freshened, SetTop
<1> HIDE DEF e
<1>6. /\ r \in Seq(Info) /\ Len(r) = Len(s) /\ r[Len(s)] = e
      /\ \A i \in 1..(Len(s) - 1) : r[i] = s[i]
  BY <1>1, <1>4, SetTopIs
<1> HIDE DEF r
<1>7. /\ v \in State /\ v.ci = r /\ v.errfunc = t.errfunc /\ v.nny = t.nny /\ v.nCcalls = t.nCcalls
      /\ v.allowhook = t.allowhook /\ v.openupval = t.openupval /\ v.status = t.status
  BY <1>6 DEF State
<1> HIDE DEF v
<1> QED
  BY <1>2, <1>4, <1>5, <1>6, <1>7

LEMMA FreshenedSound ==
  ASSUME NEW t, Sound(t), NEW n, n = Len(t.ci), t.ci # <<>>, IsLua(t.ci[n]), NEW u, u = Freshened(t)
  PROVE  Sound(u) /\ ~t.ci[n].ypcall
<1>1. t \in State /\ t.errfunc <= n
  BY DEF Sound
<1>2. /\ u \in State /\ Len(u.ci) = n /\ n \in Nat /\ n > 0
      /\ \A i \in 1..(n - 1) : u.ci[i] = t.ci[i]
      /\ u.ci[n].f = t.ci[n].f /\ u.ci[n].ypcall = t.ci[n].ypcall
      /\ u.errfunc = t.errfunc /\ u.openupval = t.openupval
  BY <1>1, FreshenedIs
<1>3. ~t.ci[n].ypcall
  <2>1. Saved(t.ci, n)
    BY <1>2 DEF Sound
  <2> QED
    BY <2>1 DEF Saved, IsLua, Protecting
<1>4. Saved(u.ci, n)
  BY <1>2, <1>3 DEF Saved
<1>5. \A l \in u.openupval : l \in t.openupval \/ (l = n /\ IsLua(t.ci[n]))
  BY <1>2
<1>6. u.errfunc <= n
  BY <1>1, <1>2
<1> QED
  BY <1>2, <1>3, <1>4, <1>5, <1>6, SoundTop

LEMMA InResume ==
  ASSUME NEW L, NEW t, NEW c, NEW g, Ready(L, t, c, g), c[Len(c)].fn = "lua_resume"
  PROVE  /\ L # Main /\ Passable(t.ci, Len(t.ci)) /\ t.nny = 0 /\ c[Len(c)].nCcalls = t.nCcalls
         /\ SubSeq(c, 1, Len(c)) = c /\ Owned(c, L, Len(c)) /\ Len(c) \in 1..Len(c)
         /\ t.errfunc = Handler(t.ci, Len(t.ci) + 1) \/ (Len(t.ci) > 0 /\ t.ci[Len(t.ci)].ypcall)
<1>1. /\ Base(L, t, c, g) /\ c # <<>> /\ c[Len(c)].L = L /\ Awake(c[Len(c)], t, g[Len(c)])
      /\ g[Len(c)].level = Len(t.ci) /\ g[Len(c)].nny = t.nny /\ g[Len(c)].nCcalls = t.nCcalls
  BY ReadyIs
<1>2. Len(c) > 1 /\ OfResume(c[Len(c) - 1], g[Len(c) - 1], c[Len(c)], g[Len(c)], t.ci)
  BY <1>1, TopKind
<1>3. /\ L # Main /\ Passable(t.ci, Len(t.ci)) /\ t.nny = 0 /\ c[Len(c)].nCcalls = t.nCcalls
  BY <1>1, <1>2 DEF OfResume
<1>4. Len(c) \in 1..Len(c) /\ c \in Seq(CFrame)
  BY <1>1, TopIs, BaseIs
<1>5. SubSeq(c, 1, Len(c)) = c
  BY <1>4
<1>6. Owned(c, L, Len(c))
  BY <1>1, <1>4 DEF Owned
<1>7. t.errfunc = Handler(t.ci, Len(t.ci) + 1) \/ (Len(t.ci) > 0 /\ t.ci[Len(t.ci)].ypcall)
  BY <1>1 DEF Awake
<1> QED
  BY <1>3, <1>4, <1>5, <1>6, <1>7

LEMMA UnrollEnds ==
  ASSUME NEW L, NEW t, NEW c, NEW g, Ready(L, t, c, g), c[Len(c)].fn = "lua_resume", t.ci = <<>>, Resumed(t, c, "ok")
  PROVE  IInv'
<1>1. /\ Base(L, t, c, g) /\ Run = L /\ Sound(t) /\ t \in State /\ t.status = LUA_OK
      /\ (t.allowhook <=> HooksOn(t.ci, Len(t.ci)))
  BY ReadyIs
<1>2. /\ L # Main /\ SubSeq(c, 1, Len(c)) = c /\ Owned(c, L, Len(c)) /\ Len(c) \in 1..Len(c)
  BY InResume
<1>3. t.errfunc = 0 /\ t.allowhook
  <2>1. Len(t.ci) = 0
    OBVIOUS
  <2>2. t.errfunc \in Nat /\ t.errfunc <= 0
    BY <1>1, <2>1 DEF Sound, State
  <2>3. HooksOn(t.ci, 0)
    BY DEF HooksOn
  <2> QED
    BY <1>1, <2>1, <2>2, <2>3
<1>4. Leaves(L, t)
  <2>1. LUA_YIELD # LUA_OK
    BY DEF LUA_YIELD, LUA_OK
  <2> QED
    BY <1>1, <1>2, <1>3, <2>1 DEF Leaves, Asleep
<1>5. Resumed(t, SubSeq(c, 1, Len(c)), "ok") /\ "ok" \in {"no", "ok", "error"}
  BY <1>2
<1> QED
  BY <1>1, <1>2, <1>4, <1>5, ResumedStep

LEMMA UnrollLua ==
  ASSUME NEW L, NEW t, NEW c, NEW g, Ready(L, t, c, g), c[Len(c)].fn = "lua_resume", t.ci # <<>>,
         IsLua(t.ci[Len(t.ci)]), Step(Freshened(t), Append(c, Execute(L, "precall")))
  PROVE  IInv'
<1> DEFINE n == Len(t.ci)
           u == Freshened(t)
           m == Len(c)
<1>1. /\ Base(L, t, c, g) /\ Run = L /\ c # <<>> /\ c[m].L = L /\ Sound(t) /\ t \in State /\ t.status = LUA_OK
      /\ (t.allowhook <=> HooksOn(t.ci, n)) /\ t.nCcalls \in Nat
  BY ReadyIs
<1>2. /\ L # Main /\ Passable(t.ci, n) /\ t.nny = 0 /\ c[m].nCcalls = t.nCcalls
      /\ SubSeq(c, 1, m) = c /\ Owned(c, L, m) /\ m \in 1..m
      /\ t.errfunc = Handler(t.ci, n + 1) \/ (n > 0 /\ t.ci[n].ypcall)
  BY InResume
<1>3. /\ u \in State /\ Len(u.ci) = n /\ n \in Nat /\ n > 0
      /\ \A i \in 1..(n - 1) : u.ci[i] = t.ci[i]
      /\ u.ci[n].f = t.ci[n].f /\ u.ci[n].hooked = t.ci[n].hooked /\ u.ci[n].fresh
      /\ u.allowhook = t.allowhook /\ u.errfunc = t.errfunc /\ u.nny = t.nny /\ u.nCcalls = t.nCcalls
      /\ u.status = t.status
  BY <1>1, FreshenedIs
<1>4. Sound(u) /\ ~t.ci[n].ypcall
  BY <1>1, FreshenedSound
<1>0. th' = With(L, u) /\ cstack' = Append(c, Execute(L, "precall"))
  BY <1>1 DEF Step, With
<1> HIDE DEF u
<1>5. Passes(t.ci[n]) /\ Passable(u.ci, n - 1)
  BY <1>2, <1>3 DEF Passable
<1>6. PICK k : /\ Base(L, u, SubSeq(c, 1, m), k)
               /\ k[m] = [level |-> n - 1, nny |-> 0, nCcalls |-> c[m].nCcalls]
  <2>1. n - 1 \in 0..Len(u.ci) /\ u.status = LUA_OK
    BY <1>1, <1>3
  <2>2. Passable(u.ci, n - 1) /\ Sound(u)
    BY <1>4, <1>5
  <2> HIDE DEF n
  <2> QED
    BY <1>1, <1>2, <2>1, <2>2, ResumeBase
<1>7. Resumes(L, u, c, k, n, Execute(L, "precall"))
  <2>1. u.ci[n].f = "lua" /\ ~u.ci[n].hooked
    BY <1>3, <1>5 DEF Passes, IsLua
  <2>2. u.allowhook <=> HooksOn(u.ci, n)
    <3>1. HooksOn(u.ci, n) <=> HooksOn(t.ci, n - 1) /\ ~u.ci[n].hooked
      <4> HIDE DEF n
      <4>9. SameBelow(t.ci, u.ci, n)
        BY <1>3 DEF SameBelow
      <4> QED
        BY <1>3, <4>9, SetTopHooks
    <3>2. HooksOn(t.ci, n) <=> HooksOn(t.ci, n - 1) /\ ~t.ci[n].hooked
      <4>1. \A i \in 1..(n - 1) : t.ci[i] = t.ci[i]
        OBVIOUS
      <4> HIDE DEF n
      <4>9. SameBelow(t.ci, t.ci, n)
        BY <1>3, <4>1 DEF SameBelow
      <4> QED
        BY <1>3, <4>1, <4>9, SetTopHooks
    <3> QED
      BY <1>1, <1>3, <3>1, <3>2
  <2>3. u.errfunc = Handler(u.ci, n)
    <3>1. \A i \in 1..(n - 1) : u.ci[i].f = t.ci[i].f
      BY <1>3
    <3>2. Handler(u.ci, n) = Handler(t.ci, n)
      BY <3>1, HandlerSame
    <3>3. n \in Nat \ {0} /\ t.ci[n].f \notin Protecting
      BY <1>3 DEF IsLua, Protecting
    <3>4. Handler(t.ci, n + 1) = Handler(t.ci, n)
      BY <3>3, HandlerNext
    <3> QED
      BY <1>2, <1>3, <1>4, <3>2, <3>4
  <2> QED
    BY <1>1, <1>2, <1>3, <1>5, <1>6, <2>1, <2>2, <2>3 DEF Resumes
<1>8. Base(L, u, c, k)
  BY <1>2, <1>6
<1> HIDE DEF n
<1> QED
  BY <1>0, <1>1, <1>3, <1>7, <1>8, ResumesStep

\* A C function is finished by its continuation.
Finished(t) == [t EXCEPT !.ci = Front(@), !.errfunc = OldErrfunc(t, Last(t.ci))]

LEMMA UnrollC ==
  ASSUME NEW L, NEW t, NEW c, NEW g, Ready(L, t, c, g), c[Len(c)].fn = "lua_resume", t.ci # <<>>,
         ~IsLua(t.ci[Len(t.ci)]), Step(Finished(t), c)
  PROVE  IInv'
<1> DEFINE n == Len(t.ci)
           u == Finished(t)
           m == Len(c)
<1>1. /\ Base(L, t, c, g) /\ Run = L /\ c # <<>> /\ c[m].L = L /\ Sound(t) /\ t \in State /\ t.status = LUA_OK
      /\ (t.allowhook <=> HooksOn(t.ci, n)) /\ t.nCcalls \in Nat /\ t.ci \in Seq(Info) /\ n \in Nat
  BY ReadyIs
<1>2. /\ L # Main /\ Passable(t.ci, n) /\ t.nny = 0 /\ c[m].nCcalls = t.nCcalls
      /\ SubSeq(c, 1, m) = c /\ Owned(c, L, m) /\ m \in 1..m
      /\ t.errfunc = Handler(t.ci, n + 1) \/ (n > 0 /\ t.ci[n].ypcall)
  BY InResume
<1>3. /\ Front(t.ci) \in Seq(Info) /\ Len(Front(t.ci)) = n - 1 /\ n > 0
      /\ \A i \in 1..(n - 1) : Front(t.ci)[i] = t.ci[i]
      /\ Last(t.ci) = t.ci[n]
  <2>1. /\ Front(t.ci) \in Seq(Info) /\ Len(Front(t.ci)) = n - 1 /\ n \in Nat \ {0}
        /\ \A i \in 1..(n - 1) : Front(t.ci)[i] = t.ci[i]
        /\ Last(t.ci) = t.ci[n]
    BY <1>1, FrontSeq
  <2> QED
    BY <2>1
<1>4. Passes(t.ci[n])
  BY <1>1, <1>3, <1>2 DEF Passable
<1>5. OldErrfunc(t, Last(t.ci)) = Handler(t.ci, n)
  <2>1. CASE t.ci[n].ypcall
    <3>1. Saved(t.ci, n)
      BY <1>1, <1>3 DEF Sound
    <3> QED
      BY <1>3, <2>1, <3>1 DEF Saved, OldErrfunc
  <2>2. CASE ~t.ci[n].ypcall
    <3>1. t.ci[n].f \notin Protecting /\ n \in Nat \ {0}
      BY <1>1, <1>3, <1>4, <2>2 DEF Passes
    <3>2. Handler(t.ci, n + 1) = Handler(t.ci, n)
      BY <3>1, HandlerNext
    <3> QED
      BY <1>2, <1>3, <2>2, <3>2 DEF OldErrfunc
  <2> QED
    BY <2>1, <2>2
<1>6. Handler(t.ci, n) \in Nat /\ Handler(t.ci, n) <= n - 1
  <2>1. Handler(t.ci, n) \in Nat /\ Handler(t.ci, n) < n
    BY <1>1, <1>3, HandlerBound
  <2> QED
    BY <1>1, <2>1
<1>7. /\ u \in State /\ u.ci = Front(t.ci) /\ u.errfunc = Handler(t.ci, n)
      /\ u.allowhook = t.allowhook /\ u.nny = t.nny /\ u.nCcalls = t.nCcalls
      /\ u.openupval = t.openupval /\ u.status = t.status
  <2>1. u = [t EXCEPT !.ci = Front(t.ci), !.errfunc = Handler(t.ci, n)]
    BY <1>5 DEF Finished
  <2> HIDE DEF u
  <2> QED
    BY <1>1, <1>3, <1>6, <2>1 DEF State
<1>0. th' = With(L, u) /\ cstack' = c
  BY <1>1 DEF Step, With
<1> HIDE DEF u
<1>8. Sound(u)
  <2>1. \A l \in u.openupval : l \in t.openupval /\ l <= n - 1
    <3>1. \A l \in t.openupval : l \in 1..n /\ IsLua(t.ci[l])
      BY <1>1 DEF Sound
    <3> QED
      BY <1>1, <1>7, <3>1
  <2>2. n - 1 \in 0..Len(t.ci) /\ Len(u.ci) = n - 1 /\ u.errfunc <= n - 1
    BY <1>1, <1>3, <1>6, <1>7
  <2>3. \A i \in 1..(n - 1) : u.ci[i] = t.ci[i]
    BY <1>3, <1>7
  <2> QED
    BY <1>1, <1>7, <2>1, <2>2, <2>3, SoundKept
<1>9. PICK k : /\ Base(L, u, SubSeq(c, 1, m), k)
               /\ k[m] = [level |-> n - 1, nny |-> 0, nCcalls |-> c[m].nCcalls]
  <2>1. n - 1 \in 0..Len(u.ci) /\ u.status = LUA_OK
    BY <1>1, <1>3, <1>7
  <2>2. Passable(u.ci, n - 1)
    BY <1>1, <1>2, <1>3, <1>7 DEF Passable
  <2> QED
    BY <1>1, <1>2, <1>8, <2>1, <2>2, ResumeBase
<1>10. Awake(c[m], u, k[m])
  <2>1. k[m] = [level |-> Len(u.ci), nny |-> u.nny, nCcalls |-> u.nCcalls]
    BY <1>2, <1>3, <1>7, <1>9
  <2>2. u.allowhook <=> HooksOn(u.ci, Len(u.ci))
    <3>1. HooksOn(t.ci, n) <=> HooksOn(u.ci, n - 1) /\ ~t.ci[n].hooked
      <4>1. \A i \in 1..(n - 1) : t.ci[i] = u.ci[i]
        BY <1>3, <1>7
      <4> HIDE DEF n
      <4>9. SameBelow(u.ci, t.ci, n)
        BY <1>1, <1>3, <4>1 DEF SameBelow
      <4> QED
        BY <1>1, <1>3, <4>1, <4>9, SetTopHooks
    <3>2. ~t.ci[n].hooked
      BY <1>4 DEF Passes
    <3>3. Len(u.ci) = n - 1
      BY <1>3, <1>7
    <3> QED
      BY <1>1, <1>7, <3>1, <3>2, <3>3
  <2>3. u.errfunc = Handler(u.ci, Len(u.ci) + 1)
    <3>1. \A i \in 1..(n - 1) : u.ci[i].f = t.ci[i].f
      BY <1>3, <1>7
    <3>2. Handler(u.ci, n) = Handler(t.ci, n)
      BY <3>1, HandlerSame
    <3>3. Len(u.ci) + 1 = n
      BY <1>1, <1>3, <1>7
    <3>4. Handler(u.ci, Len(u.ci) + 1) = Handler(u.ci, n)
      BY <3>3, Zenon
    <3> QED
      BY <1>7, <3>2, <3>4
  <2> QED
    BY <2>1, <2>2, <2>3 DEF Awake
<1>11. Base(L, u, c, k)
  BY <1>2, <1>9
<1> QED
  BY <1>0, <1>1, <1>10, <1>11, ConcludeTop

-----------------------------------------------------------------------------
(* Coroutines are resumed *)

LEMMA ReadyOf ==
  ASSUME NEW g, Good(th, cstack, g), cstack # <<>>
  PROVE  Ready(Run, t0, cstack, g) /\ Top = cstack[Len(cstack)]
<1>1. /\ cstack \in Seq(CFrame) /\ Awake(cstack[Len(cstack)], th[cstack[Len(cstack)].L], g[Len(cstack)])
  BY DEF Good
<1>2. Top = cstack[Len(cstack)] /\ Top \in CFrame
  BY <1>1, FrontSeq DEF Top
<1>3. Run = cstack[Len(cstack)].L /\ Run \in Thread
  BY <1>2, CFrameIs DEF Run
<1>4. Base(Run, t0, cstack, g)
  BY <1>3, BaseOf DEF t0
<1> QED
  BY <1>1, <1>2, <1>3, <1>4 DEF Ready, t0

\* The last frame of a thread is the top of the stack, or that of a C function that has
\* resumed a coroutine.
LEMMA LastFrame ==
  ASSUME NEW g, Good(th, cstack, g), NEW i \in 1..Len(cstack), NEW l, l = cstack[i].L
  PROVE  \E m \in 1..Len(cstack) :
           /\ cstack[m].L = l /\ Awake(cstack[m], th[l], g[m]) /\ th[l].status = LUA_OK
           /\ m = Len(cstack) \/ cstack[m].fn = "C"
<1> DEFINE c == cstack
           n == Len(c)
           H == {j \in 1..n : c[j].L = l}
<1>1. c \in Seq(CFrame) /\ n \in Nat /\ i \in 1..n /\ n \in 1..n
  BY DEF Good
<1>2. \A j \in 1..n : FrameAt(th, c, g, j)
  BY DEF Good
<1>3. Awake(c[n], th[c[n].L], g[n])
  <2>1. c # <<>>
    BY <1>1
  <2> QED
    BY <2>1 DEF Good
<1>4. th[l].status = LUA_OK
  <2>1. FrameAt(th, c, g, i)
    BY <1>2
  <2> QED
    BY <2>1 DEF FrameAt
<1>5. i \in H /\ \A j \in H : j \in Nat /\ j \in 1..n /\ j <= n /\ c[j].L = l
  BY <1>1
<1> HIDE DEF n, H
<1>6. H \in SUBSET Nat /\ H # {}
  BY <1>5
<1>7. PICK m \in H : \A j \in H : j <= m
  BY <1>1, <1>5, <1>6, GreatestOf
<1>8. m \in 1..n /\ c[m].L = l
  BY <1>5
<1>9. CASE m = n
  <2>1. Awake(c[m], th[l], g[m])
    BY <1>3, <1>8, <1>9
  <2> QED
    BY <1>4, <1>8, <1>9, <2>1 DEF n
<1>10. CASE m # n
  <2>1. m + 1 \in 1..n /\ m \in 1..((m + 1) - 1) /\ (m + 1) - 1 = m /\ m + 1 # 1
    BY <1>1, <1>8, <1>10
  <2>2. c[m + 1].L # l
    <3>1. m + 1 \notin H
      BY <1>7, <1>8
    <3> QED
      BY <2>1, <3>1 DEF H
  <2>3. FrameAt(th, c, g, m + 1)
    BY <1>2, <2>1
  <2>4. /\ Pair(c, g, m, m + 1) /\ Frame(c, g, th[c[m + 1].L].ci, m + 1)
        /\ c[m + 1].fn = "lua_resume" => Awake(c[(m + 1) - 1], th[c[(m + 1) - 1].L], g[(m + 1) - 1])
    BY <2>1, <2>3 DEF FrameAt
  <2>5. c[m + 1].fn = "lua_resume"
    <3>1. \A k \in (m + 1)..(m + 1) : k = m + 1
      BY <1>8
    <3> QED
      BY <1>8, <2>2, <2>4, <3>1 DEF Pair
  <2>6. Kind(c[(m + 1) - 1], g[(m + 1) - 1], c[m + 1], g[m + 1], th[c[m + 1].L].ci)
    BY <2>1, <2>4 DEF Frame
  <2>7. Kind(c[m], g[m], c[m + 1], g[m + 1], th[c[m + 1].L].ci) /\ Awake(c[m], th[c[m].L], g[m])
    BY <2>1, <2>4, <2>5, <2>6
  <2>8. c[m].fn = "C"
    BY <2>5, <2>7 DEF Kind, OfLua, OfC, OfHook, OfError, OfPcall, OfResume
  <2>9. Awake(c[m], th[l], g[m])
    BY <1>8, <2>7
  <2> QED
    BY <1>4, <1>8, <2>8, <2>9 DEF n
<1> QED
  BY <1>9, <1>10

\* A thread on the stack runs, or has called another function or coroutine.
LEMMA ActiveIs ==
  ASSUME NEW g, Good(th, cstack, g), NEW i \in 1..Len(cstack), cstack[Len(cstack)].fn # "lua_resume"
  PROVE  th[cstack[i].L].status = LUA_OK /\ th[cstack[i].L].ci # <<>>
<1> PICK l : l = cstack[i].L
  OBVIOUS
<1>1. PICK m \in 1..Len(cstack) :
         /\ cstack[m].L = l /\ Awake(cstack[m], th[l], g[m]) /\ th[l].status = LUA_OK
         /\ m = Len(cstack) \/ cstack[m].fn = "C"
  BY LastFrame
<1>2. cstack[m].fn # "lua_resume"
  BY <1>1
<1>3. Len(th[l].ci) > 0
  BY <1>1, <1>2 DEF Awake
<1> QED
  BY <1>1, <1>3

\* A coroutine that can be resumed or has ended has no frame.
LEMMA FreeIs ==
  ASSUME NEW g, Good(th, cstack, g), cstack[Len(cstack)].fn # "lua_resume",
         NEW l \in Thread, Suspended(th[l]) \/ Dead(th[l])
  PROVE  (\A j \in 1..Len(cstack) : cstack[j].L # l) /\ Asleep(l, th[l])
<1>1. ASSUME NEW j \in 1..Len(cstack), cstack[j].L = l PROVE FALSE
  <2>1. th[l].status = LUA_OK /\ th[l].ci # <<>>
    BY <1>1, ActiveIs
  <2> QED
    BY <2>1 DEF Suspended, Dead, Busy
<1> QED
  BY <1>1 DEF Good

Resumption(co, nny, n) == [fn |-> "lua_resume", L |-> co, nny |-> nny, nCcalls |-> n]

\* The number of C calls, when there is room for lua_resume.
NextCall(n) == n = t0.nCcalls + 1 /\ n < MaxCCalls

\* The frame of lua_resume is on the stack d, with record k.
Pushed(co, u, v, n, d, k) ==
  /\ d = Append(cstack, Resumption(co, 1, n)) /\ Base(co, u, d, k) /\ d # <<>>
  /\ d[Len(d)] = Resumption(co, 1, n) /\ d[Len(d)].L = co /\ d[Len(d)].fn = "lua_resume"
  /\ k[Len(d)] = [level |-> v, nny |-> 0, nCcalls |-> n]

LEMMA ResumePush ==
  ASSUME NEW g, Good(th, cstack, g), cstack # <<>>, cstack[Len(cstack)].fn = "C", NEW co \in Coroutine,
         \A j \in 1..Len(cstack) : cstack[j].L # co,
         NEW u, Sound(u), u.status = LUA_OK, NEW v \in 0..Len(u.ci), Passable(u.ci, v),
         NEW n, NextCall(n)
  PROVE  \E d, k : Pushed(co, u, v, n, d, k)
<1> DEFINE c == cstack
           m == Len(c)
           x == Resumption(co, 1, n)
           s == [level |-> v, nny |-> 0, nCcalls |-> n]
           d == Append(c, x)
           k == Append(g, s)
<1>1. /\ Ready(Run, t0, c, g) /\ Base(Run, t0, c, g) /\ c[m].L = Run /\ Run \in Thread
      /\ g[m].nCcalls = t0.nCcalls /\ t0.nCcalls \in Nat /\ Awake(c[m], t0, g[m])
  BY ReadyOf, ReadyIs
<1>2. c \in Seq(CFrame) /\ g \in Seq(Past) /\ Len(g) = m /\ m \in Nat /\ m \in 1..m
  BY <1>1, BaseIs, TopIs
<1>3. co \in Thread /\ co # Main
  BY CallsAssumption DEF Thread
<1>4. Base(co, th[co], c, g)
  BY <1>3, BaseOf
<1>5. Base(co, u, c, g)
  <2>1. Same(c, g, c, g, m)
    BY DEF Same, Alike
  <2> QED
    BY <1>2, <1>4, <2>1, BaseFree
<1>6. n \in Nat /\ v \in Nat /\ v <= Len(u.ci) /\ n < MaxCCalls + Extra
  <2>1. Len(u.ci) \in Nat
    BY DEF Sound, State
  <2> QED
    BY <1>1, <2>1, CallsAssumption DEF NextCall
<1>7. x \in CFrame /\ x.L = co /\ x.fn = "lua_resume" /\ x.nny = 1 /\ x.nCcalls = n /\ Counted(x) /\ Slack(x) = 0
  <2>1. "call" \in Via
    BY DEF Via
  <2>2. x \in CFrame
    BY <1>3, <1>6, <2>1, CFrameOf DEF Resumption
  <2> QED
    BY <2>2 DEF Resumption, Counted, Slack
<1>8. s \in Past /\ s.level = v /\ s.nny = 0 /\ s.nCcalls = n
  BY <1>6 DEF Past
<1>9. s = [level |-> v, nny |-> 0, nCcalls |-> n] /\ x = Resumption(co, 1, n)
  OBVIOUS
<1> HIDE DEF x, s
<1>10. Kind(c[m], g[m], x, s, u.ci)
  <2>1. c[m].L # x.L
    BY <1>2, <1>7
  <2>2. OfResume(c[m], g[m], x, s, u.ci)
    BY <1>1, <1>3, <1>7, <1>8, <2>1 DEF OfResume, NextCall
  <2> QED
    BY <2>2 DEF Kind
<1>11. Base(co, u, d, k)
  <2>1. g[m].nCcalls + (IF Counted(x) THEN 1 ELSE 0) + Slack(x) <= s.nCcalls + Slack(c[m])
    <3>1. Slack(c[m]) = 0
      BY DEF Slack
    <3> QED
      BY <1>1, <1>7, <1>8, <3>1 DEF NextCall
  <2>2. s.level <= Len(u.ci) /\ s.nCcalls < MaxCCalls + Extra
    BY <1>6, <1>8
  <2>3. Awake(c[m], th[c[m].L], g[m])
    BY <1>1 DEF t0
  <2>4. x.fn = "lua_resume" /\ \A j \in 1..m : c[j].L # co
    BY <1>7
  <2> QED
    BY <1>5, <1>7, <1>8, <1>10, <2>1, <2>2, <2>3, <2>4, BasePush
<1>12. d # <<>> /\ Len(d) = m + 1 /\ d[m + 1] = x /\ k[m + 1] = s
  <2>1. Append(c, x) # <<>> /\ Len(Append(c, x)) = Len(c) + 1 /\ Append(c, x)[Len(c) + 1] = x
    BY <1>2, <1>7, AppendSeq
  <2>2. Append(g, s)[Len(g) + 1] = s
    BY <1>2, <1>8, AppendSeq
  <2> QED
    BY <1>2, <2>1, <2>2
<1>13. d = Append(cstack, Resumption(co, 1, n))
  BY <1>9
<1> HIDE DEF d, k
<1>14. Pushed(co, u, v, n, d, k)
  BY <1>7, <1>9, <1>11, <1>12, <1>13 DEF Pushed
<1> QED
  BY <1>14

\* The thread that lua_resume starts from.
Resumable(t, n) == [t EXCEPT !.nCcalls = n, !.nny = 0, !.status = LUA_OK, !.fn = FALSE]

IsResumable(t, n, u) ==
  /\ u \in State /\ Sound(u) /\ u.ci = t.ci /\ u.errfunc = t.errfunc /\ u.openupval = t.openupval
  /\ u.allowhook = t.allowhook /\ u.nny = 0 /\ u.nCcalls = n /\ u.status = LUA_OK

LEMMA ResumableIs ==
  ASSUME NEW t, Sound(t), NEW n \in Nat, NEW u, u = Resumable(t, n)
  PROVE  IsResumable(t, n, u)
<1>1. t \in State
  BY DEF Sound
<1>2. /\ u \in State /\ u.ci = t.ci /\ u.errfunc = t.errfunc /\ u.openupval = t.openupval
      /\ u.allowhook = t.allowhook /\ u.nny = 0 /\ u.nCcalls = n /\ u.status = LUA_OK
  BY <1>1 DEF Resumable, State
<1>3. Sound(u)
  BY <1>2, SoundMore
<1> QED
  BY <1>2, <1>3 DEF IsResumable

\* The coroutine cannot be resumed.
LEMMA NotResumedStep ==
  ASSUME NEW g, Good(th, cstack, g), cstack # <<>>, cstack[Len(cstack)].fn = "C", Step(t0, Done(cstack, "error"))
  PROVE  IInv'
<1> DEFINE c == cstack
           m == Len(c)
           d == Done(c, "error")
<1>1. /\ Base(Run, t0, c, g) /\ c # <<>> /\ c[m].L = Run /\ Awake(c[m], t0, g[m]) /\ Sound(t0) /\ t0.status = LUA_OK
  BY ReadyOf, ReadyIs
<1>2. c \in Seq(CFrame) /\ g \in Seq(Past) /\ Len(g) = m /\ m \in Nat /\ m \in 1..m /\ g[m].level \in 0..Len(t0.ci)
      /\ Len(t0.ci) \in Nat
  BY <1>1, BaseIs, TopIs
<1>3. /\ d \in Seq(CFrame) /\ Len(d) = m
      /\ \A j \in 1..m : Alike(d[j], c[j]) /\ d[j].L = c[j].L /\ d[j].fn = c[j].fn
  <2>1. (c # <<>> => c[Len(c)].fn = "C") /\ "error" \in {"no", "ok", "error"}
    OBVIOUS
  <2> QED
    BY <1>2, <2>1, DoneIs
<1>4. th' = With(Run, t0) /\ cstack' = d
  BY DEF Step, With
<1> HIDE DEF d
<1>5. Base(Run, t0, d, g)
  <2>1. Owned(c, Run, m + 1)
    BY <1>2 DEF Owned
  <2>2. Agree(c[m].fn, t0.ci, t0.ci, g[m].level)
    BY DEF Agree
  <2>3. Fits(c, g, m, Run, t0, t0)
    BY <1>1, <1>2, <2>2 DEF Fits
  <2>4. Same(c, g, d, g, m)
    BY <1>3 DEF Same
  <2>5. m \in 0..Len(c)
    BY <1>2
  <2> QED
    BY <1>1, <1>2, <1>3, <2>1, <2>3, <2>4, <2>5, BaseCut
<1>6. d # <<>> /\ d[Len(d)].L = Run /\ d[Len(d)].fn = c[m].fn /\ Len(d) = m
  BY <1>1, <1>2, <1>3
<1>7. Awake(d[Len(d)], t0, g[Len(d)])
  BY <1>1, <1>6, AwakeSame
<1> QED
  BY <1>4, <1>5, <1>6, <1>7, ConcludeTop

\* The C stack is exhausted.
LEMMA NoRoomStep ==
  ASSUME NEW g, Good(th, cstack, g), cstack # <<>>, cstack[Len(cstack)].fn = "C", NEW co \in Coroutine,
         Suspended(th[co]), NEW n \in Nat,
         th' = [th EXCEPT ![co].nCcalls = n], cstack' = Done(cstack, "error")
  PROVE  IInv'
<1> DEFINE c == cstack
           m == Len(c)
           d == Done(c, "error")
           u == [th[co] EXCEPT !.nCcalls = n]
<1>1. /\ Base(Run, t0, c, g) /\ c # <<>> /\ c[m].L = Run /\ Awake(c[m], t0, g[m]) /\ Run \in Thread
  BY ReadyOf, ReadyIs
<1>2. c \in Seq(CFrame) /\ g \in Seq(Past) /\ Len(g) = m /\ m \in Nat /\ m \in 1..m
  BY <1>1, BaseIs, TopIs
<1>3. co \in Thread /\ co # Main /\ cstack[Len(cstack)].fn # "lua_resume"
  BY CallsAssumption DEF Thread
<1>4. (\A j \in 1..m : c[j].L # co) /\ Asleep(co, th[co])
  BY <1>3, FreeIs
<1>5. th[co] \in State /\ Sound(th[co]) /\ th \in [Thread -> State]
  BY <1>3 DEF Good
<1>6. /\ u \in State /\ u.ci = th[co].ci /\ u.errfunc = th[co].errfunc /\ u.openupval = th[co].openupval
      /\ (u.allowhook <=> th[co].allowhook) /\ u.nny = th[co].nny /\ u.status = th[co].status /\ (u.fn <=> th[co].fn)
  BY <1>5 DEF State
<1>7. th' = With(co, u) /\ cstack' = d
  BY <1>5 DEF With
<1>8. /\ d \in Seq(CFrame) /\ Len(d) = m
      /\ \A j \in 1..m : Alike(d[j], c[j]) /\ d[j].L = c[j].L /\ d[j].fn = c[j].fn
  <2>1. (c # <<>> => c[Len(c)].fn = "C") /\ "error" \in {"no", "ok", "error"}
    OBVIOUS
  <2> QED
    BY <1>2, <2>1, DoneIs
<1> HIDE DEF u, d
<1>9. Sound(u)
  BY <1>5, <1>6, SoundMore
<1>10. Asleep(co, u)
  BY <1>4, <1>6 DEF Asleep
<1>11. Base(co, th[co], c, g)
  BY <1>3, BaseOf
<1>12. Base(co, u, d, g)
  <2>1. Same(c, g, d, g, Len(c))
    BY <1>8 DEF Same
  <2> QED
    BY <1>4, <1>8, <1>9, <1>11, <2>1, BaseFree
<1>13. d # <<>> => Awake(d[Len(d)], With(co, u)[d[Len(d)].L], g[Len(d)])
  <2>1. Len(d) = m /\ d[m].L = Run /\ d[m].fn = c[m].fn /\ Run # co
    BY <1>1, <1>2, <1>4, <1>8
  <2>2. With(co, u)[Run] = th[Run]
    BY <1>1, <1>12, <2>1, BaseWith
  <2>3. Awake(d[m], t0, g[m])
    BY <1>1, <2>1, AwakeSame
  <2> QED
    BY <2>1, <2>2, <2>3 DEF t0
<1> QED
  BY <1>7, <1>10, <1>12, <1>13, Conclude

\* What a suspended coroutine is.
LEMMA SuspendedIs ==
  ASSUME NEW L, L # Main, NEW t, Suspended(t), Asleep(L, t), Sound(t)
  PROVE  /\ t.nny = 1
         /\ t.ci = <<>> => t.status = LUA_OK /\ t.errfunc = 0 /\ t.allowhook
         /\ t.ci # <<>> => 
              LET n == Len(t.ci) IN
              /\ n > 0 /\ Passable(t.ci, n - 1) /\ t.ci[n].f \in {"yield", "lua"}
              /\ t.errfunc = Handler(t.ci, n) /\ t.allowhook /\ HooksOn(t.ci, n)
<1>1. t.status \in {LUA_OK, LUA_YIELD}
  BY DEF Suspended, Dead
<1>2. CASE t.status = LUA_OK
  BY <1>2 DEF Suspended, Dead, Busy, Asleep
<1>3. CASE t.status = LUA_YIELD
  <2>1. Len(t.ci) > 0
    BY <1>3 DEF Asleep
  <2>2. t.ci # <<>>
    BY <2>1
  <2> QED
    BY <1>3, <2>1, <2>2 DEF Asleep
<1> QED
  BY <1>1, <1>2, <1>3

LEMMA OneSeq ==
  ASSUME NEW S, NEW a \in S
  PROVE  <<a>> \in Seq(S) /\ Len(<<a>>) = 1 /\ <<a>>[1] = a
  OBVIOUS

\* A new coroutine calls its function.
Starts(co, f, n, u, x) ==
  /\ u = [Resumable(th[co], n) EXCEPT !.ci = <<CI(f, TRUE)>>]
  /\ x = IF f = "lua" THEN Execute(co, "precall") ELSE CFunction(co, "precall")

LEMMA StartedStep ==
  ASSUME NEW g, Good(th, cstack, g), cstack # <<>>, cstack[Len(cstack)].fn = "C", NEW co \in Coroutine,
         Suspended(th[co]), th[co].ci = <<>>, NEW f \in Kinds, NEW n, NextCall(n),
         NEW u, NEW x, Starts(co, f, n, u, x), th' = With(co, u),
         cstack' = Append(Append(cstack, Resumption(co, 1, n)), x)
  PROVE  IInv'
<1>1. co \in Thread /\ co # Main /\ cstack[Len(cstack)].fn # "lua_resume"
  BY CallsAssumption DEF Thread
<1>2. (\A j \in 1..Len(cstack) : cstack[j].L # co) /\ Asleep(co, th[co])
  BY <1>1, FreeIs
<1>3. Sound(th[co])
  BY <1>1 DEF Good
<1>4. th[co].nny = 1 /\ th[co].errfunc = 0 /\ th[co].allowhook
  BY <1>1, <1>2, <1>3, SuspendedIs
<1>5. n \in Nat
  <2>1. t0.nCcalls \in Nat
    BY ReadyOf, ReadyIs
  <2> QED
    BY <2>1 DEF NextCall
<1> DEFINE t == Resumable(th[co], n)
<1>6. /\ t \in State /\ Sound(t) /\ t.ci = th[co].ci /\ t.errfunc = th[co].errfunc /\ t.openupval = th[co].openupval
      /\ t.allowhook = th[co].allowhook /\ t.nny = 0 /\ t.nCcalls = n /\ t.status = LUA_OK
  <2>1. PICK o : o = th[co]
    OBVIOUS
  <2>2. t = Resumable(o, n) /\ Sound(o)
    BY <1>3, <2>1
  <2> HIDE DEF t
  <2>3. IsResumable(o, n, t)
    BY <1>5, <2>2, ResumableIs
  <2> QED
    BY <2>1, <2>3 DEF IsResumable
<1>7. CI(f, TRUE) \in Info /\ CI(f, TRUE).f = f /\ CI(f, TRUE).fresh /\ ~CI(f, TRUE).ypcall /\ ~CI(f, TRUE).hooked
  BY DEF CI, Info
<1>8. <<CI(f, TRUE)>> \in Seq(Info) /\ Len(<<CI(f, TRUE)>>) = 1 /\ <<CI(f, TRUE)>>[1] = CI(f, TRUE)
  BY <1>7, OneSeq
<1>9. /\ u \in State /\ u.ci = <<CI(f, TRUE)>> /\ u.errfunc = 0 /\ u.openupval = t.openupval
      /\ u.allowhook /\ u.nny = 0 /\ u.nCcalls = n /\ u.status = LUA_OK
  <2>1. u = [t EXCEPT !.ci = <<CI(f, TRUE)>>]
    BY DEF Starts
  <2> HIDE DEF t
  <2> QED
    BY <1>4, <1>6, <1>8, <2>1 DEF State
<1> HIDE DEF t
<1>10. Len(u.ci) = 1 /\ u.ci[1] = CI(f, TRUE) /\ Len(t.ci) = 0
  BY <1>6, <1>8, <1>9
<1>11. Sound(u)
  <2>0. Len(t.ci) + 1 = 1
    BY <1>10
  <2>1. Len(u.ci) = Len(t.ci) + 1 /\ u.ci[Len(t.ci) + 1] = CI(f, TRUE) /\ u.errfunc <= Len(u.ci)
    BY <1>9, <1>10, <2>0
  <2>2. \A i \in 1..Len(t.ci) : u.ci[i] = t.ci[i]
    BY <1>10
  <2>3. PICK a \in Info : a = CI(f, TRUE)
    BY <1>7
  <2>4. ~a.ypcall /\ u.ci[Len(t.ci) + 1] = a
    BY <1>7, <2>1, <2>3
  <2> QED
    BY <1>6, <1>9, <2>1, <2>2, <2>4, SoundGrown
<1>12. Passable(u.ci, 0)
  BY DEF Passable
<1> PICK v \in 0..Len(u.ci), w \in Nat : v = 0 /\ w = 1
  BY <1>10
<1>16. PICK d, k : Pushed(co, u, v, n, d, k)
  <2>1. Passable(u.ci, v)
    BY <1>12
  <2> QED
    BY <1>2, <1>9, <1>11, <2>1, ResumePush
<1>13. /\ d = Append(cstack, Resumption(co, 1, n)) /\ Base(co, u, d, k) /\ d # <<>>
       /\ d[Len(d)] = Resumption(co, 1, n) /\ d[Len(d)].L = co /\ d[Len(d)].fn = "lua_resume"
       /\ k[Len(d)] = [level |-> v, nny |-> 0, nCcalls |-> n]
  BY <1>16 DEF Pushed
<1>14. Resumes(co, u, d, k, w, x)
  <2>1. Handler(u.ci, 1) = 0
    BY HandlerZero
  <2>2. HooksOn(u.ci, 1)
    <3>1. \A j \in 1..1 : j = 1
      OBVIOUS
    <3> QED
      BY <1>7, <1>10, <3>1 DEF HooksOn
  <2>3. \/ x = Execute(co, "precall") /\ u.ci[1].f = "lua" /\ u.ci[1].fresh
        \/ x = CFunction(co, "precall") /\ ~IsLua(u.ci[1])
    BY <1>7, <1>10 DEF IsLua, Kinds, Starts
  <2>4. 1 - 1 = 0 /\ 1 > 0
    OBVIOUS
  <2>5. k[Len(d)] = [level |-> 1 - 1, nny |-> 0, nCcalls |-> u.nCcalls] /\ Passable(u.ci, 1 - 1)
    BY <1>9, <1>12, <1>13, <2>4
  <2>6. ~u.ci[1].hooked
    BY <1>7, <1>10
  <2>7. Resumes(co, u, d, k, 1, x)
    BY <1>1, <1>9, <1>10, <1>13, <2>1, <2>2, <2>3, <2>4, <2>5, <2>6 DEF Resumes
  <2> QED
    BY <2>7
<1>15. cstack' = Append(d, x)
  BY <1>13
<1> QED
  BY <1>13, <1>14, <1>15, ResumesStep

LEMMA SuspendedFree ==
  ASSUME NEW g, Good(th, cstack, g), cstack # <<>>, cstack[Len(cstack)].fn = "C", NEW co \in Coroutine,
         Suspended(th[co])
  PROVE  /\ co # Main /\ co \in Thread /\ (\A j \in 1..Len(cstack) : cstack[j].L # co)
         /\ Asleep(co, th[co]) /\ Sound(th[co])
<1>1. co \in Thread /\ co # Main /\ cstack[Len(cstack)].fn # "lua_resume"
  BY CallsAssumption DEF Thread
<1>2. (\A j \in 1..Len(cstack) : cstack[j].L # co) /\ Asleep(co, th[co])
  BY <1>1, FreeIs
<1>3. Sound(th[co])
  BY <1>1 DEF Good
<1> QED
  BY <1>1, <1>2, <1>3

LEMMA NextCallIs ==
  ASSUME NEW g, Good(th, cstack, g), cstack # <<>>, NEW n, NextCall(n)
  PROVE  n \in Nat
<1>1. t0.nCcalls \in Nat
  BY ReadyOf, ReadyIs
<1> QED
  BY <1>1 DEF NextCall

\* A coroutine whose hook has yielded goes on.
GoesOn(co, o, n, u, x) == u = Freshened(Resumable(o, n)) /\ x = Execute(co, "precall")

GoneOn(o, n, u, b) ==
  /\ u \in State /\ Len(u.ci) = b /\ b \in Nat /\ b > 0
  /\ \A i \in 1..(b - 1) : u.ci[i] = o.ci[i]
  /\ u.ci[b].f = o.ci[b].f /\ u.ci[b].hooked = o.ci[b].hooked /\ u.ci[b].fresh
  /\ u.allowhook = o.allowhook /\ u.errfunc = o.errfunc /\ u.nny = 0 /\ u.nCcalls = n
  /\ u.status = LUA_OK /\ Sound(u)

LEMMA GoesOnIs ==
  ASSUME NEW o, Sound(o), NEW n \in Nat, NEW co, NEW u, NEW x, GoesOn(co, o, n, u, x), NEW b, b = Len(o.ci),
         o.ci # <<>>, IsLua(o.ci[b])
  PROVE  GoneOn(o, n, u, b)
<1>1. PICK t : t = Resumable(o, n)
  OBVIOUS
<1>2. u = Freshened(t)
  BY <1>1 DEF GoesOn
<1>3. /\ t \in State /\ Sound(t) /\ t.ci = o.ci /\ t.errfunc = o.errfunc /\ t.openupval = o.openupval
      /\ t.allowhook = o.allowhook /\ t.nny = 0 /\ t.nCcalls = n /\ t.status = LUA_OK
  <2>1. IsResumable(o, n, t)
    BY <1>1, ResumableIs
  <2> QED
    BY <2>1 DEF IsResumable
<1>4. t.ci # <<>> /\ b = Len(t.ci) /\ IsLua(t.ci[b])
  BY <1>3
<1>5. /\ u \in State /\ Len(u.ci) = b /\ b \in Nat /\ b > 0
      /\ \A i \in 1..(b - 1) : u.ci[i] = t.ci[i]
      /\ u.ci[b].f = t.ci[b].f /\ u.ci[b].hooked = t.ci[b].hooked /\ u.ci[b].fresh
      /\ u.allowhook = t.allowhook /\ u.errfunc = t.errfunc /\ u.nny = t.nny /\ u.nCcalls = t.nCcalls
      /\ u.status = t.status
  BY <1>2, <1>3, <1>4, FreshenedIs
<1>6. Sound(u)
  BY <1>2, <1>3, <1>4, FreshenedSound
<1> QED
  BY <1>3, <1>5, <1>6 DEF GoneOn

LEMMA HookResumedStep ==
  ASSUME NEW g, Good(th, cstack, g), cstack # <<>>, cstack[Len(cstack)].fn = "C", NEW co \in Coroutine,
         NEW o, o = th[co], Suspended(o), o.ci # <<>>, IsLua(o.ci[Len(o.ci)]), NEW n, NextCall(n),
         NEW u, NEW x, GoesOn(co, o, n, u, x), th' = With(co, u),
         cstack' = Append(Append(cstack, Resumption(co, 1, n)), x)
  PROVE  IInv'
<1> DEFINE b == Len(o.ci)
<1>1. /\ co # Main /\ co \in Thread /\ (\A j \in 1..Len(cstack) : cstack[j].L # co)
      /\ Asleep(co, o) /\ Sound(o)
  BY SuspendedFree
<1>2. n \in Nat
  BY NextCallIs
<1>3. /\ b > 0 /\ Passable(o.ci, b - 1) /\ o.ci[b].f \in {"yield", "lua"}
      /\ o.errfunc = Handler(o.ci, b) /\ o.allowhook /\ HooksOn(o.ci, b)
  BY <1>1, SuspendedIs
<1>5. /\ u \in State /\ Len(u.ci) = b /\ b \in Nat /\ b > 0
      /\ \A i \in 1..(b - 1) : u.ci[i] = o.ci[i]
      /\ u.ci[b].f = o.ci[b].f /\ u.ci[b].hooked = o.ci[b].hooked /\ u.ci[b].fresh
      /\ u.allowhook = o.allowhook /\ u.errfunc = o.errfunc /\ u.nny = 0 /\ u.nCcalls = n
      /\ u.status = LUA_OK /\ Sound(u)
  <2>1. b = Len(o.ci)
    OBVIOUS
  <2> HIDE DEF b
  <2>2. GoneOn(o, n, u, b)
    BY <1>1, <1>2, <2>1, GoesOnIs
  <2> QED
    BY <2>2 DEF GoneOn
<1>7. Passable(u.ci, b - 1)
  BY <1>3, <1>5 DEF Passable
<1> HIDE DEF b
<1> PICK v \in 0..Len(u.ci) : v = b - 1
  BY <1>5
<1>8. PICK d, k : Pushed(co, u, v, n, d, k)
  <2>1. Passable(u.ci, v)
    BY <1>7
  <2> QED
    BY <1>1, <1>5, <2>1, ResumePush
<1>9. /\ d = Append(cstack, Resumption(co, 1, n)) /\ Base(co, u, d, k) /\ d # <<>>
      /\ d[Len(d)].L = co /\ d[Len(d)].fn = "lua_resume"
      /\ k[Len(d)] = [level |-> v, nny |-> 0, nCcalls |-> n]
  BY <1>8 DEF Pushed
<1>10. Resumes(co, u, d, k, b, x)
  <2>0. b \in 1..b
    BY <1>5
  <2>1. ~u.ci[b].hooked
    BY <1>3, <1>5, <2>0 DEF HooksOn
  <2>2. HooksOn(u.ci, b)
    <3>1. HooksOn(u.ci, b) <=> HooksOn(o.ci, b - 1) /\ ~u.ci[b].hooked
      <4>1. SameBelow(o.ci, u.ci, b)
        BY <1>5 DEF SameBelow
      <4> QED
        BY <1>5, <4>1, SetTopHooks
    <3>2. HooksOn(o.ci, b - 1)
      BY <1>3, <1>5 DEF HooksOn
    <3> QED
      BY <2>1, <3>1, <3>2
  <2>3. u.errfunc = Handler(u.ci, b)
    <3>1. \A i \in 1..(b - 1) : u.ci[i].f = o.ci[i].f
      BY <1>5
    <3>2. Handler(u.ci, b) = Handler(o.ci, b)
      BY <3>1, HandlerSame
    <3> QED
      BY <1>3, <1>5, <3>2
  <2>4. x = Execute(co, "precall") /\ u.ci[b].f = "lua" /\ u.ci[b].fresh
    BY <1>3, <1>5 DEF GoesOn, IsLua, b
  <2>5. k[Len(d)] = [level |-> b - 1, nny |-> 0, nCcalls |-> u.nCcalls] /\ u.allowhook
    BY <1>3, <1>5, <1>9
  <2> QED
    BY <1>1, <1>5, <1>7, <1>9, <2>1, <2>2, <2>3, <2>4, <2>5 DEF Resumes
<1>11. cstack' = Append(d, x)
  BY <1>9
<1>12. b \in Nat /\ Base(co, u, d, k) /\ d # <<>> /\ d[Len(d)].L = co
  BY <1>5, <1>9
<1> QED
  BY <1>10, <1>11, <1>12, ResumesStep

\* A coroutine that has yielded goes on: the activation of yield is removed.
Returns(o, n, u) == u = [Resumable(o, n) EXCEPT !.ci = Front(@)]

Returned(o, n, u, a) ==
  /\ u \in State /\ Len(u.ci) = a /\ a \in Nat /\ a + 1 = Len(o.ci)
  /\ \A i \in 1..a : u.ci[i] = o.ci[i]
  /\ u.allowhook = o.allowhook /\ u.errfunc = o.errfunc /\ u.nny = 0 /\ u.nCcalls = n
  /\ u.openupval = o.openupval /\ u.status = LUA_OK

LEMMA ReturnedIs ==
  ASSUME NEW o, Sound(o), NEW n \in Nat, NEW u, Returns(o, n, u), o.ci # <<>>
  PROVE  \E a : Returned(o, n, u, a)
<1>1. PICK t : t = Resumable(o, n)
  OBVIOUS
<1>2. u = [t EXCEPT !.ci = Front(@)]
  BY <1>1 DEF Returns
<1>3. /\ t \in State /\ t.ci = o.ci /\ t.errfunc = o.errfunc /\ t.openupval = o.openupval
      /\ t.allowhook = o.allowhook /\ t.nny = 0 /\ t.nCcalls = n /\ t.status = LUA_OK
  <2>1. IsResumable(o, n, t)
    BY <1>1, ResumableIs
  <2> QED
    BY <2>1 DEF IsResumable
<1>4. t.ci \in Seq(Info) /\ t.ci # <<>>
  BY <1>3 DEF State
<1>5. /\ Front(t.ci) \in Seq(Info) /\ Len(Front(t.ci)) = Len(t.ci) - 1 /\ Len(t.ci) \in Nat \ {0}
      /\ \A i \in 1..(Len(t.ci) - 1) : Front(t.ci)[i] = t.ci[i]
  BY <1>4, FrontSeq
<1> PICK a \in Nat : a = Len(t.ci) - 1
  BY <1>5
<1>6. u.ci = Front(t.ci) /\ u \in State
  BY <1>2, <1>3, <1>5 DEF State
<1>7. /\ u.allowhook = t.allowhook /\ u.errfunc = t.errfunc /\ u.nny = t.nny /\ u.nCcalls = t.nCcalls
      /\ u.openupval = t.openupval /\ u.status = t.status
  BY <1>2, <1>3 DEF State
<1>8. a + 1 = Len(t.ci)
  BY <1>5
<1>9. Len(u.ci) = a /\ \A i \in 1..a : u.ci[i] = o.ci[i]
  BY <1>3, <1>5, <1>6
<1>10. Returned(o, n, u, a)
  BY <1>3, <1>6, <1>7, <1>8, <1>9 DEF Returned
<1> QED
  BY <1>10

LEMMA YieldResumedStep ==
  ASSUME NEW g, Good(th, cstack, g), cstack # <<>>, cstack[Len(cstack)].fn = "C", NEW co \in Coroutine,
         NEW o, o = th[co], Suspended(o), o.ci # <<>>, ~IsLua(o.ci[Len(o.ci)]), NEW n, NextCall(n),
         NEW u, Returns(o, n, u), th' = With(co, u), cstack' = Append(cstack, Resumption(co, 1, n))
  PROVE  IInv'
<1>1. /\ co # Main /\ co \in Thread /\ (\A j \in 1..Len(cstack) : cstack[j].L # co)
      /\ Asleep(co, o) /\ Sound(o)
  BY SuspendedFree
<1>2. n \in Nat
  BY NextCallIs
<1>3. PICK a : Returned(o, n, u, a)
  BY <1>1, <1>2, ReturnedIs
<1>4. /\ u \in State /\ Len(u.ci) = a /\ a \in Nat /\ a + 1 = Len(o.ci)
      /\ \A i \in 1..a : u.ci[i] = o.ci[i]
      /\ u.allowhook = o.allowhook /\ u.errfunc = o.errfunc /\ u.nny = 0 /\ u.nCcalls = n
      /\ u.openupval = o.openupval /\ u.status = LUA_OK
  BY <1>3 DEF Returned
<1>5. /\ Passable(o.ci, a) /\ o.errfunc = Handler(o.ci, a + 1) /\ o.allowhook /\ HooksOn(o.ci, a + 1)
  <2>1. LET b == Len(o.ci) IN
        /\ b > 0 /\ Passable(o.ci, b - 1) /\ o.ci[b].f \in {"yield", "lua"}
        /\ o.errfunc = Handler(o.ci, b) /\ o.allowhook /\ HooksOn(o.ci, b)
    BY <1>1, SuspendedIs
  <2>2. Len(o.ci) - 1 = a
    BY <1>4
  <2> QED
    BY <1>4, <2>1, <2>2
<1>6. Passable(u.ci, a)
  BY <1>4, <1>5 DEF Passable
<1>7. u.errfunc = Handler(u.ci, a + 1)
  <2>1. \A i \in 1..((a + 1) - 1) : u.ci[i].f = o.ci[i].f
    BY <1>4
  <2>2. Handler(u.ci, a + 1) = Handler(o.ci, a + 1)
    BY <2>1, HandlerSame
  <2> QED
    BY <1>4, <1>5, <2>2
<1>8. u.allowhook <=> HooksOn(u.ci, a)
  <2>1. HooksOn(u.ci, a)
    <3>1. \A i \in 1..(a + 1) : ~o.ci[i].hooked
      BY <1>5 DEF HooksOn
    <3>2. ASSUME NEW i \in 1..a PROVE ~u.ci[i].hooked
      <4>1. i \in 1..(a + 1) /\ u.ci[i] = o.ci[i]
        BY <1>4
      <4>2. ~o.ci[i].hooked
        BY <3>1, <4>1
      <4> QED
        BY <4>1, <4>2
    <3> QED
      BY <3>2 DEF HooksOn
  <2>2. u.allowhook
    BY <1>4, <1>5
  <2> QED
    BY <2>1, <2>2
<1>9. Sound(u)
  <2>1. a \in 0..Len(o.ci)
    BY <1>4
  <2>2. u.errfunc <= a
    <3>1. Handler(u.ci, a + 1) \in Nat /\ Handler(u.ci, a + 1) < a + 1
      BY <1>4, HandlerBound
    <3> QED
      BY <1>4, <1>7, <3>1
  <2>3. \A l \in u.openupval : l \in o.openupval /\ l <= a
    <3>1. \A l \in o.openupval : l \in 1..Len(o.ci) /\ IsLua(o.ci[l])
      BY <1>1 DEF Sound
    <3> QED
      BY <1>4, <3>1
  <2> QED
    BY <1>1, <1>4, <2>1, <2>2, <2>3, SoundKept
<1> PICK v \in 0..Len(u.ci) : v = a
  BY <1>4
<1>10. PICK d, k : Pushed(co, u, v, n, d, k)
  <2>1. Passable(u.ci, v)
    BY <1>6
  <2> QED
    BY <1>1, <1>4, <1>9, <2>1, ResumePush
<1>11. /\ d = Append(cstack, Resumption(co, 1, n)) /\ Base(co, u, d, k) /\ d # <<>>
       /\ d[Len(d)].L = co /\ d[Len(d)].fn = "lua_resume"
       /\ k[Len(d)] = [level |-> v, nny |-> 0, nCcalls |-> n]
  BY <1>10 DEF Pushed
<1>12. Awake(d[Len(d)], u, k[Len(d)])
  <2>1. k[Len(d)] = [level |-> Len(u.ci), nny |-> u.nny, nCcalls |-> u.nCcalls]
    BY <1>4, <1>11
  <2>2. u.allowhook <=> HooksOn(u.ci, Len(u.ci))
    BY <1>4, <1>8
  <2>3. u.errfunc = Handler(u.ci, Len(u.ci) + 1)
    BY <1>4, <1>7
  <2> QED
    BY <1>11, <2>1, <2>2, <2>3 DEF Awake
<1>13. cstack' = d
  BY <1>11
<1> QED
  BY <1>11, <1>12, <1>13, ConcludeTop

\* The cases of lua_resume.
NoRoom(co, n) == th' = [th EXCEPT ![co].nCcalls = n] /\ cstack' = Done(cstack, "error")
Started(co, f, n, y) ==
  /\ Resumable(th[co], n).ci = <<>>
  /\ th' = With(co, [Resumable(th[co], n) EXCEPT !.ci = <<CI(f, TRUE)>>])
  /\ cstack' = Append(Append(cstack, Resumption(co, y, n)),
                      IF f = "lua" THEN Execute(co, "precall") ELSE CFunction(co, "precall"))
HookResumed(co, t, n, y) ==
  /\ t.ci # <<>> /\ Last(t.ci).f \in {"lua", "handler"} /\ th' = With(co, Freshened(t))
  /\ cstack' = Append(Append(cstack, Resumption(co, y, n)), Execute(co, "precall"))
YieldResumed(co, t, n, y) ==
  /\ t.ci # <<>> /\ Last(t.ci).f \notin {"lua", "handler"} /\ th' = With(co, [t EXCEPT !.ci = Front(@)])
  /\ cstack' = Append(cstack, Resumption(co, y, n))

LEMMA ResumeCases ==
  ASSUME NEW co, NEW f, Resume(co, f), NEW n \in Nat, n = t0.nCcalls + 1
  PROVE  \/ Step(t0, Done(cstack, "error"))
         \/ /\ Suspended(th[co])
            /\ \/ NoRoom(co, n)
               \/ n < MaxCCalls /\ Started(co, f, n, th[co].nny)
               \/ n < MaxCCalls /\ HookResumed(co, Resumable(th[co], n), n, th[co].nny)
               \/ n < MaxCCalls /\ YieldResumed(co, Resumable(th[co], n), n, th[co].nny)
<1>1. MaxCCalls \in Nat
  BY CallsAssumption
<1> USE DEF Resume, Resumable, Resumption, With
<1>2. CASE ~Suspended(th[co])
  BY <1>2
<1>3. CASE Suspended(th[co]) /\ n >= MaxCCalls
  <2>1. NoRoom(co, n)
    BY <1>1, <1>3, ~(n < MaxCCalls) DEF NoRoom
  <2> QED
    BY <1>3, <2>1
<1>4. CASE Suspended(th[co]) /\ ~(n >= MaxCCalls) /\ Resumable(th[co], n).ci = <<>>
  <2>1. n < MaxCCalls
    BY <1>1, <1>4
  <2>2. Started(co, f, n, th[co].nny)
    BY <1>4, <2>1 DEF Started
  <2> QED
    BY <1>4, <2>1, <2>2
<1>5. CASE Suspended(th[co]) /\ ~(n >= MaxCCalls) /\ Resumable(th[co], n).ci # <<>>
  <2>1. n < MaxCCalls
    BY <1>1, <1>5
  <2>2. CASE Last(Resumable(th[co], n).ci).f \in {"lua", "handler"}
    <3>1. HookResumed(co, Resumable(th[co], n), n, th[co].nny)
      BY <1>5, <2>1, <2>2 DEF HookResumed, Freshened
    <3> QED
      BY <1>5, <2>1, <3>1
  <2>3. CASE Last(Resumable(th[co], n).ci).f \notin {"lua", "handler"}
    <3>1. YieldResumed(co, Resumable(th[co], n), n, th[co].nny)
      BY <1>5, <2>1, <2>3 DEF YieldResumed
    <3> QED
      BY <1>5, <2>1, <3>1
  <2> QED
    BY <2>2, <2>3
<1> QED
  BY <1>2, <1>3, <1>4, <1>5

LEMMA ResumeStep ==
  ASSUME NEW g, Good(th, cstack, g), NEW co \in Coroutine, NEW f \in Functions, Resume(co, f)
  PROVE  IInv'
<1>1. cstack # <<>> /\ Top.fn = "C"
  BY DEF Resume, Start, In
<1>2. cstack[Len(cstack)].fn = "C"
  BY <1>1, ReadyOf
<1>3. t0.nCcalls \in Nat /\ f \in Kinds
  BY <1>1, ReadyOf, ReadyIs, CallsAssumption
<1> PICK n \in Nat : n = t0.nCcalls + 1
  BY <1>3
<1>4. CASE Step(t0, Done(cstack, "error"))
  BY <1>1, <1>2, <1>4, NotResumedStep
<1>5. CASE Suspended(th[co]) /\ NoRoom(co, n)
  BY <1>1, <1>2, <1>5, NoRoomStep DEF NoRoom
<1>6. ASSUME Suspended(th[co])
      PROVE  th[co].nny = 1 /\ Sound(th[co]) /\ IsResumable(th[co], n, Resumable(th[co], n))
  <2>1. /\ co # Main /\ co \in Thread /\ (\A j \in 1..Len(cstack) : cstack[j].L # co)
        /\ Asleep(co, th[co]) /\ Sound(th[co])
    BY <1>1, <1>2, <1>6, SuspendedFree
  <2>2. th[co].nny = 1
    BY <1>6, <2>1, SuspendedIs
  <2> QED
    BY <2>1, <2>2, ResumableIs
<1>7. ASSUME Suspended(th[co]), n < MaxCCalls, Started(co, f, n, th[co].nny) PROVE IInv'
  <2>1. th[co].ci = <<>>
    BY <1>6, <1>7 DEF IsResumable, Started
  <2>2. PICK u : u = [Resumable(th[co], n) EXCEPT !.ci = <<CI(f, TRUE)>>]
    OBVIOUS
  <2>3. PICK x : x = IF f = "lua" THEN Execute(co, "precall") ELSE CFunction(co, "precall")
    OBVIOUS
  <2>4. Starts(co, f, n, u, x)
    BY <2>2, <2>3 DEF Starts
  <2>5. th' = With(co, u) /\ cstack' = Append(Append(cstack, Resumption(co, 1, n)), x)
    BY <1>6, <1>7, <2>2, <2>3 DEF Started
  <2>6. NextCall(n)
    BY <1>7 DEF NextCall
  <2> QED
    BY <1>1, <1>2, <1>3, <1>7, <2>1, <2>4, <2>5, <2>6, StartedStep
<1>8. ASSUME Suspended(th[co]), n < MaxCCalls, HookResumed(co, Resumable(th[co], n), n, th[co].nny) PROVE IInv'
  <2>1. PICK o : o = th[co]
    OBVIOUS
  <2>2. /\ o.ci # <<>> /\ Last(o.ci).f \in {"lua", "handler"} /\ th' = With(co, Freshened(Resumable(o, n)))
        /\ cstack' = Append(Append(cstack, Resumption(co, 1, n)), Execute(co, "precall"))
    BY <1>6, <1>8, <2>1 DEF HookResumed, IsResumable
  <2>3. IsLua(o.ci[Len(o.ci)])
    <3>1. o.ci \in Seq(Info)
      BY <1>6, <1>8, <2>1 DEF Sound, State
    <3> QED
      BY <2>2, <3>1, FrontSeq DEF IsLua
  <2>4. PICK u : u = Freshened(Resumable(o, n))
    OBVIOUS
  <2>5. PICK x : x = Execute(co, "precall")
    OBVIOUS
  <2>6. GoesOn(co, o, n, u, x) /\ th' = With(co, u) /\ cstack' = Append(Append(cstack, Resumption(co, 1, n)), x)
    BY <2>2, <2>4, <2>5 DEF GoesOn
  <2>7. NextCall(n) /\ Suspended(o)
    BY <1>8, <2>1 DEF NextCall
  <2> QED
    BY <1>1, <1>2, <2>1, <2>2, <2>3, <2>6, <2>7, HookResumedStep
<1>9. ASSUME Suspended(th[co]), n < MaxCCalls, YieldResumed(co, Resumable(th[co], n), n, th[co].nny) PROVE IInv'
  <2>1. PICK o : o = th[co]
    OBVIOUS
  <2>2. /\ o.ci # <<>> /\ Last(o.ci).f \notin {"lua", "handler"}
        /\ th' = With(co, [Resumable(o, n) EXCEPT !.ci = Front(@)])
        /\ cstack' = Append(cstack, Resumption(co, 1, n))
    BY <1>6, <1>9, <2>1 DEF YieldResumed, IsResumable
  <2>3. ~IsLua(o.ci[Len(o.ci)])
    <3>1. o.ci \in Seq(Info)
      BY <1>6, <1>9, <2>1 DEF Sound, State
    <3> QED
      BY <2>2, <3>1, FrontSeq DEF IsLua
  <2>4. PICK u : u = [Resumable(o, n) EXCEPT !.ci = Front(@)]
    OBVIOUS
  <2>5. Returns(o, n, u) /\ th' = With(co, u)
    BY <2>2, <2>4 DEF Returns
  <2>6. NextCall(n) /\ Suspended(o)
    BY <1>9, <2>1 DEF NextCall
  <2> QED
    BY <1>1, <1>2, <2>1, <2>2, <2>3, <2>5, <2>6, YieldResumedStep
<1> QED
  BY <1>4, <1>5, <1>7, <1>8, <1>9, ResumeCases

-----------------------------------------------------------------------------
(* New threads *)

Fresh == [preinit_thread EXCEPT !.fn = TRUE]

LEMMA FreshIs ==
  /\ \A u \in {preinit_thread, Fresh} :
       /\ Sound(u) /\ u.ci = <<>> /\ u.status = LUA_OK /\ u.nny = 1 /\ u.nCcalls = 0
       /\ u.errfunc = 0 /\ u.allowhook /\ u.openupval = {}
  /\ ~preinit_thread.fn
<1>1. <<>> \in Seq(Info) /\ Len(<<>>) = 0
  OBVIOUS
<1>2. preinit_thread \in State /\ Fresh \in State
  BY <1>1 DEF preinit_thread, Fresh, State, LUA_OK
<1>3. \A u \in {preinit_thread, Fresh} :
        /\ u.ci = <<>> /\ u.status = LUA_OK /\ u.nny = 1 /\ u.nCcalls = 0
        /\ u.errfunc = 0 /\ u.allowhook /\ u.openupval = {}
  BY DEF preinit_thread, Fresh
<1>4. \A u \in {preinit_thread, Fresh} : Sound(u)
  BY <1>1, <1>2, <1>3 DEF Sound
<1> QED
  BY <1>3, <1>4 DEF preinit_thread

LEMMA CreateStep ==
  ASSUME NEW g, Good(th, cstack, g), NEW co \in Coroutine, Create(co)
  PROVE  IInv'
<1>1. cstack # <<>> /\ Top.fn = "luaV_execute" /\ Dead(th[co]) /\ cstack' = cstack
  BY DEF Create, InLua
<1>2. co \in Thread /\ co # Main /\ cstack[Len(cstack)].fn # "lua_resume"
  <2>1. Top = cstack[Len(cstack)]
    BY <1>1, ReadyOf
  <2> QED
    BY <1>1, <2>1, CallsAssumption DEF Thread
<1>3. \A j \in 1..Len(cstack) : cstack[j].L # co
  BY <1>1, <1>2, FreeIs
<1> PICK u : u = Fresh
  OBVIOUS
<1>4. /\ Sound(u) /\ u.ci = <<>> /\ u.status = LUA_OK /\ u.nny = 1 /\ u.errfunc = 0 /\ u.allowhook
  BY FreshIs
<1>5. th' = With(co, u)
  BY DEF Create, With, Fresh
<1>6. Base(co, th[co], cstack, g)
  BY <1>2, BaseOf
<1>7. cstack \in Seq(CFrame) /\ g \in Seq(Past) /\ Len(cstack) \in Nat
  BY <1>6, BaseIs
<1>8. Base(co, u, cstack, g)
  <2>1. Same(cstack, g, cstack, g, Len(cstack))
    BY DEF Same, Alike
  <2> QED
    BY <1>3, <1>4, <1>6, <1>7, <2>1, BaseFree
<1>9. Asleep(co, u)
  <2>1. LUA_OK # LUA_YIELD
    BY DEF LUA_OK, LUA_YIELD
  <2> QED
    BY <1>2, <1>4, <2>1 DEF Asleep
<1>10. Awake(cstack[Len(cstack)], With(co, u)[cstack[Len(cstack)].L], g[Len(cstack)])
  <2>1. Len(cstack) \in 1..Len(cstack) /\ cstack[Len(cstack)].L = Run /\ Run \in Thread
        /\ Awake(cstack[Len(cstack)], t0, g[Len(cstack)])
    BY <1>1, ReadyOf, ReadyIs, TopIs
  <2>2. Run # co
    BY <1>3, <2>1
  <2>3. With(co, u)[Run] = th[Run]
    BY <1>8, <2>1, <2>2, BaseWith
  <2> QED
    BY <2>1, <2>3 DEF t0
<1> QED
  BY <1>1, <1>5, <1>8, <1>9, <1>10, Conclude

LEMMA Initially ==
  Init => IInv
<1> SUFFICES ASSUME Init PROVE IInv
  OBVIOUS
<1>1. th = [L \in Thread |-> preinit_thread] /\ cstack = <<>>
  BY DEF Init
<1>2. Sound(preinit_thread) /\ preinit_thread \in State
  BY FreshIs DEF Sound
<1>3. \A L \in Thread : Asleep(L, preinit_thread)
  BY FreshIs DEF Asleep, LUA_OK, LUA_YIELD
<1>4. <<>> \in Seq(CFrame) /\ <<>> \in Seq(Past) /\ Len(<<>>) = 0
  OBVIOUS
<1>5. Good(th, cstack, <<>>)
  BY <1>1, <1>2, <1>3, <1>4 DEF Good
<1> QED
  BY <1>4, <1>5 DEF IInv

-----------------------------------------------------------------------------
(* The host program *)

\* The frame of its lua_pcall, and the main thread then.
HostFrame == [fn |-> "luaD_pcall", L |-> Main, ci |-> 0, nny |-> 1, allowhook |-> TRUE,
              errfunc |-> 0, nCcalls |-> 0]
HostRecord == [level |-> 0, nny |-> 1, nCcalls |-> 0]
Hosted == [th[Main] EXCEPT !.nCcalls = 1, !.nny = 2, !.ci = <<CI("lua", TRUE)>>]

HostedIs(u) ==
  /\ u \in State /\ Sound(u) /\ u.ci \in Seq(Info) /\ Len(u.ci) = 1 /\ u.ci[1] = CI("lua", TRUE)
  /\ u.nCcalls = 1 /\ u.nny = 2 /\ u.errfunc = 0 /\ u.allowhook /\ u.status = LUA_OK

LEMMA SoundFirst ==
  ASSUME NEW t, Sound(t), t.ci = <<>>, NEW a \in Info, ~a.ypcall, NEW u \in State, u.ci = <<a>>,
         u.errfunc = 0, u.openupval = t.openupval
  PROVE  Sound(u)
<1>1. Len(t.ci) = 0 /\ Len(t.ci) + 1 = 1
  OBVIOUS
<1>2. Len(u.ci) = 1 /\ u.ci[1] = a
  BY OneSeq
<1>3. Len(u.ci) = Len(t.ci) + 1 /\ u.ci[Len(t.ci) + 1] = a
  BY <1>1, <1>2
<1>4. (\A i \in 1..Len(t.ci) : u.ci[i] = t.ci[i]) /\ u.errfunc <= Len(u.ci)
  BY <1>1, <1>2
<1> QED
  BY <1>3, <1>4, SoundGrown

LEMMA TwoSeq ==
  ASSUME NEW S, NEW a \in S, NEW b \in S
  PROVE  Append(<<a>>, b) = <<a, b>>
<1> DEFINE s == <<a>>
           p == Append(s, b)
           r == <<a, b>>
<1>1. s \in Seq(S) /\ Len(s) = 1 /\ s[1] = a
  BY OneSeq
<1>2. r \in Seq(S) /\ Len(r) = 2 /\ r[1] = a /\ r[2] = b
  OBVIOUS
<1> HIDE DEF s, r
<1>3. p \in Seq(S) /\ Len(p) = 2 /\ p[1] = a /\ p[2] = b
  <2>1. Append(s, b) \in Seq(S) /\ Len(Append(s, b)) = 2 /\ Append(s, b)[2] = b /\ Append(s, b)[1] = s[1]
    BY <1>1
  <2> QED
    BY <1>1, <2>1
<1> HIDE DEF p
<1>4. \A i \in 1..Len(p) : p[i] = r[i]
  BY <1>2, <1>3
<1>5. p = r
  BY <1>2, <1>3, <1>4, SeqEqual
<1> QED
  BY <1>5 DEF p, r, s

LEMMA HostedThread ==
  ASSUME NEW g, Good(th, cstack, g), cstack = <<>>
  PROVE  HostedIs(Hosted) /\ th \in [Thread -> State] /\ Main \in Thread
<1>1. Main \in Thread /\ Len(cstack) = 0
  BY DEF Thread
<1>2. Asleep(Main, th[Main]) /\ Sound(th[Main]) /\ th[Main] \in State /\ th \in [Thread -> State]
  BY <1>1 DEF Good
<1> PICK t : t = th[Main]
  OBVIOUS
<1> PICK u : u = Hosted
  OBVIOUS
<1>3. t.ci = <<>> /\ t.status = LUA_OK /\ t.errfunc = 0 /\ t.allowhook /\ Sound(t) /\ t \in State
  BY <1>2 DEF Asleep
<1> PICK b \in BOOLEAN : b = TRUE
  OBVIOUS
<1> PICK a : a = CI("lua", b)
  OBVIOUS
<1>4. a \in Info /\ ~a.ypcall
  <2>1. "lua" \in Kinds \cup {"handler"}
    BY DEF Kinds
  <2> QED
    BY <2>1, CIIs
<1>5. <<a>> \in Seq(Info) /\ Len(<<a>>) = 1 /\ <<a>>[1] = a
  BY <1>4, OneSeq
<1>6. /\ u \in State /\ u.ci = <<a>> /\ u.nCcalls = 1 /\ u.nny = 2 /\ u.errfunc = t.errfunc
      /\ u.allowhook = t.allowhook /\ u.status = t.status /\ u.openupval = t.openupval
  BY <1>3, <1>5 DEF Hosted, State
<1>7. Sound(u)
  BY <1>3, <1>4, <1>6, SoundFirst
<1>8. u.allowhook
  BY <1>3, <1>6
<1>9. HostedIs(u)
  BY <1>3, <1>5, <1>6, <1>7, <1>8 DEF HostedIs
<1> QED
  BY <1>1, <1>2, <1>9

LEMMA HostBase ==
  ASSUME NEW g, Good(th, cstack, g), cstack = <<>>, NEW u, HostedIs(u)
  PROVE  Base(Main, u, <<HostFrame>>, <<HostRecord>>)
<1>1. Main \in Thread /\ Len(cstack) = 0
  BY DEF Thread
<1>2. th \in [Thread -> State] /\ \A L \in Thread : Sound(th[L]) /\ Asleep(L, th[L])
  BY <1>1 DEF Good
<1>3. HostFrame \in CFrame /\ HostRecord \in Past
  BY <1>1 DEF HostFrame, HostRecord, CFrame, Past
<1> PICK c : c = <<HostFrame>>
  OBVIOUS
<1> PICK h : h = <<HostRecord>>
  OBVIOUS
<1>4. c \in Seq(CFrame) /\ Len(c) = 1 /\ c[1] = HostFrame
  BY <1>3, OneSeq
<1>5. h \in Seq(Past) /\ Len(h) = 1 /\ h[1] = HostRecord
  BY <1>3, OneSeq
<1>6. With(Main, u)[Main] = u
  BY <1>1, <1>2 DEF With
<1>7. FrameAt(With(Main, u), c, h, 1)
  <2>1. /\ c[1].L = Main /\ c[1].fn = "luaD_pcall" /\ h[1].level = 0 /\ h[1].nCcalls = 0
    BY <1>4, <1>5 DEF HostFrame, HostRecord
  <2>2. OfHost(c[1], h[1])
    BY <1>4, <1>5 DEF OfHost, HostFrame, HostRecord
  <2>3. Frame(c, h, u.ci, 1)
    BY <2>2 DEF Frame
  <2>4. Count(c, 1) + Slack(c[1]) <= h[1].nCcalls
    <3>1. Count(c, 0) = 0
      BY CountZero
    <3>2. Count(c, 0 + 1) = Count(c, 0) + (IF Counted(c[0 + 1]) THEN 1 ELSE 0)
      BY CountNext
    <3>3. 0 + 1 = 1
      OBVIOUS
    <3>4. Count(c, 1) = 0 + (IF Counted(c[1]) THEN 1 ELSE 0)
      BY <3>1, <3>2, <3>3
    <3>5. ~Counted(c[1]) /\ Slack(c[1]) = 0
      BY <2>1 DEF Counted, Slack
    <3> QED
      BY <2>1, <3>4, <3>5
  <2>5. 0 < MaxCCalls + Extra
    BY CallsAssumption
  <2>6. /\ u.status = LUA_OK /\ h[1].level \in 0..Len(u.ci) /\ h[1].nCcalls < MaxCCalls + Extra
    BY <2>1, <2>5 DEF HostedIs
  <2>7. \A i \in 1..(1 - 1) : Pair(c, h, i, 1)
    OBVIOUS
  <2>8. c[1].fn # "lua_resume"
    BY <2>1
  <2> QED
    BY <1>6, <2>1, <2>3, <2>4, <2>6, <2>7, <2>8 DEF FrameAt
<1>8. \A j \in 1..Len(c) : FrameAt(With(Main, u), c, h, j)
  <2>1. \A j \in 1..Len(c) : j = 1
    BY <1>4
  <2> QED
    BY <1>7, <2>1
<1>9. Sound(u)
  BY DEF HostedIs
<1>10. \A l \in Thread \ {Main} : Sound(th[l]) /\ Asleep(l, th[l])
  BY <1>2
<1>11. Base(Main, u, c, h)
  BY <1>1, <1>2, <1>4, <1>5, <1>8, <1>9, <1>10 DEF Base
<1> QED
  BY <1>11

LEMMA HostStep ==
  ASSUME NEW g, Good(th, cstack, g), Host
  PROVE  IInv'
<1>1. cstack = <<>>
  BY DEF Host
<1>2. HostedIs(Hosted) /\ th \in [Thread -> State] /\ Main \in Thread
  BY <1>1, HostedThread
<1> PICK u : u = Hosted
  OBVIOUS
<1> PICK c : c = <<HostFrame>>
  OBVIOUS
<1> PICK h : h = <<HostRecord>>
  OBVIOUS
<1> PICK x : x = Execute(Main, "callnoyield")
  OBVIOUS
<1> PICK s : s = [level |-> 1, nny |-> 2, nCcalls |-> 1]
  OBVIOUS
<1>3. Base(Main, u, c, h)
  BY <1>1, <1>2, HostBase
<1>4. /\ Len(c) = 1 /\ c[1] = HostFrame /\ h[1] = HostRecord /\ c # <<>> /\ Len(h) = 1
  OBVIOUS
<1>5. /\ HostFrame.fn = "luaD_pcall" /\ HostFrame.L = Main
      /\ HostRecord.level = 0 /\ HostRecord.nny = 1 /\ HostRecord.nCcalls = 0
  BY DEF HostFrame, HostRecord
<1>6. /\ c[Len(c)].fn = "luaD_pcall" /\ c[Len(c)].L = Main
      /\ h[Len(c)].level = 0 /\ h[Len(c)].nny = 1 /\ h[Len(c)].nCcalls = 0
  BY <1>4, <1>5
<1>7. /\ x \in CFrame /\ x.fn = "luaV_execute" /\ x.L = Main /\ x.via = "callnoyield"
      /\ Slack(x) = 0 /\ Counted(x) /\ Slack(c[Len(c)]) = 0
  BY <1>2, <1>6, CFrameOf DEF Execute, Via, Slack, Counted
<1>8. s \in Past /\ s.level = 1 /\ s.nny = 2 /\ s.nCcalls = 1
  BY DEF Past
<1>9. /\ u.ci \in Seq(Info) /\ Len(u.ci) = 1 /\ u.ci[1] = CI("lua", TRUE)
      /\ u.nCcalls = 1 /\ u.nny = 2 /\ u.errfunc = 0 /\ u.allowhook /\ u.status = LUA_OK
  BY <1>2 DEF HostedIs
<1>10. u.ci[1].f = "lua" /\ u.ci[1].fresh /\ ~u.ci[1].hooked
  BY <1>9 DEF CI
<1>11. 1 < MaxCCalls + Extra
  BY CallsAssumption
<1>12. Kind(c[Len(c)], h[Len(c)], x, s, u.ci) /\ x.L = Main
  <2> PICK y : y = c[Len(c)]
    OBVIOUS
  <2> PICK q : q = h[Len(c)]
    OBVIOUS
  <2>1. Called(y, q, x, s, u.ci)
    <3>1. Calling(y, q, x.via, u.ci)
      BY <1>6, <1>7 DEF Calling
    <3>2. Counters(q, x.via, s)
      BY <1>6, <1>7, <1>8 DEF Counters
    <3> QED
      BY <1>6, <3>1, <3>2 DEF Called
  <2>2. Barrier(Main, s, u.ci)
    BY <1>8 DEF Barrier
  <2>3. q.level = 0 /\ y.L = x.L
    BY <1>6, <1>7
  <2>4. \A m \in 1..1 : IsLua(u.ci[m])
    BY <1>10 DEF IsLua
  <2>5. OfLua(y, q, x, s, u.ci)
    BY <1>7, <1>8, <1>10, <2>1, <2>2, <2>3, <2>4 DEF OfLua
  <2> QED
    BY <1>7, <2>5 DEF Kind
<1>13. Base(Main, u, Append(c, x), Append(h, s))
  <2>1. s.level <= Len(u.ci) /\ s.nCcalls < MaxCCalls + Extra
    BY <1>8, <1>9, <1>11
  <2>2. \/ /\ x.fn # "lua_resume" /\ c[Len(c)].L = Main /\ s.level >= h[Len(c)].level
           /\ h[Len(c)].nny > 0 \/ c[Len(c)].fn = "luaD_pcall" => s.nny > 0
        \/ /\ x.fn = "lua_resume" /\ \A j \in 1..Len(c) : c[j].L # Main
           /\ Awake(c[Len(c)], th[c[Len(c)].L], h[Len(c)])
    BY <1>6, <1>7, <1>8
  <2>3. h[Len(c)].nCcalls + (IF Counted(x) THEN 1 ELSE 0) + Slack(x) <= s.nCcalls + Slack(c[Len(c)])
    BY <1>6, <1>7, <1>8
  <2>4. c # <<>> /\ u.status = LUA_OK /\ x \in CFrame /\ s \in Past
    BY <1>4, <1>7, <1>8, <1>9
  <2> QED
    BY <1>3, <1>12, <2>1, <2>2, <2>3, <2>4, BasePush
<1>14. /\ Append(c, x) # <<>> /\ Len(Append(c, x)) = 2 /\ Append(c, x)[2] = x /\ Append(h, s)[2] = s
  BY <1>4
<1>15. Awake(x, u, s)
  <2>1. s = [level |-> Len(u.ci), nny |-> u.nny, nCcalls |-> u.nCcalls]
    BY <1>9
  <2>2. HooksOn(u.ci, 1)
    BY <1>10 DEF HooksOn
  <2>3. u.errfunc = Handler(u.ci, 1)
    BY <1>9, HandlerZero
  <2>4. ~u.ci[Len(u.ci)].hooked /\ Len(u.ci) > 0
    <3>1. u.ci[Len(u.ci)] = u.ci[1] /\ Len(u.ci) > 0
      BY <1>9
    <3> QED
      BY <1>10, <3>1
  <2> QED
    BY <1>7, <1>9, <2>1, <2>2, <2>3, <2>4 DEF Awake
<1>16. th' = With(Main, u)
  BY <1>2 DEF Host, With, Hosted
<1>17. cstack' = Append(c, x)
  <2>1. cstack' = <<HostFrame, x>>
    BY DEF Host, HostFrame
  <2>2. HostFrame \in CFrame
    BY <1>2 DEF HostFrame, CFrame
  <2> QED
    BY <1>7, <2>1, <2>2, TwoSeq
<1> QED
  BY <1>7, <1>13, <1>14, <1>15, <1>16, <1>17, ConcludeTop

-----------------------------------------------------------------------------
(* The actions *)

LEMMA KindsIs ==
  ASSUME NEW f \in Functions
  PROVE  f \in Kinds
BY CallsAssumption

\* The function on top is a Lua function, a hook, or a C function that is f.
LEMMA TopRuns ==
  ASSUME NEW g, Good(th, cstack, g)
  PROVE  /\ InLua => Ready(Run, t0, cstack, g) /\ cstack[Len(cstack)].fn = "luaV_execute"
         /\ InHook => Ready(Run, t0, cstack, g) /\ cstack[Len(cstack)].fn = "luaD_hook"
         /\ cstack # <<>> => /\ Ready(Run, t0, cstack, g) /\ Top = cstack[Len(cstack)]
                             /\ t0.ci \in Seq(Info) /\ t0.nny \in Nat
                             /\ t0.ci # <<>> => Last(t0.ci) = t0.ci[Len(t0.ci)]
         /\ \A f : In(f) => cstack # <<>> /\ cstack[Len(cstack)].fn = "C" /\ t0.ci[Len(t0.ci)].f = f
<1>1. ASSUME cstack # <<>>
      PROVE  /\ Ready(Run, t0, cstack, g) /\ Top = cstack[Len(cstack)]
             /\ t0.ci \in Seq(Info) /\ t0.nny \in Nat
             /\ t0.ci # <<>> => Last(t0.ci) = t0.ci[Len(t0.ci)]
             /\ cstack[Len(cstack)].fn # "lua_resume" => t0.ci # <<>>
  <2>1. Ready(Run, t0, cstack, g) /\ Top = cstack[Len(cstack)]
    BY <1>1, ReadyOf
  <2>2. /\ t0.ci \in Seq(Info) /\ t0.nny \in Nat
        /\ cstack[Len(cstack)].fn # "lua_resume" => Len(t0.ci) > 0
    BY <2>1, ReadyIs
  <2>3. t0.ci # <<>> => Last(t0.ci) = t0.ci[Len(t0.ci)]
    BY <2>2, FrontSeq
  <2>4. cstack[Len(cstack)].fn # "lua_resume" => t0.ci # <<>>
    BY <2>2
  <2> QED
    BY <2>1, <2>2, <2>3, <2>4
<1>2. ASSUME NEW f, In(f) PROVE cstack # <<>> /\ cstack[Len(cstack)].fn = "C" /\ t0.ci[Len(t0.ci)].f = f
  <2>1. cstack # <<>> /\ Top.fn = "C" /\ Last(t0.ci).f = f
    BY <1>2 DEF In
  <2>2. cstack[Len(cstack)].fn = "C"
    BY <1>1, <2>1
  <2>3. t0.ci # <<>>
    BY <1>1, <2>1, <2>2
  <2> QED
    BY <1>1, <2>1, <2>2, <2>3
<1> QED
  BY <1>1, <1>2 DEF InLua, InHook

LEMMA LuaActs ==
  ASSUME NEW g, Good(th, cstack, g),
         \/ \E f \in Functions : OpCall(f) \/ CallTM(f)
         \/ Capture \/ OpTailCall \/ OpReturn \/ Error \/ StartHook
  PROVE  IInv'
<1>1. InLua
  BY DEF OpCall, CallTM, Capture, OpTailCall, OpReturn, Error, StartHook
<1>2. Ready(Run, t0, cstack, g) /\ cstack[Len(cstack)].fn = "luaV_execute" /\ Top = cstack[Len(cstack)]
  BY <1>1, TopRuns DEF InLua
<1>3. ASSUME NEW f \in Functions, OpCall(f) PROVE IInv'
  BY <1>2, <1>3, KindsIs, OpCallStep DEF OpCall
<1>4. ASSUME NEW f \in Functions, CallTM(f) PROVE IInv'
  BY <1>2, <1>4, KindsIs, CallTMStep DEF CallTM
<1>5. CASE Capture
  BY <1>2, <1>5, CaptureStep DEF Capture
<1>6. CASE OpTailCall
  BY <1>2, <1>6, OpTailCallStep DEF OpTailCall
<1>7. CASE OpReturn
  BY <1>2, <1>7, OpReturnStep DEF OpReturn
<1>8. CASE Error
  BY <1>2, <1>8, ErrorIsStep DEF Error
<1>9. CASE StartHook
  BY <1>2, <1>9, StartHookStep DEF StartHook, Marked, Hook
<1> QED
  BY <1>3, <1>4, <1>5, <1>6, <1>7, <1>8, <1>9

LEMMA HookActs ==
  ASSUME NEW g, Good(th, cstack, g),
         (\E f \in Functions : HookCalls(f)) \/ HookReturns \/ HookError \/ HookYields
  PROVE  IInv'
<1>1. InHook
  BY DEF HookReturns, HookCalls, HookError, HookYields
<1>2. Ready(Run, t0, cstack, g) /\ cstack[Len(cstack)].fn = "luaD_hook" /\ t0.nny \in Nat
  BY <1>1, TopRuns DEF InHook
<1>3. CASE HookReturns
  BY <1>2, <1>3, HookReturnsStep DEF HookReturns, Unhooked, Marked
<1>4. ASSUME NEW f \in Functions, HookCalls(f) PROVE IInv'
  BY <1>2, <1>4, KindsIs, HookCallsStep DEF HookCalls
<1>5. CASE HookError
  BY <1>2, <1>5, ErrorIsStep DEF HookError
<1>6. CASE HookYields
  <2>1. CASE t0.nny > 0
    <3>1. RunError(t0, cstack)
      BY <1>6, <2>1 DEF HookYields
    <3> QED
      BY <1>2, <3>1, ErrorIsStep
  <2>2. CASE ~(t0.nny > 0)
    <3>1. t0.nny = 0
      BY <1>2, <2>2
    <3>2. Throw([Unhooked EXCEPT !.status = LUA_YIELD], cstack, LUA_YIELD)
      BY <1>6, <2>2 DEF HookYields
    <3>3. Unhooked = Marked(t0, TRUE, FALSE)
      BY DEF Unhooked, Marked
    <3>4. Throw([Marked(t0, TRUE, FALSE) EXCEPT !.status = LUA_YIELD], cstack, LUA_YIELD)
      BY <3>2, <3>3
    <3> QED
      BY <1>2, <3>1, <3>4, HookYieldsStep
  <2> QED
    BY <2>1, <2>2
<1> QED
  BY <1>3, <1>4, <1>5, <1>6

LEMMA CallkActs ==
  ASSUME NEW g, Good(th, cstack, g), NEW f \in Functions, Callk(f)
  PROVE  IInv'
<1>1. In("call") \/ In("dofile")
  BY DEF Callk, Start
<1>2. /\ Ready(Run, t0, cstack, g) /\ cstack[Len(cstack)].fn = "C" /\ t0.nny \in Nat /\ f \in Kinds
      /\ In("dofile") => t0.ci[Len(t0.ci)].f = "dofile"
      /\ In("call") => t0.ci[Len(t0.ci)].f = "call"
  BY <1>1, TopRuns, KindsIs
<1>3. CASE WithContinuation(t0, In("dofile"))
  <2>1. In("dofile") /\ t0.nny = 0
    BY <1>3 DEF WithContinuation
  <2>2. Call([t0 EXCEPT !.ci[Len(t0.ci)].k = In("dofile")], cstack, f, "call")
    BY <1>3 DEF Callk
  <2>3. In("dofile") = TRUE
    BY <2>1 DEF In
  <2>4. Call(Continued(t0), cstack, f, "call")
    BY <2>2, <2>3 DEF Continued
  <2> QED
    BY <1>2, <2>1, <2>4, CallkStep
<1>4. CASE ~WithContinuation(t0, In("dofile"))
  <2>1. t0.ci[Len(t0.ci)].f \in {"call", "dofile"} /\ (t0.ci[Len(t0.ci)].f = "call" \/ t0.nny # 0)
    BY <1>1, <1>2, <1>4 DEF WithContinuation
  <2>2. Call(t0, cstack, f, "callnoyield")
    BY <1>4 DEF Callk
  <2> QED
    BY <1>2, <2>1, <2>2, CallNoYieldStep
<1> QED
  BY <1>3, <1>4

LEMMA PcallkActs ==
  ASSUME NEW g, Good(th, cstack, g), NEW f \in Functions, Pcallk(f)
  PROVE  IInv'
<1>1. In("pcall") \/ In("xpcall")
  BY DEF Pcallk, Start
<1>2. /\ Ready(Run, t0, cstack, g) /\ cstack[Len(cstack)].fn = "C" /\ t0.nny \in Nat /\ f \in Kinds
      /\ In("pcall") => t0.ci[Len(t0.ci)].f = "pcall"
      /\ In("xpcall") => t0.ci[Len(t0.ci)].f = "xpcall"
  BY <1>1, TopRuns, KindsIs
<1>3. (IF In("xpcall") THEN Len(t0.ci) ELSE 0) = NewHandler(t0)
  BY <1>1, <1>2 DEF NewHandler
<1>4. t0.ci[Len(t0.ci)].f \in Protecting
  BY <1>1, <1>2 DEF Protecting
<1>5. CASE WithContinuation(t0, TRUE)
  <2>1. t0.nny = 0
    BY <1>5 DEF WithContinuation
  <2>2. Call(Guarded(t0, NewHandler(t0)), cstack, f, "call")
    BY <1>3, <1>5 DEF Pcallk, Guarded
  <2> QED
    BY <1>2, <1>4, <2>1, <2>2, PcallkStep
<1>6. CASE ~WithContinuation(t0, TRUE)
  <2>1. t0.nny # 0
    BY <1>6 DEF WithContinuation
  <2>2. Call([t0 EXCEPT !.errfunc = NewHandler(t0)], Append(cstack, Pcall(Run, t0)), f, "callnoyield")
    BY <1>3, <1>6 DEF Pcallk, Pcall
  <2> QED
    BY <1>2, <1>4, <2>1, <2>2, PcallCStep
<1> QED
  BY <1>5, <1>6

LEMMA YieldActs ==
  ASSUME NEW g, Good(th, cstack, g), Yield \/ LuaError
  PROVE  IInv'
<1>1. In("yield") \/ In("error")
  BY DEF Yield, LuaError, Start
<1>2. /\ Ready(Run, t0, cstack, g) /\ cstack[Len(cstack)].fn = "C" /\ t0.nny \in Nat
      /\ In("yield") => t0.ci[Len(t0.ci)].f = "yield"
      /\ t0.ci[Len(t0.ci)].f \in {"yield", "error"}
  BY <1>1, TopRuns
<1>3. t0.ci[Len(t0.ci)].f \notin Protecting
  BY <1>2 DEF Protecting
<1>4. CASE RunError(t0, cstack)
  BY <1>2, <1>3, <1>4, CErrorStep
<1>5. CASE Yield /\ ~(t0.nny > 0)
  <2>1. t0.nny = 0 /\ In("yield")
    BY <1>2, <1>5 DEF Yield, Start
  <2>2. Throw([t0 EXCEPT !.status = LUA_YIELD], cstack, LUA_YIELD)
    BY <1>5 DEF Yield
  <2> QED
    BY <1>2, <2>1, <2>2, YieldStep
<1> QED
  BY <1>4, <1>5 DEF Yield, LuaError

LEMMA UnrollActs ==
  ASSUME NEW g, Good(th, cstack, g), Unroll
  PROVE  IInv'
<1>1. cstack # <<>> /\ Top.fn = "lua_resume"
  BY DEF Unroll
<1>2. /\ Ready(Run, t0, cstack, g) /\ cstack[Len(cstack)].fn = "lua_resume"
      /\ t0.ci # <<>> => Last(t0.ci) = t0.ci[Len(t0.ci)]
  BY <1>1, TopRuns
<1>3. CASE t0.ci = <<>>
  <2>1. Resumed(t0, cstack, "ok")
    BY <1>3 DEF Unroll
  <2> QED
    BY <1>2, <1>3, <2>1, UnrollEnds
<1>4. CASE t0.ci # <<>> /\ Last(t0.ci).f \in {"lua", "handler"}
  <2>1. Step(Freshened(t0), Append(cstack, Execute(Run, "precall")))
    BY <1>4 DEF Unroll, Freshened
  <2>2. IsLua(t0.ci[Len(t0.ci)])
    BY <1>2, <1>4 DEF IsLua
  <2> QED
    BY <1>2, <1>4, <2>1, <2>2, UnrollLua
<1>5. CASE t0.ci # <<>> /\ Last(t0.ci).f \notin {"lua", "handler"}
  <2>1. Step(Finished(t0), cstack)
    BY <1>5 DEF Unroll, Finished
  <2>2. ~IsLua(t0.ci[Len(t0.ci)])
    BY <1>2, <1>5 DEF IsLua
  <2> QED
    BY <1>2, <1>5, <2>1, <2>2, UnrollC
<1> QED
  BY <1>3, <1>4, <1>5

LEMMA CReturnActs ==
  ASSUME NEW g, Good(th, cstack, g), CReturn
  PROVE  IInv'
<1>1. cstack # <<>> /\ Top.fn = "C"
  BY DEF CReturn
<1>2. Ready(Run, t0, cstack, g) /\ cstack[Len(cstack)].fn = "C" /\ Top = cstack[Len(cstack)]
  BY <1>1, TopRuns
<1>3. CASE In("wrap") /\ Top.done = "error"
  <2>1. RunError(t0, cstack)
    BY <1>3 DEF CReturn
  <2>2. t0.ci[Len(t0.ci)].f = "wrap"
    BY <1>3, TopRuns
  <2>3. t0.ci[Len(t0.ci)].f \notin Protecting
    BY <2>2 DEF Protecting
  <2> QED
    BY <1>2, <2>1, <2>3, CErrorStep
<1>4. CASE ~(In("wrap") /\ Top.done = "error")
  <2>1. Return(t0, Front(cstack), cstack[Len(cstack)].via)
    BY <1>2, <1>4 DEF CReturn
  <2> QED
    BY <1>2, <2>1, CReturnStep
<1> QED
  BY <1>3, <1>4

LEMMA UnchangedActs ==
  ASSUME IInv, UNCHANGED vars
  PROVE  IInv'
<1>1. th' = th /\ cstack' = cstack
  BY DEF vars
<1>2. PICK g \in Seq(Past) : Good(th, cstack, g)
  BY DEF IInv
<1>3. Good(th', cstack', g)
  BY <1>1, <1>2
<1> QED
  BY <1>2, <1>3 DEF IInv

\* Every action keeps the invariant.
LEMMA Inductive ==
  IInv /\ [Next]_vars => IInv'
<1> SUFFICES ASSUME IInv, [Next]_vars PROVE IInv'
  OBVIOUS
<1>1. PICK g \in Seq(Past) : Good(th, cstack, g)
  BY DEF IInv
<1>2. CASE UNCHANGED vars
  BY <1>2, UnchangedActs
<1>3. ASSUME NEW f \in Functions, OpCall(f) \/ CallTM(f) \/ HookCalls(f) \/ Callk(f) \/ Pcallk(f) PROVE IInv'
  BY <1>1, <1>3, LuaActs, HookActs, CallkActs, PcallkActs
<1>4. ASSUME NEW co \in Coroutine, NEW f \in Functions, Resume(co, f) PROVE IInv'
  BY <1>1, <1>4, ResumeStep
<1>5. ASSUME NEW co \in Coroutine, Create(co) PROVE IInv'
  BY <1>1, <1>5, CreateStep
<1>6. CASE Capture \/ OpTailCall \/ OpReturn \/ Error \/ StartHook
  BY <1>1, <1>6, LuaActs
<1>7. CASE HookReturns \/ HookError \/ HookYields
  BY <1>1, <1>7, HookActs
<1>8. CASE Yield \/ LuaError
  BY <1>1, <1>8, YieldActs
<1>9. CASE Unroll
  BY <1>1, <1>9, UnrollActs
<1>10. CASE CReturn
  BY <1>1, <1>10, CReturnActs
<1>11. CASE Host
  BY <1>1, <1>11, HostStep
<1> QED
  BY <1>2, <1>3, <1>4, <1>5, <1>6, <1>7, <1>8, <1>9, <1>10, <1>11 DEF Next

\* The C stack and the CallInfo lists always belong together.
THEOREM Invariant == Spec => []IInv
<1> QED
  BY Initially, Inductive, PTL DEF Spec

-----------------------------------------------------------------------------
(* The properties *)

LEMMA YieldableIf ==
  ASSUME NEW g, Good(th, cstack, g)
  PROVE  YieldableUnlessBarrier
<1> SUFFICES ASSUME InLua
             PROVE  t0.nny = 0 <=>
                      /\ Run # Main
                      /\ \A j \in 1..(Len(t0.ci) - 1) : t0.ci[j].f # "call" /\ ~t0.ci[j].hooked
                      /\ \A j \in DOMAIN t0.ci : t0.ci[j].f # "handler"
  BY DEF YieldableUnlessBarrier, InLua
<1> DEFINE s == g[Len(cstack)]
           n == Len(t0.ci)
<1>1. Ready(Run, t0, cstack, g) /\ cstack[Len(cstack)].fn = "luaV_execute" /\ t0.ci \in Seq(Info)
  BY TopRuns DEF InLua
<1>2. s.level = n /\ s.nny = t0.nny /\ n \in Nat /\ n > 0 /\ Barrier(Run, s, t0.ci)
  BY <1>1, ReadyIs, CallerIs
<1>3. DOMAIN t0.ci = 1..n
  BY <1>1
<1> HIDE DEF s, n
<1>4. ASSUME t0.nny = 0
      PROVE  /\ Run # Main
             /\ \A j \in 1..(n - 1) : t0.ci[j].f # "call" /\ ~t0.ci[j].hooked
             /\ \A j \in 1..n : t0.ci[j].f # "handler"
  <2>1. Run # Main /\ Passable(t0.ci, n - 1) /\ t0.ci[n].f # "handler"
    BY <1>2, <1>4 DEF Barrier
  <2>2. \A j \in 1..(n - 1) : t0.ci[j].f \notin {"call", "handler"} /\ ~t0.ci[j].hooked
    BY <2>1 DEF Passable, Passes
  <2>3. \A j \in 1..n : j \in 1..(n - 1) \/ j = n
    BY <1>2
  <2> QED
    BY <2>1, <2>2, <2>3
<1>5. ASSUME Run # Main,
             \A j \in 1..(n - 1) : t0.ci[j].f # "call" /\ ~t0.ci[j].hooked,
             \A j \in 1..n : t0.ci[j].f # "handler"
      PROVE  t0.nny = 0
  <2>1. NoBarrier(t0.ci, s.level)
    BY <1>2, <1>5 DEF NoBarrier
  <2> QED
    BY <1>2, <1>5, <2>1 DEF Barrier
<1> QED
  BY <1>3, <1>4, <1>5 DEF n

LEMMA ContinuationIf ==
  ASSUME NEW g, Good(th, cstack, g)
  PROVE  ContinuationKnown
<1> SUFFICES ASSUME cstack # <<>>, Top.fn = "lua_resume", t0.ci # <<>>, ~IsLua(Last(t0.ci))
             PROVE  Last(t0.ci).k /\ t0.nny = 0
  BY DEF ContinuationKnown
<1>1. /\ Ready(Run, t0, cstack, g) /\ cstack[Len(cstack)].fn = "lua_resume" /\ t0.ci \in Seq(Info)
      /\ Last(t0.ci) = t0.ci[Len(t0.ci)]
  BY TopRuns
<1>2. Passable(t0.ci, Len(t0.ci)) /\ t0.nny = 0
  BY <1>1, InResume
<1>3. Len(t0.ci) \in 1..Len(t0.ci)
  BY <1>1
<1>4. Passes(t0.ci[Len(t0.ci)])
  BY <1>2, <1>3 DEF Passable
<1> QED
  BY <1>1, <1>2, <1>4 DEF Passes, IsLua

LEMMA UpvaluesIf ==
  ASSUME NEW g, Good(th, cstack, g)
  PROVE  UpvaluesLive
<1> SUFFICES ASSUME NEW L \in Thread, NEW l \in th[L].openupval
             PROVE  l \in DOMAIN th[L].ci /\ IsLua(th[L].ci[l])
  BY DEF UpvaluesLive
<1>1. Sound(th[L])
  BY DEF Good
<1>2. th[L].ci \in Seq(Info) /\ l \in 1..Len(th[L].ci) /\ IsLua(th[L].ci[l])
  BY <1>1 DEF Sound, State
<1> QED
  BY <1>2

LEMMA BoundedIf ==
  ASSUME NEW g, Good(th, cstack, g)
  PROVE  CStackBounded
<1> SUFFICES ASSUME cstack # <<>>
             PROVE  LET C == {j \in DOMAIN cstack :
                                \/ cstack[j].fn = "lua_resume"
                                \/ (cstack[j].fn \in {"luaV_execute", "C"} /\ cstack[j].via # "precall")}
                    IN Cardinality(C) <= t0.nCcalls /\ t0.nCcalls < MaxCCalls + Extra
  BY DEF CStackBounded
<1> DEFINE n == Len(cstack)
<1>1. Ready(Run, t0, cstack, g)
  BY ReadyOf
<1>2. /\ Base(Run, t0, cstack, g) /\ cstack[n].L = Run /\ g[n].nCcalls = t0.nCcalls
      /\ cstack \in Seq(CFrame) /\ t0.nCcalls \in Nat
  BY <1>1, ReadyIs, BaseIs
<1>3. g[n].nCcalls < MaxCCalls + Extra /\ Count(cstack, n) + Slack(cstack[n]) <= g[n].nCcalls
  BY <1>2, TopIs
<1>4. DOMAIN cstack = 1..n /\ n \in Nat
  BY <1>2
<1>5. Count(cstack, n) \in Nat
  BY <1>4, CountNext
<1>6. Slack(cstack[n]) \in Nat
  BY DEF Slack
<1>7. {j \in DOMAIN cstack :
         \/ cstack[j].fn = "lua_resume"
         \/ (cstack[j].fn \in {"luaV_execute", "C"} /\ cstack[j].via # "precall")}
        = {i \in 1..n : Counted(cstack[i])}
  BY <1>4 DEF Counted
<1>8. Count(cstack, n) = Cardinality({i \in 1..n : Counted(cstack[i])})
  BY DEF Count
<1>9. Count(cstack, n) <= t0.nCcalls /\ t0.nCcalls < MaxCCalls + Extra
  <2> PICK a \in Nat : a = Count(cstack, n)
    BY <1>5
  <2> PICK b \in Nat : b = Slack(cstack[n])
    BY <1>6
  <2>1. a + b <= t0.nCcalls /\ t0.nCcalls < MaxCCalls + Extra
    BY <1>2, <1>3
  <2> QED
    BY <1>2, <2>1
<1> QED
  BY <1>7, <1>8, <1>9

\* A thread whose handler and hooks are those of its activations.
InForce(t) == t.errfunc = Handler(t.ci, Len(t.ci)) /\ (t.allowhook <=> HooksOn(t.ci, Len(t.ci)))

LEMMA SleepInForce ==
  ASSUME NEW L, NEW t, Sound(t), Live(t), Asleep(L, t)
  PROVE  InForce(t)
<1>1. t.status \in {LUA_OK, LUA_YIELD}
  BY DEF Live, Dead
<1>2. CASE t.status = LUA_OK
  <2>1. t.ci = <<>> /\ t.fn /\ t.errfunc = 0 /\ t.allowhook
    BY <1>2 DEF Live, Dead, Asleep
  <2>2. Len(t.ci) = 0
    BY <2>1
  <2>3. Handler(t.ci, 0) = 0
    BY HandlerZero
  <2>4. HooksOn(t.ci, 0)
    BY DEF HooksOn
  <2> QED
    BY <2>1, <2>2, <2>3, <2>4 DEF InForce
<1>3. CASE t.status = LUA_YIELD
  BY <1>3 DEF Asleep, InForce
<1> QED
  BY <1>1, <1>2, <1>3

LEMMA RunInForce ==
  ASSUME NEW x, NEW t, NEW s, Awake(x, t, s), x.fn # "lua_resume"
  PROVE  InForce(t)
BY DEF Awake, InForce

LEMMA HandlersIf ==
  ASSUME NEW g, Good(th, cstack, g)
  PROVE  HandlersRestored
<1>1. ASSUME NEW L \in Thread, Live(th[L]), ~(cstack # <<>> /\ Top.fn = "lua_resume" /\ Run = L)
      PROVE  InForce(th[L])
  <2>1. CASE \A j \in 1..Len(cstack) : cstack[j].L # L
    <3>1. Asleep(L, th[L]) /\ Sound(th[L])
      BY <2>1 DEF Good
    <3> QED
      BY <1>1, <3>1, SleepInForce
  <2>2. ASSUME NEW i \in 1..Len(cstack), cstack[i].L = L PROVE InForce(th[L])
    <3>1. PICK m \in 1..Len(cstack) :
             /\ cstack[m].L = L /\ Awake(cstack[m], th[L], g[m]) /\ th[L].status = LUA_OK
             /\ m = Len(cstack) \/ cstack[m].fn = "C"
      <4>1. L = cstack[i].L
        BY <2>2
      <4> QED
        BY <4>1, LastFrame
    <3>2. CASE cstack[m].fn = "C"
      BY <3>1, <3>2, RunInForce
    <3>3. CASE m = Len(cstack)
      <4>1. cstack # <<>>
        BY <3>3
      <4>2. Top = cstack[m]
        BY <3>3, <4>1, ReadyOf
      <4>3. cstack[m].fn # "lua_resume"
        BY <1>1, <3>1, <4>1, <4>2 DEF Run
      <4> QED
        BY <3>1, <4>3, RunInForce
    <3> QED
      BY <3>1, <3>2, <3>3
  <2> QED
    BY <2>1, <2>2
<1>2. ASSUME NEW L \in Thread, InForce(th[L])
      PROVE  LET t == th[L]
                 P == {j \in 1..(Len(t.ci) - 1) : t.ci[j].f \in Protecting}
             IN /\ t.errfunc = IF \E j \in P : (\A i \in P : i <= j) /\ t.ci[j].f = "xpcall"
                               THEN CHOOSE j \in P : \A i \in P : i <= j ELSE 0
                /\ t.allowhook <=> \A j \in DOMAIN t.ci : ~t.ci[j].hooked
  <2>1. DOMAIN th[L].ci = 1..Len(th[L].ci)
    <3>1. th[L].ci \in Seq(Info)
      BY DEF Good, State
    <3> QED
      BY <3>1
  <2> QED
    BY <1>2, <2>1 DEF InForce, Handler, Protected, HooksOn
<1> QED
  BY <1>1, <1>2 DEF HandlersRestored

\* A coroutine can yield exactly when no function that needs its C frame is active in it,
\* however its calls, errors, yields and resumptions have moved the counter nny.
THEOREM YieldableIsRight == Spec => []YieldableUnlessBarrier
<1>1. IInv => YieldableUnlessBarrier
  BY YieldableIf DEF IInv
<1> QED
  BY <1>1, Invariant, PTL

\* Every C function that unroll finishes has a continuation, and could have been left.
THEOREM ContinuationsAreKnown == Spec => []ContinuationKnown
<1>1. IInv => ContinuationKnown
  BY ContinuationIf DEF IInv
<1> QED
  BY <1>1, Invariant, PTL

\* Whichever way the calls above it have ended, the message handler of the innermost
\* protected call is in force, and hooks are off exactly while one runs.
THEOREM HandlersAreRestored == Spec => []HandlersRestored
<1>1. IInv => HandlersRestored
  BY HandlersIf DEF IInv
<1> QED
  BY <1>1, Invariant, PTL

\* No open upvalue outlives the activation of its variable.
THEOREM UpvaluesAreLive == Spec => []UpvaluesLive
<1>1. IInv => UpvaluesLive
  BY UpvaluesIf DEF IInv
<1> QED
  BY <1>1, Invariant, PTL

\* The C stack is bounded across coroutines: nCcalls of the running thread counts it, and
\* stays below the limit that stackerror leaves for error handling.
THEOREM CStackIsBounded == Spec => []CStackBounded
<1>1. IInv => CStackBounded
  BY BoundedIf DEF IInv
<1> QED
  BY <1>1, Invariant, PTL

\* The types of the module.
THEOREM TypeCorrect == Spec => []TypeOK
<1>1. ASSUME NEW g, Good(th, cstack, g) PROVE TypeOK
  <2>1. ASSUME NEW L \in Thread
        PROVE  /\ th[L].status \in {LUA_OK, LUA_YIELD, LUA_ERRRUN, LUA_ERRERR}
               /\ th[L].nny \in Nat /\ th[L].nCcalls \in Nat
               /\ th[L].errfunc \in 0..Len(th[L].ci)
    <3>1. th[L] \in State /\ th[L].errfunc <= Len(th[L].ci)
      BY <1>1 DEF Good, Sound
    <3>2. Len(th[L].ci) \in Nat /\ th[L].errfunc \in Nat
      BY <3>1 DEF State
    <3> QED
      BY <3>1, <3>2 DEF State
  <2>2. ASSUME NEW j \in DOMAIN cstack PROVE cstack[j].L \in Thread
    <3>1. cstack \in Seq(CFrame)
      BY <1>1 DEF Good
    <3>2. cstack[j] \in CFrame
      BY <3>1
    <3> QED
      BY <3>2, CFrameIs
  <2> QED
    BY <2>1, <2>2 DEF TypeOK
<1>2. IInv => TypeOK
  BY <1>1 DEF IInv
<1> QED
  BY <1>2, Invariant, PTL

=============================================================================
