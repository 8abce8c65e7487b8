------------------------------- MODULE Calls --------------------------------
(***************************************************************************)
(* Calls, errors and coroutines of the Lua core (ldo.c, and lua_callk,     *)
(* lua_pcallk, lua_newthread, luaG_errormsg, OP_CALL, OP_RETURN and the    *)
(* functions of the base and coroutine libraries that use them).           *)
(*                                                                         *)
(* Every thread has its CallInfo list; all of them share one C stack, on   *)
(* which a long jump cuts off everything above the innermost handler.      *)
(* Values are left out.  A stack level is the number of the activation     *)
(* that owns it.                                                           *)
(***************************************************************************)
EXTENDS Integers, Sequences, SequencesExt, FiniteSets

CONSTANTS
  Main, Coroutine,  \* the main thread, the others
  MaxDepth,         \* bound: activations of a thread
  MaxCCalls,        \* LUAI_MAXCCALLS (200 in the code)
  Extra,            \* LUAI_MAXCCALLS >> 3
  Functions         \* bound: the kinds of functions the program calls

Kinds == {"lua", "pcall", "xpcall", "call", "dofile", "yield", "resume", "wrap", "error"}
Thread == {Main} \cup Coroutine

ASSUME CallsAssumption ==
  /\ Main \notin Coroutine /\ Functions \subseteq Kinds
  /\ MaxDepth \in Nat \ {0} /\ MaxCCalls \in Nat \ {0} /\ Extra \in Nat \ {0}

VARIABLES
  th,     \* the threads: ci, status, nny, nCcalls, errfunc, allowhook, openupval; is a function left?
  cstack  \* the C functions being executed

vars == <<th, cstack>>

LUA_OK == 0
LUA_YIELD == 1
LUA_ERRRUN == 2
LUA_ERRERR == 6

\* A CallInfo; k says whether there is a continuation.
CI(f, fresh) == [f |-> f, fresh |-> fresh, k |-> FALSE, ypcall |-> FALSE,
                 old_errfunc |-> 0, oah |-> TRUE, hooked |-> FALSE]

preinit_thread == [ci |-> <<>>, status |-> LUA_OK, nny |-> 1, nCcalls |-> 0, errfunc |-> 0,
                   allowhook |-> TRUE, openupval |-> {}, fn |-> FALSE]

Init == th = [L \in Thread |-> preinit_thread] /\ cstack = <<>>

\* Frames of the C stack.  via: who called, to be undone at the return.
Execute(L, via) == [fn |-> "luaV_execute", L |-> L, via |-> via]
CFunction(L, via) == [fn |-> "C", L |-> L, via |-> via, done |-> "no"]

Top == Last(cstack)
Run == Top.L
t0 == th[Run]

Step(t, c) == th' = [th EXCEPT ![Run] = t] /\ cstack' = c
Done(c, how) == IF c = <<>> THEN c ELSE [c EXCEPT ![Len(c)].done = how]
Kept(t, n) == [t EXCEPT !.ci = SubSeq(@, 1, n)]

\* luaF_close: the open upvalues above level n are closed.
NotClosed(t, n) == t
Closed(t, n) == [t EXCEPT !.openupval = {l \in @ : l <= n}]

-----------------------------------------------------------------------------
(* Long jumps *)

\* The end of lua_resume.
Resumed(t, c, how) ==
  Step([t EXCEPT !.nny = Last(c).nny, !.nCcalls = Last(c).nCcalls - 1], Done(Front(c), how))

\* A protected call that could yield is over.  (Mutant: its handler stays.)
KeepErrfunc(t, ci) == t.errfunc
OldErrfunc(t, ci) == IF ci.ypcall THEN ci.old_errfunc ELSE t.errfunc

\* recover: the innermost suspended protected call takes the error.
Recover(t, c) ==
  LET Y == {j \in DOMAIN t.ci : t.ci[j].ypcall}
      j == CHOOSE m \in Y : \A i \in Y : i <= m
  IN Step([Closed(Kept(t, j), j) EXCEPT
             !.allowhook = t.ci[j].oah, !.nny = 0, !.errfunc = OldErrfunc(t, t.ci[j]),
             !.nCcalls = Last(c).nCcalls], c)

\* The error path of luaD_pcall.  (Mutant: nny is left alone.)
PcallFailsNny(t, c) ==
  LET p == Last(c) IN
  Step([Closed(Kept(t, p.ci), p.ci) EXCEPT
          !.allowhook = p.allowhook, !.errfunc = p.errfunc, !.nCcalls = p.nCcalls],
       Done(Front(c), "error"))
PcallFails(t, c) ==
  LET p == Last(c) IN
  Step([Closed(Kept(t, p.ci), p.ci) EXCEPT
          !.allowhook = p.allowhook, !.nny = p.nny, !.errfunc = p.errfunc, !.nCcalls = p.nCcalls],
       Done(Front(c), "error"))

\* luaD_throw, to the innermost luaD_rawrunprotected of the thread: luaD_pcall or lua_resume.
Throw(t, c, status) ==
  LET H == {h \in DOMAIN c : c[h].fn \in {"luaD_pcall", "lua_resume"}}
      d == SubSeq(c, 1, CHOOSE h \in H : \A i \in H : i <= h)
  IN CASE Last(d).fn = "luaD_pcall" -> PcallFails(t, d)
       [] Last(d).fn # "luaD_pcall" /\ status = LUA_YIELD -> Resumed(t, d, "ok")
       [] OTHER -> IF \E j \in DOMAIN t.ci : t.ci[j].ypcall THEN Recover(t, d)
                   ELSE Resumed([t EXCEPT !.status = status], d, "error")

-----------------------------------------------------------------------------
(* Calls *)

\* luaD_precall: a new CallInfo.  A Lua function called by luaV_execute needs no C frame.
Enter(t, c, f, via) ==
  LET u == [t EXCEPT !.ci = Append(@, CI(f, via # "precall"))] IN
  Step(u, IF f \notin {"lua", "handler"} THEN Append(c, CFunction(Run, via))
          ELSE IF via # "precall" THEN Append(c, Execute(Run, via))
          ELSE c)

\* luaG_errormsg: the handler is called, unless the C stack is exhausted for good.  At
\* LUAI_MAXCCALLS the call raises an error of its own first, with a call of the handler.
RunError(t, c) ==
  LET more == IF t.nCcalls + 1 = MaxCCalls THEN 2 ELSE 1
      u == [t EXCEPT !.nCcalls = @ + more, !.nny = @ + more]
  IN IF t.errfunc = 0 THEN Throw(t, c, LUA_ERRRUN)
     ELSE IF u.nCcalls >= MaxCCalls + Extra THEN Throw(u, c, LUA_ERRERR)
     ELSE Enter(u, Append(c, [fn |-> "luaG_errormsg", L |-> Run]), "handler", "callnoyield")

\* stackerror, called by luaD_call.  (Mutant: it only looks for the first overflow.)
OverflowOnce(n) == IF n = MaxCCalls THEN "error" ELSE "no"
Overflow(n) == IF n = MaxCCalls THEN "error" ELSE IF n >= MaxCCalls + Extra THEN "fatal" ELSE "no"

\* luaD_call and luaD_callnoyield.
Call(t, c, f, via) ==
  LET u == [t EXCEPT !.nCcalls = @ + 1, !.nny = IF via = "callnoyield" THEN @ + 1 ELSE @] IN
  CASE Overflow(u.nCcalls) = "error" -> RunError(u, c)
    [] Overflow(u.nCcalls) = "fatal" -> Throw(u, c, LUA_ERRERR)
    [] OTHER -> Enter(u, c, f, via)

\* luaD_poscall and what follows it: the end of luaD_call, then of its caller.
Return(t, c, via) ==
  LET u == [t EXCEPT !.ci = Front(@),
                     !.nCcalls = IF via \in {"call", "callnoyield"} THEN @ - 1 ELSE @,
                     !.nny = IF via = "callnoyield" THEN @ - 1 ELSE @]
      b == Last(c)
  IN CASE b.fn = "C" ->           \* lua_callk, or lua_pcallk with a continuation
            LET ci == Last(u.ci) IN
            Step([u EXCEPT !.ci[Len(u.ci)].ypcall = FALSE, !.errfunc = OldErrfunc(u, ci)], Done(c, "ok"))
       [] b.fn = "luaD_pcall" ->
            Step([u EXCEPT !.nCcalls = b.nCcalls, !.errfunc = b.errfunc], Done(Front(c), "ok"))
       [] b.fn = "luaG_errormsg" -> Throw(u, c, LUA_ERRRUN)
       [] OTHER -> Step(u, c)     \* luaV_execute, luaD_hook, lua_resume

-----------------------------------------------------------------------------
(* A Lua function, run by luaV_execute *)

InLua == cstack # <<>> /\ Top.fn = "luaV_execute"
Room(t) == Len(t.ci) < MaxDepth

OpCall(f) == InLua /\ Room(t0) /\ Enter(t0, cstack, f, "precall")

\* A metamethod: luaT_callTM.
CallTM(f) == InLua /\ Room(t0) /\ Call(t0, cstack, f, "call")

\* A closure captures a local variable: luaF_findupval.
Capture == InLua /\ Step([t0 EXCEPT !.openupval = @ \cup {Len(t0.ci)}], cstack)

\* The called function takes the place of the caller.
OpTailCall == InLua /\ Step(Closed(t0, Len(t0.ci) - 1), cstack)

OpReturn ==
  LET t == Closed(t0, Len(t0.ci) - 1) IN
  /\ InLua
  /\ IF Last(t.ci).fresh THEN Return(t, Front(cstack), Top.via) ELSE Return(t, cstack, "precall")

Error == InLua /\ RunError(t0, cstack)

\* luaD_hook, called by luaG_traceexec.
StartHook ==
  /\ InLua /\ t0.allowhook
  /\ Step([t0 EXCEPT !.allowhook = FALSE, !.ci[Len(t0.ci)].hooked = TRUE],
          Append(cstack, [fn |-> "luaD_hook", L |-> Run]))

-----------------------------------------------------------------------------
(* A hook *)

InHook == cstack # <<>> /\ Top.fn = "luaD_hook"
Unhooked == [t0 EXCEPT !.allowhook = TRUE, !.ci[Len(t0.ci)].hooked = FALSE]

HookReturns == InHook /\ Step(Unhooked, Front(cstack))
HookCalls(f) == InHook /\ Room(t0) /\ Call(t0, cstack, f, "callnoyield")
HookError   == InHook /\ RunError(t0, cstack)

\* lua_yieldk returns to luaD_hook, and luaG_traceexec jumps.
HookYields ==
  /\ InHook
  /\ IF t0.nny > 0 THEN RunError(t0, cstack)
     ELSE Throw([Unhooked EXCEPT !.status = LUA_YIELD], cstack, LUA_YIELD)

-----------------------------------------------------------------------------
(* C functions *)

In(f) == cstack # <<>> /\ Top.fn = "C" /\ Last(t0.ci).f = f
Start(f) == In(f) /\ Top.done = "no" /\ Room(t0)

\* Is the call made with the continuation of its caller?  (Mutants: one test is missing.)
EvenIfUnyieldable(t, k) == k
EvenWithout(t, k) == t.nny = 0
WithContinuation(t, k) == k /\ t.nny = 0

\* lua_call, for "call"; lua_callk with dofilecont, for dofile.
Callk(f) ==
  LET k == In("dofile") IN
  /\ Start("call") \/ Start("dofile")
  /\ IF WithContinuation(t0, k)
       THEN Call([t0 EXCEPT !.ci[Len(t0.ci)].k = k], cstack, f, "call")
       ELSE Call(t0, cstack, f, "callnoyield")

\* lua_pcallk with finishpcall; the handler of xpcall is in its own activation.
Pcallk(f) ==
  LET n == Len(t0.ci)
      ef == IF In("xpcall") THEN n ELSE 0
  IN
  /\ Start("pcall") \/ Start("xpcall")
  /\ IF WithContinuation(t0, TRUE)
       THEN Call([t0 EXCEPT !.ci[n].k = TRUE, !.ci[n].ypcall = TRUE, !.ci[n].oah = t0.allowhook,
                            !.ci[n].old_errfunc = t0.errfunc, !.errfunc = ef],
                 cstack, f, "call")
       ELSE Call([t0 EXCEPT !.errfunc = ef],
                 Append(cstack, [fn |-> "luaD_pcall", L |-> Run, ci |-> n, nny |-> t0.nny,
                                 allowhook |-> t0.allowhook, errfunc |-> t0.errfunc,
                                 nCcalls |-> t0.nCcalls]),
                 f, "callnoyield")

\* lua_yield.
Yield ==
  /\ Start("yield")
  /\ IF t0.nny > 0 THEN RunError(t0, cstack)
     ELSE Throw([t0 EXCEPT !.status = LUA_YIELD], cstack, LUA_YIELD)

LuaError == Start("error") /\ RunError(t0, cstack)

\* auxresume and lua_resume: the reasons not to resume co.
Dead(t) == (t.status = LUA_OK /\ t.ci = <<>> /\ ~t.fn) \/ t.status \notin {LUA_OK, LUA_YIELD}
Busy(t) == t.status = LUA_OK /\ t.ci # <<>>
Suspended(t) == ~Dead(t) /\ ~Busy(t)

Resume(co, f) ==
  LET n == t0.nCcalls + 1
      c == Append(cstack, [fn |-> "lua_resume", L |-> co, nny |-> th[co].nny, nCcalls |-> n])
      t == [th[co] EXCEPT !.nCcalls = n, !.nny = 0, !.status = LUA_OK, !.fn = FALSE]
      top == Last(t.ci)
  IN
  /\ Start("resume") \/ Start("wrap")
  /\ CASE ~Suspended(th[co]) -> Step(t0, Done(cstack, "error"))
       [] Suspended(th[co]) /\ n >= MaxCCalls ->
            th' = [th EXCEPT ![co].nCcalls = n] /\ cstack' = Done(cstack, "error")
       [] Suspended(th[co]) /\ n < MaxCCalls /\ t.ci = <<>> ->
            /\ th' = [th EXCEPT ![co] = [t EXCEPT !.ci = <<CI(f, TRUE)>>]]
            /\ cstack' = Append(c, IF f = "lua" THEN Execute(co, "precall") ELSE CFunction(co, "precall"))
       [] OTHER ->
            IF top.f \in {"lua", "handler"}  \* a hook has yielded
              THEN /\ th' = [th EXCEPT ![co] = [t EXCEPT !.ci[Len(t.ci)].fresh = TRUE]]
                   /\ cstack' = Append(c, Execute(co, "precall"))
              ELSE th' = [th EXCEPT ![co] = [t EXCEPT !.ci = Front(@)]] /\ cstack' = c

\* unroll, in lua_resume, up to the next piece of Lua code, or to its end.  A C function is
\* finished by its continuation, which returns.  (finishCcall)
Unroll ==
  LET ci == Last(t0.ci) IN
  /\ cstack # <<>> /\ Top.fn = "lua_resume"
  /\ CASE t0.ci = <<>> -> Resumed(t0, cstack, "ok")
       [] t0.ci # <<>> /\ ci.f \in {"lua", "handler"} ->
            Step([t0 EXCEPT !.ci[Len(t0.ci)].fresh = TRUE], Append(cstack, Execute(Run, "precall")))
       [] OTHER -> Step([t0 EXCEPT !.ci = Front(@), !.errfunc = OldErrfunc(t0, ci)], cstack)

\* A C function returns.  wrap passes an error on.
CReturn ==
  /\ cstack # <<>> /\ Top.fn = "C" /\ Top.done # "no"
  /\ IF In("wrap") /\ Top.done = "error" THEN RunError(t0, cstack)
     ELSE Return(t0, Front(cstack), Top.via)

-----------------------------------------------------------------------------

\* lua_newthread, for coroutine.create.
Create(co) ==
  /\ InLua /\ Dead(th[co])
  /\ th' = [th EXCEPT ![co] = [preinit_thread EXCEPT !.fn = TRUE]]
  /\ UNCHANGED cstack

\* The host program calls a chunk with lua_pcall.
Host ==
  /\ cstack = <<>>
  /\ th' = [th EXCEPT ![Main].nCcalls = 1, ![Main].nny = 2, ![Main].ci = <<CI("lua", TRUE)>>]
  /\ cstack' = <<[fn |-> "luaD_pcall", L |-> Main, ci |-> 0, nny |-> 1, allowhook |-> TRUE,
                  errfunc |-> 0, nCcalls |-> 0], Execute(Main, "callnoyield")>>

Next ==
  \/ \E f \in Functions : OpCall(f) \/ CallTM(f) \/ HookCalls(f) \/ Callk(f) \/ Pcallk(f)
  \/ \E co \in Coroutine, f \in Functions : Resume(co, f)
  \/ \E co \in Coroutine : Create(co)
  \/ Capture \/ OpTailCall \/ OpReturn \/ Error
  \/ StartHook \/ HookReturns \/ HookError \/ HookYields
  \/ Yield \/ LuaError \/ Unroll \/ CReturn \/ Host

Spec == Init /\ [][Next]_vars

-----------------------------------------------------------------------------
(* Properties *)

Live(t) == ~Dead(t)
IsLua(ci) == ci.f \in {"lua", "handler"}
Protecting == {"pcall", "xpcall"}
LuaResumes == SelectSeq(cstack, LAMBDA c : c.fn = "lua_resume")
Running == IF LuaResumes = <<>> THEN Main ELSE Last(LuaResumes).L

\* What a program can see of the activations and of the coroutines (luaB_costatus).
Frames == [L \in Thread |-> [j \in DOMAIN th[L].ci |->
             IF th[L].ci[j].hooked /\ th[L].ci[j].f = "lua" THEN "hooked" ELSE th[L].ci[j].f]]
Costatus == [L \in Thread |->
               CASE L = Running                     -> "running"
                 [] L # Running /\ Suspended(th[L]) -> "suspended"
                 [] L # Running /\ Dead(th[L])      -> "dead"
                 [] OTHER                           -> "normal"]

\* Calls, errors, yields and resumes do what Coroutines says, although a yield or an error
\* cuts off the C stack, and half of the frames of a thread may go on as continuations.
Abs == INSTANCE Coroutines WITH
         frames <- Frames, state <- Costatus,
         chain <- <<Main>> \o [j \in DOMAIN LuaResumes |-> LuaResumes[j].L]
Implements == Abs!Spec

TypeOK ==
  /\ \A L \in Thread : /\ th[L].status \in {LUA_OK, LUA_YIELD, LUA_ERRRUN, LUA_ERRERR}
                       /\ th[L].nny \in Nat /\ th[L].nCcalls \in Nat
                       /\ th[L].errfunc \in 0..Len(th[L].ci)
  /\ \A j \in DOMAIN cstack : cstack[j].L \in Thread

\* coroutine.isyieldable: a coroutine can yield exactly when no function that needs its C
\* frame is active in it.  (The counter is saved, cleared and restored in five places.)
YieldableUnlessBarrier ==
  cstack # <<>> /\ Top.fn = "luaV_execute" =>
    (t0.nny = 0 <=>
       /\ Run # Main
       /\ \A j \in 1..(Len(t0.ci) - 1) : t0.ci[j].f # "call" /\ ~t0.ci[j].hooked
       /\ \A j \in DOMAIN t0.ci : t0.ci[j].f # "handler")

\* finishCcall: "must have a continuation and must be able to call it".
ContinuationKnown ==
  cstack # <<>> /\ Top.fn = "lua_resume" /\ t0.ci # <<>> /\ ~IsLua(Last(t0.ci)) =>
    Last(t0.ci).k /\ t0.nny = 0

\* The message handler is that of the innermost protected call in progress, and hooks are
\* off exactly while one runs, whichever way the calls above it have ended.  (Inside
\* unroll the continuation on top has yet to restore the handler.)
HandlersRestored ==
  \A L \in Thread : Live(th[L]) /\ ~(cstack # <<>> /\ Top.fn = "lua_resume" /\ Run = L) =>
    LET t == th[L]
        P == {j \in 1..(Len(t.ci) - 1) : t.ci[j].f \in Protecting}
    IN /\ t.errfunc = IF \E j \in P : (\A i \in P : i <= j) /\ t.ci[j].f = "xpcall"
                      THEN CHOOSE j \in P : \A i \in P : i <= j ELSE 0
       /\ t.allowhook <=> \A j \in DOMAIN t.ci : ~t.ci[j].hooked

\* An open upvalue is a variable of an active Lua function: none outlives its activation.
UpvaluesLive ==
  \A L \in Thread : \A l \in th[L].openupval : l \in DOMAIN th[L].ci /\ IsLua(th[L].ci[l])

\* The C stack is bounded across coroutines: what is on it is counted in nCcalls of the
\* running thread, which stays below the limit that stackerror leaves for error handling.
CStackBounded ==
  LET C == {j \in DOMAIN cstack : \/ cstack[j].fn = "lua_resume"
                                 \/ (cstack[j].fn \in {"luaV_execute", "C"} /\ cstack[j].via # "precall")}
  IN cstack # <<>> => Cardinality(C) <= t0.nCcalls /\ t0.nCcalls < MaxCCalls + Extra
=============================================================================
