------------------------------ MODULE Compile -------------------------------
(***************************************************************************)
(* What a program means, read off its syntax tree: variables are           *)
(* references that an environment names, statements run one after another, *)
(* and a goto, break or return is a signal that a block passes on.  The    *)
(* program that the parser makes of it must do the same on the             *)
(* interpreter.  Nothing here models code: it is the reference.            *)
(***************************************************************************)
EXTENDS Execute

\* A state: the values of references, tables, closures, the trace, fuel and the status; calls are the
\* names that the called functions have in the program, and blame is the name of what is at fault.
V1(vs) == IF vs = <<>> THEN Nil ELSE vs[1]
Adjust(vs, n) == [i \in 1 .. n |-> IF i <= Len(vs) THEN vs[i] ELSE Nil]
\* Values, and the name of the expression that gave the first one.
Named(st, vs, who) == [st |-> st, vs |-> vs, who |-> who]
Res(st, vs) == Named(st, vs, <<>>)
Fail(st) == [st EXCEPT !.status = "error"]
Metamethod(event) == <<"metamethod", event>>
Iterator == <<"for iterator", "for iterator">>
Blame(st, who) == [Fail(st) EXCEPT !.blame = IF who # <<>> /\ who[1] \in {"metamethod", "for iterator"} THEN <<>> ELSE who]
Running(st) == st.status = "run"
New(st, v) == [st EXCEPT !.refs = Append(@, v)]
Bind(env, x, ref) == [env EXCEPT !.vars = (x :> ref) @@ @, !.own = @ \cup {x}]
NameOf(env, x) == <<IF x \in env.own THEN "local" ELSE IF x \in DOMAIN env.vars THEN "upvalue" ELSE "global", x>>
KeyName(who) == IF who # <<>> /\ who[1] = "constant" THEN who[2] ELSE "?"
Meta(st, v, event) == TM(st, v, event)

RECURSIVE Eval(_, _, _), EvalList(_, _, _), Call(_, _, _, _), Exec(_, _, _), ExecFrom(_, _, _, _, _),
          Index(_, _, _, _), SetIndex(_, _, _, _, _), Loop(_, _, _, _), ForIn(_, _, _, _)

\* New variables with their values.
Declare(st, env, names, vs) ==
  FoldLeft(LAMBDA a, i : [st |-> New(a.st, vs[i]), env |-> Bind(a.env, names[i], Len(a.st.refs) + 1)],
           [st |-> st, env |-> env], [i \in DOMAIN names |-> i])

Call(s, f, args, who) ==
  LET st == IF ttisfunction(f) THEN [s EXCEPT !.calls = Append(@, who)] ELSE s
      c == st.cls[f[2]]
      n == Len(c.params)
      d == Declare([st EXCEPT !.fuel = @ - 1], [c.env EXCEPT !.va = IF c.is_vararg THEN SubSeq(args, n + 1, Len(args)) ELSE <<>>, !.own = {}],
                   c.params, Adjust(args, n))
      r == ExecFrom(c.block, 1, d.env, <<>>, d.st)
  IN CASE ~Running(st) -> Res(st, <<>>)
       [] Running(st) /\ f = <<"c", "p">> -> Res([st EXCEPT !.trace = Append(@, args)], args)
       [] Running(st) /\ f = <<"c", "setmetatable">> -> Res([st EXCEPT !.tabs[args[1][2]].mt = args[2][2]], <<args[1]>>)
       [] Running(st) /\ f[1] = "fn" ->
            IF st.fuel = 0 THEN Res([st EXCEPT !.status = "timeout"], <<>>)
            ELSE Res(r.st, IF r.sig[1] = "return" THEN r.sig[2] ELSE <<>>)
       [] OTHER -> IF Meta(st, f, "__call") = Nil THEN Res(Blame(st, who), <<>>)
                   ELSE Call(st, Meta(st, f, "__call"), <<f>> \o args, who)

\* The metamethod of an operator; without one, the operand named who is at fault.
CallMeta(st, a, b, event, args, operator, who) ==
  LET tm == IF Meta(st, a, event) # Nil THEN Meta(st, a, event) ELSE Meta(st, b, event) IN
  IF tm = Nil THEN Res(Blame(st, who), <<Nil>>) ELSE Call(st, tm, args, Metamethod(operator))

Index(st, t, k, who) ==
  LET tm == Meta(st, t, "__index") IN
  IF ttistable(t) /\ (Raw(st, t, k) # Nil \/ tm = Nil) THEN Res(st, <<Raw(st, t, k)>>)
  ELSE IF tm = Nil THEN Res(Blame(st, who), <<>>)
  ELSE IF ttisfunction(tm) THEN Call(st, tm, <<t, k>>, Metamethod("__index")) ELSE Index(st, tm, k, <<>>)

SetIndex(st, t, k, v, who) ==
  LET tm == Meta(st, t, "__newindex") IN
  IF ~Running(st) THEN st
  ELSE IF ttistable(t) /\ (Raw(st, t, k) # Nil \/ tm = Nil) THEN (IF k = Nil THEN Fail(st) ELSE RawSet(st, t, k, v))
  ELSE IF tm = Nil THEN Blame(st, who)
  ELSE IF ttisfunction(tm) THEN Call(st, tm, <<t, k, v>>, Metamethod("__newindex")).st ELSE SetIndex(st, tm, k, v, <<>>)

Name(st, env, x) == IF x \in DOMAIN env.vars THEN st.refs[env.vars[x]] ELSE Raw(st, <<"tab", 1>>, <<"str", x>>)

Ints(a, b) == ttisinteger(a) /\ ttisinteger(b)
Truth(r) == Res(r.st, <<Bool(~l_isfalse(V1(r.vs)))>>)
BinOp(st, op, a, b, wa, wb) ==
  CASE op \in Arith ->
         IF ~Ints(a, b) THEN CallMeta(st, a, b, TMS[op], <<a, b>>, TMS[op], IF ttisinteger(a) THEN wb ELSE wa)
         ELSE IF op \in {"//", "%"} /\ b[2] = 0 THEN Res(Fail(st), <<>>)
         ELSE Res(st, <<<<"int", luaO_arith(op, a[2], b[2])>>>>)
    [] op = ".." -> IF cvt2str(a) /\ cvt2str(b) THEN Res(st, <<<<"str", tostring(a) \o tostring(b)>>>>)
                    ELSE CallMeta(st, a, b, "__concat", <<a, b>>, "__concat", IF cvt2str(a) THEN wb ELSE wa)
    [] op = "==" -> LET m == Meta(st, a, "__eq") # Nil \/ Meta(st, b, "__eq") # Nil IN
                    IF a # b /\ ttistable(a) /\ ttistable(b) /\ m THEN Truth(CallMeta(st, a, b, "__eq", <<a, b>>, "__eq", <<>>))
                    ELSE Res(st, <<Bool(a = b)>>)
    [] op = "<"  -> IF Ints(a, b) THEN Res(st, <<Bool(a[2] < b[2])>>) ELSE Truth(CallMeta(st, a, b, "__lt", <<a, b>>, "__lt", <<>>))
    [] op = "<=" -> IF Ints(a, b) THEN Res(st, <<Bool(a[2] <= b[2])>>)
                    ELSE IF Meta(st, a, "__le") # Nil \/ Meta(st, b, "__le") # Nil
                      THEN Truth(CallMeta(st, a, b, "__le", <<a, b>>, "__le", <<>>))
                    ELSE LET r == CallMeta(st, b, a, "__lt", <<b, a>>, "__le", <<>>) IN Res(r.st, <<Bool(l_isfalse(V1(r.vs)))>>)

UnOp(st, op, a, who) ==
  CASE op = "not" -> Res(st, <<Bool(l_isfalse(a))>>)
    [] op = "-" -> IF ttisinteger(a) THEN Res(st, <<<<"int", -a[2]>>>>) ELSE CallMeta(st, a, a, "__unm", <<a, a>>, "__unm", who)
    [] op = "#" -> IF a[1] = "str" THEN Res(st, <<<<"int", Len(a[2])>>>>)
                   ELSE IF Meta(st, a, "__len") # Nil THEN CallMeta(st, a, a, "__len", <<a, a>>, "__len", who)
                   ELSE IF ttistable(a) THEN Res(st, <<<<"int", luaH_getn(st.tabs[a[2]].h)>>>>) ELSE Res(Blame(st, who), <<>>)

\* One value unless the expression is a call or ... .
First(r) == Named(r.st, <<V1(r.vs)>>, r.who)
Closure(st, env, e) ==
  Res([st EXCEPT !.cls = Append(@, [params |-> e[2], is_vararg |-> e[3], block |-> e[4], env |-> env])],
    <<<<"fn", Len(st.cls) + 1>>>>)

\* The fields of a constructor; the last item may be several.
Field(a, f, env, last) ==
  LET k == Eval(f[2], env, a.st)
      v == Eval(f[3], env, k.st)
      vs == IF last THEN k.vs ELSE <<V1(k.vs)>>
  IN IF f[1] = "rec" THEN [a EXCEPT !.st = SetIndex(v.st, a.t, V1(k.vs), V1(v.vs), <<>>)]
     ELSE [a EXCEPT !.st = FoldLeft(LAMBDA s, i : SetIndex(s, a.t, <<"int", a.n + i>>, vs[i], <<>>), k.st, [i \in DOMAIN vs |-> i]),
                    !.n = @ + Len(vs)]
Table(st, env, fs) ==
  LET t == <<"tab", Len(st.tabs) + 1>>
      new == [st EXCEPT !.tabs = Append(@, [h |-> <<>>, mt |-> 0])]
      a == FoldLeft(LAMBDA b, i : Field(b, fs[i], env, i = Len(fs)), [st |-> new, t |-> t, n |-> 0], [i \in DOMAIN fs |-> i])
  IN Res(a.st, <<t>>)

Eval(e, env, st) ==
  CASE ~Running(st) -> Res(st, <<>>)
    [] Running(st) /\ e[1] = "int"   -> Res(st, <<e>>)
    [] Running(st) /\ e[1] = "str"   -> Named(st, <<e>>, <<"constant", e[2]>>)
    [] Running(st) /\ e[1] = "nil"   -> Res(st, <<Nil>>)
    [] Running(st) /\ e[1] \in {"true", "false"} -> Res(st, <<Bool(e[1] = "true")>>)
    [] Running(st) /\ e[1] = "..."   -> Res(st, env.va)
    [] Running(st) /\ e[1] = "name"  -> Named(st, <<Name(st, env, e[2])>>, NameOf(env, e[2]))
    [] Running(st) /\ e[1] = "paren" -> First(Eval(e[2], env, st))
    [] Running(st) /\ e[1] = "func"  -> Closure(st, env, e)
    [] Running(st) /\ e[1] = "table" -> Table(st, env, e[2])
    [] Running(st) /\ e[1] = "index" ->
         LET t == Eval(e[2], env, st)
             k == Eval(e[3], env, t.st)
             r == Index(k.st, V1(t.vs), V1(k.vs), t.who)
         IN IF Running(k.st) THEN Named(r.st, <<V1(r.vs)>>, <<"field", KeyName(k.who)>>) ELSE k
    [] Running(st) /\ e[1] = "call"  ->
         LET f == Eval(e[2], env, st)
             a == EvalList(e[3], env, f.st)
         IN Call(a.st, V1(f.vs), a.vs, f.who)
    [] Running(st) /\ e[1] = "self"  ->
         LET o == Eval(e[2], env, st)
             f == Index(o.st, V1(o.vs), <<"str", e[3]>>, o.who)
             a == EvalList(e[4], env, f.st)
         IN IF Running(o.st) THEN Call(a.st, V1(f.vs), o.vs \o a.vs, <<"method", e[3]>>) ELSE o
    [] Running(st) /\ e[1] = "un"    ->
         LET a == Eval(e[3], env, st) IN IF Running(a.st) THEN First(UnOp(a.st, e[2], V1(a.vs), a.who)) ELSE a
    [] Running(st) /\ e[1] = "bin"   ->
         LET a == Eval(e[3], env, st)
             b == Eval(e[4], env, a.st)
             x == V1(a.vs)
             y == V1(b.vs)
             eq == BinOp(b.st, "==", x, y, <<>>, <<>>)
         IN CASE e[2] = "and" -> IF l_isfalse(x) THEN First(a) ELSE First(b)
              [] e[2] = "or" -> IF l_isfalse(x) THEN First(b) ELSE First(a)
              [] ~Running(b.st) /\ e[2] \notin {"and", "or"} -> b
              [] Running(b.st) /\ e[2] = "~=" -> Res(eq.st, <<Bool(l_isfalse(V1(eq.vs)))>>)
              [] Running(b.st) /\ e[2] = ">"  -> First(BinOp(b.st, "<", y, x, <<>>, <<>>))
              [] Running(b.st) /\ e[2] = ">=" -> First(BinOp(b.st, "<=", y, x, <<>>, <<>>))
              [] OTHER -> First(BinOp(b.st, e[2], x, y, a.who, b.who))

EvalList(es, env, st) ==
  IF es = <<>> THEN Res(st, <<>>)
  ELSE LET a == Eval(Head(es), env, st)
           b == EvalList(Tail(es), env, a.st)
       IN IF Len(es) = 1 THEN a ELSE Res(b.st, <<V1(a.vs)>> \o b.vs)

-----------------------------------------------------------------------------
(* Statements *)

Next_ == <<"next">>
X(st, env, sig) == [st |-> st, env |-> env, sig |-> sig]

\* The values are stored from the last target to the first.
Assign(st, env, vars, es) ==
  LET Target(a, v) ==
        LET t == Eval(v[2], env, a.st)
            k == Eval(v[3], env, t.st)
        IN IF v[1] = "name" THEN [a EXCEPT !.ts = Append(@, v)]
           ELSE [st |-> k.st, ts |-> Append(a.ts, <<"index", V1(t.vs), V1(k.vs), t.who>>)]
      a == FoldLeft(Target, [st |-> st, ts |-> <<>>], vars)
      r == EvalList(es, env, a.st)
      vs == Adjust(r.vs, Len(vars))
      Store(s, i) ==
        LET v == a.ts[i] IN
        CASE ~Running(s) -> s
          [] Running(s) /\ v[1] = "index" -> SetIndex(s, v[2], v[3], vs[i], v[4])
          [] OTHER -> IF v[2] \in DOMAIN env.vars THEN [s EXCEPT !.refs[env.vars[v[2]]] = vs[i]]
                      ELSE SetIndex(s, <<"tab", 1>>, <<"str", v[2]>>, vs[i], <<>>)
  IN FoldLeft(Store, r.st, Reverse([i \in DOMAIN vars |-> i]))

If(s, env, st, i) ==
  LET RECURSIVE Clause(_, _)
      Clause(s0, j) ==
        LET c == Eval(s[2][j][1], env, s0) IN
        IF j > Len(s[2]) THEN (IF s[3] = <<>> THEN X(s0, env, Next_) ELSE ExecFrom(s[3][1], 1, env, <<>>, s0))
        ELSE IF ~l_isfalse(V1(c.vs)) THEN ExecFrom(s[2][j][2], 1, env, <<>>, c.st) ELSE Clause(c.st, j + 1)
  IN Clause(st, i)

\* After the body of a loop: does it go on?
GoesOn(r) == Running(r.st) /\ r.sig = Next_
LoopEnd(r, env) == X(r.st, env, IF r.sig[1] = "break" THEN Next_ ELSE r.sig)
Timeout(st) == [st EXCEPT !.status = IF st.fuel = 0 THEN "timeout" ELSE @, !.fuel = IF @ = 0 THEN 0 ELSE @ - 1]

\* while and numeric for (whose variable is s[2], from i to limit).
Loop(s, env, st0, c) ==
  LET st == Timeout(st0)
      test == Eval(s[2], env, st)
      d == Declare(st, env, <<s[2]>>, <<<<"int", c.i>>>>)
      w == ExecFrom(s[3], 1, env, <<>>, test.st)
      f == ExecFrom(s[4], 1, d.env, <<>>, d.st)
      u == ExecFrom(s[2], 1, env, <<>>, st)
      until == Eval(s[3], u.env, u.st)
  IN CASE ~Running(st) -> X(st, env, Next_)
       [] Running(st) /\ s[1] = "while" ->
            IF ~Running(test.st) \/ l_isfalse(V1(test.vs)) THEN X(test.st, env, Next_)
            ELSE IF GoesOn(w) THEN Loop(s, env, w.st, c) ELSE LoopEnd(w, env)
       [] Running(st) /\ s[1] = "repeat" ->
            IF ~GoesOn(u) THEN LoopEnd(u, env)
            ELSE IF Running(until.st) /\ l_isfalse(V1(until.vs)) THEN Loop(s, env, until.st, c) ELSE X(until.st, env, Next_)
       [] Running(st) /\ s[1] = "fornum" ->
            IF IF c.step > 0 THEN c.i > c.limit ELSE c.i < c.limit THEN X(st, env, Next_)
            ELSE IF GoesOn(f) THEN Loop(s, env, f.st, [c EXCEPT !.i = @ + c.step]) ELSE LoopEnd(f, env)

ForNum(s, env, st) ==
  LET e == EvalList([i \in DOMAIN s[3] |-> <<"paren", s[3][i]>>], env, st)
      v == IF Len(s[3]) = 3 THEN e.vs ELSE e.vs \o <<<<"int", 1>>>>
  IN IF ~Running(e.st) THEN X(e.st, env, Next_)
     ELSE IF \E i \in 1 .. 3 : ~ttisinteger(v[i]) THEN X(Fail(e.st), env, Next_)
     ELSE Loop(s, env, e.st, [i |-> v[1][2], limit |-> v[2][2], step |-> v[3][2]])

ForIn(s, env, st0, g) ==
  LET st == Timeout(st0)
      r == Call(st, g[1], <<g[2], g[3]>>, Iterator)
      vs == Adjust(r.vs, Len(s[2]))
      d == Declare(r.st, env, s[2], vs)
      b == ExecFrom(s[4], 1, d.env, <<>>, d.st)
  IN IF ~Running(r.st) \/ vs[1] = Nil THEN X(r.st, env, Next_)
     ELSE IF GoesOn(b) THEN ForIn(s, env, b.st, <<g[1], g[2], vs[1]>>) ELSE LoopEnd(b, env)

Exec(s, env, st) ==
  CASE s[1] = "local" -> LET e == EvalList(s[3], env, st)
                             d == Declare(e.st, env, s[2], Adjust(e.vs, Len(s[2])))
                         IN X(d.st, d.env, Next_)
    [] s[1] = "localfunc" -> LET d == Declare(st, env, <<s[2]>>, <<Nil>>)
                                 c == Closure(d.st, d.env, s[3])
                             IN X([c.st EXCEPT !.refs[d.env.vars[s[2]]] = V1(c.vs)], d.env, Next_)
    [] s[1] = "assign" -> X(Assign(st, env, s[2], s[3]), env, Next_)
    [] s[1] = "function" -> X(Assign(st, env, <<s[2]>>, <<s[3]>>), env, Next_)
    [] s[1] = "callstat" -> X(Eval(s[2], env, st).st, env, Next_)
    [] s[1] = "do" -> [ExecFrom(s[2], 1, env, <<>>, st) EXCEPT !.env = env]
    [] s[1] = "if" -> [If(s, env, st, 1) EXCEPT !.env = env]
    [] s[1] \in {"while", "repeat"} -> Loop(s, env, st, [i |-> 0])
    [] s[1] = "fornum" -> ForNum(s, env, st)
    [] s[1] = "forin" -> LET e == EvalList(s[3], env, st) IN
                         IF Running(e.st) THEN ForIn(s, env, e.st, Adjust(e.vs, 3)) ELSE X(e.st, env, Next_)
    [] s[1] = "return" -> LET e == EvalList(s[2], env, st) IN X(e.st, env, <<"return", e.vs>>)
    [] s[1] \in {"break", "goto"} -> X(st, env, s)
    [] s[1] = "label" -> X(st, env, Next_)

\* A block from its i-th statement on; envs has the environments in front of the ones done.
ExecFrom(ss, i, env, envs, st) ==
  LET r == Exec(ss[i], env, st)
      seen == Append(envs, env)
      j == SelectInSeq(ss, LAMBDA s : s[1] = "label" /\ s[2] = r.sig[2])
  IN IF i > Len(ss) \/ ~Running(st) THEN X(st, env, Next_)
     ELSE IF r.sig = Next_ THEN ExecFrom(ss, i + 1, r.env, seen, r.st)
     ELSE IF r.sig[1] = "goto" /\ j > i
       THEN ExecFrom(ss, j, env, seen \o [k \in 1 .. j - i - 1 |-> env], r.st)
     ELSE IF r.sig[1] = "goto" /\ j \in 1 .. i THEN ExecFrom(ss, j, seen[j], SubSeq(seen, 1, j - 1), Timeout(r.st))
     ELSE r

Meaning(ss, fuel) ==
  LET globals == [h |-> (<<"str", "p">> :> <<"c", "p">>) @@ (<<"str", "setmetatable">> :> <<"c", "setmetatable">>), mt |-> 0]
      st == [refs |-> <<>>, tabs |-> <<globals>>, cls |-> <<>>, trace |-> <<>>, fuel |-> fuel,
             status |-> "run", calls |-> <<>>, blame |-> <<>>]
      r == ExecFrom(ss, 1, [vars |-> <<>>, own |-> {}, va |-> <<>>], <<>>, st)
  IN [status |-> IF Running(r.st) THEN "done" ELSE r.st.status, trace |-> r.st.trace,
      calls |-> r.st.calls, blame |-> r.st.blame]

-----------------------------------------------------------------------------
(* Programs that do not compile *)

Declares(s) == s[1] \in {"local", "localfunc"}
Trailing(ss, j) == \A k \in j .. Len(ss) : ss[k][1] = "label"

\* The labels that statement i may go to.
Visible(ss, i, until) ==
  {ss[j][2] : j \in {j \in DOMAIN ss : /\ ss[j][1] = "label"
                                       /\ j <= i \/ (Trailing(ss, j) /\ ~until) \/ \A k \in i .. j : ~Declares(ss[k])}}

RECURSIVE Bad(_, _, _, _), BadExpr(_, _)
BadExpr(e, va) ==
  CASE e[1] = "..." -> ~va
    [] e[1] = "func" -> Bad(e[4], {}, FALSE, e[3])
    [] e[1] = "paren" -> BadExpr(e[2], va)
    [] e[1] = "index" -> BadExpr(e[2], va) \/ BadExpr(e[3], va)
    [] e[1] = "un" -> BadExpr(e[3], va)
    [] e[1] = "bin" -> BadExpr(e[3], va) \/ BadExpr(e[4], va)
    [] e[1] = "call" -> BadExpr(e[2], va) \/ \E i \in DOMAIN e[3] : BadExpr(e[3][i], va)
    [] e[1] = "self" -> BadExpr(e[2], va) \/ \E i \in DOMAIN e[4] : BadExpr(e[4][i], va)
    [] e[1] = "table" -> \E i \in DOMAIN e[2] : \E k \in 2 .. Len(e[2][i]) : BadExpr(e[2][i][k], va)
    [] OTHER -> FALSE

\* A goto without a visible label, a jump into the scope of a local, a break outside a loop,
\* a label twice in a block, ... .
Bad(ss, labels, until, va) ==
  \E i \in DOMAIN ss :
    LET s == ss[i]
        in == labels \cup Visible(ss, i, until)
        loop == in \cup {"break"}
        BadAny(es) == \E k \in DOMAIN es : BadExpr(es[k], va)
    IN CASE s[1] = "goto" -> s[2] \notin in
         [] s[1] = "label" -> \E j \in 1 .. i - 1 : ss[j] = s
         [] s[1] = "break" -> "break" \notin in
         [] s[1] = "do" -> Bad(s[2], in, FALSE, va)
         [] s[1] = "while" -> BadExpr(s[2], va) \/ Bad(s[3], loop, FALSE, va)
         [] s[1] = "repeat" -> BadExpr(s[3], va) \/ Bad(s[2], loop, TRUE, va)
         [] s[1] \in {"fornum", "forin"} -> BadAny(s[3]) \/ Bad(s[4], loop, FALSE, va)
         [] s[1] = "if" -> \/ \E k \in DOMAIN s[2] : BadExpr(s[2][k][1], va) \/ Bad(s[2][k][2], in, FALSE, va)
                           \/ s[3] # <<>> /\ Bad(s[3][1], in, FALSE, va)
         [] s[1] \in {"local", "assign"} -> BadAny(s[3])
         [] s[1] \in {"localfunc", "function"} -> BadExpr(s[3], va)
         [] s[1] = "return" -> BadAny(s[2])
         [] s[1] = "callstat" -> BadExpr(s[2], va)
         [] OTHER -> FALSE

-----------------------------------------------------------------------------
(* What the compiler promises *)

\* Every register, constant, upvalue, function and jump of the code exists, and every test
\* is followed by its jump.
RECURSIVE WellCoded(_)
WellCoded(p) ==
  LET n == Len(p.code)
      Reg(x) == x \in 0 .. p.maxstacksize - 1
      Opd(x) == IF ISK(x) THEN x - BITRK \in 0 .. Len(p.k) - 1 ELSE Reg(x)
      Up(x) == x \in 0 .. Len(p.up) - 1
      To(pc) == pc \in 0 .. n - 1
  IN /\ n > 0 /\ p.code[n].op = "RETURN"
     /\ \A pc \in 0 .. n - 1 :
          LET i == p.code[pc + 1] IN
          /\ i.op \in TestMode => p.code[pc + 2].op = "JMP"
          /\ i.op \notin {"JMP", "SETTABUP", "EXTRAARG", "EQ", "LT", "LE"} => Reg(i.a)
          /\ i.op \in {"JMP", "FORPREP", "FORLOOP", "TFORLOOP"} => To(pc + 1 + i.b)
          /\ i.op = "LOADBOOL" /\ i.c = 1 => To(pc + 2)
          /\ i.op = "LOADNIL" => Reg(i.a + i.b)
          /\ i.op = "LOADK" => i.b \in 0 .. Len(p.k) - 1
          /\ i.op \in {"MOVE", "UNM", "NOT", "LEN", "TESTSET", "SELF", "GETTABLE"} => Reg(i.b)
          /\ i.op \in {"GETUPVAL", "SETUPVAL", "GETTABUP"} => Up(i.b)
          /\ i.op = "SETTABUP" => Up(i.a)
          /\ i.op \in Arith \cup {"EQ", "LT", "LE", "SETTABLE", "SETTABUP"} => Opd(i.b) /\ Opd(i.c)
          /\ i.op \in {"GETTABLE", "GETTABUP", "SELF"} => Opd(i.c)
          /\ i.op = "CONCAT" => i.b < i.c /\ Reg(i.b) /\ Reg(i.c)
          /\ i.op \in {"CALL", "TAILCALL"} /\ i.b > 0 => Reg(i.a + i.b - 1)
          /\ i.op \in {"RETURN", "VARARG"} /\ i.b > 1 => Reg(i.a + i.b - 2)
          /\ i.op \in {"FORPREP", "FORLOOP"} => Reg(i.a + 3)
          /\ i.op = "TFORCALL" => Reg(i.a + 2 + i.c) /\ Reg(i.a + 5) /\ p.code[pc + 2].op = "TFORLOOP"
          /\ i.op = "CLOSURE" => i.b \in 0 .. Len(p.p) - 1
     /\ \A j \in DOMAIN p.p : WellCoded(p.p[j])

\* A trace as far as it goes, where the fuel of either side ends it.
Agree(r, m) ==
  \/ r.status = m.status /\ r.trace = m.trace
  \/ r.status = "timeout" /\ (IsPrefix(r.trace, m.trace) \/ IsPrefix(m.trace, r.trace))
  \/ m.status = "timeout" /\ (IsPrefix(r.trace, m.trace) \/ IsPrefix(m.trace, r.trace))

\* A name that the code gives is the one in the program, and none is missing that no jump could hide
\* (but a constant that is an operand needs no register, and has no name).
Jumps_(p) == \E i \in DOMAIN p.code : p.code[i].op = "JMP"
NameRight(name, who, p) == name = who \/ (name = <<>> /\ (Jumps_(p) \/ who[1] = "constant"))
NamesRight(r, m) ==
  /\ \A i \in DOMAIN r.calls \cap DOMAIN m.calls :
       LET c == r.calls[i]
           gone == c.lua /\ c.p.code[c.pc + 1].op = "TAILCALL"   \* the frame that called it
       IN gone \/ NameRight(funcnamefromcode(c.p, c.pc), m.calls[i], c.p)
  /\ r.status = "error" /\ m.status = "error" => NameRight(r.blame, m.blame, Frame(r).p)

\* A program that means something is compiled to code that does it, no assertion of the
\* compiler or the interpreter fails, and every other program is refused; named asks for the names too.
CompiledRight(ss, fuel, named) ==
  LET c == luaY_parser(ss)
      r == Run(c.proto, fuel)
      m == Meaning(ss, fuel \div 8)
  IN IF Bad(ss, {}, FALSE, TRUE) THEN c.err
     ELSE /\ ~c.err /\ c.ok
          /\ WellCoded(c.proto)
          /\ r.ok /\ Agree(r, m)
          /\ named => NamesRight(r, m)
=============================================================================
