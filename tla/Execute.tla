------------------------------ MODULE Execute -------------------------------
(***************************************************************************)
(* The interpreter (lvm.c luaV_execute, with the calls of ldo.c, the       *)
(* upvalues of lfunc.c and the metamethods of ltm.c): frames that overlap  *)
(* on one stack, variables that closures share, and instructions that call *)
(* functions.                                                              *)
(*                                                                         *)
(* A machine m has the stack, its top, the frames ci, upvalues uvs, tables *)
(* tabs, closures cls, the last closure of each function (cache), the      *)
(* trace of the calls of the C function p, fuel, status (run, done, error) *)
(* and ok (no assertion has failed).  Errors end the program, and blame is *)
(* what the message says of the value; calls are the functions, with their *)
(* instructions, that have called something.  Integers are far from their  *)
(* limits; there are no floats and no userdata, and strings have no        *)
(* metatable.                                                              *)
(***************************************************************************)
EXTENDS Names, TLC

MAXTAGLOOP == 2000
STACKSIZE == 60

Nil == <<"nil">>
Bool(b) == <<"bool", b>>
l_isfalse(v) == v \in {Nil, Bool(FALSE)}
ttisinteger(v) == v[1] = "int"
ttistable(v) == v[1] = "tab"
ttisfunction(v) == v[1] \in {"fn", "c"}

MV(m, v) == [m |-> m, v |-> v]
CI(m) == Last(m.ci)
RuntimeError(m) == [m EXCEPT !.status = "error"]
luaAssert(m, c) == [m EXCEPT !.ok = @ /\ c]

\* Where a value is: a slot of the stack, an upvalue of the running function, or elsewhere.
Slot(x) == <<"slot", x>>
Upvalue(x) == <<"upvalue", x>>
Elsewhere == <<"elsewhere">>
currentpc(ci) == ci.pc - 1
Frame(m) == m.cls[m.stack[CI(m).func][2]]

\* luaG_typeerror: the name of a value in the frame or in an upvalue.
varinfo(m, o) ==
  LET ci == CI(m) IN
  CASE o[1] = "upvalue" -> <<"upvalue", upvalname(Frame(m).p, o[2])>>
    [] o[1] = "slot" /\ o[2] \in ci.base .. ci.top - 1 -> getobjname(Frame(m).p, currentpc(ci), o[2] - ci.base)
    [] OTHER -> <<>>
TypeError(m, o) == [RuntimeError(m) EXCEPT !.blame = varinfo(m, o)]

\* Values into the stack from a slot on.
Put(m, at, vs) == [m EXCEPT !.stack = FoldLeft(LAMBDA s, i : [s EXCEPT ![at + i - 1] = vs[i]], @, [i \in DOMAIN vs |-> i])]
Push(m, vs) == [Put(m, m.top, vs) EXCEPT !.top = @ + Len(vs)]
Slots(m, from, n) == [i \in 1 .. n |-> m.stack[from + i - 1]]
Nils(n) == IF n <= 0 THEN <<>> ELSE [i \in 1 .. n |-> Nil]

-----------------------------------------------------------------------------
(* Upvalues *)

\* An open upvalue is a stack slot, a closed one has its value.
UpvalGet(m, u) == IF m.uvs[u].open THEN m.stack[m.uvs[u].at] ELSE m.uvs[u].v
UpvalSet(m, u, v) == IF m.uvs[u].open THEN [m EXCEPT !.stack[m.uvs[u].at] = v] ELSE [m EXCEPT !.uvs[u].v = v]

luaF_findupval(m, level) ==
  LET u == SelectInSeq(m.uvs, LAMBDA x : x.open /\ x.at = level) IN
  IF u # 0 THEN [m |-> m, u |-> u]
  ELSE [m |-> [m EXCEPT !.uvs = Append(@, [open |-> TRUE, at |-> level, v |-> Nil])], u |-> Len(m.uvs) + 1]

luaF_close(m, level) ==
  [m EXCEPT !.uvs = [u \in DOMAIN @ |-> IF @[u].open /\ @[u].at >= level
                                          THEN [open |-> FALSE, at |-> @[u].at, v |-> m.stack[@[u].at]] ELSE @[u]]]

\* The last closure is used again if its variables are the ones of the new one.
cacheFits(m, p, encup, base, c) ==
  \A i \in DOMAIN p.up :
    LET u == m.cls[c].up[i] IN
    IF p.up[i].instack THEN m.uvs[u].open /\ m.uvs[u].at = base + p.up[i].idx ELSE u = encup[p.up[i].idx + 1]

pushclosure(m, p, path, encup, base) ==
  LET Take(a, d) ==
        LET f == luaF_findupval(a.m, base + d.idx) IN
        IF d.instack THEN [m |-> f.m, up |-> Append(a.up, f.u)] ELSE [a EXCEPT !.up = Append(@, encup[d.idx + 1])]
      a == FoldLeft(Take, [m |-> m, up |-> <<>>], p.up)
      c == Len(m.cls) + 1
  IN MV([a.m EXCEPT !.cls = Append(@, [p |-> p, path |-> path, up |-> a.up]), !.cache = (path :> c) @@ @], <<"fn", c>>)

-----------------------------------------------------------------------------
(* Calls *)

adjust_varargs(m, p, actual) ==
  LET fixed == m.top - actual
      n == IF actual < p.numparams THEN actual ELSE p.numparams
  IN Put(Push(m, Slots(m, fixed, n) \o Nils(p.numparams - n)), fixed, Nils(n))

moveresults(m, res, results, wanted) ==
  LET n == Len(results)
      vs == CASE wanted = LUA_MULTRET -> results
              [] wanted # LUA_MULTRET /\ n >= wanted -> SubSeq(results, 1, wanted)
              [] OTHER -> results \o Nils(wanted - n)
  IN [Put(m, res, vs) EXCEPT !.top = res + Len(vs)]

luaD_poscall(m, firstResult, nres) ==
  moveresults([m EXCEPT !.ci = Front(@)], CI(m).func, Slots(m, firstResult, nres), CI(m).nresults)

\* The C functions and their numbers of results: p records its arguments and returns them.
Cfunction(m, name, args) ==
  IF name = "p" THEN MV([Push(m, args) EXCEPT !.trace = Append(@, args)], Len(args))
  ELSE MV(Push([m EXCEPT !.tabs[args[1][2]].mt = args[2][2]], <<args[1]>>), 1)   \* setmetatable

TM(m, v, event) ==
  IF ttistable(v) /\ m.tabs[v[2]].mt # 0
    THEN LET h == m.tabs[m.tabs[v[2]].mt].h IN IF <<"str", event>> \in DOMAIN h THEN h[<<"str", event>>] ELSE Nil
  ELSE Nil

NewFrame(m, func, base, top, nresults) ==
  [m EXCEPT !.ci = Append(@, [func |-> func, base |-> base, top |-> top, nresults |-> nresults, pc |-> 0, fresh |-> FALSE])]

\* A C function is run, a Lua function gets its frame.
RECURSIVE luaD_precall(_, _, _)
luaD_precall(m0, func, nresults) ==
  LET f == m0.stack[func]
      m == IF m0.ci = <<>> \/ ~ttisfunction(f) THEN m0
           ELSE [m0 EXCEPT !.calls = Append(@, [p |-> Frame(m0).p, pc |-> currentpc(CI(m0)), lua |-> f[1] = "fn"])]
      n == m.top - func - 1
      args == Slots(m, func + 1, n)
      c == Cfunction(NewFrame(m, func, func + 1, m.top + 20, nresults), f[2], args)
      p == m.cls[f[2]].p
      adjusted == IF p.is_vararg THEN adjust_varargs(m, p, n) ELSE Push(m, Nils(p.numparams - n))
      base == IF p.is_vararg THEN m.top ELSE func + 1
      top == base + p.maxstacksize
      tm == TM(m, f, "__call")
  IN CASE f[1] = "c"  -> luaD_poscall(c.m, c.m.top - c.v, c.v)
       [] f[1] = "fn" -> [NewFrame(adjusted, func, base, top, nresults) EXCEPT !.top = top]
       [] OTHER -> IF ~ttisfunction(tm) THEN TypeError(m, Slot(func))   \* tryfuncTM
                   ELSE luaD_precall([Put(m, func, <<tm, f>> \o args) EXCEPT !.top = @ + 1], func, nresults)

RECURSIVE luaV_execute(_, _)
\* A Lua function runs until it returns.
luaD_call(m, func, nresults) ==
  LET n == luaD_precall(m, func, nresults) IN
  IF Len(n.ci) > Len(m.ci) THEN luaV_execute([n EXCEPT !.ci[Len(n.ci)].fresh = TRUE], Len(m.ci)) ELSE n

\* A metamethod is called above the top, and its result taken from there.
luaT_callTM(m, f, args) ==
  LET r == luaD_call(Push(m, <<f>> \o args), m.top, 1) IN
  IF r.status # "run" THEN MV(r, Nil) ELSE MV([r EXCEPT !.top = @ - 1], r.stack[r.top - 1])

binTM(m, a, b, event) == IF TM(m, a, event) # Nil THEN TM(m, a, event) ELSE TM(m, b, event)
\* Without a metamethod the value that is at fault is at o.
luaT_trybinTM(m, a, b, event, o) ==
  LET tm == binTM(m, a, b, event) IN
  IF tm = Nil THEN MV(TypeError(m, o), Nil) ELSE luaT_callTM(m, tm, <<a, b>>)

-----------------------------------------------------------------------------
(* Operations on values *)

Raw(m, t, k) == LET h == m.tabs[t[2]].h IN IF k \in DOMAIN h THEN h[k] ELSE Nil
RawSet(m, t, k, v) ==
  [m EXCEPT !.tabs[t[2]].h = IF v = Nil THEN [x \in DOMAIN @ \ {k} |-> @[x]] ELSE (k :> v) @@ @]

\* luaV_fastget, then luaV_finishget.  The table is at o.
RECURSIVE luaV_gettable(_, _, _, _, _)
luaV_gettable(m, t, k, o, loop) ==
  LET tm == TM(m, t, "__index")
      found == ttistable(t) /\ Raw(m, t, k) # Nil
      bad == loop = MAXTAGLOOP \/ (~ttistable(t) /\ tm = Nil)
  IN CASE found -> MV(m, Raw(m, t, k))
       [] ~found /\ bad -> MV(TypeError(m, o), Nil)
       [] ~found /\ ~bad /\ tm = Nil -> MV(m, Nil)
       [] ~found /\ ~bad /\ ttisfunction(tm) -> luaT_callTM(m, tm, <<t, k>>)
       [] OTHER -> luaV_gettable(m, tm, k, Elsewhere, loop + 1)

\* luaV_fastset, then luaV_finishset.
RECURSIVE luaV_settable(_, _, _, _, _, _)
luaV_settable(m, t, k, v, o, loop) ==
  LET tm == TM(m, t, "__newindex")
      fast == ttistable(t) /\ Raw(m, t, k) # Nil
      bad == loop = MAXTAGLOOP \/ (tm = Nil /\ (~ttistable(t) \/ k = Nil))
  IN CASE fast \/ (~bad /\ tm = Nil) -> RawSet(m, t, k, v)
       [] ~fast /\ bad -> IF ttistable(t) THEN RuntimeError(m) ELSE TypeError(m, o)
       [] ~fast /\ ~bad /\ ttisfunction(tm) -> luaD_call(Push(m, <<tm, t, k, v>>), m.top, 0)
       [] OTHER -> luaV_settable(m, tm, k, v, Elsewhere, loop + 1)

luaV_equalobj(m, a, b) ==
  LET tm == binTM(m, a, b, "__eq")
      r == luaT_callTM(m, tm, <<a, b>>)
  IN IF ~ttistable(a) \/ ~ttistable(b) \/ a = b \/ tm = Nil THEN MV(m, a = b) ELSE MV(r.m, ~l_isfalse(r.v))

luaV_lessthan(m, a, b) ==
  LET r == luaT_trybinTM(m, a, b, "__lt", Elsewhere) IN
  IF ttisinteger(a) /\ ttisinteger(b) THEN MV(m, a[2] < b[2]) ELSE MV(r.m, ~l_isfalse(r.v))

\* Without __le, a <= b is not (b < a).
luaV_lessequal(m, a, b) ==
  LET le == luaT_trybinTM(m, a, b, "__le", Elsewhere)
      lt == luaT_trybinTM(m, b, a, "__lt", Elsewhere)
  IN CASE ttisinteger(a) /\ ttisinteger(b) -> MV(m, a[2] <= b[2])
       [] binTM(m, a, b, "__le") # Nil -> MV(le.m, ~l_isfalse(le.v))
       [] OTHER -> MV(lt.m, l_isfalse(lt.v))

dividesByZero(o, b) == o \in {"//", "%"} /\ b[2] = 0
luaV_arith(m, o, a, b, oa, ob) ==
  CASE ~ttisinteger(a) \/ ~ttisinteger(b) -> luaT_trybinTM(m, a, b, TMS[o], IF ttisinteger(a) THEN ob ELSE oa)
    [] ttisinteger(a) /\ ttisinteger(b) /\ dividesByZero(o, b) -> MV(RuntimeError(m), Nil)
    [] OTHER -> MV(m, <<"int", luaO_arith(o, a[2], b[2])>>)

\* The last total values below the top become one: two at a time, or all that are strings.
cvt2str(v) == v[1] \in {"str", "int"}
tostring(v) == IF v[1] = "int" THEN ToString(v[2]) ELSE v[2]
RECURSIVE luaV_concat(_, _)
luaV_concat(m, total) ==
  LET a == m.stack[m.top - 2]
      b == m.stack[m.top - 1]
      tm == luaT_trybinTM(m, a, b, "__concat", Slot(m.top - IF cvt2str(a) THEN 1 ELSE 2))
      n == CHOOSE k \in 2 .. total : /\ \A i \in 1 .. k : cvt2str(m.stack[m.top - i])
                                     /\ k = total \/ ~cvt2str(m.stack[m.top - k - 1])
      joined == FoldLeft(LAMBDA s, v : s \o tostring(v), "", Slots(m, m.top - n, n))
      r == IF cvt2str(a) /\ cvt2str(b) THEN [m EXCEPT !.stack[m.top - n] = <<"str", joined>>, !.top = @ - (n - 1)]
           ELSE [tm.m EXCEPT !.stack[m.top - 2] = tm.v, !.top = m.top - 1]
      done == IF cvt2str(a) /\ cvt2str(b) THEN n - 1 ELSE 1
  IN IF total = 1 \/ m.status # "run" THEN m ELSE luaV_concat(r, total - done)

\* Of a table without holes.
luaH_getn(h) == CHOOSE n \in 0 .. Cardinality(DOMAIN h) : <<"int", n + 1>> \notin DOMAIN h /\ \A i \in 1 .. n : <<"int", i>> \in DOMAIN h
luaV_objlen(m, v, o) ==
  LET tm == TM(m, v, "__len") IN
  CASE v[1] = "str" -> MV(m, <<"int", Len(v[2])>>)
    [] v[1] # "str" /\ tm # Nil -> luaT_callTM(m, tm, <<v, v>>)
    [] ttistable(v) /\ tm = Nil -> MV(m, <<"int", luaH_getn(m.tabs[v[2]].h)>>)
    [] OTHER -> MV(TypeError(m, o), Nil)

-----------------------------------------------------------------------------
(* luaV_execute, by groups of instructions *)

\* vmfetch: the instruction i, the machine past it, and where it finds its operands.
Fetch(m) ==
  LET cl == m.cls[m.stack[CI(m).func][2]]
      i == cl.p.code[CI(m).pc + 1]
  IN [m |-> [m EXCEPT !.ci[Len(m.ci)].pc = @ + 1, !.fuel = @ - 1], i |-> i, cl |-> cl, base |-> CI(m).base,
      ra |-> CI(m).base + i.a, extra |-> IF CI(m).pc + 2 \in DOMAIN cl.p.code THEN cl.p.code[CI(m).pc + 2] ELSE i]

K(s, x) == s.cl.p.k[x + 1]
R(s, x) == s.m.stack[s.base + x]
At_R(s, x) == IF ISK(x) THEN Elsewhere ELSE Slot(s.base + x)
RK(s, x) == IF ISK(x) THEN K(s, x - BITRK) ELSE R(s, x)
UP(s, x) == UpvalGet(s.m, s.cl.up[x + 1])
SetRA(s, r) == [r.m EXCEPT !.stack[s.ra] = r.v]
Skip(m) == [m EXCEPT !.ci[Len(m.ci)].pc = @ + 1]
ToFrameTop(m) == [m EXCEPT !.top = CI(m).top]

\* dojump: A closes the upvalues from a register on.
dojump(s, m, i, e) ==
  LET c == IF i.a # 0 THEN luaF_close(m, s.base + i.a - 1) ELSE m IN
  [c EXCEPT !.ci[Len(m.ci)].pc = @ + i.b + e]

Load(s) ==
  LET i == s.i IN
  CASE i.op = "MOVE"     -> SetRA(s, MV(s.m, R(s, i.b)))
    [] i.op = "LOADK"    -> SetRA(s, MV(s.m, K(s, i.b)))
    [] i.op = "LOADKX"   -> Skip(SetRA(s, MV(s.m, K(s, s.extra.a))))
    [] i.op = "LOADBOOL" -> LET m == SetRA(s, MV(s.m, Bool(i.b = 1))) IN IF i.c # 0 THEN Skip(m) ELSE m
    [] i.op = "LOADNIL"  -> Put(s.m, s.ra, Nils(i.b + 1))
    [] i.op = "GETUPVAL" -> SetRA(s, MV(s.m, UP(s, i.b)))
    [] i.op = "SETUPVAL" -> UpvalSet(s.m, s.cl.up[i.b + 1], R(s, i.a))

TableAccess(s) ==
  LET i == s.i IN
  CASE i.op = "GETTABUP" -> SetRA(s, luaV_gettable(s.m, UP(s, i.b), RK(s, i.c), Upvalue(i.b), 0))
    [] i.op = "GETTABLE" -> SetRA(s, luaV_gettable(s.m, R(s, i.b), RK(s, i.c), At_R(s, i.b), 0))
    [] i.op = "SETTABUP" -> luaV_settable(s.m, UP(s, i.a), RK(s, i.b), RK(s, i.c), Upvalue(i.a), 0)
    [] i.op = "SETTABLE" -> luaV_settable(s.m, R(s, i.a), RK(s, i.b), RK(s, i.c), At_R(s, i.a), 0)
    [] i.op = "NEWTABLE" ->
         SetRA(s, MV([s.m EXCEPT !.tabs = Append(@, [h |-> <<>>, mt |-> 0])], <<"tab", Len(s.m.tabs) + 1>>))
    [] i.op = "SELF"     -> SetRA(s, luaV_gettable(Put(s.m, s.ra + 1, <<R(s, i.b)>>), R(s, i.b), RK(s, i.c), At_R(s, i.b), 0))

\* The items of a constructor; without a number, up to the top.
SetList(s) ==
  LET i == s.i
      n == IF i.b = 0 THEN s.m.top - s.ra - 1 ELSE i.b
      Item(m, j) == RawSet(m, R(s, i.a), <<"int", (i.c - 1) * LFIELDS_PER_FLUSH + j>>, R(s, i.a + j))
  IN ToFrameTop(FoldLeft(Item, s.m, [j \in 1 .. n |-> j]))

Negated(m, x, o) == IF ttisinteger(x) THEN MV(m, <<"int", -x[2]>>) ELSE luaT_trybinTM(m, x, x, "__unm", o)
Operate(s) ==
  LET i == s.i
      x == R(s, i.b)
      c == luaV_concat([s.m EXCEPT !.top = s.base + i.c + 1], i.c - i.b + 1)
  IN CASE i.op \in Arith    -> SetRA(s, luaV_arith(s.m, i.op, RK(s, i.b), RK(s, i.c), At_R(s, i.b), At_R(s, i.c)))
       [] i.op = "UNM"      -> SetRA(s, Negated(s.m, x, At_R(s, i.b)))
       [] i.op = "NOT"      -> SetRA(s, MV(s.m, Bool(l_isfalse(x))))
       [] i.op = "LEN"      -> SetRA(s, luaV_objlen(s.m, x, At_R(s, i.b)))
       [] i.op = "CONCAT"   -> ToFrameTop([c EXCEPT !.stack[s.ra] = c.stack[s.base + i.b]])

\* A test is followed by its jump.
Test(s) ==
  LET i == s.i
      x == RK(s, i.b)
      y == RK(s, i.c)
      r == CASE i.op = "EQ" -> luaV_equalobj(s.m, x, y)
             [] i.op = "LT" -> luaV_lessthan(s.m, x, y)
             [] i.op = "LE" -> luaV_lessequal(s.m, x, y)
             [] i.op = "TEST" -> MV(s.m, l_isfalse(R(s, i.a)))
             [] i.op = "TESTSET" -> MV(s.m, l_isfalse(R(s, i.b)))
      fails == IF i.op \in {"TEST", "TESTSET"} THEN r.v = (i.c = 1) ELSE r.v # (i.a = 1)
      kept == IF i.op = "TESTSET" THEN SetRA(s, MV(s.m, R(s, i.b))) ELSE r.m
  IN IF fails THEN Skip(r.m) ELSE dojump(s, kept, s.extra, 1)

CallAt(s, nresults) == luaD_precall(IF s.i.b = 0 THEN s.m ELSE [s.m EXCEPT !.top = s.ra + s.i.b], s.ra, nresults)
Called(s) ==
  LET c == CallAt(s, s.i.c - 1) IN IF Len(c.ci) = Len(s.m.ci) /\ s.i.c > 0 THEN ToFrameTop(c) ELSE c

\* The called frame moves down over the calling one.
TailCalled(s) ==
  LET n == CallAt(s, LUA_MULTRET)
      frame == CI(s.m)
      new == CI(n)
      moved == new.base + n.cls[n.stack[new.func][2]].p.numparams - new.func
      closed == IF s.cl.p.p # <<>> THEN luaF_close(n, s.base) ELSE n
      d == frame.func - new.func
  IN IF Len(n.ci) = Len(s.m.ci) THEN n
     ELSE [Put(closed, frame.func, Slots(closed, new.func, moved)) EXCEPT
             !.ci = Append(Front(Front(@)), [frame EXCEPT !.base = new.base + d, !.top = n.top + d, !.pc = 0]),
             !.top = n.top + d]

Returned(s) ==
  LET frame == CI(s.m)
      closed == IF s.cl.p.p # <<>> THEN luaF_close(s.m, s.base) ELSE s.m
      r == luaD_poscall(closed, s.ra, IF s.i.b # 0 THEN s.i.b - 1 ELSE s.m.top - s.ra)
  IN IF r.ci = <<>> THEN [r EXCEPT !.status = "done"]
     ELSE IF ~frame.fresh /\ frame.nresults # LUA_MULTRET THEN ToFrameTop(r) ELSE r

For(s) ==
  LET i == s.i
      m == s.m
      step == R(s, i.a + 2)
      idx == R(s, i.a)[2] + step[2]
      limit == R(s, i.a + 1)[2]
      c == [Put(m, s.ra + 3, Slots(m, s.ra, 3)) EXCEPT !.top = s.ra + 6]
      Back(x) == [x EXCEPT !.ci[Len(m.ci)].pc = @ + i.b]
  IN CASE i.op = "FORPREP" ->
            IF \E j \in 0 .. 2 : ~ttisinteger(R(s, i.a + j)) THEN RuntimeError(m)
            ELSE Back([m EXCEPT !.stack[s.ra] = <<"int", @[2] - step[2]>>])
       [] i.op = "FORLOOP" ->
            IF (0 < step[2] /\ idx <= limit) \/ (0 >= step[2] /\ limit <= idx)
              THEN Back([m EXCEPT !.stack[s.ra] = <<"int", idx>>, !.stack[s.ra + 3] = <<"int", idx>>]) ELSE m
       [] i.op = "TFORCALL" -> ToFrameTop(luaD_call(c, s.ra + 3, i.c))
       [] i.op = "TFORLOOP" -> IF R(s, i.a + 1) = Nil THEN m ELSE Back([m EXCEPT !.stack[s.ra] = R(s, i.a + 1)])

MakeClosure(s) ==
  LET p == s.cl.p.p[s.i.b + 1]
      path == Append(s.cl.path, s.i.b)
  IN IF path \in DOMAIN s.m.cache /\ cacheFits(s.m, p, s.cl.up, s.base, s.m.cache[path])
       THEN SetRA(s, MV(s.m, <<"fn", s.m.cache[path]>>))
     ELSE SetRA(s, pushclosure(s.m, p, path, s.cl.up, s.base))

Varargs(s) ==
  LET extra == s.base - CI(s.m).func - s.cl.p.numparams - 1
      n == IF extra < 0 THEN 0 ELSE extra
      b == IF s.i.b = 0 THEN n ELSE s.i.b - 1
      vs == [j \in 1 .. b |-> IF j <= n THEN s.m.stack[s.base - n + j - 1] ELSE Nil]
  IN IF s.i.b = 0 THEN [Put(s.m, s.ra, vs) EXCEPT !.top = s.ra + n] ELSE Put(s.m, s.ra, vs)

\* One instruction of the running function.
Instruction(m) ==
  LET s == Fetch(m)
      op == s.i.op
  IN CASE op \in {"MOVE", "LOADK", "LOADKX", "LOADBOOL", "LOADNIL", "GETUPVAL", "SETUPVAL"} -> Load(s)
       [] op \in {"GETTABUP", "GETTABLE", "SETTABUP", "SETTABLE", "NEWTABLE", "SELF"} -> TableAccess(s)
       [] op \in Arith \cup {"UNM", "NOT", "LEN", "CONCAT"} -> Operate(s)
       [] op \in {"EQ", "LT", "LE", "TEST", "TESTSET"} -> Test(s)
       [] op \in {"FORPREP", "FORLOOP", "TFORCALL", "TFORLOOP"} -> For(s)
       [] op = "JMP"      -> dojump(s, s.m, s.i, 0)
       [] op = "CALL"     -> Called(s)
       [] op = "TAILCALL" -> TailCalled(s)
       [] op = "RETURN"   -> Returned(s)
       [] op = "SETLIST"  -> SetList(s)
       [] op = "CLOSURE"  -> MakeClosure(s)
       [] op = "VARARG"   -> Varargs(s)

\* Until no more than depth frames are left, at most 2^k instructions (in halves, so that TLC
\* does not nest them).
RECURSIVE Execute(_, _, _)
Execute(m, depth, k) ==
  IF m.status # "run" \/ Len(m.ci) <= depth THEN m
  ELSE IF m.fuel = 0 THEN [m EXCEPT !.status = "timeout"]
  ELSE IF k = 0 THEN luaAssert(Instruction(m), CI(m).base <= m.top)
  ELSE Execute(Execute(m, depth, k - 1), depth, k - 1)
luaV_execute(m, depth) == Execute(m, depth, 7)

\* A loaded program, called without arguments: _ENV is the table of globals.
Run(proto, fuel) ==
  LET globals == [h |-> (<<"str", "p">> :> <<"c", "p">>) @@ (<<"str", "setmetatable">> :> <<"c", "setmetatable">>), mt |-> 0]
      m == [stack |-> [x \in 0 .. STACKSIZE - 1 |-> IF x = 0 THEN <<"fn", 1>> ELSE <<"junk", x>>], top |-> 1, ci |-> <<>>,
            uvs |-> <<[open |-> FALSE, at |-> 0, v |-> <<"tab", 1>>]>>, tabs |-> <<globals>>,
            cls |-> <<[p |-> proto, path |-> <<>>, up |-> <<1>>]>>, cache |-> <<>>, trace |-> <<>>, calls |-> <<>>, blame |-> <<>>,
            fuel |-> fuel, status |-> "run", ok |-> TRUE]
      r == luaV_execute(luaD_precall(m, 0, LUA_MULTRET), 0)
  IN r
=============================================================================
