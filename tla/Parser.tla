------------------------------- MODULE Parser -------------------------------
(***************************************************************************)
(* The parser (lparser.c): one pass over the program that resolves names,  *)
(* scopes, labels and jumps while it drives the code generator.  It reads  *)
(* a syntax tree instead of tokens:                                        *)
(*   expressions: <<"nil">>, <<"true">>, <<"false">>, <<"int", n>>,        *)
(*     <<"str", s>>, <<"...">>, <<"name", x>>, <<"index", e, k>>,          *)
(*     <<"call", f, args>>, <<"self", e, name, args>>, <<"paren", e>>,     *)
(*     <<"func", params, is_vararg, block>>, <<"un", op, e>>,              *)
(*     <<"bin", op, e1, e2>>, <<"table", <<item or rec, ...>>>> where a    *)
(*     field is <<"item", e>> or <<"rec", key, e>>;                        *)
(*   statements, in sequences: <<"local", names, exps>>,                   *)
(*     <<"assign", vars, exps>>, <<"callstat", e>>, <<"do", block>>,       *)
(*     <<"while", e, block>>, <<"repeat", block, e>>, <<"break">>,         *)
(*     <<"if", <<<<e, block>>, ...>>, <<else block, if any>>>>,            *)
(*     <<"fornum", x, exps, block>>, <<"forin", names, exps, block>>,      *)
(*     <<"localfunc", x, e>>, <<"function", var, e>>, <<"return", exps>>,  *)
(*     <<"goto", l>>, <<"label", l>>.                                      *)
(* Lines are left out.                                                     *)
(***************************************************************************)
EXTENDS Code

MAXVARS == 200
MAXUPVAL == 255

-----------------------------------------------------------------------------
(* Variables and scopes *)

\* An active variable is an index into the debug information, which keeps the code that each variable
\* is in scope of: from startpc up to endpc.
new_localvar(fs, name) ==
  Error([fs EXCEPT !.locvars = Append(@, [varname |-> name, startpc |-> 0, endpc |-> 0]),
                   !.act = Append(@, Len(fs.locvars) + 1)], Len(fs.act) + 1 > MAXVARS)
new_localvars(fs, names) == FoldLeft(new_localvar, fs, names)
Among(fs, from, to) == {fs.act[i] : i \in from + 1 .. to}
adjustlocalvars(fs, nvars) ==
  LET new == Among(fs, fs.nactvar, fs.nactvar + nvars) IN
  [fs EXCEPT !.nactvar = @ + nvars, !.locvars = [i \in DOMAIN @ |-> IF i \in new THEN [@[i] EXCEPT !.startpc = PC(fs)] ELSE @[i]]]
removevars(fs, tolevel) ==
  LET old == Among(fs, tolevel, fs.nactvar) IN
  [fs EXCEPT !.act = SubSeq(@, 1, Len(@) - (fs.nactvar - tolevel)), !.nactvar = tolevel,
             !.locvars = [i \in DOMAIN @ |-> IF i \in old THEN [@[i] EXCEPT !.endpc = PC(fs)] ELSE @[i]]]

searchvar(fs, n) == SelectLastInSeq(SubSeq(fs.act, 1, fs.nactvar), LAMBDA x : fs.locvars[x].varname = n) - 1
searchupvalue(fs, n) == SelectInSeq(fs.up, LAMBDA u : u.name = n) - 1

newupvalue(fs, n, v) ==
  Error([fs EXCEPT !.up = Append(@, [name |-> n, instack |-> v.k = "VLOCAL", idx |-> v.info])],
        Len(fs.up) + 1 > MAXUPVAL)

\* The block of the variable must close it.
blockOf(fs, level) == SelectLastInSeq(fs.bl, LAMBDA b : b.nactvar <= level)
markupval(fs, level) == [fs EXCEPT !.bl[blockOf(fs, level)].upval = TRUE]

\* Every function between the variable and its use gets an upvalue.
RECURSIVE singlevaraux(_, _, _)
singlevaraux(fs, n, base) ==
  LET v == searchvar(fs, n)
      idx == searchupvalue(fs, n)
      r == singlevaraux(fs.prev, n, FALSE)
  IN CASE v >= 0 -> FE(IF base THEN fs ELSE markupval(fs, v), init_exp("VLOCAL", v))
       [] v < 0 /\ idx >= 0 -> FE(fs, init_exp("VUPVAL", idx))
       [] v < 0 /\ idx < 0 /\ fs.level = 0 -> FE(fs, init_exp("VVOID", 0))
       [] OTHER -> IF r.e.k = "VVOID" THEN FE(fs, r.e)
                   ELSE FE(newupvalue([fs EXCEPT !.prev = r.fs], n, r.e), init_exp("VUPVAL", Len(fs.up)))

codestring(fs, s) == LET c == addk(fs, <<"str", s>>) IN FE(c.fs, init_exp("VK", c.l))

\* A global is a field of the upvalue _ENV.
singlevar(fs, n) ==
  LET r == singlevaraux(fs, n, TRUE)
      env == singlevaraux(r.fs, "_ENV", TRUE)
      key == codestring(Check(env.fs, env.e.k # "VVOID"), n)
  IN IF r.e.k # "VVOID" THEN r ELSE luaK_indexed(key.fs, env.e, key.e)

adjust_assign(fs, nvars, nexps, e) ==
  LET extra == nvars - nexps
      wanted == IF extra + 1 < 0 THEN 0 ELSE extra + 1
      returns == luaK_setreturns(fs, e, wanted)
      closed == IF e.k = "VVOID" THEN fs ELSE luaK_exp2nextreg(fs, e).fs
      g == CASE hasmultret(e) -> IF wanted > 1 THEN luaK_reserveregs(returns, wanted - 1) ELSE returns
             [] ~hasmultret(e) /\ extra > 0 -> luaK_nil(luaK_reserveregs(closed, extra), closed.freereg, extra)
             [] OTHER -> closed
  IN IF nexps > nvars THEN [g EXCEPT !.freereg = @ - (nexps - nvars)] ELSE g

-----------------------------------------------------------------------------
(* Labels and gotos: entries of fs.labels and fs.gotos *)

newlabelentry(fs, name, pc) == [name |-> name, nactvar |-> fs.nactvar, pc |-> pc]

closegoto(fs, g, label) ==
  LET gt == fs.gotos[g] IN
  [luaK_patchlist(Error(fs, gt.nactvar < label.nactvar), gt.pc, label.pc) EXCEPT !.gotos = RemoveAt(@, g)]

\* The goto jumps back, out of the scopes entered since the label.
findlabel(fs, g) ==
  LET gt == fs.gotos[g]
      i == SelectInSubSeq(fs.labels, Last(fs.bl).firstlabel + 1, Len(fs.labels), LAMBDA l : l.name = gt.name)
      lb == fs.labels[i]
  IN IF i = 0 THEN fs
     ELSE closegoto(IF gt.nactvar > lb.nactvar THEN luaK_patchclose(fs, gt.pc, lb.nactvar) ELSE fs, g, lb)

RECURSIVE FindGotos(_, _, _)
FindGotos(fs, lb, i) ==
  CASE i > Len(fs.gotos) -> fs
    [] i <= Len(fs.gotos) /\ fs.gotos[i].name = lb.name -> FindGotos(closegoto(fs, i, lb), lb, i)
    [] OTHER -> FindGotos(fs, lb, i + 1)
findgotos(fs, lb) == FindGotos(fs, lb, Last(fs.bl).firstgoto + 1)

\* Pending gotos leave the block, and its variables are closed on the way.
RECURSIVE MoveGotosOut(_, _, _)
MoveGotosOut(fs, bl, i) ==
  LET gt == fs.gotos[i]
      leaves == gt.nactvar > bl.nactvar
      closed == IF leaves /\ bl.upval THEN luaK_patchclose(fs, gt.pc, bl.nactvar) ELSE fs
      g == findlabel(IF leaves THEN [closed EXCEPT !.gotos[i].nactvar = bl.nactvar] ELSE fs, i)
  IN IF i > Len(fs.gotos) THEN fs
     ELSE MoveGotosOut(g, bl, IF Len(g.gotos) < Len(fs.gotos) THEN i ELSE i + 1)
movegotosout(fs, bl) == MoveGotosOut(fs, bl, bl.firstgoto + 1)

gotostat(fs, name, pc) ==
  findlabel([fs EXCEPT !.gotos = Append(@, newlabelentry(fs, name, pc))], Len(fs.gotos) + 1)

-----------------------------------------------------------------------------
(* Blocks and functions *)

enterblock(fs, isloop) ==
  Check([fs EXCEPT !.bl = Append(@, [isloop |-> isloop, nactvar |-> fs.nactvar, upval |-> FALSE,
                                      firstlabel |-> Len(fs.labels), firstgoto |-> Len(fs.gotos)])],
         fs.freereg = fs.nactvar)

breaklabel(fs) ==
  LET lb == newlabelentry(fs, "break", PC(fs)) IN findgotos([fs EXCEPT !.labels = Append(@, lb)], lb)

leaveblock(fs) ==
  LET bl == Last(fs.bl)
      inner == Len(fs.bl) > 1
      j == luaK_jump(fs)
      closed == IF inner /\ bl.upval THEN luaK_patchtohere(luaK_patchclose(j.fs, j.l, bl.nactvar), j.l) ELSE fs
      broken == IF bl.isloop THEN breaklabel(closed) ELSE closed
      left == removevars([broken EXCEPT !.bl = Front(@), !.labels = SubSeq(@, 1, bl.firstlabel)], bl.nactvar)
      freed == [left EXCEPT !.freereg = left.nactvar]
  IN IF inner THEN movegotosout(freed, bl) ELSE Error(freed, bl.firstgoto < Len(freed.gotos))

open_func(prev, level) ==
  enterblock([code |-> <<>>, lasttarget |-> 0, jpc |-> NO_JUMP, freereg |-> 0, k |-> <<>>, p |-> <<>>,
              up |-> <<>>, act |-> <<>>, locvars |-> <<>>, nactvar |-> 0, bl |-> <<>>, labels |-> <<>>, gotos |-> <<>>,
              numparams |-> 0, is_vararg |-> FALSE, maxstacksize |-> 2, prev |-> prev, level |-> level,
              err |-> FALSE, ok |-> TRUE], FALSE)

close_func(fs) == leaveblock(luaK_ret(fs, 0, 0))
Proto(fs) == [code |-> fs.code, k |-> fs.k, p |-> fs.p, up |-> fs.up, locvars |-> fs.locvars, numparams |-> fs.numparams,
              is_vararg |-> fs.is_vararg, maxstacksize |-> fs.maxstacksize]

\* addprototype and codeclosure: the closure is made in the last register.
codeclosure(fs, child) ==
  LET g == Check([fs EXCEPT !.p = Append(@, Proto(child))], child.ok)
      h == luaK_code(g, "CLOSURE", 0, Len(fs.p), 0)
  IN luaK_exp2nextreg(h, init_exp("VRELOCABLE", PC(h) - 1))

parlist(fs, names, is_vararg) ==
  LET g == adjustlocalvars(new_localvars(fs, names), Len(names)) IN
  luaK_reserveregs([g EXCEPT !.is_vararg = is_vararg, !.numparams = g.nactvar], g.nactvar)

-----------------------------------------------------------------------------
(* Expressions *)

RECURSIVE expr(_, _), explist(_, _), statlist(_, _, _)

body(fs, e) ==
  LET child == close_func(statlist(parlist(open_func(fs, fs.level + 1), e[2], e[3]), e[4], FALSE))
  IN IF child.err THEN FE(Error(fs, TRUE), init_exp("VVOID", 0)) ELSE codeclosure(child.prev, child)

\* A field of a constructor, and what is left to store before it.
closelistfield(cc) ==
  LET r == luaK_exp2nextreg(cc.fs, cc.v) IN
  IF cc.v.k = "VVOID" THEN cc
  ELSE IF cc.tostore < LFIELDS_PER_FLUSH THEN [cc EXCEPT !.fs = r.fs, !.v = init_exp("VVOID", 0)]
  ELSE [cc EXCEPT !.fs = luaK_setlist(r.fs, cc.t, cc.na, cc.tostore), !.v = init_exp("VVOID", 0), !.tostore = 0]

recfield(cc, f) ==
  LET k == expr(cc.fs, f[2])
      key == luaK_exp2val(k.fs, k.e)
      rkkey == luaK_exp2RK(key.fs, key.e)
      v == expr(rkkey.fs, f[3])
      val == luaK_exp2RK(v.fs, v.e)
  IN [cc EXCEPT !.fs = [luaK_code(val.fs, "SETTABLE", cc.t, rkkey.rk, val.rk) EXCEPT !.freereg = cc.fs.freereg],
                !.nh = @ + 1]
listfield(cc, f) ==
  LET r == expr(cc.fs, f[2]) IN [cc EXCEPT !.fs = r.fs, !.v = r.e, !.na = @ + 1, !.tostore = @ + 1]
field(cc, f) == LET c == closelistfield(cc) IN IF f[1] = "item" THEN listfield(c, f) ELSE recfield(c, f)

lastlistfield(cc) ==
  CASE cc.tostore = 0 -> cc
    [] cc.tostore > 0 /\ hasmultret(cc.v) ->
         [cc EXCEPT !.fs = luaK_setlist(luaK_setreturns(cc.fs, cc.v, LUA_MULTRET), cc.t, cc.na, LUA_MULTRET),
                    !.na = @ - 1]
    [] OTHER ->
         [cc EXCEPT !.fs = luaK_setlist(IF cc.v.k = "VVOID" THEN cc.fs ELSE luaK_exp2nextreg(cc.fs, cc.v).fs,
                                        cc.t, cc.na, cc.tostore)]

constructor(fs, fields) ==
  LET g == luaK_code(fs, "NEWTABLE", 0, 0, 0)
      pc == PC(g) - 1
      t == luaK_exp2nextreg(g, init_exp("VRELOCABLE", pc))
      cc == lastlistfield(FoldLeft(field, [fs |-> t.fs, t |-> t.e.info, v |-> init_exp("VVOID", 0),
                                           na |-> 0, nh |-> 0, tostore |-> 0], fields))
  IN FE([cc.fs EXCEPT !.code[pc + 1] = [@ EXCEPT !.b = cc.na, !.c = cc.nh]], t.e)

\* All but the last expression are put in registers.
explist(fs, es) ==
  LET r == expr(fs, Head(es)) IN
  IF Len(es) = 1 THEN r ELSE explist(luaK_exp2nextreg(r.fs, r.e).fs, Tail(es))

funcargs(fs, f, es) ==
  LET a == IF es = <<>> THEN FE(fs, init_exp("VVOID", 0)) ELSE explist(fs, es)
      open == hasmultret(a.e)
      g == CASE open -> luaK_setreturns(a.fs, a.e, LUA_MULTRET)
             [] ~open /\ a.e.k = "VVOID" -> a.fs
             [] OTHER -> luaK_exp2nextreg(a.fs, a.e).fs
      base == f.info
      h == luaK_code(Check(g, f.k = "VNONRELOC"), "CALL", base, IF open THEN 0 ELSE g.freereg - base, 2)
  IN FE([h EXCEPT !.freereg = base + 1], init_exp("VCALL", PC(h) - 1))

\* primaryexp and suffixedexp.
suffixedexp(fs, e) ==
  LET r == expr(fs, e[2]) IN
  CASE e[1] = "name"  -> singlevar(fs, e[2])
    [] e[1] = "paren" -> luaK_dischargevars(r.fs, r.e)
    [] e[1] = "index" -> LET t == luaK_exp2anyregup(r.fs, r.e)
                             x == expr(t.fs, e[3])
                             key == luaK_exp2val(x.fs, x.e)
                         IN luaK_indexed(key.fs, t.e, key.e)
    [] e[1] = "call"  -> LET f == luaK_exp2nextreg(r.fs, r.e) IN funcargs(f.fs, f.e, e[3])
    [] e[1] = "self"  -> LET key == codestring(r.fs, e[3])
                             f == luaK_self(key.fs, r.e, key.e)
                         IN funcargs(f.fs, f.e, e[4])

simpleexp(fs, e) ==
  CASE e[1] = "int"   -> FE(fs, init_exp("VKINT", e[2]))
    [] e[1] = "str"   -> codestring(fs, e[2])
    [] e[1] = "nil"   -> FE(fs, init_exp("VNIL", 0))
    [] e[1] = "true"  -> FE(fs, init_exp("VTRUE", 0))
    [] e[1] = "false" -> FE(fs, init_exp("VFALSE", 0))
    [] e[1] = "..."   -> LET g == luaK_code(Error(fs, ~fs.is_vararg), "VARARG", 0, 1, 0)
                         IN FE(g, init_exp("VVARARG", PC(g) - 1))
    [] e[1] = "table" -> constructor(fs, e[2])
    [] e[1] = "func"  -> body(fs, e)
    [] OTHER          -> suffixedexp(fs, e)

\* The first operand is prepared before the second is read.
subexpr(fs, e) ==
  CASE e[1] = "un"  -> LET r == expr(fs, e[3]) IN luaK_prefix(r.fs, e[2], r.e)
    [] e[1] = "bin" -> LET l == expr(fs, e[3])
                           v == luaK_infix(l.fs, e[2], l.e)
                           r == expr(v.fs, e[4])
                       IN luaK_posfix(r.fs, e[2], v.e, r.e)
    [] OTHER        -> simpleexp(fs, e)

\* Nothing follows an error.
expr(fs, e) == IF fs.err THEN FE(fs, init_exp("VVOID", 0)) ELSE subexpr(fs, e)

-----------------------------------------------------------------------------
(* Statements *)

block(fs, ss) == leaveblock(statlist(enterblock(fs, FALSE), ss, FALSE))

\* An earlier target of the assignment may use the variable: it gets a copy.
conflictTable(u, v) == u.k = "VINDEXED" /\ u.ind.vt = v.k /\ u.ind.t = v.info
conflictIndex(u, v) == u.k = "VINDEXED" /\ v.k = "VLOCAL" /\ u.ind.idx = v.info
check_conflict(fs, lh, v) ==
  LET extra == fs.freereg
      Copy(u) == [u EXCEPT !.ind.t = IF conflictTable(u, v) THEN extra ELSE @,
                           !.ind.vt = IF conflictTable(u, v) THEN "VLOCAL" ELSE @,
                           !.ind.idx = IF conflictIndex(u, v) THEN extra ELSE @]
      conflict == \E i \in DOMAIN lh : conflictTable(lh[i], v) \/ conflictIndex(lh[i], v)
  IN [lh |-> [i \in DOMAIN lh |-> Copy(lh[i])],
      fs |-> IF ~conflict THEN fs
             ELSE luaK_reserveregs(luaK_code(fs, IF v.k = "VLOCAL" THEN "MOVE" ELSE "GETUPVAL", extra, v.info, 0), 1)]

\* The targets from left to right, the values, then the stores from right to left.
assignment(fs, vars, es) ==
  LET Target(a, var) ==
        LET v == expr(a.fs, var)
            c == check_conflict(v.fs, a.lh, v.e)
        IN IF v.e.k = "VINDEXED" THEN [fs |-> v.fs, lh |-> Append(a.lh, v.e)]
           ELSE [fs |-> c.fs, lh |-> Append(c.lh, v.e)]
      t == FoldLeft(Target, [fs |-> fs, lh |-> <<>>], vars)
      n == Len(vars)
      x == explist(t.fs, es)
      one == luaK_setoneret(x.fs, x.e)
      Default(g, v) == luaK_storevar(g, v, init_exp("VNONRELOC", g.freereg - 1))
  IN IF Len(es) = n
       THEN FoldLeft(Default, luaK_storevar(one.fs, Last(t.lh), one.e), Reverse(Front(t.lh)))
     ELSE FoldLeft(Default, adjust_assign(x.fs, n, Len(es), x.e), Reverse(t.lh))

\* The list of jumps taken when the condition is false.
cond(fs, e) ==
  LET r == expr(fs, e)
      g == luaK_goiftrue(r.fs, IF r.e.k = "VNIL" THEN [r.e EXCEPT !.k = "VFALSE"] ELSE r.e)
  IN FL(g.fs, g.e.f)

\* A run of labels.  At the end of a block they are outside its variables; an until
\* does not end the block.
RECURSIVE labelstat(_, _, _)
labelstat(fs, ss, until) ==
  LET name == Head(ss)[2]
      repeated == \E i \in Last(fs.bl).firstlabel + 1 .. Len(fs.labels) : fs.labels[i].name = name
      g == luaK_getlabel(Error(fs, repeated))
      l == Len(fs.labels) + 1
      registered == [g EXCEPT !.labels = Append(@, newlabelentry(g, name, PC(g)))]
      skipped == IF Tail(ss) # <<>> /\ ss[2][1] = "label" THEN labelstat(registered, Tail(ss), until) ELSE registered
      last == ~until /\ \A i \in DOMAIN ss : ss[i][1] = "label"
      h == IF last THEN [skipped EXCEPT !.labels[l].nactvar = Last(fs.bl).nactvar] ELSE skipped
  IN findgotos(h, h.labels[l])

whilestat(fs, e, ss) ==
  LET g == luaK_getlabel(fs)
      exit == cond(g, e)
      b == luaK_jump(block(enterblock(exit.fs, TRUE), ss))
  IN luaK_patchtohere(leaveblock(luaK_patchlist(b.fs, b.l, PC(g))), exit.l)

\* The condition is inside the scope of the body's variables.
repeatstat(fs, ss, e) ==
  LET g == luaK_getlabel(fs)
      exit == cond(statlist(enterblock(enterblock(g, TRUE), FALSE), ss, TRUE), e)
      scope == Last(exit.fs.bl)
      h == IF scope.upval THEN luaK_patchclose(exit.fs, exit.l, scope.nactvar) ELSE exit.fs
  IN leaveblock(luaK_patchlist(leaveblock(h), exit.l, PC(g)))

exp1(fs, e) == LET r == expr(fs, e) IN luaK_exp2nextreg(r.fs, r.e).fs

forbody(fs, base, nvars, isnum, ss) ==
  LET control == adjustlocalvars(fs, 3)
      numprep == luaK_code(control, "FORPREP", base, NO_JUMP, 0)
      prep == IF isnum THEN FL(numprep, PC(numprep) - 1) ELSE luaK_jump(control)
      scope == luaK_reserveregs(adjustlocalvars(enterblock(prep.fs, FALSE), nvars), nvars)
      done == luaK_patchtohere(leaveblock(block(scope, ss)), prep.l)
      g == IF isnum THEN luaK_code(done, "FORLOOP", base, NO_JUMP, 0)
           ELSE luaK_code(luaK_code(done, "TFORCALL", base, 0, nvars), "TFORLOOP", base + 2, NO_JUMP, 0)
  IN luaK_patchlist(g, PC(g) - 1, prep.l + 1)

\* The step is 1 unless it is given.
fornum(fs, x, es, ss) ==
  LET g == FoldLeft(exp1, new_localvars(fs, <<"(for index)", "(for limit)", "(for step)", x>>), es)
      one == addk(g, <<"int", 1>>)
      h == IF Len(es) = 3 THEN g ELSE luaK_reserveregs(luaK_codek(one.fs, one.fs.freereg, one.l), 1)
  IN forbody(h, fs.freereg, 1, TRUE, ss)

forlist(fs, names, es, ss) ==
  LET x == explist(new_localvars(fs, <<"(for generator)", "(for state)", "(for control)">> \o names), es)
      g == luaK_checkstack(adjust_assign(x.fs, 3, Len(es), x.e), 3)
  IN forbody(g, fs.freereg, Len(names), FALSE, ss)

forstat(fs, s) ==
  LET g == enterblock(fs, TRUE) IN
  leaveblock(IF s[1] = "fornum" THEN fornum(g, s[2], s[3], s[4]) ELSE forlist(g, s[2], s[3], s[4]))

\* A block that begins with a goto or a break takes the jumps of its condition.
test_then_block(fs, clause, escapelist, more) ==
  LET r == expr(fs, clause[1])
      ss == clause[2]
      jumps == ss # <<>> /\ ss[1][1] \in {"goto", "break"}
      c == IF jumps THEN luaK_goiffalse(r.fs, r.e) ELSE luaK_goiftrue(r.fs, r.e)
      in == enterblock(c.fs, FALSE)
      gone == gotostat(in, IF ss[1][1] = "goto" THEN ss[1][2] ELSE "break", c.e.t)
      jf == IF jumps THEN luaK_jump(gone) ELSE FL(in, c.e.f)
      then == leaveblock(statlist(jf.fs, IF jumps THEN Tail(ss) ELSE ss, FALSE))
      out == luaK_jump(then)
      escape == IF more THEN luaK_concat(out.fs, escapelist, out.l) ELSE FL(then, escapelist)
  IN IF jumps /\ Len(ss) = 1 THEN FL(leaveblock(gone), escapelist)
     ELSE FL(luaK_patchtohere(escape.fs, jf.l), escape.l)

ifstat(fs, clauses, else) ==
  LET Then(a, i) == test_then_block(a.fs, clauses[i], a.l, i < Len(clauses) \/ else # <<>>)
      a == FoldLeft(Then, FL(fs, NO_JUMP), [i \in DOMAIN clauses |-> i])
  IN luaK_patchtohere(IF else = <<>> THEN a.fs ELSE block(a.fs, else[1]), a.l)

\* For debug information the variable begins where its function is there.
localfunc(fs, x, e) ==
  LET g == body(adjustlocalvars(new_localvar(fs, x), 1), e).fs IN
  IF g.err THEN g ELSE [g EXCEPT !.locvars[g.act[g.nactvar]].startpc = PC(g)]

localstat(fs, names, es) ==
  LET g == new_localvars(fs, names)
      x == IF es = <<>> THEN FE(g, init_exp("VVOID", 0)) ELSE explist(g, es)
  IN adjustlocalvars(adjust_assign(x.fs, Len(names), Len(es), x.e), Len(names))

funcstat(fs, var, e) ==
  LET v == expr(fs, var)
      b == body(v.fs, e)
  IN luaK_storevar(b.fs, v.e, b.e)

exprstat(fs, e) == LET r == expr(fs, e) IN [r.fs EXCEPT !.code[r.e.info + 1].c = 1]

istailcall(e, nret) == e.k = "VCALL" /\ nret = 1
retstat(fs, es) ==
  LET x == explist(fs, es)
      n == Len(es)
      open == luaK_setreturns(x.fs, x.e, LUA_MULTRET)
      tail == Check([open EXCEPT !.code[x.e.info + 1].op = "TAILCALL"], At(open, x.e.info).a = fs.nactvar)
      one == luaK_exp2anyreg(x.fs, x.e)
      all == luaK_exp2nextreg(x.fs, x.e).fs
  IN CASE es = <<>> -> luaK_ret(fs, 0, 0)
       [] es # <<>> /\ hasmultret(x.e) -> luaK_ret(IF istailcall(x.e, n) THEN tail ELSE open, fs.nactvar, LUA_MULTRET)
       [] es # <<>> /\ ~hasmultret(x.e) /\ n = 1 -> luaK_ret(one.fs, one.e.info, 1)
       [] OTHER -> luaK_ret(Check(all, n = all.freereg - fs.nactvar), fs.nactvar, n)

statement(fs, s) ==
  LET j == luaK_jump(fs)
      g == CASE s[1] = "if"        -> ifstat(fs, s[2], s[3])
             [] s[1] = "while"     -> whilestat(fs, s[2], s[3])
             [] s[1] = "do"        -> block(fs, s[2])
             [] s[1] \in {"fornum", "forin"} -> forstat(fs, s)
             [] s[1] = "repeat"    -> repeatstat(fs, s[2], s[3])
             [] s[1] = "function"  -> funcstat(fs, s[2], s[3])
             [] s[1] = "localfunc" -> localfunc(fs, s[2], s[3])
             [] s[1] = "local"     -> localstat(fs, s[2], s[3])
             [] s[1] = "return"    -> retstat(fs, s[2])
             [] s[1] = "break"     -> gotostat(j.fs, "break", j.l)
             [] s[1] = "goto"      -> gotostat(j.fs, s[2], j.l)
             [] s[1] = "callstat"  -> exprstat(fs, s[2])
             [] s[1] = "assign"    -> assignment(fs, s[2], s[3])
  IN [Check(g, g.maxstacksize >= g.freereg /\ g.freereg >= g.nactvar) EXCEPT !.freereg = g.nactvar]

statlist(fs, ss, until) ==
  LET n == SelectInSeq(ss, LAMBDA s : s[1] # "label")
      after == IF n = 0 THEN <<>> ELSE SubSeq(ss, n, Len(ss))
  IN CASE fs.err \/ ss = <<>> -> fs
       [] ~fs.err /\ ss # <<>> /\ Head(ss)[1] = "label" -> statlist(labelstat(fs, ss, until), after, until)
       [] OTHER -> statlist(statement(fs, Head(ss)), Tail(ss), until)

\* mainfunc: a vararg function whose only upvalue is _ENV.
luaY_parser(ss) ==
  LET main == [open_func(<<>>, 0) EXCEPT !.is_vararg = TRUE]
      fs == close_func(statlist(newupvalue(main, "_ENV", init_exp("VLOCAL", 0)), ss, FALSE))
  IN [proto |-> Proto(fs), err |-> fs.err,
      ok |-> fs.ok /\ (~fs.err => Len(fs.up) = 1 /\ fs.act = <<>> /\ fs.labels = <<>> /\ fs.gotos = <<>>)]
=============================================================================
