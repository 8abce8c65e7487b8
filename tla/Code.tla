-------------------------------- MODULE Code --------------------------------
(***************************************************************************)
(* The code generator (lcode.c): expressions that are not yet anywhere,    *)
(* registers handed out like a stack, and jumps whose targets are not yet  *)
(* known, kept in lists that run through the instructions themselves.      *)
(* Numbers are integers; line information is left out.                     *)
(***************************************************************************)
EXTENDS Integers, Sequences, SequencesExt, FiniteSets

CONSTANTS
  MAXINDEXRK,         \* the last constant that fits in an operand (255 in the code)
  MAXARG_Bx,          \* the last constant that LOADK reaches (2^18 - 1)
  LFIELDS_PER_FLUSH   \* list items stored at once (50)

ASSUME CodeAssumption == MAXINDEXRK \in Nat /\ MAXARG_Bx \in Nat /\ LFIELDS_PER_FLUSH \in Nat \ {0}

NO_JUMP == -1
NO_REG == 255
MAXREGS == 255
LUA_MULTRET == -1
BITRK == 256  \* a constant as an operand (llimits.h: above every register)
ISK(x) == x >= BITRK
TestMode == {"EQ", "LT", "LE", "TEST", "TESTSET"}

\* A FuncState has the fields code, lasttarget, jpc, freereg, k, p, up, act, locvars, nactvar,
\* bl, labels, gotos, numparams, is_vararg, maxstacksize, prev, err (an error was raised) and
\* ok (no assertion has failed).  An instruction is [op, a, b, c]; b is also Bx and sBx.
PC(fs) == Len(fs.code)
At(fs, pc) == fs.code[pc + 1]
Check(fs, c) == [fs EXCEPT !.ok = @ /\ c]
Error(fs, c) == [fs EXCEPT !.err = @ \/ c]

\* An expdesc: info is also the value of a constant; ind its table and key.
init_exp(k, info) == [k |-> k, info |-> info, t |-> NO_JUMP, f |-> NO_JUMP,
                      ind |-> [t |-> 0, idx |-> 0, vt |-> "VVOID"]]
hasjumps(e) == e.t # e.f
hasmultret(e) == e.k \in {"VCALL", "VVARARG"}
FE(fs, e) == [fs |-> fs, e |-> e]
FL(fs, l) == [fs |-> fs, l |-> l]

-----------------------------------------------------------------------------
(* Jump lists *)

getjump(fs, pc) == IF At(fs, pc).b = NO_JUMP THEN NO_JUMP ELSE pc + 1 + At(fs, pc).b
fixjump(fs, pc, dest) == Check([fs EXCEPT !.code[pc + 1].b = dest - (pc + 1)], dest # NO_JUMP)

\* The jumps of a list.
RECURSIVE Jumps(_, _)
Jumps(fs, list) == IF list = NO_JUMP THEN <<>> ELSE <<list>> \o Jumps(fs, getjump(fs, list))

luaK_concat(fs, l1, l2) ==
  IF l2 = NO_JUMP THEN FL(fs, l1)
  ELSE IF l1 = NO_JUMP THEN FL(fs, l2)
  ELSE FL(fixjump(fs, Last(Jumps(fs, l1)), l2), l1)

luaK_getlabel(fs) == [fs EXCEPT !.lasttarget = PC(fs)]

\* The instruction that controls a jump.
getjumpcontrol(fs, pc) == IF pc >= 1 /\ At(fs, pc - 1).op \in TestMode THEN pc - 1 ELSE pc

\* A TESTSET sends its value to reg, or becomes a TEST.
patchtestreg(fs, node, reg) ==
  LET pc == getjumpcontrol(fs, node)
      i == At(fs, pc)
  IN IF i.op # "TESTSET" THEN fs
     ELSE IF reg # NO_REG /\ reg # i.b THEN [fs EXCEPT !.code[pc + 1].a = reg]
     ELSE [fs EXCEPT !.code[pc + 1] = [op |-> "TEST", a |-> i.b, b |-> 0, c |-> i.c]]
istestset(fs, node) == At(fs, getjumpcontrol(fs, node)).op = "TESTSET"

removevalues(fs, list) == FoldLeft(LAMBDA g, j : patchtestreg(g, j, NO_REG), fs, Jumps(fs, list))

patchlistaux(fs, list, vtarget, reg, dtarget) ==
  FoldLeft(LAMBDA g, j : fixjump(patchtestreg(g, j, reg), j, IF istestset(g, j) THEN vtarget ELSE dtarget),
           fs, Jumps(fs, list))

dischargejpc(fs) ==
  IF fs.jpc = NO_JUMP THEN fs ELSE [patchlistaux(fs, fs.jpc, PC(fs), NO_REG, PC(fs)) EXCEPT !.jpc = NO_JUMP]

luaK_code(fs, op, a, b, c) ==
  [dischargejpc(fs) EXCEPT !.code = Append(@, [op |-> op, a |-> a, b |-> b, c |-> c])]

luaK_patchtohere(fs, list) ==
  LET r == luaK_concat(luaK_getlabel(fs), fs.jpc, list) IN [r.fs EXCEPT !.jpc = r.l]

luaK_patchlist(fs, list, target) ==
  IF target = PC(fs) THEN luaK_patchtohere(fs, list)
  ELSE Check(patchlistaux(fs, list, target, NO_REG, target), target < PC(fs))

\* The jumps of a list close the upvalues from level on.
luaK_patchclose(fs, list, level) ==
  FoldLeft(LAMBDA g, j : Check([g EXCEPT !.code[j + 1].a = level + 1],
                                At(g, j).op = "JMP" /\ (At(g, j).a = 0 \/ At(g, j).a >= level + 1)),
           fs, Jumps(fs, list))

\* The pending jumps to here are put on hold.
luaK_jump(fs) ==
  LET g == luaK_code([fs EXCEPT !.jpc = NO_JUMP], "JMP", 0, NO_JUMP, 0)
  IN luaK_concat(g, PC(fs), fs.jpc)
condjump(fs, op, a, b, c) == luaK_jump(luaK_code(fs, op, a, b, c))

luaK_ret(fs, first, nret) == luaK_code(fs, "RETURN", first, nret + 1, 0)

-----------------------------------------------------------------------------
(* Registers and constants *)

luaK_checkstack(fs, n) ==
  LET new == fs.freereg + n IN
  IF new <= fs.maxstacksize THEN fs ELSE Error([fs EXCEPT !.maxstacksize = new], new >= MAXREGS)
luaK_reserveregs(fs, n) == [luaK_checkstack(fs, n) EXCEPT !.freereg = @ + n]

freereg(fs, reg) ==
  IF ISK(reg) \/ reg < fs.nactvar THEN fs
  ELSE Check([fs EXCEPT !.freereg = @ - 1], reg = fs.freereg - 1)
freeexp(fs, e) == IF e.k = "VNONRELOC" THEN freereg(fs, e.info) ELSE fs

\* The higher register is freed first.
freeexps(fs, e1, e2) ==
  LET R(e) == IF e.k = "VNONRELOC" THEN e.info ELSE -1 IN
  IF R(e1) > R(e2) THEN freeexp(freeexp(fs, e1), e2) ELSE freeexp(freeexp(fs, e2), e1)

\* addk, for luaK_stringK, luaK_intK, boolK and nilK: a constant is entered once.
addk(fs, v) ==
  IF \E i \in DOMAIN fs.k : fs.k[i] = v THEN FL(fs, (CHOOSE i \in DOMAIN fs.k : fs.k[i] = v) - 1)
  ELSE FL([fs EXCEPT !.k = Append(@, v)], Len(fs.k))

luaK_codek(fs, reg, k) ==
  IF k <= MAXARG_Bx THEN luaK_code(fs, "LOADK", reg, k, 0)
  ELSE luaK_code(luaK_code(fs, "LOADKX", reg, 0, 0), "EXTRAARG", k, 0, 0)

\* It joins a LOADNIL in front, unless a jump leads to here.
Joins(fs, from, n) ==
  LET prev == At(fs, PC(fs) - 1)
      pl == prev.a + prev.b
  IN prev.op = "LOADNIL" /\ ((prev.a <= from /\ from <= pl + 1) \/ (from <= prev.a /\ prev.a <= from + n))
joins(fs, from, n) == PC(fs) > fs.lasttarget /\ Joins(fs, from, n)
luaK_nil(fs, from, n) ==
  IF ~joins(fs, from, n) THEN luaK_code(fs, "LOADNIL", from, n - 1, 0)
  ELSE LET prev == At(fs, PC(fs) - 1)
           first == IF prev.a < from THEN prev.a ELSE from
           last == IF prev.a + prev.b > from + n - 1 THEN prev.a + prev.b ELSE from + n - 1
       IN [fs EXCEPT !.code[PC(fs)] = [@ EXCEPT !.a = first, !.b = last - first]]

-----------------------------------------------------------------------------
(* Expressions get a place *)

luaK_setreturns(fs, e, n) ==
  CASE e.k = "VCALL" -> [fs EXCEPT !.code[e.info + 1].c = n + 1]
    [] e.k = "VVARARG" -> luaK_reserveregs([fs EXCEPT !.code[e.info + 1] = [@ EXCEPT !.b = n + 1, !.a = fs.freereg]], 1)
    [] OTHER -> Check(fs, n = LUA_MULTRET)

luaK_setoneret(fs, e) ==
  CASE e.k = "VCALL" -> FE(Check(fs, At(fs, e.info).c = 2),
                           [e EXCEPT !.k = "VNONRELOC", !.info = At(fs, e.info).a])
    [] e.k = "VVARARG" -> FE([fs EXCEPT !.code[e.info + 1].b = 2], [e EXCEPT !.k = "VRELOCABLE"])
    [] OTHER -> FE(fs, e)

Relocable(fs, e, op, b, c) ==
  FE(luaK_code(fs, op, 0, b, c), [e EXCEPT !.k = "VRELOCABLE", !.info = PC(fs)])

luaK_dischargevars(fs, e) ==
  CASE e.k = "VLOCAL" -> FE(fs, [e EXCEPT !.k = "VNONRELOC"])
    [] e.k = "VUPVAL" -> Relocable(fs, e, "GETUPVAL", e.info, 0)
    [] e.k = "VINDEXED" ->
         LET g == freereg(fs, e.ind.idx) IN
         IF e.ind.vt = "VLOCAL" THEN Relocable(freereg(g, e.ind.t), e, "GETTABLE", e.ind.t, e.ind.idx)
         ELSE Relocable(g, e, "GETTABUP", e.ind.t, e.ind.idx)
    [] OTHER -> luaK_setoneret(fs, e)

\* The constant of an expression.
Constant(e) == CASE e.k = "VKINT" -> <<"int", e.info>> [] e.k = "VTRUE" -> <<"bool", TRUE>>
                 [] e.k = "VFALSE" -> <<"bool", FALSE>> [] e.k = "VNIL" -> <<"nil">>

discharge2reg(fs0, e0, reg) ==
  LET d == luaK_dischargevars(fs0, e0)
      fs == d.fs
      e == d.e
      c == addk(fs, Constant(e))
      Placed(g) == FE(g, [e EXCEPT !.k = "VNONRELOC", !.info = reg])
  IN CASE e.k = "VNIL" -> Placed(luaK_nil(fs, reg, 1))
       [] e.k \in {"VFALSE", "VTRUE"} -> Placed(luaK_code(fs, "LOADBOOL", reg, IF e.k = "VTRUE" THEN 1 ELSE 0, 0))
       [] e.k = "VK" -> Placed(luaK_codek(fs, reg, e.info))
       [] e.k = "VKINT" -> Placed(luaK_codek(c.fs, reg, c.l))
       [] e.k = "VRELOCABLE" -> Placed([fs EXCEPT !.code[e.info + 1].a = reg])
       [] e.k = "VNONRELOC" -> Placed(IF reg = e.info THEN fs ELSE luaK_code(fs, "MOVE", reg, e.info, 0))
       [] OTHER -> FE(Check(fs, e.k = "VJMP"), e)

discharge2anyreg(fs, e) ==
  IF e.k = "VNONRELOC" THEN FE(fs, e)
  ELSE LET g == luaK_reserveregs(fs, 1) IN discharge2reg(g, e, g.freereg - 1)

need_value(fs, list) == \E j \in ToSet(Jumps(fs, list)) : ~istestset(fs, j)

\* The two LOADBOOLs for the jumps that bring no value.
code_loadbools(fs, reg) ==
  luaK_code(luaK_getlabel(luaK_code(luaK_getlabel(fs), "LOADBOOL", reg, 0, 1)), "LOADBOOL", reg, 1, 0)

exp2reg(fs0, e0, reg) ==
  LET d == discharge2reg(fs0, e0, reg)
      isjmp == d.e.k = "VJMP"
      t == IF isjmp THEN luaK_concat(d.fs, d.e.t, d.e.info) ELSE FL(d.fs, d.e.t)
      e == [d.e EXCEPT !.t = t.l]
      need == need_value(t.fs, e.t) \/ need_value(t.fs, e.f)
      fj == IF need /\ ~isjmp THEN luaK_jump(t.fs) ELSE FL(t.fs, NO_JUMP)
      bools == luaK_patchtohere(code_loadbools(fj.fs, reg), fj.l)
      \* the first code_loadbool discharges the jumps to here
      p_f == IF need THEN PC(fj.fs) ELSE NO_JUMP
      p_t == IF need THEN PC(fj.fs) + 1 ELSE NO_JUMP
      g == luaK_getlabel(IF need THEN bools ELSE t.fs)
      final == PC(g)
      h == patchlistaux(patchlistaux(g, e.f, final, reg, p_f), e.t, final, reg, p_t)
  IN FE(IF hasjumps(e) THEN h ELSE t.fs,
        [e EXCEPT !.k = "VNONRELOC", !.info = reg, !.t = NO_JUMP, !.f = NO_JUMP])

luaK_exp2nextreg(fs, e) ==
  LET d == luaK_dischargevars(fs, e)
      g == luaK_reserveregs(freeexp(d.fs, d.e), 1)
  IN exp2reg(g, d.e, g.freereg - 1)

luaK_exp2anyreg(fs, e) ==
  LET d == luaK_dischargevars(fs, e) IN
  CASE d.e.k = "VNONRELOC" /\ ~hasjumps(d.e) -> d
    [] d.e.k = "VNONRELOC" /\ hasjumps(d.e) /\ d.e.info >= d.fs.nactvar -> exp2reg(d.fs, d.e, d.e.info)
    [] OTHER -> luaK_exp2nextreg(d.fs, d.e)

luaK_exp2anyregup(fs, e) == IF e.k # "VUPVAL" \/ hasjumps(e) THEN luaK_exp2anyreg(fs, e) ELSE FE(fs, e)

\* Pending jumps need the value in a register.
luaK_exp2val(fs, e) == IF hasjumps(e) THEN luaK_exp2anyreg(fs, e) ELSE luaK_dischargevars(fs, e)

\* The result has the operand as rk.
luaK_exp2RK(fs, e0) ==
  LET d == luaK_exp2val(fs, e0)
      c == IF d.e.k \in {"VTRUE", "VFALSE", "VNIL", "VKINT"} THEN addk(d.fs, Constant(d.e)) ELSE FL(d.fs, d.e.info)
      isk == d.e.k \in {"VTRUE", "VFALSE", "VNIL", "VKINT", "VK"}
      e == IF isk THEN [d.e EXCEPT !.k = "VK", !.info = c.l] ELSE d.e
      r == luaK_exp2anyreg(c.fs, e)
  IN IF isk /\ c.l <= MAXINDEXRK THEN [fs |-> c.fs, e |-> e, rk |-> c.l + BITRK]
     ELSE [fs |-> r.fs, e |-> r.e, rk |-> r.e.info]

luaK_storevar(fs, var, ex) ==
  CASE var.k = "VLOCAL" -> exp2reg(freeexp(fs, ex), ex, var.info).fs
    [] var.k = "VUPVAL" ->
         LET r == luaK_exp2anyreg(fs, ex) IN freeexp(luaK_code(r.fs, "SETUPVAL", r.e.info, var.info, 0), r.e)
    [] var.k = "VINDEXED" ->
         LET r == luaK_exp2RK(fs, ex)
             op == IF var.ind.vt = "VLOCAL" THEN "SETTABLE" ELSE "SETTABUP"
         IN freeexp(luaK_code(r.fs, op, var.ind.t, var.ind.idx, r.rk), r.e)

luaK_self(fs, e, key) ==
  LET r == luaK_exp2anyreg(fs, e)
      g == freeexp(r.fs, r.e)
      k == luaK_exp2RK(luaK_reserveregs(g, 2), key)
  IN FE(freeexp(luaK_code(k.fs, "SELF", g.freereg, r.e.info, k.rk), k.e),
        [r.e EXCEPT !.k = "VNONRELOC", !.info = g.freereg])

luaK_indexed(fs, t, k) ==
  LET r == luaK_exp2RK(fs, k) IN
  FE(Check(r.fs, ~hasjumps(t) /\ t.k \in {"VNONRELOC", "VLOCAL", "VUPVAL"}),
     [t EXCEPT !.k = "VINDEXED",
               !.ind = [t |-> t.info, idx |-> r.rk, vt |-> IF t.k = "VUPVAL" THEN "VUPVAL" ELSE "VLOCAL"]])

-----------------------------------------------------------------------------
(* Conditions *)

negatecondition(fs, e) ==
  LET pc == getjumpcontrol(fs, e.info) IN
  Check([fs EXCEPT !.code[pc + 1].a = 1 - @], At(fs, pc).op \in {"EQ", "LT", "LE"})

\* A NOT in front is turned into the test.
jumponcond(fs, e, cond) ==
  LET d == discharge2anyreg(fs, e)
      i == At(fs, e.info)
  IN IF e.k = "VRELOCABLE" /\ i.op = "NOT"
       THEN condjump([fs EXCEPT !.code = Front(@)], "TEST", i.b, 0, 1 - cond)
     ELSE condjump(freeexp(d.fs, d.e), "TESTSET", NO_REG, d.e.info, cond)

luaK_goiftrue(fs, e0) ==
  LET d == luaK_dischargevars(fs, e0)
      j == CASE d.e.k = "VJMP" -> FL(negatecondition(d.fs, d.e), d.e.info)
             [] d.e.k \in {"VK", "VKINT", "VTRUE"} -> FL(d.fs, NO_JUMP)
             [] OTHER -> jumponcond(d.fs, d.e, 0)
      f == luaK_concat(j.fs, d.e.f, j.l)
  IN FE(luaK_patchtohere(f.fs, d.e.t), [d.e EXCEPT !.f = f.l, !.t = NO_JUMP])

luaK_goiffalse(fs, e0) ==
  LET d == luaK_dischargevars(fs, e0)
      j == CASE d.e.k = "VJMP" -> FL(d.fs, d.e.info)
             [] d.e.k \in {"VNIL", "VFALSE"} -> FL(d.fs, NO_JUMP)
             [] OTHER -> jumponcond(d.fs, d.e, 1)
      t == luaK_concat(j.fs, d.e.t, j.l)
  IN FE(luaK_patchtohere(t.fs, d.e.f), [d.e EXCEPT !.t = t.l, !.f = NO_JUMP])

codenot(fs, e0) ==
  LET d == luaK_dischargevars(fs, e0)
      r == discharge2anyreg(d.fs, d.e)
      n == CASE d.e.k \in {"VNIL", "VFALSE"} -> FE(d.fs, [d.e EXCEPT !.k = "VTRUE"])
             [] d.e.k \in {"VK", "VKINT", "VTRUE"} -> FE(d.fs, [d.e EXCEPT !.k = "VFALSE"])
             [] d.e.k = "VJMP" -> FE(negatecondition(d.fs, d.e), d.e)
             [] OTHER -> Relocable(freeexp(r.fs, r.e), r.e, "NOT", r.e.info, 0)
  IN FE(removevalues(removevalues(n.fs, n.e.t), n.e.f), [n.e EXCEPT !.t = n.e.f, !.f = n.e.t])

-----------------------------------------------------------------------------
(* Operators *)

Arith == {"+", "-", "*", "//", "%"}

\* luaO_arith on integers (luaV_div and luaV_mod round down).
luaO_arith(op, a, b) ==
  CASE op = "+" -> a + b [] op = "-" -> a - b [] op = "*" -> a * b
    [] op = "//" -> IF b > 0 THEN a \div b ELSE (-a) \div (-b)
    [] op = "%" -> IF b > 0 THEN a % b ELSE -((-a) % (-b))

tonumeral(e) == ~hasjumps(e) /\ e.k = "VKINT"

\* Are the operands numerals and is the operation safe?  (Mutant: jumps are not looked for.)
foldsJumps(op, e1, e2) == e1.k = "VKINT" /\ e2.k = "VKINT" /\ (op \in {"//", "%"} => e2.info # 0)
folds(op, e1, e2) == tonumeral(e1) /\ tonumeral(e2) /\ (op \in {"//", "%"} => e2.info # 0)

codeunexpval(fs, op, e) ==
  LET r == luaK_exp2anyreg(fs, e) IN Relocable(freeexp(r.fs, r.e), r.e, op, r.e.info, 0)

codebinexpval(fs, op, e1, e2) ==
  LET r2 == luaK_exp2RK(fs, e2)
      r1 == luaK_exp2RK(r2.fs, e1)
  IN Relocable(freeexps(r1.fs, r1.e, r2.e), r1.e, op, r1.rk, r2.rk)

codecomp(fs, op, e1, e2) ==
  LET rk1 == IF e1.k = "VK" THEN e1.info + BITRK ELSE e1.info
      r2 == luaK_exp2RK(fs, e2)
      g == freeexps(Check(r2.fs, e1.k \in {"VK", "VNONRELOC"}), e1, r2.e)
      j == CASE op = "~=" -> condjump(g, "EQ", 0, rk1, r2.rk)
             [] op = "==" -> condjump(g, "EQ", 1, rk1, r2.rk)
             [] op = ">"  -> condjump(g, "LT", 1, r2.rk, rk1)
             [] op = ">=" -> condjump(g, "LE", 1, r2.rk, rk1)
             [] op = "<"  -> condjump(g, "LT", 1, rk1, r2.rk)
             [] op = "<=" -> condjump(g, "LE", 1, rk1, r2.rk)
  IN FE(j.fs, [e1 EXCEPT !.k = "VJMP", !.info = j.l])

luaK_prefix(fs, op, e) ==
  CASE op = "not" -> codenot(fs, e)
    [] op = "-" /\ tonumeral(e) -> FE(fs, [e EXCEPT !.info = -@])
    [] op = "-" /\ ~tonumeral(e) -> codeunexpval(fs, "UNM", e)
    [] op = "#" -> codeunexpval(fs, "LEN", e)

luaK_infix(fs, op, v) ==
  CASE op = "and" -> luaK_goiftrue(fs, v)
    [] op = "or" -> luaK_goiffalse(fs, v)
    [] op = ".." -> luaK_exp2nextreg(fs, v)
    [] op \in Arith /\ tonumeral(v) -> FE(fs, v)
    [] OTHER -> LET r == luaK_exp2RK(fs, v) IN FE(r.fs, r.e)

luaK_posfix(fs, op, e1, e2) ==
  CASE op = "and" ->
         LET d == luaK_dischargevars(Check(fs, e1.t = NO_JUMP), e2)
             f == luaK_concat(d.fs, d.e.f, e1.f)
         IN FE(f.fs, [d.e EXCEPT !.f = f.l])
    [] op = "or" ->
         LET d == luaK_dischargevars(Check(fs, e1.f = NO_JUMP), e2)
             t == luaK_concat(d.fs, d.e.t, e1.t)
         IN FE(t.fs, [d.e EXCEPT !.t = t.l])
    [] op = ".." ->
         LET v == luaK_exp2val(fs, e2)
             r == luaK_exp2nextreg(v.fs, v.e)
         IN IF v.e.k = "VRELOCABLE" /\ At(v.fs, v.e.info).op = "CONCAT"
              THEN FE(Check([freeexp(v.fs, e1) EXCEPT !.code[v.e.info + 1].b = e1.info],
                             e1.info = At(v.fs, v.e.info).b - 1),
                      [e1 EXCEPT !.k = "VRELOCABLE", !.info = v.e.info])
            ELSE codebinexpval(r.fs, "CONCAT", e1, r.e)
    [] op \in Arith ->
         IF folds(op, e1, e2) THEN FE(fs, [e1 EXCEPT !.info = luaO_arith(op, e1.info, e2.info)])
         ELSE codebinexpval(fs, op, e1, e2)
    [] OTHER -> codecomp(fs, op, e1, e2)

luaK_setlist(fs, base, nelems, tostore) ==
  [luaK_code(fs, "SETLIST", base, IF tostore = LUA_MULTRET THEN 0 ELSE tostore,
             (nelems - 1) \div LFIELDS_PER_FLUSH + 1) EXCEPT !.freereg = base + 1]
=============================================================================
