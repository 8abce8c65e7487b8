------------------------------- MODULE Names --------------------------------
(***************************************************************************)
(* The names in messages (ldebug.c): an error knows a register, and the    *)
(* name of what is in it is guessed from the code in front of the          *)
(* instruction that failed, which may have been jumped over.               *)
(*                                                                         *)
(* A name is <<kind, name>>, or <<>> if none is found.                     *)
(***************************************************************************)
EXTENDS Parser

\* testAMode: the instructions that set register A.
SetsA == {"MOVE", "LOADK", "LOADKX", "LOADBOOL", "GETUPVAL", "GETTABUP", "GETTABLE", "NEWTABLE", "SELF", "UNM", "NOT", "LEN",
          "CONCAT", "TESTSET", "FORLOOP", "FORPREP", "TFORLOOP", "CLOSURE", "VARARG"} \cup Arith

\* Of the variables in scope at pc, the n-th is in register n - 1; the list ends at the first that begins later.
luaF_getlocalname(p, n, pc) ==
  LET later == SelectInSeq(p.locvars, LAMBDA v : v.startpc > pc)
      active == SelectSeq(IF later = 0 THEN p.locvars ELSE SubSeq(p.locvars, 1, later - 1), LAMBDA v : pc < v.endpc)
  IN IF n \in DOMAIN active THEN <<active[n].varname>> ELSE <<>>

\* Does the instruction at pc change the register?
changes(i, reg) ==
  CASE i.op = "LOADNIL"  -> i.a <= reg /\ reg <= i.a + i.b
    [] i.op = "TFORCALL" -> reg >= i.a + 2
    [] i.op \in {"CALL", "TAILCALL"} -> reg >= i.a
    [] OTHER -> i.op \in SetsA /\ reg = i.a

\* A forward jump that lands no later than the instruction that failed.  (Mutant: one that lands on
\* it is not seen.)
jumpsBefore(dest, lastpc) == dest < lastpc
jumpsWithin(dest, lastpc) == dest <= lastpc

\* The last instruction before lastpc that changed the register, or -1 if it may have been jumped over.
findsetreg(p, lastpc, reg) ==
  LET Scan(s, pc) ==
        LET i == p.code[pc + 1]
            dest == pc + 1 + i.b
        IN IF i.op = "JMP"
             THEN [s EXCEPT !.jmptarget = IF pc < dest /\ jumpsWithin(dest, lastpc) /\ dest > @ THEN dest ELSE @]
           ELSE [s EXCEPT !.setreg = IF ~changes(i, reg) THEN @ ELSE IF pc < s.jmptarget THEN -1 ELSE pc]   \* filterpc
  IN FoldLeft(Scan, [setreg |-> -1, jmptarget |-> 0], [k \in 1 .. lastpc |-> k - 1]).setreg

upvalname(p, i) == p.up[i + 1].name

RECURSIVE getobjname(_, _, _)
\* A key has a name if it is a string in the code.
kname(p, pc, c) ==
  LET r == getobjname(p, pc, c)
      k == p.k[c - BITRK + 1]
  IN IF ISK(c) THEN (IF k[1] = "str" THEN k[2] ELSE "?")
     ELSE IF r # <<>> /\ r[1] = "constant" THEN r[2] ELSE "?"

\* A local variable, or what the instruction that set the register got it from.
getobjname(p, lastpc, reg) ==
  LET local == luaF_getlocalname(p, reg + 1, lastpc)
      pc == findsetreg(p, lastpc, reg)
      i == p.code[pc + 1]
      table == IF i.op = "GETTABUP" THEN <<upvalname(p, i.b)>> ELSE luaF_getlocalname(p, i.b + 1, pc)
      const == p.k[(IF i.op = "LOADK" THEN i.b ELSE p.code[pc + 2].a) + 1]
  IN CASE local # <<>> -> <<"local", local[1]>>
       [] local = <<>> /\ pc = -1 -> <<>>
       [] local = <<>> /\ pc # -1 /\ i.op = "MOVE" -> IF i.b < i.a THEN getobjname(p, pc, i.b) ELSE <<>>
       [] local = <<>> /\ pc # -1 /\ i.op \in {"GETTABUP", "GETTABLE"} ->
            <<IF table = <<"_ENV">> THEN "global" ELSE "field", kname(p, pc, i.c)>>
       [] local = <<>> /\ pc # -1 /\ i.op = "GETUPVAL" -> <<"upvalue", upvalname(p, i.b)>>
       [] local = <<>> /\ pc # -1 /\ i.op \in {"LOADK", "LOADKX"} -> IF const[1] = "str" THEN <<"constant", const[2]>> ELSE <<>>
       [] local = <<>> /\ pc # -1 /\ i.op = "SELF" -> <<"method", kname(p, pc, i.c)>>
       [] OTHER -> <<>>

\* What is said of a function that was called at pc, by the instruction that called it.
TMS == [o \in Arith |-> CASE o = "+" -> "__add" [] o = "-" -> "__sub" [] o = "*" -> "__mul"
                           [] o = "//" -> "__idiv" [] o = "%" -> "__mod"]
funcnamefromcode(p, pc) ==
  LET i == p.code[pc + 1]
      metamethod == CASE i.op \in {"SELF", "GETTABUP", "GETTABLE"} -> "__index"
                      [] i.op \in {"SETTABUP", "SETTABLE"} -> "__newindex"
                      [] i.op \in Arith -> TMS[i.op]
                      [] i.op = "UNM" -> "__unm" [] i.op = "LEN" -> "__len" [] i.op = "CONCAT" -> "__concat"
                      [] i.op = "EQ" -> "__eq" [] i.op = "LT" -> "__lt" [] i.op = "LE" -> "__le"
                      [] OTHER -> ""
  IN CASE i.op \in {"CALL", "TAILCALL"} -> getobjname(p, pc, i.a)
       [] i.op = "TFORCALL" -> <<"for iterator", "for iterator">>
       [] i.op \notin {"CALL", "TAILCALL", "TFORCALL"} /\ metamethod # "" -> <<"metamethod", metamethod>>
       [] OTHER -> <<>>
=============================================================================
