------------------------------ MODULE Programs ------------------------------
(***************************************************************************)
(* The programs that the compiler is checked on: families that vary one    *)
(* thing each, inside a frame that makes its effect visible.               *)
(***************************************************************************)
EXTENDS Compile

N(x) == <<"name", x>>
I(n) == <<"int", n>>
T == <<"true">>
NIL == <<"nil">>
DOTS == <<"...">>
Bin(op, a, b) == <<"bin", op, a, b>>
Not(a) == <<"un", "not", a>>
At_(t, k) == <<"index", t, k>>
CallOf(f, es) == <<"call", f, es>>
PE(es) == CallOf(N("p"), es)
P(es) == <<"callstat", PE(es)>>
Fun(params, ss) == <<"func", params, FALSE, ss>>
VarFun(params, ss) == <<"func", params, TRUE, ss>>
Local(xs, es) == <<"local", xs, es>>
Set(vs, es) == <<"assign", vs, es>>
Return(es) == <<"return", es>>
If1(e, ss) == <<"if", <<<<e, ss>>>>, <<>>>>
IfElse(e, ss, tt) == <<"if", <<<<e, ss>>>>, <<tt>>>>
Goto(l) == <<"goto", l>>
Label(l) == <<"label", l>>
Break == <<"break">>
Do(ss) == <<"do", ss>>

SeqsUpTo(S, n) == UNION {[1 .. k -> S] : k \in 1 .. n}

-----------------------------------------------------------------------------
(* Conditions: a local, constants, a comparison and a call, under and, or, not *)

Leaf == {N("a"), NIL, PE(<<N("b")>>)}
Cond1 == Leaf \cup {Not(x) : x \in Leaf} \cup {Bin(op, x, y) : op \in {"and", "or", "=="}, x \in Leaf, y \in Leaf}
CondRight == Leaf \cup {Bin("and", N("a"), PE(<<N("b")>>)), Bin("or", PE(<<N("b")>>), N("a")),
                                                   Bin("~=", N("a"), PE(<<I(1)>>)), Bin("-", I(3), Bin("and", N("b"), I(2)))}

\* As a value, an argument, a condition of each kind.
CondProgram(use, e, a) ==
  <<Local(<<"a", "b">>, <<a, T>>)>> \o
  CASE use = "value" -> <<Local(<<"x">>, <<e>>), P(<<N("x"), N("a"), e, Not(e)>>), Set(<<N("g")>>, <<e>>), P(<<N("g")>>)>>
    [] use = "if"    -> <<IfElse(e, <<P(<<I(1)>>)>>, <<P(<<I(2)>>)>>), Do(<<If1(e, <<Goto("l")>>), P(<<I(3)>>), Label("l")>>)>>
    [] use = "while" -> <<<<"while", e, <<P(<<I(1)>>), Set(<<N("a"), N("b")>>, <<N("b"), Bin("==", N("a"), NIL)>>)>>>>>>
    [] use = "until" -> <<<<"repeat", <<Local(<<"c">>, <<N("a")>>), Set(<<N("a"), N("b")>>, <<N("b"), N("c")>>),
                                        P(<<CallOf(<<"paren", Fun(<<>>, <<Return(<<N("c")>>)>>)>>, <<>>)>>)>>, e>>>>
CondPrograms(x) ==
  {CondProgram(u, IF op = "" THEN x ELSE Bin(op, x, y), a) :
     u \in {"value", "if", "while", "until"}, op \in {"", "and", "or"}, y \in CondRight, a \in {NIL, T}}

-----------------------------------------------------------------------------
(* Assignments to locals or upvalues, fields that they name, and a global *)

Target == {N("a"), N("b"), At_(N("a"), N("b")), N("g")}
Value == {N("b"), PE(<<N("b"), I(7)>>), DOTS, I(2)}
AssignProgram(inner, vars, es) ==
  LET ss == <<Set(vars, es), P(<<N("b"), N("g"), Bin("==", N("a"), N("t")), At_(N("t"), I(1)), At_(N("t"), I(2))>>)>> IN
  <<Local(<<"t">>, <<<<"table", <<>>>>>>), Local(<<"a", "b">>, <<N("t"), I(1)>>)>> \o
  IF inner THEN <<<<"localfunc", "f", VarFun(<<>>, ss)>>, P(<<CallOf(N("f"), <<I(8), I(9)>>)>>)>> ELSE ss
AssignPrograms(v) ==
  {AssignProgram(i, <<v>> \o vs, es) : i \in BOOLEAN, vs \in {<<>>} \cup SeqsUpTo(Target, 2), es \in SeqsUpTo(Value, 2)}

-----------------------------------------------------------------------------
(* Jumps out of scopes whose variables a closure has taken *)

Capture(x) == Set(<<N("f")>>, <<Fun(<<>>, <<Set(<<N(x)>>, <<Bin("+", N(x), I(10))>>), Return(<<N(x), N("n")>>)>>)>>)
Jumping ==
  {Local(<<"x">>, <<N("n")>>), Capture("x"), Goto("c"), Label("c"), If1(Bin("==", N("n"), I(2)), <<Goto("c")>>),
   If1(Bin("==", N("n"), I(2)), <<Break>>), If1(Bin("==", N("n"), I(1)), <<Capture("x")>>), Do(<<Local(<<"y">>, <<N("n")>>), Capture("y"), Goto("c")>>),
   Do(<<Local(<<"y">>, <<N("n")>>), Capture("y"), If1(Bin("<", I(1), N("n")), <<Break>>)>>),
   If1(Bin("==", N("n"), I(1)), <<Set(<<N("n")>>, <<I(2)>>), Goto("c")>>)}
JumpProgram(loop, ss) ==
  LET loopBody == <<Set(<<N("n")>>, <<Bin("+", N("n"), I(1))>>)>> \o ss
      show == P(<<N("n"), Bin("and", N("f"), CallOf(N("f"), <<>>)), Bin("and", N("f"), CallOf(N("f"), <<>>))>>)
  IN <<Local(<<"n", "f", "x">>, <<I(0)>>)>> \o
     CASE loop = "while"  -> <<<<"while", Bin("<", N("n"), I(3)), loopBody>>, show>>
       [] loop = "repeat" -> <<<<"repeat", loopBody, Bin(">=", N("n"), I(3))>>, show>>
       [] loop = "for"    -> <<<<"fornum", "x", <<I(1), I(3)>>, loopBody>>, show>>
       [] loop = "flat"   -> <<Label("c")>> \o loopBody \o <<If1(Bin("<", N("n"), I(3)), <<Goto("c")>>), show>>
       [] loop = "goto"   -> <<Label("c")>> \o <<Do(<<If1(Bin("<", N("n"), I(3)), loopBody)>>), show>>
JumpPrograms(s) == {JumpProgram(l, <<s>> \o ss) : l \in {"while", "repeat", "for", "goto", "flat"}, ss \in {<<>>} \cup SeqsUpTo(Jumping, 2)}

-----------------------------------------------------------------------------
(* Lists of values, of which the last may be several *)

ListValue == {I(1), PE(<<I(2), I(3)>>), DOTS, <<"paren", DOTS>>}
ListProgram(use, es) ==
  LET xs == <<"x", "y", "z">>
      ss == CASE use = "args"   -> <<P(es)>>
              [] use = "return" -> <<Return(es)>>
              [] use = "tail"   -> <<Return(<<CallOf(N("f"), es)>>)>>
              [] use = "method" -> <<P(<<<<"self", N("o"), "m", es>>>>)>>
              [] use = "local"  -> <<Local(xs, es), P(<<N("z"), N("y"), N("x")>>)>>
              [] use = "table"  -> <<Local(<<"t">>, <<<<"table", [i \in DOMAIN es |-> <<"item", es[i]>>] >>>>),
                                     P(<<<<"un", "#", N("t")>>, At_(N("t"), I(1)), At_(N("t"), I(2)), At_(N("t"), I(4))>>)>>
              [] use = "for"    -> <<<<"forin", <<"x", "y">>, <<Fun(<<"s", "v">>, <<Return(<<Bin("and", Not(N("v")), I(5)), N("s")>>)>>)>> \o es,
                                       <<P(<<N("x"), N("y")>>)>>>>>>
  IN <<Local(<<"o">>, <<<<"table", <<>>>>>>),
       <<"function", At_(N("o"), <<"str", "m">>), VarFun(<<"self", "q">>, <<Return(<<DOTS, Bin("==", N("self"), N("o"))>>)>>)>>,
       <<"localfunc", "f", VarFun(<<"q">>, <<If1(Bin("==", N("q"), I(1)), <<Return(<<CallOf(N("f"), <<N("o"), DOTS>>)>>)>>),
                                             Return(<<DOTS>>)>>)>>,
       <<"localfunc", "g", VarFun(<<"z">>, ss)>>, P(<<CallOf(N("g"), <<NIL, I(8), I(9)>>)>>)>>
ListPrograms(v) ==
  {ListProgram(u, <<v>> \o es) : u \in {"args", "return", "tail", "method", "local", "table", "for"},
                                 es \in {<<>>} \cup SeqsUpTo(ListValue, 2)}

\* Constructors with fields of both kinds, longer than one flush.
FieldOf == {<<"item", I(1)>>, <<"item", PE(<<I(2), I(3)>>)>>, <<"rec", <<"str", "k">>, N("n")>>, <<"rec", PE(<<I(9)>>), T>>}
TablePrograms(f) ==
  {<<Local(<<"n">>, <<I(5)>>), Local(<<"t">>, <<<<"table", <<f>> \o fs>>>>),
     P(<<<<"un", "#", N("t")>>, At_(N("t"), I(1)), At_(N("t"), I(2)), At_(N("t"), I(3)), At_(N("t"), <<"str", "k">>)>>)>> :
       fs \in {<<>>} \cup SeqsUpTo(FieldOf, 3)}

-----------------------------------------------------------------------------
(* Operators on integers and on objects with metamethods *)

Operand == {I(3), N("o"), <<"str", "s">>, NIL}
Events == <<"__add", "__concat", "__eq", "__lt", "__le", "__unm", "__len", "__call", "__index">>
Meta_(ev, result) == <<"rec", <<"str", ev>>, VarFun(<<>>, <<P(<<<<"str", ev>>>>), Return(result)>>)>>
OpExpr(op, x, y) ==
  CASE op \in {"neg", "len"} -> <<"un", IF op = "neg" THEN "-" ELSE "#", x>>
    [] op = "call"  -> CallOf(<<"paren", x>>, <<y>>)
    [] op = "index" -> At_(<<"paren", x>>, I(1))
    [] op = "cat3"  -> Bin("..", x, Bin("..", <<"str", "t">>, y))
    [] OTHER -> Bin(op, x, y)
OpProgram(evs, op, x, y) ==
  LET mt == <<"table", [i \in DOMAIN evs |-> Meta_(evs[i], <<IF evs[i] \in {"__eq", "__lt"} THEN T ELSE <<"str", "r">>>>)]>>
      new(u) == <<Local(<<u>>, <<CallOf(N("setmetatable"), <<<<"table", <<>>>>, N("mt")>>)>>)>>
      e == OpExpr(op, x, y)
  IN <<Local(<<"mt">>, <<mt>>)>> \o new("o") \o new("q") \o
     <<IfElse(e, <<P(<<I(1)>>)>>, <<P(<<I(2)>>)>>), P(<<e, Bin("or", e, I(7))>>)>>
OpPrograms(x) ==
  {OpProgram(evs, op, x, y) : evs \in {<<>>, Events, RemoveAt(Events, 5)}, y \in Operand \cup {N("q"), I(0)},
     op \in {"+", "-", "*", "//", "%", "..", "cat3", "==", "~=", "<", "<=", ">", ">=", "neg", "len", "call", "index"}}

-----------------------------------------------------------------------------
(* Scopes of nested functions, and fields that are looked up in other tables *)

Add(x, n) == Set(<<N(x)>>, <<Bin("+", N(x), I(n))>>)
ScopePrograms(x) ==
  {<<Local(<<"x">>, <<I(1)>>), Local(<<"y">>, <<I(2)>>),
     <<"localfunc", "g", Fun(<<"y">>, <<Local(<<"h">>, <<Fun(<<>>, <<s1, Return(<<N("x"), N("y")>>)>>)>>), s2,
                                        P(<<CallOf(N("h"), <<>>)>>), s1, Return(<<N("h")>>)>>)>>,
     Local(<<"h1", "h2">>, <<CallOf(N("g"), <<I(20), I(8), I(9)>>), CallOf(N("g"), <<N(x)>>)>>), s2,
     P(<<CallOf(N("h1"), <<>>)>>), P(<<CallOf(N("h2"), <<>>)>>), P(<<N("x"), N("y")>>)>> :
       s1 \in {Add("x", 1), Add("y", 3), Local(<<"x">>, <<N("y")>>), Do(<<Local(<<"y">>, <<I(0)>>), Add("y", 1)>>)},
       s2 \in {Add("x", 100), Local(<<"y">>, <<N("x")>>), Set(<<N("x"), N("y")>>, <<N("y"), N("x")>>)}}
IndexPrograms(k) ==
  {<<Local(<<"log">>, <<VarFun(<<"t", "k">>, <<P(<<N("k"), DOTS>>), Return(<<N("k")>>)>>)>>),
     Local(<<"base">>, <<<<"table", <<<<"rec", <<"str", "a">>, I(1)>>>>>>>>),
     CASE deep -> <<"callstat", CallOf(N("setmetatable"), <<N("base"), <<"table", <<<<"rec", <<"str", "__index">>, N(how)>>,
                                                                                  <<"rec", <<"str", "__newindex">>, N(how)>>>>>>>>)>>
       [] OTHER -> P(<<>>),
     Local(<<"o">>, <<CallOf(N("setmetatable"), <<<<"table", <<<<"rec", <<"str", "b">>, I(2)>>>>>>,
       <<"table", <<<<"rec", <<"str", "__index">>, N("base")>>, <<"rec", <<"str", "__newindex">>, N("base")>>>>>>>>)>>),
     P(<<At_(N("o"), k)>>), Set(<<At_(N("o"), k)>>, <<v>>), P(<<At_(N("o"), k), At_(N("base"), k)>>)>> :
       deep \in BOOLEAN, how \in {"log", "base2"}, v \in {I(5), NIL}}

-----------------------------------------------------------------------------
(* Values that cannot be called, indexed or computed with, named in every way, in code with and *)
(* without jumps                                                                                *)

Culprit == {N("g"), N("a"), At_(N("t"), <<"str", "k">>), At_(N("t"), N("k")), <<"str", "k">>, Bin("and", N("a"), N("g")),
            Bin("or", N("g"), At_(N("t"), <<"str", "h">>)), Bin("or", I(1), N("g")), Bin("or", N("k"), At_(N("t"), <<"str", "h">>)), Bin("and", T, N("g")), CallOf(N("p"), <<>>), Bin("==", N("a"), N("g"))}
Misuses(x) ==
  LET e == <<"paren", x>> IN
  {<<"callstat", CallOf(e, es)>> : es \in {<<>>, <<N("g"), PE(<<I(1)>>)>>, <<Bin("or", N("a"), N("g"))>>}}
  \cup {<<"callstat", <<"self", e, "m", <<>>>>>>, Set(<<At_(e, I(1)), N("a")>>, <<I(1), I(2)>>), Set(<<N("g")>>, <<At_(e, <<"str", "k">>)>>),
        Return(<<CallOf(e, <<I(1)>>)>>), P(<<N("g"), <<"un", "#", e>>>>), P(<<<<"un", "-", e>>, N("g")>>),
        P(<<I(1), Bin("+", x, I(1))>>), P(<<Bin("-", I(1), x)>>), P(<<Bin("..", <<"str", "s">>, Bin("..", x, <<"str", "u">>))>>),
        P(<<CallOf(At_(e, <<"str", "u">>), <<>>)>>), <<"forin", <<"i">>, <<x>>, <<>>>>}
Around(place, s) ==
  CASE place = "plain"  -> <<s>>
    [] place = "after"  -> <<Set(<<N("x")>>, <<<<"table", <<<<"item", N("u")>>, <<"item", N("v")>>, <<"item", N("w")>>, <<"item", N("u")>>>>>>>>), s>>
    [] place = "scope"  -> <<Do(<<Local(<<"b", "c">>, <<N("u"), N("v")>>), P(<<N("b"), N("c")>>)>>), Local(<<"d">>, <<>>), s>>
    [] place = "inside" -> <<<<"localfunc", "f", Fun(<<"n">>, <<s>>)>>, P(<<CallOf(N("f"), <<I(1)>>)>>)>>
    [] place = "branch" -> <<IfElse(Bin("==", N("a"), NIL), <<Local(<<"b">>, <<N("u")>>), s>>, <<P(<<N("v")>>)>>)>>
    [] place = "loop"   -> <<<<"while", N("k"), <<Local(<<"b">>, <<N("a")>>), s>>>>>>
    [] place = "count"  -> <<<<"fornum", "i", <<I(1), I(2)>>, <<s>>>>>>
NamePrograms(x) ==
  {<<Local(<<"t", "a", "k">>, <<<<"table", <<>>>>, NIL, <<"str", "k">>>>)>> \o Around(place, s) :
     place \in {"plain", "after", "scope", "inside", "branch", "loop", "count"}, s \in Misuses(x)}

\* The programs of a family, by its first choice.
Family ==
  [cond |-> Cond1, assign |-> Target, jump |-> Jumping, list |-> ListValue, table |-> FieldOf, op |-> Operand, name |-> Culprit,
   scope |-> {"x", "y"}, index |-> {<<"str", "a">>, <<"str", "b">>, <<"str", "c">>, NIL}]
ProgramsOf(family, x) ==
  CASE family = "cond" -> CondPrograms(x) [] family = "assign" -> AssignPrograms(x) [] family = "jump" -> JumpPrograms(x)
    [] family = "list" -> ListPrograms(x) [] family = "table" -> TablePrograms(x) [] family = "op" -> OpPrograms(x)
    [] family = "scope" -> ScopePrograms(x) [] family = "index" -> IndexPrograms(x)
    [] family = "name" -> NamePrograms(x)
=============================================================================
