------------------------------- MODULE Numbers -------------------------------
(***************************************************************************)
(* Numbers at the width of the machine: integers that wrap (lvm.c,         *)
(* lobject.c, lmathlib.c), floats that round, the comparison of the two,   *)
(* the numerals of a text and the numeric for.                             *)
(*                                                                         *)
(* An integer has WIDTH bits.  A float has NBM of mantissa and is kept as  *)
(* SCALE times its value; NBM is smaller than WIDTH - 1, as in the build   *)
(* (LUA_32BITS: 31 and 24), so that some integers have no float.           *)
(***************************************************************************)
EXTENDS Integers, Sequences, FiniteSets, SequencesExt

WIDTH == 6
NBM == 3
SCALE == 4
LUA_MAXINTEGER == 2^(WIDTH - 1) - 1
LUA_MININTEGER == -2^(WIDTH - 1)
Integer == LUA_MININTEGER .. LUA_MAXINTEGER
INF == 256
NAN == 1000
Positive == {m * 2^e : m \in 0 .. 2^NBM - 1, e \in 0 .. 5} \cup {INF}
Finite == (Positive \cup {-f : f \in Positive}) \ {INF, -INF}
Float == Finite \cup {INF, -INF, NAN}

int(n) == [t |-> "int", v |-> n]
flt(x) == [t |-> "flt", v |-> x]
None == [t |-> "none", v |-> 0]
Abs(n) == IF n < 0 THEN -n ELSE n

\* The outcomes of the C operators.
intop(n) == ((n - LUA_MININTEGER) % 2^WIDTH) + LUA_MININTEGER
l_castS2U(n) == n % 2^WIDTH
Quotient(m, n) == LET q == Abs(m) \div Abs(n) IN IF (m < 0) = (n < 0) THEN q ELSE -q
Remainder(m, n) == m - n * Quotient(m, n)
\* The float next to p / q, the even one of two.
Nearest(p, q) ==
  LET n == Abs(p)
      unit == CHOOSE u \in {2^e : e \in 0 .. 6} : (u = 2^6 \/ n < 2^NBM * u * q) /\ (u = 1 \/ n >= 2^(NBM - 1) * u * q)
      m == n \div (unit * q)
      twice == 2 * (n % (unit * q))
      up == twice > unit * q \/ (twice = unit * q /\ m % 2 = 1)
      f == IF unit = 2^6 THEN INF ELSE (IF up THEN m + 1 ELSE m) * unit
  IN IF p < 0 THEN -f ELSE f
cast_num == [i \in Integer |-> Nearest(i * SCALE, 1)]
cast_int(f) == Quotient(f, SCALE)
l_floor(f) == IF f \in Finite THEN SCALE * (f \div SCALE) ELSE f
Sum(f, g) == CASE f = NAN \/ g = NAN \/ (f = INF /\ g = -INF) \/ (f = -INF /\ g = INF) -> NAN
               [] f \in Finite /\ g \in Finite -> Nearest(f + g, 1)
               [] f \notin Finite -> f [] OTHER -> g
luai_numlt(f, g) == f # NAN /\ g # NAN /\ f < g
luai_numle(f, g) == f # NAN /\ g # NAN /\ f <= g

-----------------------------------------------------------------------------
(* Integers *)

luaV_div(m, n) ==
  IF l_castS2U(n + 1) <= 1 THEN IF n = 0 THEN None ELSE int(intop(-m))
  ELSE int(Quotient(m, n) - (IF (m < 0) # (n < 0) /\ Remainder(m, n) # 0 THEN 1 ELSE 0))
luaV_mod(m, n) ==
  IF l_castS2U(n + 1) <= 1 THEN IF n = 0 THEN None ELSE int(0)
  ELSE int(Remainder(m, n) + (IF Remainder(m, n) # 0 /\ (m < 0) # (n < 0) THEN n ELSE 0))
luaV_shiftl(x, y) ==
  CASE y <= -WIDTH \/ y >= WIDTH -> 0
    [] y \in -WIDTH + 1 .. -1 -> intop(l_castS2U(x) \div 2^(-y))
    [] OTHER -> intop(l_castS2U(x) * 2^y)
math_abs(n) == IF n < 0 THEN intop(0 - l_castS2U(n)) ELSE n
math_fmod(m, d) == IF l_castS2U(d + 1) <= 1 THEN IF d = 0 THEN None ELSE int(0) ELSE int(Remainder(m, d))
math_ult(a, b) == l_castS2U(a) < l_castS2U(b)
\* rand: what l_rand gives, of randmax + 1 values.
math_random(low, up, rand, randmax) ==
  IF low > up \/ (low < 0 /\ up > LUA_MAXINTEGER + low) THEN None
  ELSE int(intop((rand * (up - low + 1)) \div (randmax + 1) + low))

RECURSIVE coarse(_, _), fine(_, _), halved(_, _)
coarse(x, e) == IF x >= 8 * 16 THEN coarse((x + 15) \div 16, e + 4) ELSE <<x, e>>
fine(x, e) == IF x >= 8 * 2 THEN fine((x + 1) \div 2, e + 1) ELSE <<x, e>>
luaO_int2fb(x) == IF x < 8 THEN x ELSE LET c == coarse(x, 0)  f == fine(c[1], c[2]) IN (f[2] + 1) * 8 + (f[1] - 8)
luaO_fb2int(x) == IF x < 8 THEN x ELSE ((x % 8) + 8) * 2^(x \div 8 - 1)
halved(x, l) == IF x >= 256 THEN halved(x \div 256, l + 8) ELSE <<x, l>>
log_2(x) == CHOOSE l \in 0 .. 8 : 2^l > x /\ \A k \in 0 .. l - 1 : 2^k <= x
luaO_ceillog2(x) == LET h == halved(x - 1, 0) IN h[2] + log_2(h[1])

-----------------------------------------------------------------------------
(* Between integers and floats *)

lua_numbertointeger(f) ==
  IF luai_numle(LUA_MININTEGER * SCALE, f) /\ luai_numlt(f, -(LUA_MININTEGER * SCALE)) THEN int(cast_int(f)) ELSE None
\* mode: 0 takes whole numbers only, 1 the floor, 2 the ceiling.
luaV_tointeger(obj, mode) ==
  LET f == l_floor(obj.v)
      up == IF mode > 1 THEN Sum(f, SCALE) ELSE f
  IN CASE obj.t = "flt" -> IF obj.v # NAN /\ obj.v = f THEN lua_numbertointeger(f)
                           ELSE IF mode = 0 THEN None ELSE lua_numbertointeger(up)
       [] obj.t = "int" -> obj
       [] OTHER -> None
tonumber(obj) == IF obj.t = "int" THEN cast_num[obj.v] ELSE obj.v
pushnumint(d) == IF lua_numbertointeger(d) # None THEN lua_numbertointeger(d) ELSE flt(d)
math_floor(o) == IF o.t = "int" THEN o ELSE pushnumint(l_floor(o.v))
l_ceil(f) == IF f \in Finite THEN -l_floor(-f) ELSE f
math_ceil(o) == IF o.t = "int" THEN o ELSE pushnumint(l_ceil(o.v))
math_modf(o) ==
  LET ip == IF luai_numlt(o.v, 0) THEN l_ceil(o.v) ELSE l_floor(o.v)
  IN IF o.t = "int" THEN <<o, flt(0)>>
     ELSE <<pushnumint(ip), flt(IF o.v # NAN /\ o.v = ip THEN 0 ELSE IF o.v = NAN THEN NAN ELSE o.v - ip)>>

\* Is the integer a float, too?  (Mutant: any is.)
alwaysfitsf(i) == TRUE
l_intfitsf(i) == -(2^NBM) <= i /\ i <= 2^NBM
LTintfloat(i, f) ==
  IF l_intfitsf(i) THEN luai_numlt(cast_num[i], f)
  ELSE luai_numle(-cast_num[LUA_MININTEGER], f) \/ (luai_numlt(cast_num[LUA_MININTEGER], f) /\ i < cast_int(f))
LEintfloat(i, f) ==
  IF l_intfitsf(i) THEN luai_numle(cast_num[i], f)
  ELSE luai_numle(-cast_num[LUA_MININTEGER], f) \/ (luai_numle(cast_num[LUA_MININTEGER], f) /\ i <= cast_int(f))
LTnum(l, r) ==
  CASE l.t = "int" /\ r.t = "int" -> l.v < r.v
    [] l.t = "int" /\ r.t = "flt" -> LTintfloat(l.v, r.v)
    [] l.t = "flt" /\ r.t = "flt" -> luai_numlt(l.v, r.v)
    [] OTHER -> l.v # NAN /\ ~LEintfloat(r.v, l.v)
LEnum(l, r) ==
  CASE l.t = "int" /\ r.t = "int" -> l.v <= r.v
    [] l.t = "int" /\ r.t = "flt" -> LEintfloat(l.v, r.v)
    [] l.t = "flt" /\ r.t = "flt" -> luai_numle(l.v, r.v)
    [] OTHER -> l.v # NAN /\ ~LTintfloat(r.v, l.v)
luaV_equalobj(l, r) ==
  IF l.t # r.t THEN LET i == luaV_tointeger(l, 0)  j == luaV_tointeger(r, 0) IN i # None /\ j # None /\ i = j
  ELSE l.v = r.v /\ l.v # NAN

-----------------------------------------------------------------------------
(* Numerals (lobject.c); a text is a sequence of characters *)

Space == {" "}
DecDigit == {"0", "1", "2", "3", "4", "5", "6", "7", "8", "9"}
HexDigit == DecDigit \cup {"a", "b", "c", "d", "e", "f"}
luaO_hexavalue == [c \in HexDigit |-> SelectInSeq(<<"0", "1", "2", "3", "4", "5", "6", "7", "8", "9", "a", "b", "c", "d", "e", "f">>,
                                                  LAMBDA x : x = c) - 1]
CharAt(s, i) == IF i \in DOMAIN s THEN s[i] ELSE "\\0"
RECURSIVE Skip(_, _, _)
Skip(s, i, S) == IF CharAt(s, i) \in S THEN Skip(s, i + 1, S) ELSE i
isneg(s, i) == CharAt(s, i) = "-"
AfterSign(s, i) == IF CharAt(s, i) \in {"-", "+"} THEN i + 1 ELSE i
IsHex(s, i) == CharAt(s, i) = "0" /\ CharAt(s, i + 1) = "x"

MAXBY10 == LUA_MAXINTEGER \div 10
MAXLASTD == LUA_MAXINTEGER % 10
TooLarge(a, d, neg) == a >= MAXBY10 /\ (a > MAXBY10 \/ d > MAXLASTD + (IF neg THEN 1 ELSE 0))
RECURSIVE hexadecimal(_, _, _), decimal(_, _, _, _)
hexadecimal(s, i, a) ==
  IF CharAt(s, i) \in HexDigit THEN hexadecimal(s, i + 1, (a * 16 + luaO_hexavalue[s[i]]) % 2^WIDTH) ELSE [a |-> a, i |-> i]
decimal(s, i, a, neg) ==
  LET d == luaO_hexavalue[s[i]] IN
  IF CharAt(s, i) \notin DecDigit THEN [a |-> a, i |-> i]
  ELSE IF TooLarge(a, d, neg) THEN [a |-> a, i |-> 0] ELSE decimal(s, i + 1, a * 10 + d, neg)
l_str2int(s) ==
  LET sign == Skip(s, 1, Space)
      neg == isneg(s, sign)
      at == AfterSign(s, sign)
      b == IF IsHex(s, at) THEN at + 2 ELSE at
      r == IF IsHex(s, at) THEN hexadecimal(s, b, 0) ELSE decimal(s, b, 0, neg)
  IN IF r.i = b \/ r.i = 0 \/ Skip(s, r.i, Space) # Len(s) + 1 THEN None
     ELSE int(intop(IF neg THEN 0 - r.a ELSE r.a))

\* strtof: the longest numeral at the start of s, where it ends (0: none) and its value.
EXPMAX == 4
Clamp(e) == IF e > EXPMAX THEN EXPMAX ELSE IF e < -EXPMAX THEN -EXPMAX ELSE e
RECURSIVE Digits(_, _, _, _, _)
Digits(s, i, j, base, a) == IF i = j THEN a ELSE Digits(s, i + 1, j, base, IF s[i] = "." THEN a ELSE a * base + luaO_hexavalue[s[i]])
strtof(s) ==
  LET sign == Skip(s, 1, Space)
      at == AfterSign(s, sign)
      hex == IsHex(s, at) /\ (CharAt(s, at + 2) \in HexDigit \/ (CharAt(s, at + 2) = "." /\ CharAt(s, at + 3) \in HexDigit))
      base == IF hex THEN 16 ELSE 10
      D == IF hex THEN HexDigit ELSE DecDigit
      b == IF hex THEN at + 2 ELSE at
      dot == Skip(s, b, D)
      e == IF CharAt(s, dot) = "." THEN Skip(s, dot + 1, D) ELSE dot
      n == e - b - (IF e = dot THEN 0 ELSE 1)
      places == IF e = dot THEN 0 ELSE e - dot - 1
      x == AfterSign(s, e + 1)
      end == Skip(s, x, DecDigit)
      hasexp == CharAt(s, e) = (IF hex THEN "p" ELSE "e") /\ end > x
      exp == IF ~hasexp THEN 0 ELSE Clamp((IF CharAt(s, e + 1) = "-" THEN -1 ELSE 1) * Digits(s, x, end, 10, 0))
      ebase == IF hex THEN 2 ELSE 10
      p == SCALE * Digits(s, b, e, base, 0) * (IF exp > 0 THEN ebase^exp ELSE 1)
      q == base^places * (IF exp < 0 THEN ebase^(-exp) ELSE 1)
  IN IF n = 0 THEN [end |-> 0, v |-> 0]
     ELSE [end |-> IF hasexp THEN end ELSE e, v |-> IF isneg(s, sign) THEN -Nearest(p, q) ELSE Nearest(p, q)]
l_str2d(s) ==
  LET r == strtof(s) IN
  IF ToSet(s) \cap {"n", "N"} # {} \/ r.end = 0 \/ Skip(s, r.end, Space) # Len(s) + 1 THEN None ELSE flt(r.v)
luaO_str2num(s) == IF l_str2int(s) # None THEN l_str2int(s) ELSE l_str2d(s)

-----------------------------------------------------------------------------
(* The numeric for (lvm.c): what it starts with, and each step *)

forlimit(obj, step) ==
  LET i == luaV_tointeger(obj, IF step < 0 THEN 2 ELSE 1)
      n == tonumber(obj)
  IN IF i # None THEN [limit |-> i.v, stopnow |-> FALSE]
     ELSE IF luai_numlt(0, n) THEN [limit |-> LUA_MAXINTEGER, stopnow |-> step < 0]
     ELSE [limit |-> LUA_MININTEGER, stopnow |-> step >= 0]
forprep(init, limit, step) ==
  LET l == forlimit(limit, step.v)
      initv == IF l.stopnow THEN 0 ELSE init.v
  IN IF init.t = "int" /\ step.t = "int" THEN [idx |-> int(intop(initv - step.v)), limit |-> int(l.limit), step |-> step]
     ELSE [idx |-> flt(Sum(tonumber(init), -tonumber(step))), limit |-> flt(tonumber(limit)), step |-> flt(tonumber(step))]
forstep(loop) ==
  IF loop.idx.t = "int" THEN int(intop(loop.idx.v + loop.step.v)) ELSE flt(Sum(loop.idx.v, loop.step.v))
forloop(loop) ==
  LET idx == forstep(loop) IN
  CASE idx.t = "int" -> IF 0 < loop.step.v THEN idx.v <= loop.limit.v ELSE loop.limit.v <= idx.v
    [] OTHER -> IF luai_numlt(0, loop.step.v) THEN luai_numle(idx.v, loop.limit.v) ELSE luai_numle(loop.limit.v, idx.v)
RECURSIVE Visited(_, _)
Visited(loop, n) ==
  IF n = 0 \/ ~forloop(loop) THEN <<>> ELSE <<forstep(loop)>> \o Visited([loop EXCEPT !.idx = forstep(loop)], n - 1)

-----------------------------------------------------------------------------
(* What the numbers mean, without widths and rounding *)

Exact(o) == IF o.t = "int" THEN o.v * SCALE ELSE o.v
Integers == {int(n) : n \in Integer}
Numbers == Integers \cup {flt(f) : f \in Float}
Floor(p, q) == IF q > 0 THEN p \div q ELSE (-p) \div (-q)

\* An integer and a float are compared without rounding either.
ComparedRight(l, r) ==
  LET nan == l = flt(NAN) \/ r = flt(NAN) IN
  /\ LTnum(l, r) = (~nan /\ Exact(l) < Exact(r))
  /\ LEnum(l, r) = (~nan /\ Exact(l) <= Exact(r))
  /\ luaV_equalobj(l, r) = (~nan /\ Exact(l) = Exact(r))
\* Division rounds down, shifts drop bits, and all wrap.
ComputedRight(m, n) ==
  /\ luaV_div(m, n) = (IF n = 0 THEN None ELSE int(intop(Floor(m, n))))
  /\ luaV_mod(m, n) = (IF n = 0 THEN None ELSE int(m - n * Floor(m, n)))
  /\ luaV_shiftl(m, n) = (IF n < 0 THEN IF n <= -WIDTH THEN 0 ELSE intop(l_castS2U(m) \div 2^(-n))
                          ELSE intop(m * 2^(IF n > WIDTH THEN WIDTH ELSE n)))
  /\ math_abs(m) = (IF m < 0 THEN intop(-m) ELSE m)
  /\ n # 0 => LET r == math_fmod(m, n).v IN (m - r) % Abs(n) = 0 /\ r * m >= 0 /\ r * r < n * n
  /\ n = 0 => math_fmod(m, n) = None
  /\ math_ult(m, n) = IF (m < 0) = (n < 0) THEN m < n ELSE n < 0
  /\ \A rand \in 0 .. 7 : LET r == math_random(m, n, rand, 7) IN
       IF m <= n /\ n - m <= LUA_MAXINTEGER THEN r.v \in m .. n /\ (rand = 0 => r.v = m) ELSE r = None
\* The whole numbers next to a number, as integers when they fit; nothing is lost in taking it apart.
RoundedRight(o) ==
  LET floor == math_floor(o)
      ceil == math_ceil(o)
      parts == math_modf(o)
      fits(r) == r.t = "int" \/ r.v < LUA_MININTEGER * SCALE \/ r.v > LUA_MAXINTEGER * SCALE
  IN IF o.t = "flt" /\ o.v \notin Finite THEN floor = o /\ ceil = o /\ parts[1] = o
     ELSE /\ Exact(floor) <= Exact(o) /\ Exact(o) < Exact(floor) + SCALE /\ Exact(floor) % SCALE = 0
          /\ Exact(ceil) >= Exact(o) /\ Exact(o) > Exact(ceil) - SCALE /\ Exact(ceil) % SCALE = 0
          /\ fits(floor) /\ fits(ceil) /\ fits(parts[1])
          /\ parts[1] \in {floor, ceil} /\ Exact(parts[1]) + parts[2].v = Exact(o) /\ parts[2].v * Exact(o) >= 0
\* Sizes are rounded up, never down.
SizedRight(x) ==
  /\ luaO_fb2int(luaO_int2fb(x)) >= x
  /\ \A b \in 0 .. luaO_int2fb(x) - 1 : luaO_fb2int(b) < x
  /\ x > 0 => 2^luaO_ceillog2(x) >= x /\ (x > 1 => 2^(luaO_ceillog2(x) - 1) < x)

\* The loop of the manual; its addition wraps as any addition does, so that it goes on at the other
\* end of the integers when the last value is within a step of their end.
\* (A float loop of the code rounds an integer limit first; ManualLoop does so, too.)
RECURSIVE ManualLoop(_, _, _, _)
ManualLoop(var, limit, step, n) ==
  LET next == IF var.t = "int" THEN int(intop(var.v + step.v)) ELSE flt(Sum(var.v, tonumber(step)))
      bound == IF var.t = "int" THEN limit ELSE flt(tonumber(limit))
  IN IF n = 0 \/ (IF Exact(step) >= 0 THEN Exact(next) > Exact(bound) ELSE Exact(next) < Exact(bound)) THEN <<>>
     ELSE <<next>> \o ManualLoop(next, limit, step, n - 1)
\* A for is the manual's if its step is not 0 and its limit a number.  An integer loop that has a step
\* left behind its limit never wraps: it visits init, init + step, ... up to the limit and no other value.
\* Elsewhere code and manual differ, and the rest says how: with a NaN for a limit there is no iteration,
\* unless an integer loop goes down (it goes to the last integer), where the manual's never stops; a step
\* of 0 counts as one that goes down, where the manual's goes up, but both repeat one value or none.
LoopedRight(init, limit, step) ==
  LET whole == init.t = "int" /\ step.t = "int"
      nan == limit = flt(NAN)
      var == IF whole THEN int(intop(init.v - step.v)) ELSE flt(Sum(tonumber(init), -tonumber(step)))
      seen == Visited(forprep(init, limit, step), 5)
      value(i) == init.v + (i - 1) * step.v
      reached(n) == IF step.v > 0 THEN n * SCALE <= Exact(limit) ELSE n * SCALE >= Exact(limit)
      room == IF step.v > 0 THEN Exact(limit) + Exact(step) <= LUA_MAXINTEGER * SCALE
              ELSE Exact(limit) + Exact(step) >= LUA_MININTEGER * SCALE
      fits == ~nan /\ Exact(limit) \in LUA_MININTEGER * SCALE .. LUA_MAXINTEGER * SCALE
  IN /\ step.v # 0 /\ ~nan => seen = ManualLoop(var, limit, step, 5)
     /\ step.v # 0 /\ ~nan /\ whole /\ room =>
          \A i \in 1 .. 5 : IF reached(value(i)) THEN seen[i] = int(value(i)) ELSE Len(seen) < i
     /\ step.v # 0 /\ nan => seen = IF whole /\ step.v < 0 THEN ManualLoop(var, int(LUA_MININTEGER), step, 5) ELSE <<>>
     /\ step.v = 0 => seen = <<>> \/ (Len(seen) = 5 /\ ToSet(seen) = {seen[1]})
     /\ step.v = 0 /\ whole /\ fits => (seen = IF Exact(limit) < Exact(init) + SCALE THEN [i \in 1 .. 5 |-> init] ELSE <<>>)
     /\ step.v = 0 /\ ~whole => (seen # <<>>) = (~nan /\ tonumber(limit) <= tonumber(init))

\* The number that a numeral stands for.
Strip(s) == LET S == {i \in DOMAIN s : s[i] \notin Space} IN
  IF S = {} THEN <<>> ELSE SubSeq(s, CHOOSE i \in S : \A j \in S : i <= j, CHOOSE i \in S : \A j \in S : j <= i)
Unsigned(s) == IF s # <<>> /\ s[1] \in {"+", "-"} THEN Tail(s) ELSE s
AllOf(s, D) == ToSet(s) \subseteq D
ReadRight(s) ==
  LET t == Strip(s)
      u == Unsigned(t)
      sign == IF CharAt(t, 1) = "-" THEN -1 ELSE 1
      hex == IsHex(u, 1)
      D == IF hex THEN HexDigit ELSE DecDigit
      base == IF hex THEN 16 ELSE 10
      w == IF hex THEN SubSeq(u, 3, Len(u)) ELSE u
      x == SelectInSeq(w, LAMBDA c : c = IF hex THEN "p" ELSE "e")
      mant == IF x = 0 THEN w ELSE SubSeq(w, 1, x - 1)
      exp == IF x = 0 THEN <<"0">> ELSE SubSeq(w, x + 1, Len(w))
      dot == SelectInSeq(mant, LAMBDA c : c = ".")
      whole == IF dot = 0 THEN mant ELSE SubSeq(mant, 1, dot - 1)
      part == IF dot = 0 THEN <<>> ELSE SubSeq(mant, dot + 1, Len(mant))
      digits == whole \o part
      n == sign * Digits(digits, 1, Len(digits) + 1, base, 0)
      e == (IF CharAt(exp, 1) = "-" THEN -1 ELSE 1) * Digits(Unsigned(exp), 1, Len(Unsigned(exp)) + 1, 10, 0)
      wf == digits # <<>> /\ AllOf(digits, D) /\ Unsigned(exp) # <<>> /\ AllOf(Unsigned(exp), DecDigit)
      Power(k) == (IF hex THEN 2 ELSE 10)^(IF k > EXPMAX THEN EXPMAX ELSE IF k < 0 THEN 0 ELSE k)
      r == luaO_str2num(s)
  IN CASE ~wf -> r = None
       [] wf /\ x = 0 /\ dot = 0 /\ (hex \/ n \in Integer) -> r = int(intop(n))
       [] OTHER -> r = flt(Nearest(n * SCALE * Power(e), base^Len(part) * Power(-e)))
=============================================================================
