-------------------------------- MODULE Utf8 ---------------------------------
(***************************************************************************)
(* UTF-8 (lutf8lib.c and luaO_utf8esc of lobject.c).  A string is the      *)
(* sequence of its bytes; a zero follows its last byte.                    *)
(***************************************************************************)
EXTENDS Integers, Sequences, SequencesExt

MAXUNICODE == 1114111
NULL == -1
ERR == <<-2>>                  \* an error was raised

byte(s, i) == IF i + 1 \in DOMAIN s THEN s[i + 1] ELSE 0       \* i counts from 0
iscont(s, i) == byte(s, i) \div 64 = 2
u_posrelat(pos, len) == CASE pos >= 0 -> pos [] pos < 0 /\ -pos > len -> 0 [] OTHER -> len + pos + 1

\* The bytes of x; the last ones first, as long as x exceeds what the first byte has room for.
RECURSIVE utf8bytes(_, _, _)
utf8bytes(x, mfb, buff) ==
  LET b == <<128 + (x % 64)>> \o buff
      y == x \div 64
      m == mfb \div 2
  IN IF y > m THEN utf8bytes(y, m, b) ELSE <<(256 - 2 * (m + 1)) + y>> \o b
luaO_utf8esc(x) == IF x < 128 THEN <<x>> ELSE utf8bytes(x, 63, <<>>)

\* The largest code that a shorter encoding has.  (Mutant: longer encodings are taken.)
nolimits == <<-1, -1, -1, -1>>
limits == <<255, 127, 2047, 65535>>
RECURSIVE continuations(_, _, _, _)
continuations(s, o, c, count) ==       \* the continuation bytes that bits of c ask for; 4 are too many already
  IF (c \div 64) % 2 = 0 \/ count > 3 THEN count
  ELSE IF iscont(s, o + count + 1) THEN continuations(s, o, c * 2, count + 1) ELSE NULL
\* The character at o: its code and where the next one starts.
utf8_decode(s, o) ==
  LET c == byte(s, o)
      count == continuations(s, o, c, 0)
      cc == [i \in 1 .. count |-> byte(s, o + i) % 64]
      res == FoldLeft(LAMBDA r, x : r * 64 + x, 0, cc) + ((c * 2^count) % 128) * 2^(5 * count)
  IN CASE c < 128 -> [code |-> c, next |-> o + 1]
       [] c >= 128 /\ (count = NULL \/ count > 3) -> [code |-> NULL, next |-> NULL]
       [] OTHER -> IF res > MAXUNICODE \/ res <= limits[count + 1] THEN [code |-> NULL, next |-> NULL]
                   ELSE [code |-> res, next |-> o + count + 1]

-----------------------------------------------------------------------------
(* The functions of the library *)

RECURSIVE lenfrom(_, _, _, _)
lenfrom(s, posi, posj, n) ==
  LET d == utf8_decode(s, posi) IN
  IF posi > posj THEN <<n>> ELSE IF d.next = NULL THEN <<NULL, posi + 1>> ELSE lenfrom(s, d.next, posj, n + 1)
utflen(s, i, j) ==
  LET posi == u_posrelat(i, Len(s))
      posj == u_posrelat(j, Len(s))
  IN IF ~(1 <= posi /\ posi - 1 <= Len(s)) \/ posj - 1 >= Len(s) THEN ERR ELSE lenfrom(s, posi - 1, posj - 1, 0)

RECURSIVE codesfrom(_, _, _)
codesfrom(s, o, se) ==
  LET d == utf8_decode(s, o)
      rest == codesfrom(s, d.next, se)
  IN IF o >= se THEN <<>> ELSE IF d.next = NULL \/ rest = ERR THEN ERR ELSE <<d.code>> \o rest
codepoint(s, i, j) ==
  LET posi == u_posrelat(i, Len(s))
      pose == u_posrelat(j, Len(s))
  IN IF posi < 1 \/ pose > Len(s) THEN ERR ELSE IF posi > pose THEN <<>> ELSE codesfrom(s, posi - 1, pose)

utfchar(codes) ==
  IF \E c \in ToSet(codes) : c \notin 0 .. MAXUNICODE THEN ERR
  ELSE FlattenSeq([i \in DOMAIN codes |-> luaO_utf8esc(codes[i])])

\* The n-th character from posi on, or from posi back.
RECURSIVE tofirst(_, _), back(_, _, _), forward(_, _, _)
tofirst(s, o) == IF o > 0 /\ iscont(s, o) THEN tofirst(s, o - 1) ELSE o
backChar(s, o) == tofirst(s, o - 1)
back(s, o, n) == IF n < 0 /\ o > 0 THEN back(s, backChar(s, o), n + 1) ELSE [o |-> o, n |-> n]
NextStart(s, o) == CHOOSE p \in o + 1 .. Len(s) + 1 : ~iscont(s, p) /\ \A q \in o + 1 .. p - 1 : iscont(s, q)
forward(s, o, n) == IF n > 0 /\ o < Len(s) THEN forward(s, NextStart(s, o), n - 1) ELSE [o |-> o, n |-> n]
byteoffset(s, n, i) ==
  LET posi == u_posrelat(i, Len(s))
      o == posi - 1
      r == CASE n = 0 -> [o |-> tofirst(s, o), n |-> 0] [] n < 0 -> back(s, o, n) [] n > 0 -> forward(s, o, n - 1)
  IN IF ~(1 <= posi /\ o <= Len(s)) \/ (n # 0 /\ iscont(s, o)) THEN ERR
     ELSE IF r.n = 0 THEN <<r.o + 1>> ELSE <<NULL>>

\* The steps of utf8.codes: position and code of each character.
iter_aux(s, control) ==
  LET n == control - 1
      o == IF n < 0 THEN 0 ELSE IF n < Len(s) THEN NextStart(s, n) ELSE n
      d == utf8_decode(s, o)
  IN IF o >= Len(s) THEN <<>> ELSE IF d.next = NULL THEN ERR ELSE IF iscont(s, d.next) THEN ERR ELSE <<o + 1, d.code>>
RECURSIVE itercodes(_, _)
itercodes(s, control) ==
  LET r == iter_aux(s, control)
      rest == itercodes(s, r[1])
  IN IF r \in {<<>>, ERR} THEN IF r = ERR THEN <<ERR>> ELSE <<>> ELSE <<r>> \o rest

-----------------------------------------------------------------------------
(* What a string of characters is *)

\* The bytes of x by the ranges of the encoding.
Encoded(x) ==
  CASE x < 128 -> <<x>>
    [] x \in 128 .. 2047 -> <<192 + x \div 64, 128 + (x % 64)>>
    [] x \in 2048 .. 65535 -> <<224 + x \div 4096, 128 + ((x \div 64) % 64), 128 + (x % 64)>>
    [] OTHER -> <<240 + x \div 262144, 128 + ((x \div 4096) % 64), 128 + ((x \div 64) % 64), 128 + (x % 64)>>
\* The characters that a string starts with: a code c fits when its bytes are a prefix.
Lead(s) ==
  LET n == CASE s[1] < 192 -> 1 [] s[1] \in 192 .. 223 -> 2 [] s[1] \in 224 .. 239 -> 3 [] OTHER -> 4
      bits == CASE n = 1 -> s[1] [] n = 2 -> s[1] - 192 [] n = 3 -> s[1] - 224 [] OTHER -> s[1] - 240
      c == FoldLeft(LAMBDA r, x : r * 64 + (x % 64), bits, SubSeq(s, 2, n))
  IN IF n <= Len(s) /\ c <= MAXUNICODE THEN IF IsPrefix(Encoded(c), s) THEN c ELSE NULL ELSE NULL
RECURSIVE Chars(_, _)
Chars(s, i) ==      \* <<position, code>> of each character up to the first that is none
  LET c == Lead(SubSeq(s, i, Len(s))) IN
  IF i > Len(s) THEN <<>> ELSE IF c = NULL THEN <<<<i, NULL>>>> ELSE <<<<i, c>>>> \o Chars(s, i + Len(Encoded(c)))

\* Characters are taken exactly where the string encodes them in the shortest way.
DecodedRight(s) ==
  LET cs == Chars(s, 1)
      good == \A k \in DOMAIN cs : cs[k][2] # NULL
      codes == [k \in DOMAIN cs |-> cs[k][2]]
      n == Len(cs)
      At_(k) == IF k = n + 1 THEN Len(s) + 1 ELSE cs[k][1]
  IN /\ utflen(s, 1, -1) = (IF good THEN <<n>> ELSE <<NULL, cs[n][1]>>)
     /\ codepoint(s, 1, -1) = (IF good THEN codes ELSE ERR)
     /\ good => /\ utfchar(codes) = s
                /\ itercodes(s, 0) = cs
                /\ \A a \in 1 .. n, b \in 1 .. n : a <= b => codepoint(s, At_(a), At_(b)) = SubSeq(codes, a, b)
                /\ \A a \in 1 .. n + 1, k \in -n .. n + 1 :
                     byteoffset(s, k, At_(a)) =
                       CASE k = 0 -> <<At_(a)>>
                         [] k > 0 -> IF a + k - 1 > n + 1 THEN <<NULL>> ELSE <<At_(a + k - 1)>>
                         [] k < 0 -> IF a + k < 1 THEN <<NULL>> ELSE <<At_(a + k)>>
EncodedRight(x) == luaO_utf8esc(x) = Encoded(x) /\ DecodedRight(Encoded(x) \o Encoded(97) \o Encoded(x))
=============================================================================
