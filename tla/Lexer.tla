-------------------------------- MODULE Lexer --------------------------------
(***************************************************************************)
(* The scanner (llex.c).  A source is a sequence of characters, a token    *)
(* its kind (the characters of an operator or a reserved word, or the name *)
(* of a class) with its value: the bytes of a string or a name, a number.  *)
(***************************************************************************)
EXTENDS Numbers, Utf8

EOZ == "\\0"
Ascii ==
  {<<"\n", 10>>, <<"\r", 13>>, <<" ", 32>>, <<"\"", 34>>, <<"'", 39>>, <<"+", 43>>, <<"-", 45>>, <<".", 46>>, <<"/", 47>>,
   <<"0", 48>>, <<"1", 49>>, <<"3", 51>>, <<"4", 52>>, <<"5", 53>>, <<"6", 54>>, <<"7", 55>>, <<"9", 57>>, <<":", 58>>, <<"<", 60>>,
   <<"=", 61>>, <<">", 62>>, <<"[", 91>>, <<"\\", 92>>, <<"]", 93>>, <<"a", 97>>, <<"b", 98>>, <<"d", 100>>, <<"e", 101>>,
   <<"n", 110>>, <<"o", 111>>, <<"u", 117>>, <<"x", 120>>, <<"z", 122>>, <<"{", 123>>, <<"}", 125>>, <<"~", 126>>}
code == [c \in {p[1] : p \in Ascii} |-> (CHOOSE p \in Ascii : p[1] = c)[2]]
Newline == {"\n", "\r"}
Alpha == {"a", "b", "d", "e", "n", "o", "u", "x", "z"}
Reserved == {<<"d", "o">>, <<"e", "n", "d">>}                  \* of the 22
Seconds == [c \in {"=", "<", ">", "/", "~", ":"} |->
              CASE c \in {"=", "~"} -> {"="} [] c = "<" -> {"=", "<"} [] c = ">" -> {"=", ">"} [] OTHER -> {c}]
TK_EOS == <<"<eof>">>
TK_NAME == <<"<name>">>
TK_STRING == <<"<string>">>
TK_INT == <<"<integer>">>
TK_FLT == <<"<number>">>

\* ls: where it is in the source, the buffer, the line, and the error if one was raised.
current(ls) == CharAt(ls.src, ls.i)
currIsNewline(ls) == current(ls) \in Newline
next(ls) == [ls EXCEPT !.i = @ + 1]
save(ls, c) == [ls EXCEPT !.buff = Append(@, c)]
save_and_next(ls) == next(save(ls, code[current(ls)]))
buffremove(ls, n) == [ls EXCEPT !.buff = SubSeq(@, 1, Len(@) - n)]
resetbuffer(ls) == [ls EXCEPT !.buff = <<>>]
lexerror(ls, msg) == IF ls.error = "" THEN [ls EXCEPT !.error = msg] ELSE ls
inclinenumber(ls) ==
  LET old == current(ls)
      n == next(ls)
  IN [(IF currIsNewline(n) /\ current(n) # old THEN next(n) ELSE n) EXCEPT !.line = @ + 1]

-----------------------------------------------------------------------------
(* Long brackets *)

RECURSIVE skip_equals(_, _)
skip_equals(ls, count) == IF current(ls) = "=" THEN skip_equals(save_and_next(ls), count + 1) ELSE [ls |-> ls, count |-> count]
skip_sep(ls) ==
  LET r == skip_equals(save_and_next(ls), 0) IN
  [ls |-> r.ls, sep |-> IF current(r.ls) = current(ls) THEN r.count + 2 ELSE IF r.count = 0 THEN 1 ELSE 0]
RECURSIVE longbody(_, _, _)
longbody(ls, keep, sep) ==
  LET s == skip_sep(ls)
      line == inclinenumber(IF keep THEN save(ls, code["\n"]) ELSE resetbuffer(ls))
  IN CASE current(ls) = EOZ -> lexerror(ls, "unfinished long string")
       [] current(ls) = "]" -> IF s.sep = sep THEN save_and_next(s.ls) ELSE longbody(s.ls, keep, sep)
       [] currIsNewline(ls) -> longbody(line, keep, sep)
       [] OTHER -> longbody(IF keep THEN save_and_next(ls) ELSE next(ls), keep, sep)
read_long_string(ls, keep, sep) ==
  LET first == save_and_next(ls) IN longbody(IF currIsNewline(first) THEN inclinenumber(first) ELSE first, keep, sep)

-----------------------------------------------------------------------------
(* Escape sequences: how many characters they leave in the buffer, and the value *)

IsHexDigit(ls) == current(ls) \in HexDigit
esccheck(ls, c, msg) == IF c THEN ls ELSE lexerror(ls, msg)
gethexa(ls) == LET n == save_and_next(ls) IN esccheck(n, IsHexDigit(n), "hexadecimal digit expected")
readhexaesc(ls) ==
  LET a == gethexa(ls)
      b == gethexa(a)
  IN IF a.error # "" THEN [ls |-> a, r |-> 0] ELSE IF b.error # "" THEN [ls |-> b, r |-> 0]
     ELSE [ls |-> buffremove(b, 2), r |-> luaO_hexavalue[current(a)] * 16 + luaO_hexavalue[current(b)]]
RECURSIVE utf8digits(_, _, _)
utf8digits(ls, i, r) ==
  LET n == save_and_next(ls)
      q == r * 16 + luaO_hexavalue[current(n)]
  IN CASE ~IsHexDigit(n) -> [ls |-> n, i |-> i, r |-> r]
       [] IsHexDigit(n) /\ q > MAXUNICODE -> [ls |-> lexerror(n, "UTF-8 value too large"), i |-> i, r |-> 0]
       [] OTHER -> utf8digits(n, i + 1, q)
readutf8esc(ls) ==
  LET open == save_and_next(ls)
      first == gethexa(open)
      r == utf8digits(first, 4, luaO_hexavalue[current(first)])
      close == esccheck(r.ls, current(r.ls) = "}", "missing '}'")
  IN CASE current(open) # "{" -> [ls |-> lexerror(open, "missing '{'"), r |-> 0]
       [] current(open) = "{" /\ first.error # "" -> [ls |-> first, r |-> 0]
       [] OTHER -> IF close.error # "" THEN [ls |-> close, r |-> 0] ELSE [ls |-> buffremove(next(close), r.i), r |-> r.r]
utf8esc(ls) == LET r == readutf8esc(ls) IN [r.ls EXCEPT !.buff = @ \o luaO_utf8esc(r.r)]
RECURSIVE decdigits(_, _, _)
decdigits(ls, i, r) ==
  IF i < 3 /\ current(ls) \in DecDigit THEN decdigits(save_and_next(ls), i + 1, 10 * r + luaO_hexavalue[current(ls)])
  ELSE [ls |-> ls, i |-> i, r |-> r]
readdecesc(ls) ==
  LET d == decdigits(ls, 0, 0) IN [ls |-> buffremove(esccheck(d.ls, d.r <= 255, "decimal escape too large"), d.i), r |-> d.r]
RECURSIVE zap(_)
zap(ls) ==
  IF currIsNewline(ls) THEN zap(inclinenumber(ls)) ELSE IF current(ls) \in Space THEN zap(next(ls)) ELSE ls

only_save(ls, c) == IF ls.error # "" THEN ls ELSE save(buffremove(ls, 1), c)
read_save(ls, c) == IF ls.error # "" THEN ls ELSE only_save(next(ls), c)
escape(ls) ==                   \* after the backslash, which is in the buffer
  LET c == current(ls)
      x == readhexaesc(ls)
      d == readdecesc(ls)
  IN CASE c = "a" -> read_save(ls, 7) [] c = "b" -> read_save(ls, 8) [] c = "n" -> read_save(ls, 10)
       [] c = "x" -> read_save(x.ls, x.r)
       [] c = "u" -> utf8esc(ls)
       [] c \in Newline -> only_save(inclinenumber(ls), 10)
       [] c \in {"\\", "\"", "'"} -> read_save(ls, code[c])
       [] c = EOZ -> ls
       [] c = "z" -> zap(next(buffremove(ls, 1)))
       [] c \in DecDigit -> only_save(d.ls, d.r)
       [] OTHER -> lexerror(ls, "invalid escape sequence")
RECURSIVE strbody(_, _)
strbody(ls, del) ==
  LET c == current(ls) IN
  CASE ls.error # "" \/ c = del -> ls
    [] ls.error = "" /\ c \in Newline \cup {EOZ} -> lexerror(ls, "unfinished string")
    [] ls.error = "" /\ c = "\\" -> strbody(escape(save_and_next(ls)), del)
    [] OTHER -> strbody(save_and_next(ls), del)
read_string(ls) == LET b == strbody(save_and_next(ls), current(ls)) IN IF b.error # "" THEN b ELSE save_and_next(b)

-----------------------------------------------------------------------------
(* Tokens *)

Token(ls, t, v) == [ls |-> ls, t |-> t, v |-> v]
From(ls, i) == SubSeq(ls.src, i, ls.i - 1)          \* what is in the buffer when nothing in it was changed
StringToken(ls, n) == Token(ls, TK_STRING, SubSeq(ls.buff, n + 1, Len(ls.buff) - n))

RECURSIVE numeral(_, _)
numeral(ls, expo) ==
  LET e == next(ls)
      f == IF current(ls) \in expo THEN IF current(e) \in {"-", "+"} THEN next(e) ELSE e ELSE ls
  IN IF current(f) \in HexDigit \cup {"."} THEN numeral(next(f), expo) ELSE f
read_numeral(ls, start) ==
  LET first == next(ls)
      hex == current(ls) = "0" /\ current(first) = "x"
      n == numeral(IF hex THEN next(first) ELSE first, IF hex THEN {"p"} ELSE {"e"})
      o == luaO_str2num(From(n, start))
  IN IF o = None THEN Token(lexerror(n, "malformed number"), TK_FLT, <<>>)
     ELSE Token(n, IF o.t = "int" THEN TK_INT ELSE TK_FLT, <<o.v>>)
RECURSIVE word(_), restofline(_)
word(ls) == IF current(ls) \in Alpha \cup DecDigit THEN word(next(ls)) ELSE ls
restofline(ls) == IF currIsNewline(ls) \/ current(ls) = EOZ THEN ls ELSE restofline(next(ls))
comment(ls) ==
  LET s == skip_sep(ls)
      long == read_long_string(resetbuffer(s.ls), FALSE, s.sep)
  IN IF current(ls) # "[" THEN restofline(ls) ELSE IF s.sep >= 2 THEN resetbuffer(long) ELSE restofline(resetbuffer(s.ls))
dots(ls) ==
  LET a == next(ls)
      b == next(a)
  IN CASE current(a) = "." -> IF current(b) = "." THEN Token(next(b), <<".", ".", ".">>, <<>>) ELSE Token(b, <<".", ".">>, <<>>)
       [] current(a) \in DecDigit -> read_numeral(a, ls.i)
       [] OTHER -> Token(a, <<".">>, <<>>)
RECURSIVE llex(_)
llex(ls) ==
  LET c == current(ls)
      n == next(ls)
      s == skip_sep(ls)
      w == word(ls)
  IN CASE ls.error # "" \/ c = EOZ -> Token(ls, TK_EOS, <<>>)
       [] ls.error = "" /\ c \in Newline -> llex(inclinenumber(ls))
       [] ls.error = "" /\ c \in Space -> llex(n)
       [] ls.error = "" /\ c = "-" -> IF current(n) = "-" THEN llex(comment(next(n))) ELSE Token(n, <<"-">>, <<>>)
       [] ls.error = "" /\ c = "[" -> IF s.sep >= 2 THEN StringToken(read_long_string(s.ls, TRUE, s.sep), s.sep)
                                      ELSE IF s.sep = 0 THEN Token(lexerror(s.ls, "invalid long string delimiter"), TK_STRING, <<>>)
                                      ELSE Token(s.ls, <<"[">>, <<>>)
       [] ls.error = "" /\ c \in DOMAIN Seconds ->
            IF current(n) \in Seconds[c] THEN Token(next(n), <<c, current(n)>>, <<>>) ELSE Token(n, <<c>>, <<>>)
       [] ls.error = "" /\ c \in {"\"", "'"} -> StringToken(read_string(ls), 1)
       [] ls.error = "" /\ c = "." -> dots(ls)
       [] ls.error = "" /\ c \in DecDigit -> read_numeral(ls, ls.i)
       [] ls.error = "" /\ c \in Alpha -> LET x == From(w, ls.i) IN
            IF x \in Reserved THEN Token(w, x, <<>>) ELSE Token(w, TK_NAME, [k \in DOMAIN x |-> code[x[k]]])
       [] OTHER -> Token(n, <<c>>, <<>>)

\* X: the token, the one looked ahead at (<eof>: none), the line after the last one.
scan(ls) == llex(resetbuffer(ls))
Seen(k) == [t |-> k.t, v |-> k.v]
luaX_setinput(src) ==
  [ls |-> [src |-> src, i |-> 1, buff |-> <<>>, line |-> 1, error |-> ""], t |-> [t |-> <<>>, v |-> <<>>],
   lookahead |-> [t |-> TK_EOS, v |-> <<>>], lastline |-> 1]
luaX_next(X) ==
  LET k == scan(X.ls) IN
  IF X.lookahead.t # TK_EOS
    THEN [X EXCEPT !.t = X.lookahead, !.lookahead.t = TK_EOS, !.lastline = X.ls.line]
  ELSE [X EXCEPT !.t = Seen(k), !.ls = k.ls, !.lastline = X.ls.line]
luaX_lookahead(X) == LET k == scan(X.ls) IN [X EXCEPT !.lookahead = Seen(k), !.ls = k.ls]

-----------------------------------------------------------------------------
(* string.format("%q", s): a source that scans as the bytes of s (lstrlib.c) *)

byteDigits(b) == IF b < 10 THEN <<b>> ELSE <<b \div 10, b % 10>>       \* of a control character
\* As %d, or as %03d when a digit follows.  (Mutant: always as %d.)
escapedBare(b, after) == <<"\\">> \o [k \in DOMAIN byteDigits(b) |-> <<"0", "1", "2", "3", "4", "5", "6", "7", "8", "9">>[byteDigits(b)[k] + 1]]
escaped(b, after) ==
  <<"\\">> \o (IF after \in 48 .. 57 THEN [k \in 1 .. 3 - Len(byteDigits(b)) |-> "0"] ELSE <<>>) \o Tail(escapedBare(b, after))
addquoted(s) ==
  LET Char(b) == CHOOSE c \in DOMAIN code : code[c] = b
      written(k) ==
        IF s[k] \in {34, 92, 10} THEN <<"\\", Char(s[k])>>
        ELSE IF s[k] < 32 THEN escaped(s[k], IF k < Len(s) THEN s[k + 1] ELSE 0)
        ELSE <<Char(s[k])>>
  IN <<"\"">> \o FlattenSeq([k \in DOMAIN s |-> written(k)]) \o <<"\"">>

-----------------------------------------------------------------------------
(* What a source says *)

\* The tokens and the line each one ends in; before the ones in peeks the parser has looked ahead.
RECURSIVE Scanned(_, _, _)
Scanned(X, k, peeks) ==
  LET n == luaX_next(X)
      p == IF k \in peeks THEN luaX_lookahead(n) ELSE n
  IN IF n.t.t = TK_EOS THEN <<[t |-> <<n.ls.error>>, v |-> <<>>, line |-> n.ls.line]>>
     ELSE <<[t |-> n.t.t, v |-> n.t.v, line |-> n.ls.line]>> \o Scanned(p, k + 1, peeks)
Tokens(src, peeks) == Scanned(luaX_setinput(src), 1, peeks)

\* Line breaks from place i on: \r\n and \n\r are one.
RECURSIVE Breaks(_, _)
Breaks(s, i) ==
  CASE i > Len(s) -> 0
    [] i <= Len(s) /\ s[i] \notin Newline -> Breaks(s, i + 1)
    [] OTHER -> 1 + Breaks(s, IF CharAt(s, i + 1) \in Newline \ {s[i]} THEN i + 2 ELSE i + 1)

\* A source that scans has been read to its end, all its lines counted, and is the same to a parser that looks ahead.
ScannedRight(src) ==
  LET ts == Tokens(src, {})
      Kinds(xs) == [k \in DOMAIN xs |-> <<xs[k].t, xs[k].v>>]
      end == ts[Len(ts)]
  IN /\ end.t = <<"">> => end.line = 1 + Breaks(src, 1)
     /\ \A k \in 1 .. Len(ts) - 1 : ts[k].line <= ts[k + 1].line
     /\ \A peeks \in {{1}, {2}, {1, 3}} : Kinds(Tokens(src, peeks)) = Kinds(ts)

\* Tokens are written with gaps around them; words : <<characters, kind, value>>.
WordsRight(words, gaps) ==
  LET text == FlattenSeq([k \in DOMAIN gaps |-> gaps[k] \o (IF k \in DOMAIN words THEN words[k][1] ELSE <<>>)])
      UpTo(k) == FlattenSeq([j \in 1 .. k |-> gaps[j] \o words[j][1]])
  IN Tokens(text, {}) = [k \in DOMAIN words |-> [t |-> words[k][2], v |-> words[k][3], line |-> 1 + Breaks(UpTo(k), 1)]]
                        \o <<[t |-> <<"">>, v |-> <<>>, line |-> 1 + Breaks(text, 1)]>>

\* What %q writes reads back as the same bytes.
QuotedRight(s) ==
  LET ts == Tokens(addquoted(s), {})
  IN Len(ts) = 2 /\ ts[1].t = TK_STRING /\ ts[1].v = s /\ ts[2].t = <<"">>

Op(s) == <<s, s, <<>>>>
Ops == {Op(s) : s \in {<<"=">>, <<"=", "=">>, <<"<">>, <<"<", "<">>, <<">", "=">>, <<"~", "=">>, <<"-">>, <<"[">>, <<"]">>, <<":", ":">>,
                       <<"/", "/">>, <<"+">>}}
Dots == {Op(s) : s \in {<<".">>, <<".", ".">>, <<".", ".", ".">>}}
Names == {<<<<"a", "7">>, TK_NAME, <<97, 55>>>>, Op(<<"d", "o">>), <<<<"d", "o", "e">>, TK_NAME, <<100, 111, 101>>>>}
Numerals == {<<<<"7">>, TK_INT, <<7>>>>, <<<<"0", "x", "1", "e">>, TK_INT, <<30>>>>, <<<<"6", ".">>, TK_FLT, <<24>>>>,
             <<<<".", "5">>, TK_FLT, <<2>>>>, <<<<"1", "e", "+", "1">>, TK_FLT, <<40>>>>, <<<<"6", "4">>, TK_FLT, <<INF>>>>}
Pieces == {<<<<"a">>, <<97>>>>, <<<<"\\", "n">>, <<10>>>>, <<<<"\\", "0", "6", "5">>, <<65>>>>, <<<<"\\", "x", "4", "1">>, <<65>>>>,
           <<<<"\\", "7">>, <<7>>>>, <<<<"\\", "u", "{", "e", "9", "}">>, <<195, 169>>>>, <<<<"\\", "z", "\r", "\n", " ", "\n">>, <<>>>>,
           <<<<"\\", "\n", "\r">>, <<10>>>>, <<<<"\\", "\"">>, <<34>>>>, <<<<"-", "-">>, <<45, 45>>>>, <<<<"]">>, <<93>>>>}
Strings == {<<<<d>> \o p[1] \o q[1] \o <<d>>, TK_STRING, p[2] \o q[2]>> : d \in {"\"", "'"}, p \in Pieces, q \in Pieces \cup {<<<<>>, <<>>>>}}
Inside == {<<<<>>, <<>>>>, <<<<"\n", "a">>, <<97>>>>, <<<<"a", "\r", "\n">>, <<97, 10>>>>, <<<<"\n", "\n">>, <<10>>>>,
           <<<<"]", "=", "a">>, <<93, 61, 97>>>>, <<<<"\\">>, <<92>>>>}
Longs == {<<<<"[">> \o e \o <<"[">> \o p[1] \o <<"]">> \o e \o <<"]">>, TK_STRING, p[2]>> : e \in {<<"=">>, <<"=", "=">>}, p \in Inside}
Gaps == {<<" ">>, <<"\n">>, <<"\r", "\n">>, <<"\n", "\n", "\r">>, <<" ", "-", "-", "a", "]", "\n">>, <<" ", "-", "-", "[", "[", "\n", "]", "]">>,
         <<" ", "-", "-", "[", "=", "[", "]", "]", "a", "]", "=", "]">>, <<" ", "-", "-", "[", "=", "\r">>}
\* Words that need nothing between them.
Apart(a, b) == \/ (a \in Names /\ b \in Ops \cup Dots \cup Strings \cup Longs)
               \/ (a \in Ops \cup Dots \cup Strings \cup Longs /\ b \in Names)
               \/ (a \in Strings /\ b \in Strings \cup Longs \cup Ops) \/ (a \in Longs /\ b \in Strings) \/ (a \in Numerals /\ b \in Strings \cup Ops)
WordsAfter(a) ==
  LET short == Ops \cup Dots \cup Names \cup Numerals \cup Longs
      words == IF a \in short THEN short \cup Strings ELSE short
  IN {<<<<a, b>>, <<<<>>, <<"\n">>, <<>>>>>> : b \in words}
     \cup {<<<<a, b>>, <<ends[1], g, ends[2]>>>> : b \in words \cap short, g \in IF a \in short THEN Gaps ELSE {},
                                                 ends \in {<<<<>>, <<>>>>, <<<<"\n", "\n">>, <<" ", "-", "-">>>>}}
     \cup {<<<<a, b>>, <<<<>>, <<>>, <<"\n">>>>>> : b \in {w \in words : Apart(a, w)}}
=============================================================================
