------------------------------ MODULE StrMatch -------------------------------
(***************************************************************************)
(* Pattern matching (lstrlib.c): a backtracking matcher whose captures are *)
(* changed on the way forward and restored on the way back, and the        *)
(* functions string.find, match, gmatch and gsub on top of it.  A string   *)
(* is a sequence of characters; positions start at 1.                      *)
(***************************************************************************)
EXTENDS Integers, Sequences, SequencesExt

NULL == 0
ERR == -1      \* an error was raised; no caller takes it for a failure
MAXCCALLS == 200
LUA_MAXCAPTURES == 32
CAP_UNFINISHED == -1
CAP_POSITION == -2

\* The characters that occur, in their order.
Alphabet == <<"\\0", "$", "%", "(", ")", "*", "+", "-", ".", "0", "1", "2", "?", "A", "[", "]", "^", "a", "b", "c", "f", "w", "x">>
uchar(c) == SelectInSeq(Alphabet, LAMBDA x : x = c)
Digits == {"0", "1", "2"}
Lower == {"a", "b", "c", "f", "w", "x"}
Upper == {"A"}

\* ms: the subject src, the pattern pat, the captures opened so far and the depth left.
CharAt(s, i) == IF i = Len(s) + 1 THEN "\\0" ELSE s[i]
digit(c) == uchar(c) - uchar("0")
Pat(ms, p) == CharAt(ms.pat, p)
P_end(ms) == Len(ms.pat) + 1
Src_end(ms) == Len(ms.src) + 1
Level(ms) == Len(ms.capture)
Res(ms, e) == [ms |-> ms, e |-> e]

posrelat(pos, len) == CASE pos >= 0 -> pos [] pos < 0 /\ -pos > len -> 0 [] OTHER -> len + pos + 1

-----------------------------------------------------------------------------
(* One character *)

\* The end of a [class]; the first character of it is not its end.
RECURSIVE bracketend(_, _)
bracketend(ms, p) ==
  LET q == IF Pat(ms, p) = "%" /\ p + 1 < P_end(ms) THEN p + 2 ELSE p + 1 IN
  IF p = P_end(ms) THEN ERR ELSE IF Pat(ms, q) = "]" THEN q + 1 ELSE bracketend(ms, q)
classend(ms, p) ==
  CASE Pat(ms, p) = "%" -> IF p + 1 = P_end(ms) THEN ERR ELSE p + 2
    [] Pat(ms, p) = "[" -> bracketend(ms, IF Pat(ms, p + 1) = "^" THEN p + 2 ELSE p + 1)
    [] OTHER -> p + 1

match_class(c, cl) ==
  CASE cl \in {"a", "A"} -> (c \in Lower \cup Upper) = (cl = "a")
    [] cl = "w" -> c \in Lower \cup Upper \cup Digits
    [] cl = "c" -> c = "\\0"
    [] cl = "x" -> c \in Digits \cup {"a", "b", "c", "f", "A"}
    [] OTHER -> cl = c

\* The class from p to ec, where its bracket closes.
RECURSIVE inclass(_, _, _, _)
inclass(ms, c, p, ec) ==
  CASE p >= ec -> FALSE
    [] p < ec /\ Pat(ms, p) = "%" -> match_class(c, Pat(ms, p + 1)) \/ inclass(ms, c, p + 2, ec)
    [] p < ec /\ Pat(ms, p) # "%" /\ Pat(ms, p + 1) = "-" /\ p + 2 < ec ->
         uchar(c) \in uchar(Pat(ms, p)) .. uchar(Pat(ms, p + 2)) \/ inclass(ms, c, p + 3, ec)
    [] OTHER -> Pat(ms, p) = c \/ inclass(ms, c, p + 1, ec)
matchbracketclass(ms, c, p, ec) ==
  IF Pat(ms, p + 1) = "^" THEN ~inclass(ms, c, p + 2, ec) ELSE inclass(ms, c, p + 1, ec)

singlematch(ms, s, p, ep) ==
  LET c == CharAt(ms.src, s) IN
  s < Src_end(ms) /\ CASE Pat(ms, p) = "." -> TRUE
                       [] Pat(ms, p) = "%" -> match_class(c, Pat(ms, p + 1))
                       [] Pat(ms, p) = "[" -> matchbracketclass(ms, c, p, ep - 1)
                       [] OTHER -> Pat(ms, p) = c

\* The end of the balanced string at s.
RECURSIVE Balance(_, _, _, _, _)
Balance(ms, s, b, e, cont) ==
  LET c == CharAt(ms.src, s) IN
  IF s >= Src_end(ms) THEN NULL
  ELSE IF c = e THEN (IF cont = 1 THEN s + 1 ELSE Balance(ms, s + 1, b, e, cont - 1))
  ELSE Balance(ms, s + 1, b, e, IF c = b THEN cont + 1 ELSE cont)
matchbalance(ms, s, p) ==
  CASE p >= P_end(ms) - 1 -> ERR
    [] p < P_end(ms) - 1 /\ CharAt(ms.src, s) # Pat(ms, p) -> NULL
    [] OTHER -> Balance(ms, s + 1, Pat(ms, p), Pat(ms, p + 1), 1)

-----------------------------------------------------------------------------
(* The matcher *)

RECURSIVE match(_, _, _), do_match(_, _, _), Expand(_, _, _, _)

start_capture(ms, s, p, what) ==
  LET r == match([ms EXCEPT !.capture = Append(@, [init |-> s, len |-> what])], s, p) IN
  CASE Level(ms) >= LUA_MAXCAPTURES -> Res(ms, ERR)
    [] Level(ms) < LUA_MAXCAPTURES /\ r.e = NULL -> [r EXCEPT !.ms.capture = Front(@)]
    [] OTHER -> r

capture_to_close(ms) == SelectLastInSeq(ms.capture, LAMBDA c : c.len = CAP_UNFINISHED)

\* (Mutant: a failed match leaves the capture closed.)
end_captureKept(ms, s, p) ==
  LET l == capture_to_close(ms) IN
  IF l = 0 THEN Res(ms, ERR) ELSE match([ms EXCEPT !.capture[l].len = s - ms.capture[l].init], s, p)
end_capture(ms, s, p) ==
  LET l == capture_to_close(ms)
      r == match([ms EXCEPT !.capture[l].len = s - ms.capture[l].init], s, p)
  IN CASE l = 0 -> Res(ms, ERR)
       [] l > 0 /\ r.e = NULL -> [r EXCEPT !.ms.capture[l].len = CAP_UNFINISHED]
       [] OTHER -> r

\* check_capture and match_capture: a position capture has no text, and its length is out of reach.
match_capture(ms, s, l) ==
  LET c == ms.capture[l] IN
  CASE l \notin DOMAIN ms.capture -> ERR
    [] l \in DOMAIN ms.capture /\ c.len = CAP_UNFINISHED -> ERR
    [] OTHER -> IF c.len >= 0 /\ Src_end(ms) - s >= c.len
                     /\ SubSeq(ms.src, c.init, c.init + c.len - 1) = SubSeq(ms.src, s, s + c.len - 1)
                  THEN s + c.len ELSE NULL

\* The rest is tried with i repetitions, then with fewer.
Expand(ms, s, i, p) ==
  LET r == match(ms, s + i, p) IN
  IF i < 0 THEN Res(ms, NULL) ELSE IF r.e # NULL THEN r ELSE Expand(r.ms, s, i - 1, p)
RECURSIVE Repeats(_, _, _, _)
Repeats(ms, s, p, ep) == IF singlematch(ms, s, p, ep) THEN 1 + Repeats(ms, s + 1, p, ep) ELSE 0
max_expand(ms, s, p, ep) == Expand(ms, s, Repeats(ms, s, p, ep), ep + 1)

RECURSIVE min_expand(_, _, _, _)
min_expand(ms, s, p, ep) ==
  LET r == match(ms, s, ep + 1) IN
  IF r.e # NULL THEN r
  ELSE IF singlematch(ms, s, p, ep) THEN min_expand(r.ms, s + 1, p, ep) ELSE Res(r.ms, NULL)

\* A pattern class and its suffix.
match_default(ms, s, p) ==
  LET ep == classend(ms, p)
      suffix == Pat(ms, ep)
      once == singlematch(ms, s, p, ep)
      with == match(ms, s + 1, ep + 1)
  IN CASE ep = ERR -> Res(ms, ERR)
       [] ep # ERR /\ ~once -> IF suffix \in {"*", "?", "-"} THEN do_match(ms, s, ep + 1) ELSE Res(ms, NULL)
       [] ep # ERR /\ once /\ suffix = "?" -> IF with.e # NULL THEN with ELSE do_match(with.ms, s, ep + 1)
       [] ep # ERR /\ once /\ suffix = "+" -> max_expand(ms, s + 1, p, ep)
       [] ep # ERR /\ once /\ suffix = "*" -> max_expand(ms, s, p, ep)
       [] ep # ERR /\ once /\ suffix = "-" -> min_expand(ms, s, p, ep)
       [] OTHER -> do_match(ms, s + 1, ep)

\* match from the label init on.
do_match(ms, s, p) ==
  LET c == Pat(ms, p)
      d == Pat(ms, p + 1)
      ep == classend(ms, p + 2)
      previous == IF s = 1 THEN "\\0" ELSE CharAt(ms.src, s - 1)
      GoOn(e, q) == IF e \in {NULL, ERR} THEN Res(ms, e) ELSE do_match(ms, e, q)
  IN CASE p = P_end(ms) -> Res(ms, s)
       [] c = "(" -> IF d = ")" THEN start_capture(ms, s, p + 2, CAP_POSITION)
                     ELSE start_capture(ms, s, p + 1, CAP_UNFINISHED)
       [] c = ")" -> end_capture(ms, s, p + 1)
       [] c = "$" /\ p + 1 = P_end(ms) -> Res(ms, IF s = Src_end(ms) THEN s ELSE NULL)
       [] c = "%" /\ d = "b" -> GoOn(matchbalance(ms, s, p + 2), p + 4)
       [] c = "%" /\ d = "f" ->
            IF Pat(ms, p + 2) # "[" \/ ep = ERR THEN Res(ms, ERR)
            ELSE GoOn(IF ~matchbracketclass(ms, previous, p + 2, ep - 1)
                         /\ matchbracketclass(ms, CharAt(ms.src, s), p + 2, ep - 1) THEN s ELSE NULL, ep)
       [] c = "%" /\ d \in Digits -> GoOn(match_capture(ms, s, digit(d)), p + 2)
       [] OTHER -> match_default(ms, s, p)

match(ms, s, p) ==
  LET r == do_match([ms EXCEPT !.depth = @ - 1], s, p) IN
  IF ms.depth = 0 THEN Res(ms, ERR) ELSE IF r.e = ERR THEN r ELSE [r EXCEPT !.ms.depth = @ + 1]

-----------------------------------------------------------------------------
(* The functions of the library; their results are sequences of values *)

Str(s) == [str |-> s, pos |-> 0]
Pos(n) == [str |-> <<>>, pos |-> n]
ErrorValue == Pos(ERR)
Error == <<ErrorValue>>
BadText == <<"error">>
prepstate(src, pat) == [src |-> src, pat |-> pat, capture |-> <<>>, depth |-> MAXCCALLS]
reprepstate(ms) == [ms EXCEPT !.capture = <<>>]

push_onecapture(ms, i, s, e) ==
  LET c == ms.capture[i] IN
  CASE i > Level(ms) -> IF i = 1 THEN Str(SubSeq(ms.src, s, e - 1)) ELSE ErrorValue
    [] i <= Level(ms) /\ c.len = CAP_UNFINISHED -> ErrorValue
    [] i <= Level(ms) /\ c.len = CAP_POSITION -> Pos(c.init)
    [] OTHER -> Str(SubSeq(ms.src, c.init, c.init + c.len - 1))
push_captures(ms, s, e) ==
  LET n == IF Level(ms) = 0 /\ s # NULL THEN 1 ELSE Level(ms)
      vs == [i \in 1 .. n |-> push_onecapture(ms, i, s, e)]
  IN IF ErrorValue \in ToSet(vs) THEN Error ELSE vs

\* The pattern without its anchor is tried from s1 on.
RECURSIVE Search(_, _, _)
Search(ms, s1, anchor) ==
  LET r == match(reprepstate(ms), s1, 1) IN
  IF r.e = NULL /\ s1 < Src_end(ms) /\ ~anchor THEN Search(r.ms, s1 + 1, anchor)
  ELSE [ms |-> r.ms, s |-> s1, e |-> r.e]

anchored(p) == CharAt(p, 1) = "^"
unanchored(p) == IF anchored(p) THEN Tail(p) ELSE p
Init_(s, init) == LET i == posrelat(init, Len(s)) IN IF i < 1 THEN 1 ELSE i

\* The first place where a string occurs.
lmemfind(s, i, p) ==
  LET At == {j \in i .. Len(s) - Len(p) + 1 : SubSeq(s, j, j + Len(p) - 1) = p}
  IN IF At = {} THEN NULL ELSE CHOOSE j \in At : \A k \in At : j <= k
nospecials(p) == \A i \in DOMAIN p : p[i] \notin {"^", "$", "*", "+", "?", ".", "(", "[", "%", "-"}

\* str_find_aux, for find and for match; nil is <<>>.
str_find(s, p, init, plain) ==
  LET i == Init_(s, init)
      at == lmemfind(s, i, p)
      r == Search(prepstate(s, unanchored(p)), i, anchored(p))
      caps == push_captures(r.ms, NULL, NULL)
  IN CASE i > Len(s) + 1 -> <<>>
       [] i <= Len(s) + 1 /\ (plain \/ nospecials(p)) ->
            IF at = NULL THEN <<>> ELSE <<Pos(at), Pos(at + Len(p) - 1)>>
       [] OTHER -> CASE r.e = NULL -> <<>> [] r.e = ERR -> Error
                     [] OTHER -> IF caps = Error THEN Error ELSE <<Pos(r.s), Pos(r.e - 1)>> \o caps
str_match(s, p, init) ==
  LET r == Search(prepstate(s, unanchored(p)), Init_(s, init), anchored(p)) IN
  CASE Init_(s, init) > Len(s) + 1 \/ r.e = NULL -> <<>>
    [] Init_(s, init) <= Len(s) + 1 /\ r.e = ERR -> Error
    [] OTHER -> push_captures(r.ms, r.s, r.e)

\* The results of the calls of the iterator.
RECURSIVE gmatch_aux(_, _, _)
gmatch_aux(ms, src, lastmatch) ==
  LET r == match(reprepstate(ms), src, 1)
      caps == push_captures(r.ms, src, r.e)
      more == gmatch_aux(r.ms, r.e, r.e)
  IN CASE src > Src_end(ms) -> <<>>
       [] src <= Src_end(ms) /\ r.e = ERR -> <<Error>>
       [] src <= Src_end(ms) /\ r.e \in {NULL, lastmatch} -> gmatch_aux(r.ms, src + 1, lastmatch)
       [] OTHER -> IF caps = Error \/ more = <<Error>> THEN <<Error>> ELSE <<caps>> \o more
gmatch(s, p) == gmatch_aux(prepstate(s, p), 1, NULL)

\* A replacement string; a position is put in as a number.
RECURSIVE add_s(_, _, _, _, _)
add_s(ms, news, i, s, e) ==
  LET d == CharAt(news, i + 1)
      v == push_onecapture(ms, digit(d), s, e)
      text == CASE d = "%" -> <<"%">> [] d = "0" -> SubSeq(ms.src, s, e - 1)
                [] d \in Digits \ {"0"} -> (CASE v.pos = 0 -> v.str [] v.pos > 0 -> <<ToString(v.pos)>> [] OTHER -> BadText)
                [] OTHER -> BadText
      rest == add_s(ms, news, i + 2, s, e)
  IN CASE i > Len(news) -> <<>>
       [] i <= Len(news) /\ news[i] # "%" -> LET r == add_s(ms, news, i + 1, s, e) IN IF r = BadText THEN BadText ELSE <<news[i]>> \o r
       [] OTHER -> IF BadText \in {text, rest} THEN BadText ELSE text \o rest

Raised == [s |-> BadText, n |-> ERR]
RECURSIVE gsub(_, _, _, _, _, _, _)
gsub(ms, src, lastmatch, news, n, anchor, out) ==
  LET r == match(reprepstate(ms), src, 1)
      v == add_s(r.ms, news, 1, src, r.e)
      rest == SubSeq(ms.src, src, Len(ms.src))
      more == src <= Len(ms.src)
      skipped == IF more THEN Append(out, ms.src[src]) ELSE out
  IN CASE r.e = ERR -> Raised
       [] r.e \notin {NULL, ERR, lastmatch} ->
            IF v = BadText THEN Raised
            ELSE IF anchor THEN [s |-> out \o v \o SubSeq(ms.src, r.e, Len(ms.src)), n |-> n + 1]
            ELSE gsub(r.ms, r.e, r.e, news, n + 1, anchor, out \o v)
       [] more /\ r.e \in {NULL, lastmatch} /\ ~anchor -> gsub(r.ms, src + 1, lastmatch, news, n, anchor, skipped)
       [] OTHER -> [s |-> out \o rest, n |-> n]
str_gsub(s, p, news) == gsub(prepstate(s, unanchored(p)), 1, NULL, news, 0, anchored(p), <<>>)
=============================================================================
