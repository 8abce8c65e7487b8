------------------------------ MODULE Patterns -------------------------------
(***************************************************************************)
(* What a pattern means: the list, in order of preference, of the ways in  *)
(* which it matches at a place.  A pattern is a sequence of items:         *)
(*   <<"set", S, suffix, text>>, <<"open">>, <<"close">>, <<"pos">>,       *)
(*   <<"back">>, <<"bal">>, <<"front">>, <<"end">>.                        *)
(* Nothing here models code: it is the reference for StrMatch.             *)
(***************************************************************************)
EXTENDS StrMatch

Failed == [e |-> ERR, caps |-> <<>>]
At(src, s) == IF s \in DOMAIN src THEN src[s] ELSE "\\0"
Run_(S, src, s) == CHOOSE n \in 0 .. Len(src) : (\A i \in 0 .. n - 1 : At(src, s + i) \in S) /\ At(src, s + n) \notin S

\* The ways from item k on, at s, with captures <<first, last>>.
RECURSIVE Ways(_, _, _, _, _)
Ways(t, k, src, s, caps) ==
  LET i == t[k]
      n == Run_(i[2], src, s)
      ns == CASE i[3] = "" -> IF n = 0 THEN <<>> ELSE <<1>>
              [] i[3] = "?" -> IF n = 0 THEN <<0>> ELSE <<1, 0>>
              [] i[3] = "*" -> [j \in 1 .. n + 1 |-> n + 1 - j]
              [] i[3] = "+" -> [j \in 1 .. n |-> n + 1 - j]
              [] i[3] = "-" -> [j \in 1 .. n + 1 |-> j - 1]
      open == SelectLastInSeq(caps, LAMBDA c : c[2] = CAP_UNFINISHED)
      text == SubSeq(src, caps[1][1], caps[1][2])
      Depth(e) == Cardinality({j \in s .. e : src[j] = "a"}) - Cardinality({j \in s .. e : src[j] = "b"})
      closers == {e \in s .. Len(src) : Depth(e) = 0}
      From(e, c) == Ways(t, k + 1, src, e, c)
  IN CASE k > Len(t) -> <<[e |-> s, caps |-> caps]>>
       [] i[1] = "set" -> FlattenSeq([j \in DOMAIN ns |-> From(s + ns[j], caps)])
       [] i[1] = "open" -> From(s, Append(caps, <<s, CAP_UNFINISHED>>))
       [] i[1] = "pos" -> From(s, Append(caps, <<s, CAP_POSITION>>))
       [] i[1] = "close" -> IF open = 0 THEN <<Failed>> ELSE From(s, [caps EXCEPT ![open] = <<@[1], s - 1>>])
       [] i[1] = "back" -> IF caps = <<>> THEN <<Failed>> ELSE IF caps[1][2] = CAP_UNFINISHED THEN <<Failed>>
                           ELSE IF caps[1][2] # CAP_POSITION /\ s + Len(text) <= Len(src) + 1
                                   /\ SubSeq(src, s, s + Len(text) - 1) = text
                             THEN From(s + Len(text), caps) ELSE <<>>
       [] i[1] = "bal" -> IF At(src, s) = "a" /\ closers # {} THEN From(Min(closers) + 1, caps) ELSE <<>>
       [] i[1] = "front" -> IF At(src, s - 1) # "a" /\ At(src, s) = "a" THEN From(s, caps) ELSE <<>>
       [] i[1] = "end" -> IF s = Len(src) + 1 THEN From(s, caps) ELSE <<>>

ItemText(i) ==
  CASE i[1] = "set" -> IF i[3] = "" THEN i[4] ELSE Append(i[4], i[3])
    [] i[1] = "open" -> <<"(">> [] i[1] = "close" -> <<")">> [] i[1] = "pos" -> <<"(", ")">> [] i[1] = "back" -> <<"%", "1">>
    [] i[1] = "bal" -> <<"%", "b", "a", "b">> [] i[1] = "front" -> <<"%", "f", "[", "a", "]">> [] i[1] = "end" -> <<"$">>
Text(t) == FlattenSeq([i \in DOMAIN t |-> ItemText(t[i])])

Values(src, s, w) ==
  LET vs == [i \in DOMAIN w.caps |-> LET c == w.caps[i] IN
               CASE c[2] = CAP_UNFINISHED -> ErrorValue [] c[2] = CAP_POSITION -> Pos(c[1])
                 [] OTHER -> Str(SubSeq(src, c[1], c[2]))]
  IN IF w = Failed \/ ErrorValue \in ToSet(vs) THEN Error ELSE IF vs = <<>> THEN <<Str(SubSeq(src, s, w.e - 1))>> ELSE vs

\* The first place from s on where the pattern matches, with an end other than last.
First(t, src, s, last) ==
  LET at == {i \in s .. Len(src) + 1 : LET w == Ways(t, 1, src, i, <<>>) IN w # <<>> /\ w[1].e # last} IN
  IF at = {} THEN NULL ELSE Min(at)
FirstWay(t, src, s) == Ways(t, 1, src, s, <<>>)[1]

RECURSIVE AllMatches(_, _, _, _)
AllMatches(t, src, s, last) ==
  LET i == First(t, src, s, last)
      w == FirstWay(t, src, i)
      more == AllMatches(t, src, w.e, w.e)
  IN IF i = NULL THEN <<>>
     ELSE IF Values(src, i, w) = Error \/ more = <<Error>> THEN <<Error>> ELSE <<Values(src, i, w)>> \o more

\* A match that fails leaves the matcher as it was.
Undone(src, p) ==
  \A s \in 1 .. Len(src) + 1 : LET r == match(prepstate(src, p), s, 1) IN r.e = NULL => r.ms = prepstate(src, p)

\* The functions of the library find the first way at the first place, with its captures; a
\* replacement by itself changes nothing.
MatchedRight(t, src) ==
  LET p == Text(t)
      all == AllMatches(t, src, 1, NULL)
      i == First(t, src, 1, NULL)
      here == Ways(t, 1, src, 1, <<>>)
      found == IF i = NULL THEN <<>> ELSE Values(src, i, FirstWay(t, src, i))
      find == str_find(src, p, 1, FALSE)
      same == str_gsub(src, p, <<"%", "0">>)
  IN /\ str_match(src, p, 1) = found
     /\ str_match(src, <<"^">> \o p, 1) = IF here = <<>> THEN <<>> ELSE Values(src, 1, here[1])
     /\ found \notin {<<>>, Error} => SubSeq(find, 1, 2) = <<Pos(i), Pos(FirstWay(t, src, i).e - 1)>>
     /\ gmatch(src, p) = all
     /\ all # <<Error>> => same = [s |-> src, n |-> Len(all)]
     /\ Undone(src, p)

-----------------------------------------------------------------------------
(* The patterns and subjects that are tried *)

Sets == {<<"set", {"a"}, x, <<"a">>>> : x \in {"", "*", "-"}} \cup {<<"set", {"a", "b"}, x, <<"[", "a", "-", "b", "]">>>> : x \in {"", "+"}}
         \cup {<<"set", {"b", "c"}, x, <<"[", "^", "a", "]">>>> : x \in {"?", "*"}} \cup {<<"set", {"a", "b", "c"}, x, <<".">>>> : x \in {"-"}}
Items == Sets \cup {<<"open">>, <<"close">>, <<"pos">>, <<"back">>, <<"bal">>, <<"front">>}
Subjects == {<<"a", "a", "b">>, <<"b", "a", "c", "a">>}
Empty(t) == \E k \in 1 .. Len(t) - 1 : t[k] = <<"open">> /\ t[k + 1] = <<"close">>  \* reads as <<"pos">>
Shapes(i) ==
  {<<i>> \o t : t \in UNION {[1 .. n -> Items] : n \in 0 .. 2}}
  \cup {<<i>> \o t \o <<<<"end">>>> : t \in UNION {[1 .. n -> Items] : n \in 0 .. 1}}
  \cup {<<<<"open">>, i>> \o t \o <<<<"close">>>> \o u : t \in UNION {[1 .. n -> Items] : n \in 0 .. 1}, u \in {<<x>> : x \in Items} \cup {<<>>}}
PatternsFrom(i) == {t \in Shapes(i) : ~Empty(t)}

\* Texts that may be no pattern at all.
TextChars == {"a", "[", "]", "^", "%", "-", "(", ")", "b"}
TextsFrom(c) == {<<c>> \o t : t \in UNION {[1 .. n -> TextChars] : n \in 0 .. 3}}

\* Whatever the text, the matcher reads nothing behind its end (that would stop the evaluation),
\* and it fails cleanly, raises an error or finds something.
TextRight(p, src) == Len(str_match(src, p, 1)) <= Len(p) /\ Undone(src, p)
=============================================================================
