-------------------------------- MODULE Pack ---------------------------------
(***************************************************************************)
(* string.pack, packsize and unpack (lstrlib.c): a format is read option   *)
(* by option, each with a size and an alignment that depends on what has   *)
(* come before.  A byte has NB bits and an integer SZINT bytes, so that    *)
(* the limits are near.  Floats are left out.  An option is <<letter, n>>, *)
(* where n is the numeral behind the letter, or -1.                        *)
(***************************************************************************)
EXTENDS Integers, Sequences, SequencesExt

NB == 2             \* 8 in the code
SZINT == 2          \* 8: an integer and a size_t
SZINTC == 1         \* 4: an int
MAXINTSIZE == 3     \* 16
MAXALIGN == 2       \* 8
MAXSIZE == 7        \* the largest string that packsize accepts, an int
MC == 2 ^ NB - 1
WRAP == 2 ^ (NB * SZINT)
MAX_SIZE == WRAP \div 2 - 1   \* llimits.h: the largest object
nativelittle == TRUE

Unsigned(n) == n % WRAP
Signed(n) == IF n % WRAP >= WRAP \div 2 THEN (n % WRAP) - WRAP ELSE n % WRAP
initheader == [islittle |-> nativelittle, maxalign |-> 1]

\* An option: its kind, its size and the header behind it.
Opt(kind, size, h) == [opt |-> kind, size |-> size, h |-> h, err |-> FALSE]
NoOption(h) == [Opt("Knop", 0, h) EXCEPT !.err = TRUE]
getnumlimit(n, df) == IF n = -1 THEN df ELSE n
inlimit(n) == n \in 1 .. MAXINTSIZE
getoption(h, o) ==
  LET n == getnumlimit(o[2], SZINTC)
      s == getnumlimit(o[2], SZINT)
      a == getnumlimit(o[2], MAXALIGN)
  IN CASE o[1] = "b" -> Opt("Kint", 1, h) [] o[1] = "B" -> Opt("Kuint", 1, h)
       [] o[1] = "j" -> Opt("Kint", SZINT, h) [] o[1] \in {"J", "T"} -> Opt("Kuint", SZINT, h)
       [] o[1] = "i" -> IF inlimit(n) THEN Opt("Kint", n, h) ELSE NoOption(h)
       [] o[1] = "I" -> IF inlimit(n) THEN Opt("Kuint", n, h) ELSE NoOption(h)
       [] o[1] = "s" -> IF inlimit(s) THEN Opt("Kstring", s, h) ELSE NoOption(h)
       [] o[1] = "c" -> IF o[2] = -1 THEN NoOption(h) ELSE Opt("Kchar", o[2], h)
       [] o[1] = "z" -> Opt("Kzstr", 0, h)
       [] o[1] = "x" -> Opt("Kpadding", 1, h)
       [] o[1] = "X" -> Opt("Kpaddalign", 0, h)
       [] o[1] = " " -> Opt("Knop", 0, h)
       [] o[1] \in {"<", "="} -> Opt("Knop", 0, [h EXCEPT !.islittle = (o[1] = "<") \/ nativelittle])
       [] o[1] = ">" -> Opt("Knop", 0, [h EXCEPT !.islittle = FALSE])
       [] o[1] = "!" -> IF inlimit(a) THEN Opt("Knop", 0, [h EXCEPT !.maxalign = a]) ELSE NoOption(h)
       [] OTHER -> NoOption(h)

PowerOf2(n) == n \in {1, 2, 4, 8}

\* The next option of fmt, with the padding in front of it and the rest of the format.
Padding(align, totalsize) == (align - (totalsize % align)) % align
limited(align, maxalign) == IF align > maxalign THEN maxalign ELSE align
getdetails(h, totalsize, fmt) ==
  LET o == getoption(h, Head(fmt))
      isalign == o.opt = "Kpaddalign"
      next == getoption(o.h, fmt[2])
      noalign == isalign /\ (Len(fmt) = 1 \/ next.err \/ next.opt = "Kchar" \/ next.size = 0)
      align == IF isalign THEN next.size ELSE o.size
      needed == align > 1 /\ o.opt # "Kchar"
      a == limited(align, o.h.maxalign)
      err == o.err \/ noalign \/ (needed /\ ~PowerOf2(a))
  IN [opt |-> o.opt, size |-> o.size, ntoalign |-> IF ~err /\ needed THEN Padding(a, totalsize) ELSE 0,
      h |-> IF isalign /\ ~err THEN next.h ELSE o.h,
      rest |-> IF isalign /\ ~err THEN SubSeq(fmt, 3, Len(fmt)) ELSE Tail(fmt), err |-> err]

-----------------------------------------------------------------------------
(* Integers as bytes *)

\* (Mutant: the bytes beyond an integer are zero for a negative one too.)
packintZero(n, islittle, size, neg) ==
  LET b == [i \in 1 .. size |-> (Unsigned(n) \div 2 ^ (NB * (i - 1))) % 2 ^ NB] IN IF islittle THEN b ELSE Reverse(b)
packint(n, islittle, size, neg) ==
  LET b == [i \in 1 .. size |-> IF neg /\ i > SZINT THEN MC ELSE (Unsigned(n) \div 2 ^ (NB * (i - 1))) % 2 ^ NB]
  IN IF islittle THEN b ELSE Reverse(b)

\* The integer of the bytes b, or none if the bytes that do not fit are not its sign.
RECURSIVE Value(_)
Value(b) == IF b = <<>> THEN 0 ELSE Head(b) + 2 ^ NB * Value(Tail(b))
unpackint(b0, islittle, issigned) ==
  LET b == IF islittle THEN b0 ELSE Reverse(b0)
      size == Len(b)
      res == Value(SubSeq(b, 1, IF size <= SZINT THEN size ELSE SZINT))
      mask == 2 ^ (size * NB - 1)
      extended == IF size < SZINT /\ issigned /\ res >= mask THEN res - 2 * mask ELSE res
      fill == IF ~issigned \/ Signed(res) >= 0 THEN 0 ELSE MC
  IN [v |-> Signed(extended), fits |-> \A i \in SZINT + 1 .. size : b[i] = fill]

-----------------------------------------------------------------------------
(* The functions.  A value is <<"int", n>> or <<"str", bytes>>. *)

Zeros(n) == [i \in 1 .. n |-> 0]
Failed == [err |-> TRUE, out |-> <<>>]
TakesArg(opt) == opt \notin {"Kpadding", "Kpaddalign", "Knop"}

\* Does the argument fit in the option?
Fits(d, v) ==
  LET lim == 2 ^ (d.size * NB - 1) IN
  CASE d.opt = "Kint"    -> d.size < SZINT => -lim <= v[2] /\ v[2] < lim
    [] d.opt = "Kuint"   -> d.size < SZINT => Unsigned(v[2]) < 2 * lim
    [] d.opt = "Kchar"   -> Len(v[2]) <= d.size
    [] d.opt = "Kstring" -> d.size >= SZINT \/ Len(v[2]) < 2 * lim
    [] d.opt = "Kzstr"   -> 0 \notin ToSet(v[2])
    [] OTHER -> TRUE
Packed(d, v) ==
  CASE d.opt = "Kint"    -> packint(v[2], d.h.islittle, d.size, v[2] < 0)
    [] d.opt = "Kuint"   -> packint(v[2], d.h.islittle, d.size, FALSE)
    [] d.opt = "Kchar"   -> v[2] \o Zeros(d.size - Len(v[2]))
    [] d.opt = "Kstring" -> packint(Len(v[2]), d.h.islittle, d.size, FALSE) \o v[2]
    [] d.opt = "Kzstr"   -> Append(v[2], 0)
    [] d.opt = "Kpadding" -> <<0>>
    [] OTHER -> <<>>

RECURSIVE Pack_(_, _, _, _)
Pack_(h, fmt, args, out) ==
  LET d == getdetails(h, Len(out), fmt)
      v == IF TakesArg(d.opt) THEN Head(args) ELSE <<"int", 0>>
  IN IF fmt = <<>> THEN [err |-> FALSE, out |-> out]
     ELSE IF d.err \/ ~Fits(d, v) THEN Failed
     ELSE Pack_(d.h, d.rest, IF TakesArg(d.opt) THEN Tail(args) ELSE args, out \o Zeros(d.ntoalign) \o Packed(d, v))
str_pack(fmt, args) == Pack_(initheader, fmt, args, <<>>)

RECURSIVE Packsize(_, _, _)
Packsize(h, fmt, totalsize) ==
  LET d == getdetails(h, totalsize, fmt)
      size == d.size + d.ntoalign
  IN IF fmt = <<>> THEN totalsize
     ELSE IF d.err \/ d.opt \in {"Kstring", "Kzstr"} \/ totalsize > MAXSIZE - size THEN -1
     ELSE Packsize(d.h, d.rest, totalsize + size)
str_packsize(fmt) == Packsize(initheader, fmt, 0)

\* data is followed by a zero; the result has the values, the next position and the last byte read.
RECURSIVE Unpack(_, _, _, _, _, _)
Unpack(h, fmt, data, pos, vs, last) ==
  LET d == getdetails(h, pos, fmt)
      ld == Len(data)
      short == d.ntoalign + d.size > WRAP - 1 - pos \/ pos + d.ntoalign + d.size > ld
      at == pos + d.ntoalign
      bytes == SubSeq(data, at + 1, at + d.size)
      n == unpackint(bytes, d.h.islittle, d.opt = "Kint")
      len == Unsigned(n.v)
      end == at + SelectInSeq(SubSeq(data, at + 1, ld) \o <<0>>, LAMBDA b : b = 0)
      v == CASE d.opt \in {"Kint", "Kuint"} -> <<"int", n.v>>
             [] d.opt = "Kchar" -> <<"str", bytes>>
             [] d.opt = "Kstring" -> <<"str", SubSeq(data, at + d.size + 1, at + d.size + len)>>
             [] d.opt = "Kzstr" -> <<"str", SubSeq(data, at + 1, end - 1)>>
      bad == \/ d.opt \in {"Kint", "Kuint", "Kstring"} /\ ~n.fits
             \/ d.opt = "Kstring" /\ (Unsigned(at + len + d.size) > ld \/ len > MAX_SIZE)  \* or luaM_toobig
      next == CASE d.opt = "Kstring" -> at + len + d.size [] d.opt = "Kzstr" -> end [] OTHER -> at + d.size
  IN IF fmt = <<>> THEN [err |-> FALSE, vs |-> vs, next |-> pos + 1, last |-> last]
     ELSE IF d.err \/ short \/ bad THEN [err |-> TRUE, vs |-> vs, next |-> 0, last |-> last]
     ELSE Unpack(d.h, d.rest, data, next, IF TakesArg(d.opt) THEN Append(vs, v) ELSE vs, IF next > last THEN next ELSE last)
posrelat(pos, len) == CASE pos >= 0 -> pos [] pos < 0 /\ -pos > len -> 0 [] OTHER -> len + pos + 1
str_unpack(fmt, data, init) ==
  LET pos == Unsigned(posrelat(init, Len(data)) - 1) IN
  IF pos > Len(data) THEN [err |-> TRUE, vs |-> <<>>, next |-> 0, last |-> 0]
  ELSE Unpack(initheader, fmt, data, pos, <<>>, pos)

-----------------------------------------------------------------------------
(* What pack and unpack promise *)

Unchanged(d, v) == IF d.opt = "Kchar" THEN <<"str", v[2] \o Zeros(d.size - Len(v[2]))>> ELSE v

\* The values as they come back: strings of a fixed size are filled up.
RECURSIVE Kept(_, _, _, _)
Kept(h, fmt, args, vs) ==
  LET d == getdetails(h, 0, fmt) IN
  IF fmt = <<>> THEN vs
  ELSE IF TakesArg(d.opt) THEN Kept(d.h, d.rest, Tail(args), Append(vs, Unchanged(d, Head(args))))
  ELSE Kept(d.h, d.rest, args, vs)

\* What is packed is read back, to the end and no further; packsize tells its size.
PackedRight(fmt, args) ==
  LET p == str_pack(fmt, args)
      u == str_unpack(fmt, p.out, 1)
      variable == \E i \in DOMAIN fmt : fmt[i][1] \in {"s", "z"}
  IN ~p.err /\ Len(p.out) < WRAP - MAXINTSIZE =>
               /\ ~u.err /\ u.vs = Kept(initheader, fmt, args, <<>>) /\ u.next = Len(p.out) + 1
               /\ ~variable => str_packsize(fmt) = IF Len(p.out) <= MAXSIZE THEN Len(p.out) ELSE -1

\* Whatever the data, nothing is read behind the zero that ends them, and the values packed
\* again are the bytes that were read.
UnpackedRight(fmt, data, init) ==
  LET u == str_unpack(fmt, data, init)
      again == str_pack(fmt, u.vs)
      padded == \E i \in DOMAIN fmt : fmt[i][1] \in {"x", "X", "!"}
  IN /\ u.last <= Len(data) + 1
     /\ ~u.err /\ init = 1 /\ ~padded => ~again.err /\ again.out = SubSeq(Append(data, 0), 1, u.next - 1)

-----------------------------------------------------------------------------
(* The formats, values and data that are tried *)

Options == {<<"b", -1>>, <<"B", -1>>, <<"i", 3>>, <<"i", 2>>, <<"I", 3>>, <<"j", -1>>, <<"s", 1>>, <<"s", 2>>, <<"s", 3>>,
            <<"c", 2>>, <<"z", -1>>, <<"x", -1>>, <<"X", -1>>, <<"<", -1>>, <<">", -1>>, <<"!", -1>>, <<"!", 3>>}
Integers_ == {-8, -2, 1, 3, 7}
Strings == {<<>>, <<1>>, <<0, 2>>, <<3, 3, 3, 3>>}

\* Arguments for the options of a format.
RECURSIVE Arguments(_)
Arguments(fmt) ==
  LET rest == Arguments(Tail(fmt))
      o == fmt[1][1]
  IN IF fmt = <<>> THEN {<<>>}
     ELSE IF o = "X" /\ Len(fmt) > 1 THEN Arguments(SubSeq(fmt, 3, Len(fmt)))
     ELSE IF o \in {"x", "X", "<", ">", "!"} THEN rest
     ELSE IF o \in {"s", "c", "z"} THEN {<<<<"str", s>>>> \o r : s \in Strings, r \in rest}
     ELSE {<<<<"int", n>>>> \o r : n \in Integers_, r \in rest}
FormatsFrom(o) == {<<o>> \o t : t \in UNION {[1 .. n -> Options] : n \in 0 .. 2}}
Datas == UNION {[1 .. n -> {0, 1, 3}] : n \in 0 .. 4}
=============================================================================
