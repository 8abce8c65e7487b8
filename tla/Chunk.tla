-------------------------------- MODULE Chunk --------------------------------
(***************************************************************************)
(* Precompiled chunks: ldump.c writes a function as a sequence of bytes,   *)
(* lzio.c hands the bytes over in the pieces in which they arrive, and     *)
(* lundump.c builds the function again.  The two may be different builds:  *)
(* the dump writes a 4-byte unsigned where the loader expects a size_t.    *)
(*                                                                         *)
(* A byte has BYTE values, an int and an unsigned two bytes, a number one  *)
(* byte; a string is the sequence of its bytes.                            *)
(***************************************************************************)
EXTENDS Integers, Sequences, SequencesExt

BYTE == 8
SIZEOF_int == 2
SIZEOF_unsigned == 2
SIZEOF_number == 1
LONGSIZE == BYTE - 1           \* 0xFF: the size does not fit in the byte before it
LUAI_MAXSHORTLEN == 3
LUA_SIGNATURE == <<1, 4, 5, 2>>
LUAC_VERSION == 3
LUAC_FORMAT == 0
LUAC_DATA == <<6, 3>>
LUAC_NUM == 5
NULL == <<-1>>                 \* no string
LUA_TNIL == 0
LUA_TBOOLEAN == 1
LUA_TNUMINT == 3
LUA_TSTRING == 4

-----------------------------------------------------------------------------
(* ldump.c: the blocks that a function is written in *)

Bytes(x, size) == [i \in 1 .. size |-> (x \div BYTE^(i - 1)) % BYTE]
DumpByte(y) == <<<<y % BYTE>>>>
DumpInt(x) == <<Bytes(x, SIZEOF_int)>>
DumpVector(n, Dump(_)) == DumpInt(n) \o FlattenSeq([i \in 1 .. n |-> Dump(i)])
DumpString(s) ==
  LET size == Len(s) + 1 IN
  IF s = NULL THEN DumpByte(0)
  ELSE (IF size < LONGSIZE THEN DumpByte(size) ELSE DumpByte(LONGSIZE) \o <<Bytes(size, SIZEOF_unsigned)>>) \o <<s>>
DumpCode(f) == DumpInt(Len(f.code)) \o <<f.code>>
DumpConstants(f) ==
  DumpVector(Len(f.k), LAMBDA i : LET o == f.k[i] IN
    DumpByte(o.tt) \o CASE o.tt = LUA_TNIL -> <<>> [] o.tt = LUA_TSTRING -> DumpString(o.v) [] OTHER -> <<o.v>>)
DumpUpvalues(f) == DumpVector(Len(f.upvalues), LAMBDA i : DumpByte(f.upvalues[i].instack) \o DumpByte(f.upvalues[i].idx))
DumpDebug(f, strip) ==
  LET Kept(s) == IF strip THEN 0 ELSE Len(s) IN
  DumpInt(Kept(f.lineinfo)) \o FlattenSeq([i \in 1 .. Kept(f.lineinfo) |-> DumpInt(f.lineinfo[i])])
  \o DumpVector(Kept(f.locvars), LAMBDA i : LET v == f.locvars[i] IN
       DumpString(v.varname) \o DumpInt(v.startpc) \o DumpInt(v.endpc))
  \o DumpVector(Kept(f.upvalues), LAMBDA i : DumpString(f.upvalues[i].name))
RECURSIVE DumpFunction(_, _, _)
DumpProtos(f, strip) == DumpVector(Len(f.p), LAMBDA i : DumpFunction(f.p[i], f.source, strip))
DumpFunction(f, psource, strip) ==
  DumpString(IF strip \/ f.source = psource THEN NULL ELSE f.source)
  \o DumpInt(f.linedefined) \o DumpInt(f.lastlinedefined)
  \o DumpByte(f.numparams) \o DumpByte(f.is_vararg) \o DumpByte(f.maxstacksize)
  \o DumpCode(f) \o DumpConstants(f) \o DumpUpvalues(f) \o DumpProtos(f, strip) \o DumpDebug(f, strip)
DumpHeader ==
  <<LUA_SIGNATURE>> \o DumpByte(LUAC_VERSION) \o DumpByte(LUAC_FORMAT) \o <<LUAC_DATA>>
  \o DumpByte(SIZEOF_int) \o DumpByte(SIZEOF_unsigned) \o DumpByte(1) \o DumpByte(SIZEOF_number) \o DumpByte(SIZEOF_number)
  \o <<Bytes(LUAC_NUM, SIZEOF_number)>> \o <<Bytes(LUAC_NUM, SIZEOF_number)>>

\* The writer takes room bytes and then fails; what comes after a failure is not written.
DumpBlock(D, b) ==
  IF D.status # 0 \/ b = <<>> THEN D
  ELSE IF Len(D.out) + Len(b) > D.room THEN [D EXCEPT !.status = 1] ELSE [D EXCEPT !.out = @ \o b]
RECURSIVE DumpBlocks(_, _)
DumpBlocks(D, bs) == IF bs = <<>> THEN D ELSE DumpBlocks(DumpBlock(D, Head(bs)), Tail(bs))
luaU_dump(f, strip, room) ==
  DumpBlocks([out |-> <<>>, status |-> 0, room |-> room],
             DumpHeader \o DumpByte(Len(f.upvalues)) \o DumpFunction(f, NULL, strip))

-----------------------------------------------------------------------------
(* lzio.c: the bytes left of a piece and the pieces that the reader still has *)

EOZ == -1
luaZ_fill(z) == IF z.pieces = <<>> \/ Head(z.pieces) = <<>> THEN [z EXCEPT !.eoz = TRUE]
                ELSE [z EXCEPT !.p = Head(z.pieces), !.pieces = Tail(z.pieces)]
RECURSIVE luaZ_read(_, _)
luaZ_read(z, n) ==
  LET y == IF z.p = <<>> THEN luaZ_fill(z) ELSE z
      m == IF n <= Len(y.p) THEN n ELSE Len(y.p)
      rest == luaZ_read([y EXCEPT !.p = SubSeq(y.p, m + 1, Len(y.p))], n - m)
  IN CASE n = 0 -> [z |-> z, b |-> <<>>]
       [] n > 0 /\ y.eoz -> [z |-> y, b |-> <<>>]
       [] OTHER -> [z |-> rest.z, b |-> SubSeq(y.p, 1, m) \o rest.b]

-----------------------------------------------------------------------------
(* lundump.c: each step gives the state after it and what it has loaded *)

Loaded(S, v) == [S |-> S, v |-> v]
error(S, why) == IF S.error = "" THEN [S EXCEPT !.error = why] ELSE S
LoadBlock(S, size) ==
  LET r == luaZ_read(S.z, size)
      none == [i \in 1 .. size |-> 0]
  IN IF S.error # "" THEN Loaded(S, none)
     ELSE IF Len(r.b) < size THEN Loaded(error([S EXCEPT !.z = r.z], "truncated"), none) ELSE Loaded([S EXCEPT !.z = r.z], r.b)
RECURSIVE Value(_)
Value(b) == IF b = <<>> THEN 0 ELSE b[1] + BYTE * Value(Tail(b))
LoadVar(S, size) ==
  LET r == LoadBlock(S, size) IN Loaded(r.S, Value(r.v))
LoadByte(S) == LoadVar(S, 1)
LoadInt(S) == LoadVar(S, SIZEOF_int)
\* n elements, one after the other; none once an error is raised.
LoadElements(S, n, Load(_)) ==
  LET RECURSIVE From(_, _)
      From(s, k) == LET x == Load(s)  rest == From(x.S, k - 1) IN
                    IF k = 0 \/ s.error # "" THEN Loaded(s, <<>>) ELSE Loaded(rest.S, <<x.v>> \o rest.v)
  IN From(S, n)
LoadVector(S, Load(_)) == LET n == LoadInt(S) IN LoadElements(n.S, n.v, Load)
LoadString(S) ==
  LET byte == LoadByte(S)
      size == IF byte.v = LONGSIZE THEN LoadVar(byte.S, S.size_t) ELSE byte
  IN IF size.v = 0 THEN Loaded(size.S, NULL) ELSE LoadBlock(size.S, size.v - 1)
LoadCode(S) == LET n == LoadInt(S) IN LoadBlock(n.S, n.v)
LoadConstants(S) ==
  LoadVector(S, LAMBDA s :
    LET t == LoadByte(s)
        o == CASE t.v = LUA_TNIL -> Loaded(t.S, <<>>) [] t.v = LUA_TSTRING -> LoadString(t.S) [] OTHER -> LoadBlock(t.S, 1)
    IN Loaded(o.S, [tt |-> t.v, v |-> o.v]))
LoadUpvalues(S) ==
  LoadVector(S, LAMBDA s : LET a == LoadByte(s)  b == LoadByte(a.S) IN
                           Loaded(b.S, [name |-> NULL, instack |-> a.v, idx |-> b.v]))
LoadDebug(S) ==
  LET line == LoadVector(S, LoadInt)
      vars == LoadVector(line.S, LAMBDA s : LET v == LoadString(s)  a == LoadInt(v.S)  b == LoadInt(a.S) IN
                                            Loaded(b.S, [varname |-> v.v, startpc |-> a.v, endpc |-> b.v]))
      names == LoadVector(vars.S, LoadString)
  IN Loaded(names.S, [lineinfo |-> line.v, locvars |-> vars.v, names |-> names.v])
\* A function without a source of its own has its parent's.  (Mutant: it has none.)
OwnSource(source, psource) == source
Source(source, psource) == IF source = NULL THEN psource ELSE source
RECURSIVE LoadFunction(_, _)
LoadProtos(S, source) == LoadVector(S, LAMBDA s : LoadFunction(s, source))
LoadFunction(S, psource) ==
  LET own == LoadString(S)
      source == Source(own.v, psource)
      first == LoadInt(own.S)      last == LoadInt(first.S)
      params == LoadByte(last.S)   vararg == LoadByte(params.S)   stack == LoadByte(vararg.S)
      code == LoadCode(stack.S)
      k == LoadConstants(code.S)
      up == LoadUpvalues(k.S)
      p == LoadProtos(up.S, source)
      d == LoadDebug(p.S)
  IN Loaded(d.S, [source |-> source, linedefined |-> first.v, lastlinedefined |-> last.v, numparams |-> params.v,
       is_vararg |-> vararg.v, maxstacksize |-> stack.v, code |-> code.v, k |-> k.v, p |-> p.v,
       upvalues |-> [i \in DOMAIN up.v |-> IF i \in DOMAIN d.v.names THEN [up.v[i] EXCEPT !.name = d.v.names[i]] ELSE up.v[i]],
       lineinfo |-> d.v.lineinfo, locvars |-> d.v.locvars])

check(S, size, v, why) == LET r == LoadVar(S, size) IN IF r.v = v THEN r.S ELSE error(r.S, why)
checkliteral(S, s, msg) == LET r == LoadBlock(S, Len(s)) IN IF r.v = s THEN r.S ELSE error(r.S, msg)
fchecksize(S, size) == check(S, 1, size, "size mismatch")
checkHeader(S) ==
  LET a == checkliteral(S, Tail(LUA_SIGNATURE), "not a")
      b == check(check(a, 1, LUAC_VERSION, "version mismatch"), 1, LUAC_FORMAT, "format mismatch")
      c == checkliteral(b, LUAC_DATA, "corrupted")
      d == FoldLeft(fchecksize, c, <<SIZEOF_int, S.size_t, 1, SIZEOF_number, SIZEOF_number>>)
  IN check(check(d, SIZEOF_number, LUAC_NUM, "endianness mismatch"), SIZEOF_number, LUAC_NUM, "float format mismatch")
luaU_undump(S) == LET n == LoadByte(checkHeader(S)) IN LoadFunction(n.S, NULL)

\* ldo.c: the first byte tells a precompiled chunk from a text.
NoChunk(why) == [S |-> [error |-> why], v |-> <<>>]
f_parser(pieces, mode, size_t) ==
  LET c == luaZ_read([p |-> <<>>, pieces |-> pieces, eoz |-> FALSE], 1) IN
  IF c.b # <<Head(LUA_SIGNATURE)>> THEN NoChunk(IF "t" \in mode THEN "a text" ELSE "mode")
  ELSE IF "b" \notin mode THEN NoChunk("mode")
  ELSE luaU_undump([z |-> c.z, size_t |-> size_t, error |-> ""])

-----------------------------------------------------------------------------
(* What a dump is for *)

\* What is left of f: without the names when it is stripped, with the source of what contains it when it has none.
RECURSIVE Kept(_, _, _)
Kept(f, psource, strip) ==
  LET source == IF strip THEN NULL ELSE IF f.source = NULL THEN psource ELSE f.source IN
  [f EXCEPT !.source = source, !.p = [i \in DOMAIN f.p |-> Kept(f.p[i], source, strip)],
            !.lineinfo = IF strip THEN <<>> ELSE @, !.locvars = IF strip THEN <<>> ELSE @,
            !.upvalues = [i \in DOMAIN @ |-> [@[i] EXCEPT !.name = IF strip THEN NULL ELSE @]]]

\* The bytes in pieces of n, the first of m.
Pieces(bytes, m, n) ==
  LET k == IF Len(bytes) <= m THEN 0 ELSE (Len(bytes) - m + n - 1) \div n IN
  <<SubSeq(bytes, 1, m)>> \o [i \in 1 .. k |-> SubSeq(bytes, m + (i - 1) * n + 1, IF m + i * n < Len(bytes) THEN m + i * n ELSE Len(bytes))]

\* Where size_t is as wide as unsigned (the keyboard), a dump gives the function back however it is cut
\* into pieces, and nothing when it has lost its end; where size_t is wider (the hosts that dalua and
\* daluac run on) it is refused at its header, in any pieces, and never misread.
\* A chunk of another version or another build is refused; a writer that fails has been given a prefix.
ChunkRight(f, strip) ==
  LET d == luaU_dump(f, strip, 1000).out
      Parse(bytes, n) == f_parser(Pieces(bytes, 1, n), {"b"}, SIZEOF_unsigned)
      OnHost(bytes, n) == f_parser(Pieces(bytes, 1, n), {"b"}, 2 * SIZEOF_unsigned)
  IN /\ \A n \in {1, 3, 1000} : LET r == Parse(d, n) IN r.S.error = "" /\ r.v = Kept(f, NULL, strip)
     /\ \A n \in {1, 3, 1000} : OnHost(d, n).S.error = "size mismatch"
     /\ \A lost \in {1, 2, 15, Len(d) - 10} : Parse(SubSeq(d, 1, Len(d) - lost), 4).S.error = "truncated"
     /\ \A i \in 1 .. 15 : Parse([d EXCEPT ![i] = (@ + 1) % BYTE], 1000).S.error \notin {"", "truncated"}
     /\ \A i \in {1, 20, Len(d) - 1} : LET short == luaU_dump(f, strip, i) IN short.status # 0 /\ IsPrefix(short.out, d)

\* A function, its child and what they hold
Name(n) == [i \in 1 .. n |-> i % 4]
Function(source, n, k, ups, p) ==
  [source |-> source, linedefined |-> n, lastlinedefined |-> n + BYTE, numparams |-> 1, is_vararg |-> 1, maxstacksize |-> 2,
   code |-> <<n, 3>>, k |-> k, upvalues |-> [i \in 1 .. ups |-> [name |-> Name(i + 1), instack |-> i % 2, idx |-> i]], p |-> p,
   lineinfo |-> <<n, n + BYTE>>, locvars |-> <<[varname |-> Name(1), startpc |-> 1, endpc |-> 2]>>]
Constants(n) == <<[tt |-> LUA_TNIL, v |-> <<>>], [tt |-> LUA_TBOOLEAN, v |-> <<1>>], [tt |-> LUA_TNUMINT, v |-> <<4>>],
                  [tt |-> LUA_TSTRING, v |-> Name(n)]>>
Sources == {NULL, Name(2), Name(9)}
ChunksFrom(n) ==
  {Function(s, n, Constants(n), ups, p) : s \in Sources, ups \in 0 .. 2,
     p \in {<<>>} \cup {<<Function(t, 1, <<>>, 1, q), Function(u, 0, Constants(2), 0, <<>>)>> :
                          t \in Sources, u \in Sources, q \in {<<>>, <<Function(Name(2), 2, Constants(6), 1, <<>>)>>}}}
=============================================================================
