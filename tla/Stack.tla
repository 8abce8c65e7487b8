-------------------------------- MODULE Stack --------------------------------
(***************************************************************************)
(* The stack of one C function and what is built on it: index arithmetic,  *)
(* rotation and growth (lapi.c, ldo.c), and the auxiliary library's string *)
(* buffers, references, names of functions, tracebacks and files           *)
(* (lauxlib.c).  A stack is the sequence of the values above ci->func; a   *)
(* value is any value of the model.                                        *)
(***************************************************************************)
EXTENDS Integers, Sequences, SequencesExt

LUAI_MAXSTACK == 30
EXTRA_STACK == 5
ERRORSTACKSIZE == LUAI_MAXSTACK + 4
LEVELS1 == 10
LEVELS2 == 11
LUAL_BUFFERSIZE == 2
SIZE_MAX == 31       \* size_t has five bits
BUFSIZ == 2
freelist == 0
LUA_REFNIL == -1
nil == "nil"

-----------------------------------------------------------------------------
(* Indices and the order of the values. *)

\* A negative index counts from the top; a positive one may lie above it.
lua_absindex(st, idx) == IF idx > 0 THEN idx ELSE Len(st) + 1 + idx
index2addr(st, idx) == LET i == lua_absindex(st, idx) IN IF i \in DOMAIN st THEN st[i] ELSE nil
lua_settop(st, idx) ==
  LET n == IF idx >= 0 THEN idx ELSE Len(st) + idx + 1
  IN [i \in 1 .. n |-> IF i <= Len(st) THEN st[i] ELSE nil]
lua_pop(st, n) == lua_settop(st, -n - 1)

\* reverse is a loop that swaps from both ends.
RECURSIVE reverse(_, _, _)
reverse(st, from, to) ==
  IF from < to THEN reverse([st EXCEPT ![from] = st[to], ![to] = st[from]], from + 1, to - 1) ELSE st
\* Three reversals: of the prefix up to m, of the rest, of the whole.
lua_rotate(st, idx, n) ==
  LET p == lua_absindex(st, idx)
      m == IF n >= 0 THEN Len(st) - n ELSE p - n - 1
  IN reverse(reverse(reverse(st, p, m), m + 1, Len(st)), p, Len(st))
lua_copy(st, fromidx, toidx) == [st EXCEPT ![lua_absindex(st, toidx)] = index2addr(st, fromidx)]
lua_pushvalue(st, idx) == Append(st, index2addr(st, idx))
lua_insert(st, idx) == lua_rotate(st, idx, 1)
lua_remove(st, idx) == lua_pop(lua_rotate(st, idx, -1), 1)
lua_replace(st, idx) == lua_pop(lua_copy(st, -1, idx), 1)
\* Between two threads the n values keep their order.
lua_xmove(from, to, n) ==
  [from |-> lua_pop(from, n), to |-> to \o SubSeq(from, Len(from) - n + 1, Len(from))]

-----------------------------------------------------------------------------
(* The memory of a stack: its size, the slots in use below top, and ci->top. *)

stack_last(g) == g.size - EXTRA_STACK
luaD_reallocstack(g, newsize) == [g EXCEPT !.size = newsize]
\* Doubled, at least what is needed, never above the limit: then room for the error handler.
luaD_growstack(g, n) ==
  LET needed == g.top + n + EXTRA_STACK
      doubled == IF 2 * g.size > LUAI_MAXSTACK THEN LUAI_MAXSTACK ELSE 2 * g.size
      newsize == IF doubled < needed THEN needed ELSE doubled
  IN IF g.size > LUAI_MAXSTACK THEN [g EXCEPT !.status = "ERRERR"]
     ELSE IF newsize > LUAI_MAXSTACK THEN [luaD_reallocstack(g, ERRORSTACKSIZE) EXCEPT !.status = "ERRRUN"]
     ELSE luaD_reallocstack(g, newsize)
lua_checkstack(g, n) ==
  LET grown == IF stack_last(g) - g.top > n THEN g ELSE luaD_growstack(g, n)
      refused == stack_last(g) - g.top <= n /\ g.top + EXTRA_STACK > LUAI_MAXSTACK - n
      res == ~refused /\ grown.status = "OK"
  IN [res |-> res,
      g |-> IF ~res THEN [(IF refused THEN g ELSE grown) EXCEPT !.status = "OK"]
            ELSE [grown EXCEPT !.citop = IF @ < g.top + n THEN g.top + n ELSE @]]
stackinuse(g) == (IF g.top < g.citop THEN g.citop ELSE g.top) + 1
\* Called by the collector: the stack shrinks, unless an overflow is being handled.
luaD_shrinkstack(g) ==
  LET used == stackinuse(g)
      good == used + used \div 8 + 2 * EXTRA_STACK
      goodsize == IF good > LUAI_MAXSTACK THEN LUAI_MAXSTACK ELSE good
  IN IF used <= LUAI_MAXSTACK - EXTRA_STACK /\ goodsize < g.size THEN luaD_reallocstack(g, goodsize) ELSE g

-----------------------------------------------------------------------------
(* String buffers: B has the stack st, the bytes b written to it, its size, whether it moved to *)
(* a userdata on the stack (box), and an error.  The box is the value BOX.                      *)

BOX == <<"box">>
luaL_buffinit(st) == [st |-> st, b |-> <<>>, size |-> LUAL_BUFFERSIZE, box |-> FALSE, err |-> FALSE]
wrap(n) == n % (SIZE_MAX + 1)
luaL_prepbuffsize(B, sz) ==
  LET n == Len(B.b)
      twice == wrap(B.size * 2)
      newsize == IF wrap(twice - n) < sz THEN wrap(n + sz) ELSE twice
  IN IF B.size - n >= sz THEN B
     ELSE IF newsize < n \/ wrap(newsize - n) < sz THEN [B EXCEPT !.err = TRUE]
     ELSE [B EXCEPT !.size = newsize, !.box = TRUE, !.st = IF B.box THEN @ ELSE Append(@, BOX)]
luaL_addlstring(B, s) ==
  LET p == luaL_prepbuffsize(B, Len(s))
  IN IF s = <<>> \/ B.err THEN B ELSE IF p.err THEN p ELSE [p EXCEPT !.b = @ \o s]
\* The string on the top goes below the box, if there is one; adding it may put a box above it.
\* (Mutant: whether there is a box is asked only once.)
addvalueAskedOnce(B) ==
  LET a == luaL_addlstring(IF B.box THEN [B EXCEPT !.st = lua_insert(@, -2)] ELSE B, B.st[Len(B.st)])
  IN IF a.err THEN a ELSE [a EXCEPT !.st = lua_remove(@, IF B.box THEN -2 ELSE -1)]
luaL_addvalue(B) ==
  LET a == luaL_addlstring(IF B.box THEN [B EXCEPT !.st = lua_insert(@, -2)] ELSE B, B.st[Len(B.st)])
  IN IF a.err THEN a ELSE [a EXCEPT !.st = lua_remove(@, IF a.box THEN -2 ELSE -1)]
luaL_pushresult(B) ==
  LET st == Append(B.st, B.b) IN IF B.box THEN lua_remove(st, -2) ELSE st

-----------------------------------------------------------------------------
(* References in a table t, a function from the integers from 0 on; 0 is nil, and the integer 0.  *)
(* Free references form a list from freelist.                                                      *)

\* The border; there is one only when the list is empty, which is when luaL_ref asks.
rawlen(t) == CHOOSE i \in DOMAIN t : t[i + 1] = 0
luaL_ref(t, v) ==
  LET first == t[freelist]
      ref == IF first # 0 THEN first ELSE rawlen([t EXCEPT ![freelist] = 1]) + 1
      taken == IF first # 0 THEN [t EXCEPT ![freelist] = t[first]] ELSE t
  IN IF v = 0 THEN [t |-> t, ref |-> LUA_REFNIL] ELSE [t |-> [taken EXCEPT ![ref] = v], ref |-> ref]
luaL_unref(t, ref) == IF ref < 0 THEN t ELSE [t EXCEPT ![ref] = t[freelist], ![freelist] = ref]

-----------------------------------------------------------------------------
(* The name of a function: its path in the tables of package.loaded.  h maps a table to its pairs; *)
(* a value is a record [t |-> kind, v |-> what].                                                   *)

Str(names) == [t |-> "string", v |-> names]
NilValue == [t |-> "nil", v |-> <<>>]
\* st ends with a table and the last key visited, i - 1 pairs into it; the value found stays as a name.
RECURSIVE findfieldFrom(_, _, _, _, _)
findfieldFrom(h, st, objidx, level, i) ==
  LET pairs == h[index2addr(st, -2).v]
      kv == lua_pop(st, 1) \o pairs[i]
      deeper == level > 1 /\ index2addr(kv, -1).t = "table"
      sub == IF deeper THEN findfieldFrom(h, Append(kv, NilValue), objidx, level - 1, 1)
             ELSE [found |-> FALSE, st |-> kv]
      next == findfieldFrom(h, lua_pop(IF index2addr(kv, -2).t = "string" THEN sub.st ELSE kv, 1),
                            objidx, level, i + 1)
      dotted == lua_insert(Append(lua_remove(sub.st, -2), Str(<<".">>)), -2)
      n == Len(dotted)
  IN IF i > Len(pairs) THEN [found |-> FALSE, st |-> lua_pop(st, 1)]
     ELSE IF index2addr(kv, -2).t # "string" THEN next
     ELSE IF kv[objidx] = index2addr(kv, -1) THEN [found |-> TRUE, st |-> lua_pop(kv, 1)]
     ELSE IF ~sub.found THEN next
     ELSE [found |-> TRUE,
           st |-> Append(lua_pop(dotted, 3), Str(dotted[n - 2].v \o dotted[n - 1].v \o dotted[n].v))]
findfield(h, st, objidx, level) == findfieldFrom(h, Append(st, NilValue), objidx, level, 1)
pushglobalfuncname(h, st, function, loaded) ==
  LET top == Len(st)
      r == findfield(h, st \o <<function, loaded>>, top + 1, 2)
      name == index2addr(r.st, -1).v
      global == Len(name) > 2 /\ SubSeq(name, 1, 2) = <<"_G", ".">>
      named == IF global THEN lua_remove(Append(r.st, Str(SubSeq(name, 3, Len(name)))), -2) ELSE r.st
  IN IF r.found THEN [found |-> TRUE, st |-> lua_pop(lua_copy(named, -1, top + 1), 2)]
     ELSE [found |-> FALSE, st |-> lua_settop(r.st, top)]

-----------------------------------------------------------------------------
(* Tracebacks of a thread with depth active functions. *)

DOTS == -1
lua_getstack(depth, level) == level \in 0 .. depth - 1
RECURSIVE doubling(_, _, _), bisect(_, _, _)
doubling(depth, li, le) == IF lua_getstack(depth, le) THEN doubling(depth, le, 2 * le) ELSE <<li, le>>
bisect(depth, li, le) ==
  LET m == (li + le) \div 2
  IN IF li >= le THEN le - 1
     ELSE IF lua_getstack(depth, m) THEN bisect(depth, m + 1, le) ELSE bisect(depth, li, m)
lastlevel(depth) == LET b == doubling(depth, 1, 1) IN bisect(depth, b[1], b[2])
\* The levels shown; n1 counts the ones before the dots.
RECURSIVE tracebackFrom(_, _, _, _)
tracebackFrom(depth, last, n1, level) ==
  IF ~lua_getstack(depth, level) THEN <<>>
  ELSE IF n1 = 0 THEN <<DOTS>> \o tracebackFrom(depth, last, -1, last - LEVELS2 + 1)
  ELSE <<level>> \o tracebackFrom(depth, last, n1 - 1, level + 1)
luaL_traceback(depth, level) ==
  LET last == lastlevel(depth)
  IN tracebackFrom(depth, last, IF last - level > LEVELS1 + LEVELS2 THEN LEVELS1 ELSE -1, level)

-----------------------------------------------------------------------------
(* Loading a file f of bytes: lf has the bytes read ahead (buff), the byte c after them, and how   *)
(* many bytes of the file were read.                                                               *)

BOM == <<"EF", "BB", "BF">>
EOZ == "EOF"
ESC == "ESC"
NL == "nl"
getc(f, pos) == IF pos < Len(f) THEN f[pos + 1] ELSE EOZ
skipBOM(f) ==
  LET k == CHOOSE j \in 0 .. 3 : /\ j <= Len(f) /\ SubSeq(f, 1, j) = SubSeq(BOM, 1, j)
                                 /\ j < 3 => getc(f, j) # BOM[j + 1]
  IN [buff |-> IF k = 3 THEN <<>> ELSE SubSeq(BOM, 1, k), c |-> getc(f, k), pos |-> k + 1]
skipcomment(f) ==
  LET lf == skipBOM(f)
      eol == CHOOSE j \in lf.pos .. Len(f) : /\ j = Len(f) \/ f[j] = NL
                                             /\ \A i \in lf.pos .. j - 1 : f[i] # NL
  IN IF lf.c = "#" THEN [lf EXCEPT !.c = getc(f, eol), !.pos = eol + 1] ELSE lf
RECURSIVE blocks(_)
blocks(s) == IF s = <<>> THEN <<>>
             ELSE IF Len(s) <= BUFSIZ THEN <<s>> ELSE <<SubSeq(s, 1, BUFSIZ)>> \o blocks(SubSeq(s, BUFSIZ + 1, Len(s)))
\* What getF hands to lua_load, piece by piece.
getF(f, lf) == (IF lf.buff = <<>> THEN <<>> ELSE <<lf.buff>>) \o blocks(SubSeq(f, lf.pos + 1, Len(f)))
\* fails is the call that fails.  The file's name is on the stack until the end.
luaL_loadfilex(f, st, fails) ==
  LET fnameindex == Len(st) + 1
      text == skipcomment(f)
      lined == [text EXCEPT !.buff = @ \o (IF skipBOM(f).c = "#" THEN <<NL>> ELSE <<>>)]
      lf == IF text.c = ESC THEN skipcomment(f) ELSE lined
      full == [lf EXCEPT !.buff = @ \o (IF lf.c = EOZ THEN <<>> ELSE <<lf.c>>)]
      named == Append(st, "filename")
      errfile(s) == [st |-> lua_remove(Append(s, "message"), fnameindex), fed |-> <<>>]
      loaded == Append(named, "chunk or message")
  IN CASE fails = "open" \/ (fails = "reopen" /\ text.c = ESC) -> errfile(named)
       [] fails = "read" -> errfile(lua_settop(loaded, fnameindex))
       [] fails = "none" \/ (fails = "reopen" /\ text.c # ESC) ->
            [st |-> lua_remove(loaded, fnameindex), fed |-> getF(f, full)]

-----------------------------------------------------------------------------
(* What they are for. *)

\* Rotating moves every value n positions towards the top, around the segment; moving values between
\* threads, inserting, removing and replacing one keep the order of the others.
RotatedRight(st, idx, n) ==
  LET p == lua_absindex(st, idx)
      k == Len(st) - p + 1
      r == lua_rotate(st, idx, n)
  IN /\ \A i \in 1 .. p - 1 : r[i] = st[i]
     /\ \A i \in p .. Len(st) : r[p + ((i - p + n) % k)] = st[i]
     /\ lua_remove(st, idx) = RemoveAt(st, p)
     /\ lua_insert(st, idx) = InsertAt(lua_pop(st, 1), p, st[Len(st)])
     /\ p < Len(st) => lua_replace(st, idx) = ReplaceAt(lua_pop(st, 1), p, st[Len(st)])
     /\ LET x == lua_xmove(st, <<"other">>, k)
        IN x.from = SubSeq(st, 1, p - 1) /\ x.to = <<"other">> \o SubSeq(st, p, Len(st))

\* After lua_checkstack says yes the n slots are there, below the ones kept for errors, and the frame
\* may use them; when it says no the frame is as before; the collector takes none of them back.
GrownRight(g, n) ==
  LET c == lua_checkstack(g, n)
      s == luaD_shrinkstack(c.g)
  IN /\ c.res => /\ c.g.top + n <= stack_last(c.g) /\ c.g.citop >= c.g.top + n
                 /\ (g.size <= LUAI_MAXSTACK => c.g.size <= LUAI_MAXSTACK)
     /\ ~c.res => c.g.citop = g.citop
     /\ (g.top + n + EXTRA_STACK <= LUAI_MAXSTACK) => c.res
     /\ s.citop <= stack_last(s) /\ s.top <= stack_last(s)

\* A buffer's operations, each a number: 0 .. 9 adds that many bytes, 10 + n adds a string of n bytes
\* that is on the stack.
RECURSIVE Buffered(_, _)
Buffered(B, ops) ==
  IF ops = <<>> \/ B.err THEN B
  ELSE LET s == [i \in 1 .. ops[1] % 10 |-> ops[1]]
       IN Buffered(IF ops[1] >= 10 THEN luaL_addvalue([B EXCEPT !.st = Append(@, s)]) ELSE luaL_addlstring(B, s), Tail(ops))
\* A buffer gives the bytes written to it, in order, as one value above what was on the stack, and
\* nothing else; until then a box in use is on the stack; it fails only when twice the number of bytes does not fit in a size.
BufferRight(ops) ==
  LET B == Buffered(luaL_buffinit(<<<<"below">>>>), ops)
      bytes == FlattenSeq([i \in DOMAIN ops |-> [j \in 1 .. ops[i] % 10 |-> ops[i]]])
  IN IF B.err THEN 2 * Len(bytes) > SIZE_MAX
     ELSE B.st = (IF B.box THEN <<<<"below">>, BOX>> ELSE <<<<"below">>>>) /\ luaL_pushresult(B) = <<<<"below">>, bytes>>

\* References taken and given back: ops has 0 to take one, i to give back the i-th one that is live.
RECURSIVE Referred(_, _, _)
Referred(t, live, ops) ==
  IF ops = <<>> THEN [t |-> t, live |-> live]
  ELSE IF ops[1] = 0 THEN LET v == 100 + Len(ops)
                              r == luaL_ref(t, v) IN Referred(r.t, Append(live, <<r.ref, v>>), Tail(ops))
  ELSE Referred(luaL_unref(t, live[ops[1]][1]), RemoveAt(live, ops[1]), Tail(ops))
RECURSIVE Referring(_, _)
Referring(n, k) ==     \* the sequences of n operations with k live references at first
  IF n = 0 THEN {<<>>}
  ELSE {<<0>> \o s : s \in Referring(n - 1, k + 1)} \cup {<<i>> \o s : i \in 1 .. k, s \in Referring(n - 1, k - 1)}
\* Two live references are never the same number, and each holds its value.
RefsRight(ops) ==
  LET r == Referred([i \in 0 .. Len(ops) + 1 |-> 0], <<>>, ops)
  IN /\ \A i, j \in DOMAIN r.live : i # j => r.live[i][1] # r.live[j][1]
     /\ \A i \in DOMAIN r.live : r.live[i][1] # freelist /\ r.t[r.live[i][1]] = r.live[i][2]

\* The name pushed for a function leads to it, without _G.; there is one whenever a path of at most two
\* names leads to it; the stack is as before, but for the name.
NameRight(h, function, loaded) ==
  LET st == <<NilValue>>
      r == pushglobalfuncname(h, st, function, loaded)
      Pairs(table) == {p \in {h[table.v][i] : i \in DOMAIN h[table.v]} : p[1].t = "string"}
      Paths == {p[1].v : p \in {q \in Pairs(loaded) : q[2] = function}}
               \cup UNION {{p[1].v \o <<".">> \o q[1].v : q \in {x \in Pairs(p[2]) : x[2] = function}} :
                           p \in {q \in Pairs(loaded) : q[2].t = "table"}}
      Named == {IF Len(p) = 3 /\ p[1] = "_G" THEN <<p[3]>> ELSE p : p \in Paths}
  IN /\ r.found <=> Paths # {}
     /\ IF r.found THEN \E p \in Named : r.st = Append(st, Str(p)) ELSE r.st = st

\* A traceback shows every level from the given one on, in order, except that one row of dots stands
\* for the levels between the first LEVELS1 and the last LEVELS2, when there are at least two of them.
TracebackRight(depth, level) ==
  LET shown == luaL_traceback(depth, level)
      levels == [i \in 1 .. (IF depth > level THEN depth - level ELSE 0) |-> level + i - 1]
      n == Len(levels)
  IN shown = IF n <= LEVELS1 + LEVELS2 + 1 THEN levels
             ELSE SubSeq(levels, 1, LEVELS1) \o <<DOTS>> \o SubSeq(levels, n - LEVELS2 + 1, n)

\* The bytes of a file without its mark and without a first line that starts with #, which leaves an
\* empty line in a text and nothing in a binary chunk.  (A # after a part of the mark is not covered.)
FileText(f) ==
  LET g == IF Len(f) >= 3 /\ SubSeq(f, 1, 3) = BOM THEN SubSeq(f, 4, Len(f)) ELSE f
      eol == {i \in DOMAIN g : g[i] = NL}
      rest == IF eol = {} THEN <<>> ELSE SubSeq(g, 1 + CHOOSE i \in eol : \A j \in eol : i <= j, Len(g))
  IN IF g = <<>> \/ g[1] # "#" THEN g
     ELSE IF rest # <<>> /\ rest[1] = ESC THEN rest ELSE <<NL>> \o rest
\* The parser gets the text of the file, in pieces none of which is empty; the stack gets one value.
LoadedFileRight(f, fails) ==
  LET r == luaL_loadfilex(f, <<"below">>, fails)
      odd == skipBOM(f).c = "#" /\ skipBOM(f).buff # <<>>
  IN /\ Len(r.st) = 2 /\ r.st[1] = "below" /\ r.st[2] # "filename"
     /\ fails = "none" /\ ~odd => FlattenSeq(r.fed) = FileText(f)
     /\ \A i \in DOMAIN r.fed : r.fed[i] # <<>>

=============================================================================
