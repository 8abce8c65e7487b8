------------------------------- MODULE Daluac -------------------------------
(***************************************************************************)
(* daluac: compile a list of scripts, splice the chunks into one chained   *)
(* function, dump it into a growing array and write header and code to     *)
(* stdout (daluac.c, dacomp.c).                                            *)
(*                                                                         *)
(* The Lua stack holds what each call pushes: Chunk(k) for the k-th        *)
(* compiled script, Template for the compiled template, Combined for the   *)
(* spliced function and ErrorMsg for an error message.                     *)
(***************************************************************************)
EXTENDS Status, Sequences, SequencesExt

CONSTANTS
  MaxFiles,    \* bound: scripts on the command line
  BufSize,     \* sizeof(buffer) in _reader (64 in the code)
  InitCap,     \* INITIAL_CAPACITY of the array (32 in the code)
  BlockSizes,  \* sizes of the blocks lua_dump hands to _writer
  MaxBlocks    \* bound: blocks of one dump

ASSUME DaluacAssumption ==
  /\ MaxFiles \in Nat \ {0}  /\ MaxBlocks \in Nat \ {0}
  /\ InitCap \in Nat \ {0}   /\ BlockSizes \subseteq Nat \ {0}
  /\ BufSize \in Nat

VARIABLES
  pc,      \* where main, compile_files, combine or the dump is
  argv,    \* the command line: "file" or "-" per script
  i,       \* index of the script being looked at
  status,  \* status_t status
  stk,     \* the Lua stack of L
  arg,     \* the cell _reader counts in (`int arg` of combine)
  depth,   \* static int depth of _reader
  tmpl,    \* text produced by _reader so far
  protos,  \* f->p[0..] replaced so far, by script number
  size,    \* array.size
  cap,     \* array.capacity
  dumped,  \* blocks handed to _writer so far
  out      \* what was written to stdout

vars == <<pc, argv, i, status, stk, arg, depth, tmpl, protos, size, cap, dumped, out>>

\* argv, the files' part of the command line, is fixed; these group what a step leaves alone.
reading == <<arg, depth, tmpl, protos>>
array   == <<size, cap, dumped>>

N == Len(argv)

Chunk(k) == <<"chunk", k>>
Template == <<"template", 0>>
Combined == <<"combined", 0>>
ErrorMsg == <<"error", 0>>

Init ==
  /\ argv \in UNION {[1..n -> {"file", "-"}] : n \in 1..MaxFiles}
  /\ pc = "stat" /\ i = 1 /\ status = LUA_OK /\ stk = <<>>
  /\ arg = 0 /\ depth = 0 /\ tmpl = <<>> /\ protos = <<>>
  /\ size = 0 /\ cap = InitCap /\ dumped = <<>> /\ out = <<>>

-----------------------------------------------------------------------------
(* main, before compile_files *)

\* The mtime loop: "-" ends it, a script that cannot be stat'ed ends daluac.
Stat ==
  /\ pc = "stat"
  /\ IF i <= N /\ argv[i] = "file"
       THEN \/ i' = i + 1 /\ UNCHANGED <<pc, status>>
            \/ pc' = "exit" /\ status' = LUA_ERRFILE /\ UNCHANGED i
       ELSE pc' = "newstate" /\ UNCHANGED <<i, status>>
  /\ UNCHANGED <<argv, stk, reading, array, out>>

\* luaL_newstate and the array's malloc; either may run out of memory.
NewState ==
  /\ pc = "newstate" /\ i' = 1
  /\ \/ pc' = "load" /\ UNCHANGED status
     \/ pc' = "exit" /\ status' = LUA_ERRMEM
  /\ UNCHANGED <<argv, stk, reading, array, out>>

-----------------------------------------------------------------------------
(* compile_files: loading *)

\* luaL_loadfile pushes the compiled chunk, or an error message with a positive status.
LoadFile ==
  /\ pc = "load" /\ status = LUA_OK /\ i <= N
  /\ i' = i + 1
  /\ \/ stk' = Append(stk, Chunk(i)) /\ UNCHANGED status
     \/ /\ status' \in {LUA_ERRSYNTAX, LUA_ERRMEM, LUA_ERRFILE}
        /\ stk' = Append(stk, ErrorMsg)
  /\ UNCHANGED <<pc, argv, reading, array, out>>

\* The end of the loop.  combine() has nothing to do for a single chunk.
Loaded ==
  /\ pc = "load" /\ (status # LUA_OK \/ i > N)
  /\ pc' = IF status # LUA_OK THEN "report" ELSE IF Len(stk) = 1 THEN "dump" ELSE "reader"
  /\ arg' = IF pc' = "reader" THEN Len(stk) ELSE arg
  /\ UNCHANGED <<argv, i, status, stk, depth, tmpl, protos, array, out>>

-----------------------------------------------------------------------------
(* combine: the template and the splice *)

\* Does the text after the last "(function()end)(" fit the static buffer?  (the assert)
NoBoundsCheck == TRUE
ClosingFits == 3 + depth <= BufSize

\* The calls of _reader by lua_load, told apart by the cell's value before the increment:
\* "return", then a line per script, then "..." and the closing parentheses, then the end.
ReadReturn ==
  /\ pc = "reader" /\ arg > 1
  /\ depth' = arg /\ arg' = -arg
  /\ tmpl' = Append(tmpl, <<"return", 0>>)
  /\ UNCHANGED <<pc, argv, i, status, stk, protos, array, out>>

ReadFunction ==
  /\ pc = "reader" /\ arg < 0
  /\ arg' = arg + 1
  /\ tmpl' = Append(tmpl, <<"function", 0>>)
  /\ UNCHANGED <<pc, argv, i, status, stk, depth, protos, array, out>>

ReadClosing ==
  /\ pc = "reader" /\ arg = 0
  /\ arg' = 1
  /\ IF ClosingFits
       THEN tmpl' = Append(tmpl, <<"...", depth>>) /\ UNCHANGED pc
       ELSE pc' = "abort" /\ UNCHANGED tmpl
  /\ UNCHANGED <<argv, i, status, stk, depth, protos, array, out>>

\* lua_load has the whole text.  It pushes the template, which lua_insert(L, 1) moves to
\* the bottom; when memory runs out, the assertion on its status fails.
ReadEnd ==
  /\ pc = "reader" /\ arg = 1
  /\ \/ pc' = "splice" /\ stk' = <<Template>> \o stk
     \/ pc' = "abort"  /\ stk' = Append(stk, ErrorMsg)
  /\ UNCHANGED <<argv, i, status, reading, array, out>>

\* One iteration of the splice loop: f->p[i] becomes the chunk on top, which is popped.
\* (That its first upvalue is no longer in the stack and its lines are dropped is left out.)
SplicedFromBottom == stk[2]
SplicedFrom == Last(stk)

Splice ==
  /\ pc = "splice" /\ Len(protos) < N
  /\ protos' = Append(protos, SplicedFrom[2])
  /\ stk' = Front(stk)
  /\ UNCHANGED <<pc, argv, i, status, arg, depth, tmpl, array, out>>

Spliced ==
  /\ pc = "splice" /\ Len(protos) = N
  /\ pc' = "dump" /\ stk' = [stk EXCEPT ![Len(stk)] = Combined]
  /\ UNCHANGED <<argv, i, status, reading, array, out>>

-----------------------------------------------------------------------------
(* lua_dump through _writer *)

\* The doubling loop of _writer: the capacity after k rounds, of as few as are needed.
Doubled[k \in Nat] == IF k = 0 THEN cap ELSE 2 * Doubled[k - 1]
GrownOnce(need) == IF need > cap THEN 2 * cap ELSE cap
Grown(need) == Doubled[Min({k \in 0..need : Doubled[k] >= need})]

Writer(sz) ==
  /\ pc = "dump" /\ status = LUA_OK /\ Len(dumped) < MaxBlocks
  /\ \/ /\ cap' = Grown(size + sz)
        /\ size' = size + sz
        /\ UNCHANGED status
     \/ /\ Grown(size + sz) # cap                        \* realloc fails
        /\ status' = LUA_ERRMEM
        /\ UNCHANGED <<cap, size>>
  /\ dumped' = Append(dumped, sz)
  /\ UNCHANGED <<pc, argv, i, stk, reading, out>>

\* lua_dump returns (it stops calling _writer once a block failed); the chunk is popped.
Dumped ==
  /\ pc = "dump" /\ dumped # <<>>
  /\ pc' = "report" /\ stk' = Front(stk)
  /\ UNCHANGED <<argv, i, status, reading, array, out>>

-----------------------------------------------------------------------------
(* compile_files: the error report and the sanity check; main: the output *)

\* A positive status pops the message; then assert( lua_gettop(L) == 0 ).
Report ==
  LET popped == IF status > LUA_OK THEN 1 ELSE 0 IN
  /\ pc = "report"
  /\ stk' = SubSeq(stk, 1, Len(stk) - popped)
  /\ pc' = CASE Len(stk) # popped -> "abort"
             [] status = LUA_OK   -> "header"
             [] OTHER             -> "exit"
  /\ UNCHANGED <<argv, i, status, reading, array, out>>

\* dump_hdr and the final write: each is one write() that may fail.
WriteGoesOn(at, what, next) ==
  /\ pc = at
  /\ pc' = next
  /\ \/ out' = Append(out, [what |-> what, codesize |-> size]) /\ UNCHANGED status
     \/ status' = LUA_ERRFILE /\ UNCHANGED out
  /\ UNCHANGED <<argv, i, stk, reading, array>>

Write(at, what, next) ==
  /\ pc = at
  /\ \/ /\ out' = Append(out, [what |-> what, codesize |-> size])
        /\ pc' = next /\ UNCHANGED status
     \/ pc' = "exit" /\ status' = LUA_ERRFILE /\ UNCHANGED out
  /\ UNCHANGED <<argv, i, stk, reading, array>>

Next ==
  \/ Stat \/ NewState \/ LoadFile \/ Loaded
  \/ ReadReturn \/ ReadFunction \/ ReadClosing \/ ReadEnd
  \/ Splice \/ Spliced
  \/ (\E sz \in BlockSizes : Writer(sz)) \/ Dumped
  \/ Report \/ Write("header", "header", "code") \/ Write("code", "code", "exit")

Spec == Init /\ [][Next]_vars

-----------------------------------------------------------------------------
(* Properties *)

TypeOK ==
  /\ pc \in {"stat", "newstate", "load", "reader", "splice", "dump", "report",
             "header", "code", "exit", "abort"}
  /\ i \in 1..(MaxFiles + 1)
  /\ status \in {LUA_OK, LUA_ERRSYNTAX, LUA_ERRMEM, LUA_ERRFILE}
  /\ arg \in (-MaxFiles)..MaxFiles /\ depth \in 0..MaxFiles
  /\ protos \in Seq(1..MaxFiles) /\ size \in Nat /\ cap \in Nat

\* The template _reader writes has one "(function()end)(" per script and closes each of
\* them, so that it compiles to a function with exactly n inner functions (the two asserts
\* of combine), and the closing text stays inside _reader's static buffer.
TemplateFits ==
  /\ pc = "splice" =>
       tmpl = <<(<<"return", 0>>)>> \o [k \in 1..N |-> <<"function", 0>>] \o <<(<<"...", N>>)>>
  /\ \A k \in DOMAIN tmpl : tmpl[k][1] = "..." => 3 + tmpl[k][2] <= BufSize

\* The combined function calls the scripts in the order listed, the results of one being
\* the arguments of the next: the innermost call is script 1, the outermost script N.
ScriptsChained ==
  pc = "dump" /\ N > 1 => protos = [k \in 1..N |-> N - k + 1] /\ stk = <<Combined>>

\* The sum of a sequence of numbers.
Total(s) == LET sum[n \in 0..Len(s)] == IF n = 0 THEN 0 ELSE sum[n - 1] + s[n] IN sum[Len(s)]

\* _writer never copies past the end of the array, and loses no block: the array holds
\* exactly the bytes dumped so far.
ArrayHoldsDump ==
  /\ size <= cap
  /\ status = LUA_OK => size = Total(dumped)

\* Nothing reaches stdout unless every script was compiled and the dump is complete, the
\* header announces the size of the code behind it, and daluac exits with LUA_OK exactly
\* when both were written.
AllOrNothing ==
  /\ out # <<>> => i > N /\ out[1] = [what |-> "header", codesize |-> size]
  /\ pc = "exit" => (status = LUA_OK <=> [k \in DOMAIN out |-> out[k].what] = <<"header", "code">>)

\* dacomp.c:155 "Sanity check" asserts lua_gettop(L) == 0 when compile_files returns, and
\* its stack effect is ( -- ): the stack must hold the error message alone, if there is one.
OnlyMessageLeft ==
  pc = "report" => stk = IF status > LUA_OK THEN <<ErrorMsg>> ELSE <<>>
=============================================================================
