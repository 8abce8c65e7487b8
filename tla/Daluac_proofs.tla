---------------------------- MODULE Daluac_proofs ----------------------------
(***************************************************************************)
(* Theorems about Daluac, for any number of scripts, any size of the       *)
(* reader's buffer and of the array, and any blocks of the dump.           *)
(*                                                                         *)
(* The invariant ties the cell in which _reader counts to the text it has  *)
(* written, the number of prototypes in the template to the chunks still   *)
(* on the Lua stack, and the array's size to the blocks of the dump.       *)
(***************************************************************************)
EXTENDS Daluac, SequenceTheorems, Induction

\* The chunks of the first n scripts, in order from position p of the Lua stack.
Chunks(p, n) == Len(stk) = p + n - 1 /\ \A k \in 1..n : stk[p + k - 1] = Chunk(k)

\* The template's text up to and including n inner functions.
Functions(n) == Len(tmpl) = n + 1 /\ tmpl[1] = <<"return", 0>> /\ \A k \in 1..n : tmpl[k + 1] = <<"function", 0>>
Whole == Len(tmpl) = N + 2 /\ tmpl[1] = <<"return", 0>> /\ tmpl[N + 2] = <<"...", N>>
         /\ \A k \in 1..N : tmpl[k + 1] = <<"function", 0>>

Header == [what |-> "header", codesize |-> size]
CodeOf == [what |-> "code", codesize |-> size]

StackItem == {"chunk", "template", "combined", "error"} \X Nat
TextItem  == {"return", "function", "..."} \X Nat

Types ==
  /\ TypeOK
  /\ argv \in Seq({"file", "-"}) /\ N \in 1..MaxFiles /\ i \in 1..(N + 1)
  /\ stk \in Seq(StackItem)
  /\ tmpl \in Seq(TextItem)
  /\ dumped \in Seq(Nat)

\* Compiling: the stack holds what was compiled; nothing else has begun.
Loading ==
  /\ pc \in {"stat", "newstate"} => status = LUA_OK /\ stk = <<>>
  /\ pc = "load" /\ status = LUA_OK => Chunks(1, i - 1)
  /\ pc \in {"stat", "newstate", "load"} => tmpl = <<>> /\ protos = <<>> /\ depth = 0
  /\ pc \in {"stat", "newstate", "load", "reader", "splice"} => dumped = <<>> /\ size = 0
  /\ pc \in {"reader", "splice", "dump", "header", "code"} => i = N + 1
  /\ pc = "report" /\ status = LUA_OK => i = N + 1
  /\ pc \in {"reader", "splice", "header", "code"} => status = LUA_OK

\* The cell _reader counts in tells how much of the text it has written.
Reading ==
  /\ pc = "reader" =>
       /\ N > 1 /\ Chunks(1, N) /\ protos = <<>>
       /\ arg > 1  => arg = N /\ tmpl = <<>> /\ depth = 0
       /\ arg <= 0 => depth = N /\ arg >= -N /\ Functions(N + arg)
       /\ arg = 1  => Whole
  /\ \A k \in DOMAIN tmpl : tmpl[k][1] = "..." => 3 + tmpl[k][2] <= BufSize

\* The splice takes the chunks from the top.
Splicing ==
  /\ pc = "splice" =>
       /\ N > 1 /\ Whole /\ Len(protos) <= N
       /\ Chunks(2, N - Len(protos)) /\ stk[1] = Template
       /\ \A k \in 1..Len(protos) : protos[k] = N - k + 1
  /\ pc = "dump" =>
       /\ Len(stk) = 1
       /\ N > 1 => stk[1] = Combined /\ Len(protos) = N /\ \A k \in 1..N : protos[k] = N - k + 1

Dumping ==
  /\ cap > 0 /\ size <= cap
  /\ status = LUA_OK => size = Total(dumped)

Writing ==
  /\ pc \notin {"code", "exit"} => out = <<>>
  /\ pc = "code" => out = <<Header>>
  /\ pc = "exit" /\ status = LUA_OK  => out = <<Header, CodeOf>>
  /\ pc = "exit" /\ status # LUA_OK => out = <<>> \/ out = <<Header>>
  /\ pc = "exit" /\ out # <<>> => i = N + 1

IInv == Types /\ Loading /\ Reading /\ Splicing /\ Dumping /\ Writing

-----------------------------------------------------------------------------
(* The operators *)

\* A recursive definition over 0..m has the value its equations give.
LEMMA SumIs ==
  ASSUME NEW s \in Seq(Nat), NEW sum, sum = CHOOSE g : g = [n \in 0..Len(s) |-> IF n = 0 THEN 0 ELSE g[n - 1] + s[n]]
  PROVE  sum = [n \in 0..Len(s) |-> IF n = 0 THEN 0 ELSE sum[n - 1] + s[n]]
<1> DEFINE h == [p \in Nat \X Nat |-> IF p[1] + 1 \in 1..Len(s) THEN p[2] + s[p[1] + 1] ELSE p[2]]
<1>1. h \in [Nat \X Nat -> Nat]
  <2>1. ASSUME NEW p \in Nat \X Nat PROVE (IF p[1] + 1 \in 1..Len(s) THEN p[2] + s[p[1] + 1] ELSE p[2]) \in Nat
    OBVIOUS
  <2> QED
    BY <2>1
<1>2. PICK f \in [Nat -> Nat] : f[0] = 0 /\ \A n \in Nat : f[n + 1] = h[<<n, f[n]>>]
  <2>1. 0 \in Nat
    OBVIOUS
  <2> HIDE DEF h
  <2>2. Iterates(Nat, 0, h) # {}
    BY <1>1, <2>1, RecursionOnNat
  <2> QED
    BY <2>2 DEF Iterates
<1> DEFINE g == [n \in 0..Len(s) |-> f[n]]
<1>3. \A n \in 1..Len(s) : g[n] = g[n - 1] + s[n]
  <2> TAKE n \in 1..Len(s)
  <2>1. n - 1 \in Nat /\ n - 1 \in 0..Len(s) /\ (n - 1) + 1 = n
    OBVIOUS
  <2>2. f[n] = h[<<n - 1, f[n - 1]>>]
    BY <1>2, <2>1
  <2>3. h[<<n - 1, f[n - 1]>>] = f[n - 1] + s[n]
    BY <1>2, <2>1
  <2> QED
    BY <2>1, <2>2, <2>3
<1>4. g[0] = 0
  BY <1>2
<1>5. g = [n \in 0..Len(s) |-> IF n = 0 THEN 0 ELSE g[n - 1] + s[n]]
  <2>1. ASSUME NEW n \in 0..Len(s) PROVE g[n] = IF n = 0 THEN 0 ELSE g[n - 1] + s[n]
    <3>1. n = 0 \/ n \in 1..Len(s)
      OBVIOUS
    <3> HIDE DEF g
    <3> QED
      BY <1>3, <1>4, <3>1
  <2> QED
    BY <2>1
<1> HIDE DEF g
<1> QED
  BY <1>5

\* The sum of a sequence is that of the numbers before the last, and the last.
LEMMA TotalOf ==
  /\ Total(<<>>) = 0
  /\ \A s \in Seq(Nat), e \in Nat : Total(Append(s, e)) = Total(s) + e /\ Total(s) \in Nat
<1> DEFINE Sum(s) == CHOOSE g : g = [n \in 0..Len(s) |-> IF n = 0 THEN 0 ELSE g[n - 1] + s[n]]
<1>1. \A s : Total(s) = Sum(s)[Len(s)]
  BY DEF Total
<1>2. \A s \in Seq(Nat) : Sum(s) = [n \in 0..Len(s) |-> IF n = 0 THEN 0 ELSE Sum(s)[n - 1] + s[n]]
  BY SumIs
<1> HIDE DEF Sum
<1>3. \A s \in Seq(Nat) : Sum(s)[0] = 0 /\ \A n \in 1..Len(s) : Sum(s)[n] = Sum(s)[n - 1] + s[n]
  BY <1>2
<1>4. ASSUME NEW s \in Seq(Nat), NEW e \in Nat PROVE Total(Append(s, e)) = Total(s) + e /\ Total(s) \in Nat
  <2> DEFINE t == Append(s, e)
             A == {n \in Nat : n <= Len(s) => Sum(t)[n] = Sum(s)[n] /\ Sum(s)[n] \in Nat}
  <2>1. t \in Seq(Nat) /\ Len(t) = Len(s) + 1 /\ t[Len(t)] = e /\ \A n \in 1..Len(s) : t[n] = s[n]
    OBVIOUS
  <2> HIDE DEF t
  <2>2. 0 \in A
    BY <1>3, <2>1
  <2>3. ASSUME NEW n \in Nat, n \in A PROVE n + 1 \in A
    <3>1. SUFFICES ASSUME n + 1 <= Len(s) PROVE Sum(t)[n + 1] = Sum(s)[n + 1] /\ Sum(s)[n + 1] \in Nat
      OBVIOUS
    <3>2. n + 1 \in 1..Len(s) /\ n + 1 \in 1..Len(t) /\ (n + 1) - 1 = n
      BY <2>1, <3>1
    <3>3. Sum(t)[n + 1] = Sum(t)[n] + t[n + 1]
      BY <1>3, <2>1, <3>2
    <3>4. Sum(s)[n + 1] = Sum(s)[n] + s[n + 1]
      BY <1>3, <3>2
    <3>5. t[n + 1] = s[n + 1] /\ s[n + 1] \in Nat
      BY <2>1, <3>2
    <3> QED
      BY <2>3, <3>1, <3>3, <3>4, <3>5
  <2> HIDE DEF A
  <2>4. Nat \subseteq A
    BY <2>2, <2>3, NatInd
  <2>5. Sum(t)[Len(s)] = Sum(s)[Len(s)] /\ Sum(s)[Len(s)] \in Nat
    BY <2>4 DEF A
  <2>6. Sum(t)[Len(t)] = Sum(t)[Len(s)] + e
    BY <1>3, <2>1
  <2>7. Total(t) = Sum(t)[Len(t)] /\ Total(s) = Sum(s)[Len(s)]
    BY <1>1
  <2> QED
    BY <2>5, <2>6, <2>7 DEF t
<1>5. Total(<<>>) = 0
  <2>1. <<>> \in Seq(Nat) /\ Len(<<>>) = 0
    OBVIOUS
  <2> QED
    BY <1>1, <1>3, <2>1
<1> QED
  BY <1>4, <1>5

\* The doubling loop: it ends, and then the capacity is enough.
LEMMA GrownEnough ==
  ASSUME cap \in Nat \ {0}, NEW need \in Nat
  PROVE  Grown(need) \in Nat /\ Grown(need) >= need /\ Grown(need) > 0
<1> DEFINE h == [p \in Nat \X Nat |-> 2 * p[2]]
<1>1. h \in [Nat \X Nat -> Nat]
  OBVIOUS
<1>2. PICK f \in [Nat -> Nat] : f[0] = cap /\ \A n \in Nat : f[n + 1] = h[<<n, f[n]>>]
  <2>1. cap \in Nat
    OBVIOUS
  <2> HIDE DEF h
  <2>2. Iterates(Nat, cap, h) # {}
    BY <1>1, <2>1, RecursionOnNat
  <2> QED
    BY <2>2 DEF Iterates
<1>3. \A n \in Nat : f[n + 1] = 2 * f[n]
  BY <1>2
<1>4. f = [k \in Nat |-> IF k = 0 THEN cap ELSE 2 * f[k - 1]]
  <2>1. ASSUME NEW k \in Nat PROVE f[k] = IF k = 0 THEN cap ELSE 2 * f[k - 1]
    <3>1. CASE k = 0
      BY <1>2, <3>1
    <3>2. CASE k # 0
      <4>1. k - 1 \in Nat /\ (k - 1) + 1 = k
        BY <3>2
      <4>2. f[(k - 1) + 1] = 2 * f[k - 1]
        BY <1>3, <4>1
      <4> QED
        BY <3>2, <4>1, <4>2
    <3> QED
      BY <3>1, <3>2
  <2> QED
    BY <2>1
<1>5. Doubled = [k \in Nat |-> IF k = 0 THEN cap ELSE 2 * Doubled[k - 1]]
  BY <1>4 DEF Doubled
<1>6. Doubled[0] = cap /\ \A k \in Nat : Doubled[k + 1] = 2 * Doubled[k]
  <2>1. ASSUME NEW k \in Nat PROVE Doubled[k + 1] = 2 * Doubled[k]
    <3>1. k + 1 \in Nat /\ k + 1 # 0 /\ (k + 1) - 1 = k
      OBVIOUS
    <3> QED
      BY <1>5, <3>1
  <2> QED
    BY <1>5, <2>1
<1> DEFINE G == {k \in Nat : Doubled[k] \in Nat /\ Doubled[k] >= k + 1}
<1>7. 0 \in G
  BY <1>6
<1>8. ASSUME NEW k \in Nat, k \in G PROVE k + 1 \in G
  BY <1>6, <1>8
<1>9. Nat \subseteq G
  <2> HIDE DEF G
  <2> QED
    BY <1>7, <1>8, NatInd
<1>10. \A k \in Nat : Doubled[k] \in Nat /\ Doubled[k] >= k + 1
  BY <1>9
<1> DEFINE S == {k \in 0..need : Doubled[k] >= need}
<1>11. need \in S /\ S \in SUBSET Nat
  BY <1>10
<1>12. Min(S) \in S
  <2> HIDE DEF S
  <2>1. PICK m \in S : \A n \in S : m <= n
    BY <1>11, LeastOf
  <2> QED
    BY <2>1 DEF Min
<1>13. Grown(need) = Doubled[Min(S)]
  BY DEF Grown
<1>14. Min(S) \in Nat /\ Doubled[Min(S)] >= need
  BY <1>12
<1> HIDE DEF S
<1> QED
  BY <1>10, <1>13, <1>14

-----------------------------------------------------------------------------
(* The steps *)

\* The values of the status codes that compile_files and main tell apart.
LEMMA Statuses ==
  /\ LUA_OK = 0 /\ LUA_ERRSYNTAX = 3 /\ LUA_ERRMEM = 4 /\ LUA_ERRFILE = 7
  BY DEF LUA_OK, LUA_ERRSYNTAX, LUA_ERRMEM, LUA_ERRFILE

\* The things on the Lua stack and in the template's text.
LEMMA Items ==
  /\ \A k \in Nat : Chunk(k) \in StackItem
  /\ Template \in StackItem /\ Combined \in StackItem /\ ErrorMsg \in StackItem
  /\ <<"return", 0>> \in TextItem /\ <<"function", 0>> \in TextItem
  /\ \A k \in Nat : <<"...", k>> \in TextItem
BY DEF Chunk, Template, Combined, ErrorMsg, StackItem, TextItem

\* The chunk the splice takes next is the last of those left.
LEMMA TopChunk ==
  ASSUME IInv, pc = "splice", Len(protos) < N
  PROVE  /\ Len(stk) = 1 + N - Len(protos) /\ Len(stk) > 1
         /\ SplicedFrom = Chunk(N - Len(protos))
<1>1. N \in Nat /\ Len(protos) \in Nat /\ N - Len(protos) \in 1..(N - Len(protos))
  BY DEF IInv, Types, TypeOK
<1>2. Chunks(2, N - Len(protos))
  BY DEF IInv, Splicing
<1>3. Len(stk) = 2 + (N - Len(protos)) - 1
  BY <1>2 DEF Chunks
<1>4. stk[2 + (N - Len(protos)) - 1] = Chunk(N - Len(protos))
  BY <1>1, <1>2 DEF Chunks
<1> QED
  BY <1>1, <1>3, <1>4 DEF SplicedFrom, Last

\* Every step keeps the types.
LEMMA TypesStep ==
  ASSUME IInv, [Next]_vars
  PROVE  Types'
<1> USE DaluacAssumption, Statuses
<1>0. /\ argv \in Seq({"file", "-"}) /\ N \in Nat /\ N >= 1 /\ N <= MaxFiles /\ MaxFiles \in Nat
      /\ i \in Nat /\ i >= 1 /\ i <= N + 1
  BY DEF IInv, Types
<1>1. argv' = argv /\ N' = N
  BY DEF Next, Stat, NewState, LoadFile, Loaded, ReadReturn, ReadFunction, ReadClosing, ReadEnd,
         Splice, Spliced, Writer, Dumped, Report, Write, vars, reading, array, N
<1>2. i' \in 1..(N + 1)
  BY <1>0 DEF Next, Stat, NewState, LoadFile, Loaded, ReadReturn, ReadFunction, ReadClosing, ReadEnd,
         Splice, Spliced, Writer, Dumped, Report, Write, vars, reading, array
<1>3. pc' \in {"stat", "newstate", "load", "reader", "splice", "dump", "report",
             "header", "code", "exit", "abort"}
  BY DEF IInv, Types, TypeOK, Next, Stat, NewState, LoadFile, Loaded, ReadReturn, ReadFunction, ReadClosing, ReadEnd,
         Splice, Spliced, Writer, Dumped, Report, Write, vars, reading, array
<1>4. status' \in {LUA_OK, LUA_ERRSYNTAX, LUA_ERRMEM, LUA_ERRFILE}
  BY DEF IInv, Types, TypeOK, Next, Stat, NewState, LoadFile, Loaded, ReadReturn, ReadFunction, ReadClosing, ReadEnd,
         Splice, Spliced, Writer, Dumped, Report, Write, vars, reading, array
<1>5. stk' \in Seq(StackItem)
  <2>0. stk \in Seq(StackItem) /\ Len(stk) \in Nat /\ \A k \in 1..Len(stk) : stk[k] \in StackItem
    BY DEF IInv, Types
  <2>1. stk' = stk \/ LoadFile \/ ReadEnd \/ Splice \/ Spliced \/ Dumped \/ Report
    BY DEF Next, Stat, NewState, LoadFile, Loaded, ReadReturn, ReadFunction, ReadClosing, ReadEnd,
         Splice, Spliced, Writer, Dumped, Report, Write, vars, reading, array
  <2>2. CASE LoadFile
    <3>1. Chunk(i) \in StackItem /\ ErrorMsg \in StackItem
      BY <1>0, Items
    <3>2. stk' = Append(stk, Chunk(i)) \/ stk' = Append(stk, ErrorMsg)
      BY <2>2 DEF LoadFile
    <3> QED
      BY <2>0, <3>1, <3>2
  <2>3. CASE ReadEnd
    <3>1. <<Template>> \in Seq(StackItem)
      BY Items
    <3>2. stk' = <<Template>> \o stk \/ stk' = Append(stk, ErrorMsg)
      BY <2>3 DEF ReadEnd
    <3>3. <<Template>> \o stk \in Seq(StackItem)
      BY <2>0, <3>1, ConcatProperties, Zenon
    <3>4. Append(stk, ErrorMsg) \in Seq(StackItem)
      BY <2>0, Items
    <3> QED
      BY <3>2, <3>3, <3>4
  <2>4. CASE Splice \/ Dumped \/ Report
    <3>1. PICK n \in Int : stk' = SubSeq(stk, 1, n) /\ n <= Len(stk)
      <4>1. Splice \/ Dumped => stk' = SubSeq(stk, 1, Len(stk) - 1)
        BY DEF Splice, Dumped, Front
      <4>2. Report => stk' = SubSeq(stk, 1, Len(stk) - 1) \/ stk' = SubSeq(stk, 1, Len(stk))
        <5>1. Len(stk) - 0 = Len(stk)
          BY <2>0
        <5>2. Report => stk' = SubSeq(stk, 1, Len(stk) - 1) \/ stk' = SubSeq(stk, 1, Len(stk) - 0)
          BY DEF Report
        <5> QED
          BY <5>1, <5>2
      <4>3. Len(stk) - 1 \in Int /\ Len(stk) - 1 <= Len(stk) /\ Len(stk) \in Int
        BY <2>0
      <4> QED
        BY <2>4, <4>1, <4>2, <4>3
    <3>2. \A k \in 1..n : stk[k] \in StackItem
      BY <2>0, <3>1
    <3> QED
      BY <3>1, <3>2, SubSeqProperties
  <2>5. CASE Spliced
    <3>1. stk' = [stk EXCEPT ![Len(stk)] = Combined]
      BY <2>5 DEF Spliced
    <3>2. Len(stk) \in 1..Len(stk)
      BY <2>5, <2>0 DEF IInv, Splicing, Spliced, Chunks
    <3> QED
      BY <2>0, <3>1, <3>2, Items, ExceptSeq
  <2> QED
    BY <2>0, <2>1, <2>2, <2>3, <2>4, <2>5
<1>6. tmpl' \in Seq(TextItem)
  <2>0. tmpl \in Seq(TextItem) /\ depth \in Nat
    BY DEF IInv, Types, TypeOK
  <2>1. tmpl' = tmpl \/ ReadReturn \/ ReadFunction \/ ReadClosing
    BY DEF Next, Stat, NewState, LoadFile, Loaded, ReadReturn, ReadFunction, ReadClosing, ReadEnd,
         Splice, Spliced, Writer, Dumped, Report, Write, vars, reading, array
  <2>2. CASE ReadReturn
    BY <2>0, <2>2, Items DEF ReadReturn
  <2>3. CASE ReadFunction
    BY <2>0, <2>3, Items DEF ReadFunction
  <2>4. CASE ReadClosing
    <3>1. <<"...", depth>> \in TextItem
      BY <2>0, Items
    <3>2. tmpl' = tmpl \/ tmpl' = Append(tmpl, <<"...", depth>>)
      BY <2>4 DEF ReadClosing
    <3> QED
      BY <2>0, <3>1, <3>2
  <2> QED
    BY <2>0, <2>1, <2>2, <2>3, <2>4
<1>7. dumped' \in Seq(Nat) /\ size' \in Nat /\ cap' \in Nat
  <2>0. dumped \in Seq(Nat) /\ size \in Nat /\ cap \in Nat \ {0}
    BY DEF IInv, Types, TypeOK, Dumping
  <2>1. UNCHANGED array \/ \E sz \in BlockSizes : Writer(sz)
    BY DEF Next, Stat, NewState, LoadFile, Loaded, ReadReturn, ReadFunction, ReadClosing, ReadEnd,
         Splice, Spliced, Writer, Dumped, Report, Write, vars, reading, array
  <2>2. ASSUME NEW sz \in BlockSizes, Writer(sz)
        PROVE  dumped' \in Seq(Nat) /\ size' \in Nat /\ cap' \in Nat
    <3>1. sz \in Nat /\ size + sz \in Nat
      BY <2>0
    <3>2. Grown(size + sz) \in Nat
      BY <2>0, <3>1, GrownEnough
    <3> QED
      BY <2>0, <2>2, <3>1, <3>2 DEF Writer
  <2> QED
    BY <2>0, <2>1, <2>2 DEF array
<1>8. arg' \in (-MaxFiles)..MaxFiles /\ depth' \in 0..MaxFiles
  <2>0. arg \in Int /\ arg >= -MaxFiles /\ arg <= MaxFiles /\ depth \in Nat /\ depth <= MaxFiles
    BY <1>0 DEF IInv, Types, TypeOK
  <2>1. UNCHANGED <<arg, depth>> \/ Loaded \/ ReadReturn \/ ReadFunction \/ ReadClosing
    BY DEF Next, Stat, NewState, LoadFile, Loaded, ReadReturn, ReadFunction, ReadClosing, ReadEnd,
         Splice, Spliced, Writer, Dumped, Report, Write, vars, reading, array
  <2>2. CASE Loaded
    <3>1. CASE pc' = "reader"
      <4>1. status = LUA_OK /\ pc = "load" /\ arg' = Len(stk) /\ depth' = depth
        BY <2>2, <3>1 DEF Loaded
      <4>2. Len(stk) = 1 + (i - 1) - 1
        BY <4>1 DEF IInv, Loading, Chunks
      <4> QED
        BY <1>0, <2>0, <4>1, <4>2
    <3> QED
      BY <1>0, <2>0, <2>2, <3>1 DEF Loaded
  <2>3. CASE ReadReturn
    BY <1>0, <2>0, <2>3 DEF ReadReturn
  <2>4. CASE ReadFunction
    BY <1>0, <2>0, <2>4 DEF ReadFunction
  <2>5. CASE ReadClosing
    BY <1>0, <2>0, <2>5 DEF ReadClosing
  <2> QED
    BY <1>0, <2>0, <2>1, <2>2, <2>3, <2>4, <2>5
<1>9. protos' \in Seq(1..MaxFiles)
  <2>0. protos \in Seq(1..MaxFiles) /\ Len(protos) \in Nat
    BY DEF IInv, Types, TypeOK
  <2>1. protos' = protos \/ Splice
    BY DEF Next, Stat, NewState, LoadFile, Loaded, ReadReturn, ReadFunction, ReadClosing, ReadEnd,
         Splice, Spliced, Writer, Dumped, Report, Write, vars, reading, array
  <2>2. CASE Splice
    <3>1. Len(protos) < N /\ pc = "splice" /\ protos' = Append(protos, SplicedFrom[2])
      BY <2>2 DEF Splice
    <3>2. N - Len(protos) \in 1..MaxFiles
      BY <1>0, <2>0, <3>1
    <3>3. SplicedFrom = Chunk(N - Len(protos))
      BY <2>0, <3>1, <3>2, TopChunk
    <3> QED
      BY <2>0, <3>1, <3>2, <3>3 DEF Chunk
  <2> QED
    BY <2>0, <2>1, <2>2
<1> QED
  BY <1>0, <1>1, <1>2, <1>3, <1>4, <1>5, <1>6, <1>7, <1>8, <1>9 DEF Types, TypeOK

\* Every step keeps the chunks in the order of the scripts.
LEMMA LoadingStep ==
  ASSUME IInv, [Next]_vars
  PROVE  Loading'
<1> USE Statuses
<1>0. N \in Nat /\ i \in Nat /\ N' = N /\ i <= N + 1
  BY DEF IInv, Types, Next, Stat, NewState, LoadFile, Loaded, ReadReturn, ReadFunction, ReadClosing, ReadEnd,
         Splice, Spliced, Writer, Dumped, Report, Write, vars, reading, array, N
<1>1. pc' \in {"stat", "newstate"} => status' = LUA_OK /\ stk' = <<>>
  BY DEF IInv, Loading, Next, Stat, NewState, LoadFile, Loaded, ReadReturn, ReadFunction, ReadClosing, ReadEnd,
         Splice, Spliced, Writer, Dumped, Report, Write, vars, reading, array
<1>2. pc' = "load" /\ status' = LUA_OK => Chunks(1, i - 1)'
  <2> SUFFICES ASSUME pc' = "load", status' = LUA_OK PROVE Chunks(1, i - 1)'
    OBVIOUS
  <2>1. UNCHANGED <<i, stk, pc, status>> \/ NewState \/ LoadFile
    BY DEF Next, Stat, NewState, LoadFile, Loaded, ReadReturn, ReadFunction, ReadClosing, ReadEnd,
         Splice, Spliced, Writer, Dumped, Report, Write, vars, reading, array
  <2>2. CASE UNCHANGED <<i, stk, pc, status>>
    BY <2>2 DEF IInv, Loading, Chunks, Chunk
  <2>3. CASE NewState
    <3>1. stk' = <<>> /\ i' = 1
      BY <2>3 DEF NewState, IInv, Loading
    <3>2. Len(<<>>) = 0
      OBVIOUS
    <3> QED
      BY <3>1, <3>2 DEF Chunks
  <2>4. CASE LoadFile
    <3>1. i' = i + 1 /\ stk' = Append(stk, Chunk(i)) /\ pc = "load" /\ status = LUA_OK
      BY <2>4 DEF LoadFile
    <3>2. Chunks(1, i - 1) /\ stk \in Seq(StackItem) /\ Chunk(i) \in StackItem /\ i \in Nat /\ i >= 1
      BY <3>1, Items, <1>0 DEF IInv, Loading, Types, TypeOK
    <3>3. Len(stk) = i - 1 /\ \A k \in 1..(i - 1) : stk[k] = Chunk(k)
      BY <3>2 DEF Chunks
    <3>4. Len(stk') = i /\ \A k \in 1..(i - 1) : stk'[k] = stk[k]
      BY <3>1, <3>2, <3>3, AppendProperties
    <3>5. stk'[i] = Chunk(i)
      BY <3>1, <3>2, <3>3, AppendProperties
    <3>6. \A k \in 1..i : stk'[k] = Chunk(k)
      BY <3>2, <3>3, <3>4, <3>5
    <3> QED
      BY <3>1, <3>2, <3>4, <3>6 DEF Chunks, Chunk
  <2> QED
    BY <2>1, <2>2, <2>3, <2>4
<1>3. pc' \in {"stat", "newstate", "load"} => tmpl' = <<>> /\ protos' = <<>> /\ depth' = 0
  BY DEF IInv, Loading, Next, Stat, NewState, LoadFile, Loaded, ReadReturn, ReadFunction, ReadClosing, ReadEnd,
         Splice, Spliced, Writer, Dumped, Report, Write, vars, reading, array
<1>4. pc' \in {"stat", "newstate", "load", "reader", "splice"} => dumped' = <<>> /\ size' = 0
  BY DEF IInv, Loading, Next, Stat, NewState, LoadFile, Loaded, ReadReturn, ReadFunction, ReadClosing, ReadEnd,
         Splice, Spliced, Writer, Dumped, Report, Write, vars, reading, array
<1>5. pc' \in {"reader", "splice", "dump", "header", "code"} => i' = N' + 1
  BY <1>0 DEF IInv, Loading, Next, Stat, NewState, LoadFile, Loaded, ReadReturn, ReadFunction, ReadClosing, ReadEnd,
         Splice, Spliced, Writer, Dumped, Report, Write, vars, reading, array
<1>6. pc' = "report" /\ status' = LUA_OK => i' = N' + 1
  BY <1>0 DEF IInv, Loading, Next, Stat, NewState, LoadFile, Loaded, ReadReturn, ReadFunction, ReadClosing, ReadEnd,
         Splice, Spliced, Writer, Dumped, Report, Write, vars, reading, array
<1>7. pc' \in {"reader", "splice", "header", "code"} => status' = LUA_OK
  BY DEF IInv, Loading, Next, Stat, NewState, LoadFile, Loaded, ReadReturn, ReadFunction, ReadClosing, ReadEnd,
         Splice, Spliced, Writer, Dumped, Report, Write, vars, reading, array
<1> QED
  BY <1>1, <1>2, <1>3, <1>4, <1>5, <1>6, <1>7 DEF Loading

\* Every step keeps the cell of _reader in step with the text.
LEMMA ReadingStep ==
  ASSUME IInv, [Next]_vars
  PROVE  Reading'
<1> USE DaluacAssumption
<1>0. /\ N \in Nat /\ N' = N /\ i \in Nat /\ arg \in Int /\ depth \in Nat /\ i <= N + 1
      /\ tmpl \in Seq(TextItem) /\ BufSize \in Nat
  <2>1. N' = N
    BY DEF Next, Stat, NewState, LoadFile, Loaded, ReadReturn, ReadFunction, ReadClosing, ReadEnd,
         Splice, Spliced, Writer, Dumped, Report, Write, vars, reading, array, N
  <2>2. /\ N \in Nat /\ i \in Nat /\ arg \in Int /\ depth \in Nat /\ i <= N + 1
        /\ tmpl \in Seq(TextItem) /\ BufSize \in Nat
    BY DEF IInv, Types, TypeOK
  <2> QED
    BY <2>1, <2>2
<1>a. <<"return", 0>> \in TextItem /\ <<"function", 0>> \in TextItem /\ <<"...", N>> \in TextItem
  BY <1>0, Items
<1> DEFINE State == N > 1 /\ Chunks(1, N) /\ protos = <<>>
           Cell  == /\ arg > 1  => arg = N /\ tmpl = <<>> /\ depth = 0
                    /\ arg <= 0 => depth = N /\ arg >= -N /\ Functions(N + arg)
                    /\ arg = 1  => Whole
           Fits  == \A k \in DOMAIN tmpl : tmpl[k][1] = "..." => 3 + tmpl[k][2] <= BufSize
<1>1. pc = "reader" => State /\ Cell
  BY DEF IInv, Reading
<1>2. Fits
  BY DEF IInv, Reading
<1>3. CASE Loaded
  <2>1. Fits'
    BY <1>2, <1>3 DEF Loaded
  <2>2. CASE pc' = "reader"
    <3>1. /\ pc = "load" /\ status = LUA_OK /\ arg' = Len(stk) /\ Len(stk) # 1 /\ ~ (i <= N)
          /\ stk' = stk /\ tmpl' = tmpl /\ depth' = depth /\ protos' = protos
      BY <1>0, <1>3, <2>2, Statuses DEF Loaded
    <3>2. Chunks(1, i - 1) /\ tmpl = <<>> /\ depth = 0 /\ protos = <<>>
      BY <3>1 DEF IInv, Loading
    <3>3. i - 1 = N
      BY <1>0, <3>1
    <3>4. Chunks(1, N) /\ Len(stk) = N /\ N > 1
      <4>1. N >= 1
        BY DEF IInv, Types
      <4>2. Chunks(1, N)
        BY <3>2, <3>3
      <4> QED
        BY <1>0, <3>1, <4>1, <4>2 DEF Chunks
    <3>5. Chunks(1, N)'
      BY <1>0, <3>1, <3>4 DEF Chunks, Chunk
    <3> HIDE DEF Fits
    <3> QED
      BY <1>0, <2>1, <3>1, <3>2, <3>4, <3>5 DEF Reading, Fits
  <2> QED
    BY <2>1, <2>2 DEF Reading
<1>4. CASE ReadReturn
  <2>1. /\ pc = "reader" /\ arg > 1 /\ depth' = arg /\ arg' = -arg /\ tmpl' = Append(tmpl, <<"return", 0>>)
        /\ stk' = stk /\ protos' = protos
    BY <1>4 DEF ReadReturn
  <2>2. arg = N /\ tmpl = <<>> /\ State
    BY <1>1, <2>1
  <2>3. tmpl' = << <<"return", 0>> >> /\ arg' = -N /\ depth' = N
    BY <2>1, <2>2
  <2>4. Functions(N + arg)'
    BY <1>0, <2>3 DEF Functions
  <2>5. State'
    BY <1>0, <2>1, <2>2 DEF Chunks, Chunk
  <2>6. Fits'
    <3>1. DOMAIN tmpl' = 1..1 /\ tmpl'[1] = <<"return", 0>>
      BY <2>3
    <3> QED
      BY <3>1
  <2> HIDE DEF State, Fits
  <2> QED
    BY <1>0, <2>2, <2>3, <2>4, <2>5, <2>6 DEF Reading, State, Fits
<1>5. CASE ReadFunction
  <2>1. /\ pc = "reader" /\ arg < 0 /\ depth' = depth /\ arg' = arg + 1 /\ tmpl' = Append(tmpl, <<"function", 0>>)
        /\ stk' = stk /\ protos' = protos
    BY <1>5 DEF ReadFunction
  <2>2. depth = N /\ arg >= -N /\ Functions(N + arg) /\ State
    BY <1>0, <1>1, <2>1
  <2>3. /\ Len(tmpl) = N + arg + 1 /\ tmpl[1] = <<"return", 0>>
        /\ \A k \in 1..(N + arg) : tmpl[k + 1] = <<"function", 0>>
    BY <2>2 DEF Functions
  <2>4. /\ Len(tmpl') = N + arg + 2 /\ tmpl'[N + arg + 2] = <<"function", 0>>
        /\ \A k \in 1..(N + arg + 1) : tmpl'[k] = tmpl[k]
    BY <1>0, <1>a, <2>1, <2>2, <2>3, AppendProperties
  <2>5. \A k \in 1..(N + arg + 1) : tmpl'[k + 1] = <<"function", 0>>
    <3> TAKE k \in 1..(N + arg + 1)
    <3>1. CASE k = N + arg + 1
      <4>1. k + 1 = N + arg + 2
        BY <1>0, <3>1
      <4> QED
        BY <2>4, <4>1
    <3>2. CASE k # N + arg + 1
      <4>1. k \in 1..(N + arg) /\ k + 1 \in 1..(N + arg + 1)
        BY <1>0, <3>2
      <4> QED
        BY <2>3, <2>4, <4>1
    <3> QED
      BY <3>1, <3>2
  <2>6. Functions(N + arg)'
    <3>1. (N + arg)' = N + arg + 1 /\ 1 \in 1..(N + arg + 1)
      BY <1>0, <2>1, <2>2
    <3> QED
      BY <1>0, <2>2, <2>3, <2>4, <2>5, <3>1 DEF Functions
  <2>7. State'
    BY <1>0, <2>1, <2>2 DEF Chunks, Chunk
  <2>8. Fits'
    <3>1. DOMAIN tmpl' = 1..(N + arg + 2) /\ DOMAIN tmpl = 1..(N + arg + 1)
      <4>1. tmpl' \in Seq(TextItem)
        BY <1>0, <1>a, <2>1
      <4> QED
        BY <1>0, <2>3, <2>4, <4>1
    <3> SUFFICES ASSUME NEW k \in 1..(N + arg + 2) PROVE tmpl'[k][1] = "..." => 3 + tmpl'[k][2] <= BufSize
      BY <3>1
    <3>2. CASE k = N + arg + 2
      <4>1. tmpl'[k][1] = "function"
        BY <2>4, <3>2
      <4> QED
        BY <4>1
    <3>3. CASE k # N + arg + 2
      <4>1. k \in 1..(N + arg + 1)
        BY <1>0, <3>3
      <4> QED
        BY <1>2, <2>4, <3>1, <4>1
    <3> QED
      BY <3>2, <3>3
  <2>9. arg' \in Int /\ arg' >= -N /\ arg' <= 0
    BY <1>0, <2>1, <2>2
  <2>10. depth' = N'
    BY <1>0, <2>1, <2>2
  <2> HIDE DEF State, Fits
  <2> QED
    BY <1>0, <2>6, <2>7, <2>8, <2>9, <2>10 DEF Reading, State, Fits
<1>6. CASE ReadClosing
  <2>1. /\ pc = "reader" /\ arg = 0 /\ arg' = 1 /\ depth' = depth /\ stk' = stk /\ protos' = protos
        /\ \/ 3 + depth <= BufSize /\ tmpl' = Append(tmpl, <<"...", depth>>) /\ pc' = pc
           \/ pc' = "abort" /\ tmpl' = tmpl
    BY <1>6 DEF ReadClosing, ClosingFits
  <2>2. depth = N /\ Functions(N + 0) /\ State
    BY <1>0, <1>1, <2>1
  <2>3. /\ Len(tmpl) = N + 1 /\ tmpl[1] = <<"return", 0>>
        /\ \A k \in 1..N : tmpl[k + 1] = <<"function", 0>>
    BY <1>0, <2>2 DEF Functions
  <2>4. CASE pc' = "abort" /\ tmpl' = tmpl
    BY <1>2, <2>4 DEF Reading
  <2>5. CASE 3 + depth <= BufSize /\ tmpl' = Append(tmpl, <<"...", depth>>) /\ pc' = pc
    <3>1. /\ Len(tmpl') = N + 2 /\ tmpl'[N + 2] = <<"...", N>>
          /\ \A k \in 1..(N + 1) : tmpl'[k] = tmpl[k]
      BY <1>0, <1>a, <2>2, <2>3, <2>5, AppendProperties
    <3>2. \A k \in 1..N : tmpl'[k + 1] = <<"function", 0>>
      <4> TAKE k \in 1..N
      <4>1. k + 1 \in 1..(N + 1)
        BY <1>0
      <4> QED
        BY <2>3, <3>1, <4>1
    <3>3. Whole'
      <4>1. 1 \in 1..(N + 1)
        BY <1>0
      <4> QED
        BY <1>0, <2>3, <3>1, <3>2, <4>1 DEF Whole
    <3>4. State'
      BY <1>0, <2>1, <2>2 DEF Chunks, Chunk
    <3>5. Fits'
      <4>1. DOMAIN tmpl' = 1..(N + 2) /\ DOMAIN tmpl = 1..(N + 1)
        <5>1. tmpl' \in Seq(TextItem)
          BY <1>0, <1>a, <2>2, <2>5
        <5> QED
          BY <1>0, <2>3, <3>1, <5>1
      <4> SUFFICES ASSUME NEW k \in 1..(N + 2) PROVE tmpl'[k][1] = "..." => 3 + tmpl'[k][2] <= BufSize
        BY <4>1
      <4>2. CASE k = N + 2
        BY <2>2, <2>5, <3>1, <4>2
      <4>3. CASE k # N + 2
        <5>1. k \in 1..(N + 1)
          BY <1>0, <4>3
        <5> QED
          BY <1>2, <3>1, <4>1, <5>1
      <4> QED
        BY <4>2, <4>3
    <3> HIDE DEF State, Fits
    <3> QED
      BY <1>0, <2>1, <3>3, <3>4, <3>5 DEF Reading, State, Fits
  <2> QED
    BY <2>1, <2>4, <2>5
<1>7. CASE UNCHANGED <<pc, stk, arg, depth, tmpl, protos>>
  <2>1. Chunks(1, N) => Chunks(1, N)'
    BY <1>0, <1>7 DEF Chunks, Chunk
  <2>2. Functions(N + arg) => Functions(N + arg)'
    BY <1>0, <1>7 DEF Functions
  <2>3. Whole => Whole'
    BY <1>0, <1>7 DEF Whole
  <2>4. Fits'
    BY <1>2, <1>7
  <2> HIDE DEF Fits
  <2> QED
    BY <1>0, <1>1, <1>7, <2>1, <2>2, <2>3, <2>4 DEF Reading, Fits
<1>8. CASE pc' # "reader" /\ tmpl' = tmpl
  BY <1>2, <1>8 DEF Reading
<1>9. \/ Loaded \/ ReadReturn \/ ReadFunction \/ ReadClosing
      \/ UNCHANGED <<pc, stk, arg, depth, tmpl, protos>>
      \/ pc' # "reader" /\ tmpl' = tmpl
  BY DEF Next, Stat, NewState, LoadFile, Loaded, ReadReturn, ReadFunction, ReadClosing, ReadEnd,
         Splice, Spliced, Writer, Dumped, Report, Write, vars, reading, array
<1> QED
  BY <1>3, <1>4, <1>5, <1>6, <1>7, <1>8, <1>9

\* Every step of combine leaves a prototype in the template for each chunk it has taken.
LEMMA SplicingStep ==
  ASSUME IInv, [Next]_vars
  PROVE  Splicing'
<1> USE Statuses
<1>0. /\ N \in Nat /\ N >= 1 /\ i \in Nat /\ i <= N + 1
      /\ stk \in Seq(StackItem) /\ protos \in Seq(1..MaxFiles) /\ Len(protos) \in Nat
  BY DEF IInv, Types, TypeOK
<1>1. N' = N
  BY DEF Next, Stat, NewState, LoadFile, Loaded, ReadReturn, ReadFunction, ReadClosing, ReadEnd,
         Splice, Spliced, Writer, Dumped, Report, Write, vars, reading, array, N
<1> DEFINE Done(n) == Len(protos) = n /\ \A k \in 1..n : protos[k] = N - k + 1
<1>2. CASE UNCHANGED <<pc, stk, tmpl, protos>>
  <2>1. Chunks(2, N - Len(protos)) => Chunks(2, N - Len(protos))'
    BY <1>1, <1>2 DEF Chunks, Chunk
  <2>2. Whole => Whole'
    BY <1>1, <1>2 DEF Whole
  <2> QED
    BY <1>1, <1>2, <2>1, <2>2 DEF IInv, Splicing, Template, Combined
<1>3. CASE ReadEnd /\ pc' = "splice"
  <2>1. /\ pc = "reader" /\ arg = 1 /\ stk' = <<Template>> \o stk /\ tmpl' = tmpl /\ protos' = protos
    BY <1>3 DEF ReadEnd, reading
  <2>2. N > 1 /\ Chunks(1, N) /\ protos = <<>> /\ Whole
    BY <2>1 DEF IInv, Reading
  <2>3. Len(stk) = N /\ \A k \in 1..N : stk[k] = Chunk(k)
    BY <1>0, <2>2 DEF Chunks
  <2>4. <<Template>> \in Seq(StackItem) /\ Len(<<Template>>) = 1 /\ <<Template>>[1] = Template
    BY Items
  <2>5. /\ Len(stk') = 1 + N
        /\ \A k \in 1..(1 + N) : stk'[k] = IF k <= 1 THEN <<Template>>[k] ELSE stk[k - 1]
    BY <1>0, <2>1, <2>3, <2>4, ConcatProperties
  <2>6. stk'[1] = Template
    <3>1. 1 \in 1..(1 + N)
      BY <1>0
    <3> QED
      BY <2>4, <2>5, <3>1
  <2>7. \A k \in 1..N : stk'[2 + k - 1] = Chunk(k)
    <3> TAKE k \in 1..N
    <3>1. 2 + k - 1 \in 1..(1 + N) /\ ~ (2 + k - 1 <= 1) /\ (2 + k - 1) - 1 = k
      BY <1>0
    <3> QED
      BY <2>3, <2>5, <3>1
  <2>8. Len(protos') = 0 /\ N - 0 = N
    BY <1>0, <2>1, <2>2
  <2>9. Chunks(2, N - Len(protos))'
    BY <1>0, <1>1, <2>5, <2>7, <2>8 DEF Chunks, Chunk
  <2>10. Whole'
    BY <1>1, <2>1, <2>2 DEF Whole
  <2> QED
    BY <1>0, <1>1, <1>3, <2>2, <2>6, <2>8, <2>9, <2>10 DEF Splicing, Template
<1>4. CASE Splice
  <2>1. /\ pc = "splice" /\ Len(protos) < N /\ protos' = Append(protos, SplicedFrom[2])
        /\ stk' = SubSeq(stk, 1, Len(stk) - 1) /\ pc' = pc /\ tmpl' = tmpl
    BY <1>4 DEF Splice, Front, reading
  <2> DEFINE n == Len(protos)
  <2>2. N > 1 /\ Whole /\ Chunks(2, N - n) /\ stk[1] = Template /\ Done(n)
    BY <2>1 DEF IInv, Splicing
  <2>3. Len(stk) = 1 + N - n /\ SplicedFrom = Chunk(N - n)
    BY <2>1, TopChunk
  <2>4. N - n \in 1..MaxFiles /\ n \in Nat /\ n < N /\ N \in Nat /\ N' = N
    <3>1. N <= MaxFiles
      BY DEF IInv, Types
    <3> QED
      BY <1>0, <1>1, <2>1, <3>1, DaluacAssumption
  <2> HIDE DEF n
  <2>5. protos' = Append(protos, N - n)
    BY <2>1, <2>3 DEF Chunk
  <2>6. Len(protos') = n + 1 /\ protos'[n + 1] = N - n /\ \A k \in 1..n : protos'[k] = protos[k]
    BY <1>0, <2>4, <2>5, AppendProperties DEF n
  <2>7. \A k \in 1..(n + 1) : protos'[k] = N - k + 1
    <3> TAKE k \in 1..(n + 1)
    <3>1. CASE k = n + 1
      <4>1. N - k + 1 = N - n
        BY <2>4, <3>1
      <4> QED
        BY <2>6, <3>1, <4>1
    <3>2. CASE k # n + 1
      <4>1. k \in 1..n
        BY <2>4, <3>2
      <4> QED
        BY <2>2, <2>6, <4>1
    <3> QED
      BY <3>1, <3>2
  <2>8. Len(stk') = N - n /\ \A k \in 1..(N - n) : stk'[k] = stk[k]
    <3>1. Len(stk) - 1 = N - n /\ \A k \in 1..(N - n) : stk[k] \in StackItem
      BY <1>0, <2>3, <2>4
    <3>2. stk' = SubSeq(stk, 1, N - n)
      BY <2>1, <3>1
    <3>3. 1 \in Int /\ N - n \in Int /\ 1 <= N - n /\ (N - n) - 1 + 1 = N - n
      BY <2>4
    <3>4. /\ Len(SubSeq(stk, 1, N - n)) = IF 1 <= N - n THEN (N - n) - 1 + 1 ELSE 0
          /\ \A k \in 1..((N - n) - 1 + 1) : SubSeq(stk, 1, N - n)[k] = stk[1 + k - 1]
      BY <3>1, <3>3, SubSeqProperties
    <3>5. \A k \in 1..(N - n) : 1 + k - 1 = k
      OBVIOUS
    <3> QED
      BY <3>2, <3>3, <3>4, <3>5
  <2>9. stk'[1] = Template
    <3>1. 1 \in 1..(N - n)
      BY <2>4
    <3> QED
      BY <2>2, <2>8, <3>1
  <2>10. \A k \in 1..(N - (n + 1)) : stk'[2 + k - 1] = Chunk(k)
    <3> TAKE k \in 1..(N - (n + 1))
    <3>1. 2 + k - 1 \in 1..(N - n) /\ k \in 1..(N - n)
      BY <2>4
    <3>2. stk[2 + k - 1] = Chunk(k)
      BY <2>2, <3>1 DEF Chunks
    <3> QED
      BY <2>8, <3>1, <3>2
  <2>11. Chunks(2, N - Len(protos))'
    <3>1. Len(stk') = 2 + (N - (n + 1)) - 1
      BY <2>4, <2>8
    <3>2. (N - Len(protos))' = N - (n + 1)
      BY <2>4, <2>6
    <3> QED
      BY <2>10, <3>1, <3>2 DEF Chunks, Chunk
  <2>12. Whole'
    BY <2>1, <2>2, <2>4 DEF Whole
  <2>13. pc' = "splice" /\ n + 1 <= N
    BY <2>1, <2>4
  <2> QED
    BY <2>2, <2>4, <2>6, <2>7, <2>9, <2>11, <2>12, <2>13 DEF Splicing, Template
<1>5. CASE Spliced
  <2>1. /\ pc = "splice" /\ Len(protos) = N /\ pc' = "dump" /\ protos' = protos
        /\ stk' = [stk EXCEPT ![Len(stk)] = Combined]
    BY <1>5 DEF Spliced, reading
  <2>2. N > 1 /\ Chunks(2, N - Len(protos)) /\ Done(N)
    BY <2>1 DEF IInv, Splicing
  <2>3. Len(stk) = 1
    BY <1>0, <2>1, <2>2 DEF Chunks
  <2>4. Len(stk') = 1 /\ stk'[1] = Combined
    BY <1>0, <2>1, <2>3
  <2> QED
    BY <1>1, <2>1, <2>2, <2>4 DEF Splicing, Combined
<1>6. CASE Loaded /\ pc' = "dump"
  <2>1. pc = "load" /\ status = LUA_OK /\ Len(stk) = 1 /\ ~ (i <= N) /\ stk' = stk
    BY <1>0, <1>6 DEF Loaded
  <2>2. Chunks(1, i - 1)
    BY <2>1 DEF IInv, Loading
  <2>3. Len(stk) = 1 + (i - 1) - 1
    BY <2>2 DEF Chunks
  <2>4. i = 2
    <3>1. \A n \in Nat : 1 = 1 + (n - 1) - 1 => n = 2
      OBVIOUS
    <3>2. 1 = 1 + (i - 1) - 1 /\ i \in Nat
      BY <1>0, <2>1, <2>3
    <3> QED
      BY <3>1, <3>2
  <2>5. N = 1
    BY <1>0, <2>1, <2>4
  <2> QED
    BY <1>1, <1>6, <2>1, <2>5 DEF Splicing
<1>7. CASE pc' \notin {"splice", "dump"}
  BY <1>7 DEF Splicing
<1>8. \/ UNCHANGED <<pc, stk, tmpl, protos>>
      \/ ReadEnd /\ pc' = "splice"
      \/ Splice
      \/ Spliced
      \/ Loaded /\ pc' = "dump"
      \/ pc' \notin {"splice", "dump"}
  BY DEF Next, Stat, NewState, LoadFile, Loaded, ReadReturn, ReadFunction, ReadClosing, ReadEnd,
         Splice, Spliced, Writer, Dumped, Report, Write, vars, reading, array
<1> QED
  BY <1>2, <1>3, <1>4, <1>5, <1>6, <1>7, <1>8

\* Every step keeps the array's size that of the blocks, and within its capacity.
LEMMA DumpingStep ==
  ASSUME IInv, [Next]_vars
  PROVE  Dumping'
<1> USE DaluacAssumption, Statuses
<1>0. /\ dumped \in Seq(Nat) /\ size \in Nat /\ cap \in Nat \ {0} /\ size <= cap
      /\ status = LUA_OK => size = Total(dumped)
  BY DEF IInv, Types, TypeOK, Dumping
<1>1. CASE UNCHANGED array /\ (status' = LUA_OK => status = LUA_OK)
  BY <1>0, <1>1 DEF Dumping, array, Total
<1>2. ASSUME NEW sz \in BlockSizes, Writer(sz)
      PROVE  Dumping'
  <2>1. sz \in Nat /\ size + sz \in Nat
    BY <1>0
  <2>2. Grown(size + sz) \in Nat /\ Grown(size + sz) >= size + sz /\ Grown(size + sz) > 0
    BY <1>0, <2>1, GrownEnough
  <2>3. CASE cap' = Grown(size + sz) /\ size' = size + sz /\ status' = status
    <3>1. status = LUA_OK /\ dumped' = Append(dumped, sz)
      BY <1>2 DEF Writer
    <3>2. Total(dumped') = Total(dumped) + sz
      BY <1>0, <2>1, <3>1, TotalOf
    <3>3. Total(dumped)' = Total(dumped')
      BY DEF Total
    <3> QED
      BY <1>0, <2>1, <2>2, <2>3, <3>1, <3>2, <3>3 DEF Dumping
  <2>4. CASE status' = LUA_ERRMEM /\ cap' = cap /\ size' = size
    BY <1>0, <2>4 DEF Dumping
  <2> QED
    BY <1>2, <2>3, <2>4 DEF Writer
<1>3. \/ UNCHANGED array /\ (status' = LUA_OK => status = LUA_OK)
      \/ \E sz \in BlockSizes : Writer(sz)
  BY DEF Next, Stat, NewState, LoadFile, Loaded, ReadReturn, ReadFunction, ReadClosing, ReadEnd,
         Splice, Spliced, Writer, Dumped, Report, Write, vars, reading, array
<1> QED
  BY <1>1, <1>2, <1>3

\* Every step keeps what main has written what the status says.
LEMMA WritingStep ==
  ASSUME IInv, [Next]_vars
  PROVE  Writing'
<1> USE Statuses
<1>0. N' = N /\ N \in Nat
  BY DEF IInv, Types, Next, Stat, NewState, LoadFile, Loaded, ReadReturn, ReadFunction, ReadClosing, ReadEnd,
         Splice, Spliced, Writer, Dumped, Report, Write, vars, reading, array, N
<1>1. CASE Write("header", "header", "code")
  BY <1>0, <1>1 DEF IInv, Writing, Loading, Write, reading, array, Header, CodeOf
<1>2. CASE Write("code", "code", "exit")
  <2>1. out = <<Header>> /\ status = LUA_OK /\ i = N + 1 /\ i' = i /\ size' = size /\ pc' = "exit"
    BY <1>2 DEF IInv, Writing, Loading, Write, reading, array
  <2>2. CASE out' = Append(out, CodeOf) /\ status' = status
    <3>1. ASSUME NEW a, NEW b PROVE Append(<<a>>, b) = <<a, b>>
      <4>1. /\ <<a>> \in Seq({a, b}) /\ Len(<<a>>) = 1 /\ <<a>>[1] = a /\ b \in {a, b}
            /\ <<a, b>> \in Seq({a, b}) /\ Len(<<a, b>>) = 2 /\ <<a, b>>[1] = a /\ <<a, b>>[2] = b
        OBVIOUS
      <4>2. /\ Append(<<a>>, b) \in Seq({a, b}) /\ Len(Append(<<a>>, b)) = 2
            /\ Append(<<a>>, b)[1] = a /\ Append(<<a>>, b)[2] = b
        BY <4>1, AppendProperties
      <4>3. \A k \in 1..2 : Append(<<a>>, b)[k] = <<a, b>>[k]
        BY <4>1, <4>2
      <4> QED
        BY <4>1, <4>2, <4>3, SeqEqual
    <3>2. out' = <<Header, CodeOf>>
      BY <2>1, <2>2, <3>1
    <3> QED
      BY <1>0, <2>1, <2>2, <3>2 DEF Writing, Header, CodeOf
  <2>3. CASE out' = out /\ status' = LUA_ERRFILE
    BY <1>0, <2>1, <2>3 DEF Writing, Header, CodeOf
  <2> QED
    BY <1>2, <2>2, <2>3 DEF Write, CodeOf
<1>3. CASE UNCHANGED <<pc, i, status, size, out>>
  BY <1>0, <1>3 DEF IInv, Writing, Header, CodeOf
<1>4. CASE pc \notin {"code", "exit"} /\ pc' \notin {"code", "exit"} /\ out' = out
  BY <1>4 DEF IInv, Writing
<1>5. CASE pc \notin {"code", "exit"} /\ pc' = "exit" /\ status' # LUA_OK /\ out' = out
  BY <1>5 DEF IInv, Writing
<1>6. \/ Write("header", "header", "code") \/ Write("code", "code", "exit") \/ UNCHANGED <<pc, i, status, size, out>>
      \/ pc \notin {"code", "exit"} /\ pc' \notin {"code", "exit"} /\ out' = out
      \/ pc \notin {"code", "exit"} /\ pc' = "exit" /\ status' # LUA_OK /\ out' = out
  BY DEF Next, Stat, NewState, LoadFile, Loaded, ReadReturn, ReadFunction, ReadClosing, ReadEnd,
         Splice, Spliced, Writer, Dumped, Report, Write, vars, reading, array
<1> QED
  BY <1>1, <1>2, <1>3, <1>4, <1>5, <1>6

-----------------------------------------------------------------------------
(* The theorems *)

\* The invariant holds when main begins.
LEMMA Initially ==
  ASSUME Init
  PROVE  IInv
<1> USE DaluacAssumption, Statuses, Init DEF Init
<1>1. N \in 1..MaxFiles /\ argv \in Seq({"file", "-"})
  <2>1. PICK n \in 1..MaxFiles : argv \in [1..n -> {"file", "-"}]
    OBVIOUS
  <2> QED
    BY <2>1 DEF N
<1>2. <<>> \in Seq(StackItem) /\ <<>> \in Seq(TextItem) /\ <<>> \in Seq(Nat) /\ <<>> \in Seq(1..MaxFiles)
  OBVIOUS
<1>3. Types
  BY <1>1, <1>2 DEF Types, TypeOK
<1>4. Loading /\ Splicing /\ Writing
  BY DEF Loading, Splicing, Writing
<1>5. Reading
  <2>1. DOMAIN tmpl = {}
    OBVIOUS
  <2> QED
    BY <2>1 DEF Reading
<1>6. Dumping
  BY TotalOf DEF Dumping
<1> QED
  BY <1>3, <1>4, <1>5, <1>6 DEF IInv

\* The cell, the Lua stack, the template, the array and the output fit together in every state.
THEOREM Invariant == Spec => []IInv
<1>1. IInv /\ [Next]_vars => IInv'
  BY TypesStep, LoadingStep, ReadingStep, SplicingStep, DumpingStep, WritingStep DEF IInv
<1> QED
  BY Initially, <1>1, PTL DEF Spec

\* Every variable keeps its type.
THEOREM TypeCorrect == Spec => []TypeOK
<1>1. IInv => TypeOK
  BY DEF IInv, Types
<1> QED
  BY Invariant, <1>1, PTL

\* For any number of scripts, the template combine loads is `return' and one inner function for
\* each of them, closed by a call with as many arguments, none of it longer than _reader's buffer.
THEOREM TemplateHasOneFunctionPerScript == Spec => []TemplateFits
<1>1. ASSUME IInv PROVE TemplateFits
  <2>1. \A k \in DOMAIN tmpl : tmpl[k][1] = "..." => 3 + tmpl[k][2] <= BufSize
    BY <1>1 DEF IInv, Reading
  <2>2. ASSUME pc = "splice"
        PROVE  tmpl = <<(<<"return", 0>>)>> \o [k \in 1..N |-> <<"function", 0>>] \o <<(<<"...", N>>)>>
    <3>1. Whole /\ tmpl \in Seq(TextItem) /\ N \in Nat
      BY <1>1, <2>2 DEF IInv, Types, Splicing
    <3> DEFINE fs == [k \in 1..N |-> <<"function", 0>>]
               rs == <<(<<"return", 0>>)>>
               ds == <<(<<"...", N>>)>>
    <3>2. rs \in Seq(TextItem) /\ ds \in Seq(TextItem) /\ fs \in Seq(TextItem)
      BY <3>1, Items
    <3>3. Len(rs) = 1 /\ Len(ds) = 1 /\ Len(fs) = N /\ rs[1] = <<"return", 0>> /\ ds[1] = <<"...", N>>
      BY <3>1
    <3>4. \A k \in 1..N : fs[k] = <<"function", 0>>
      OBVIOUS
    <3> HIDE DEF fs, rs, ds
    <3>5. /\ rs \o fs \in Seq(TextItem) /\ Len(rs \o fs) = 1 + N
          /\ \A k \in 1..(1 + N) : (rs \o fs)[k] = IF k <= 1 THEN rs[k] ELSE fs[k - 1]
      <4>1. /\ rs \o fs \in Seq(TextItem) /\ Len(rs \o fs) = Len(rs) + Len(fs)
            /\ \A k \in 1..(Len(rs) + Len(fs)) :
                 (rs \o fs)[k] = IF k <= Len(rs) THEN rs[k] ELSE fs[k - Len(rs)]
        BY <3>2, ConcatProperties
      <4> QED
        BY <3>3, <4>1
    <3>6. /\ (rs \o fs) \o ds \in Seq(TextItem) /\ Len((rs \o fs) \o ds) = 1 + N + 1
          /\ \A k \in 1..(1 + N + 1) : ((rs \o fs) \o ds)[k] = IF k <= 1 + N THEN (rs \o fs)[k] ELSE ds[k - (1 + N)]
      BY <3>1, <3>2, <3>3, <3>5, ConcatProperties
    <3>7. ASSUME NEW k \in 1..(1 + N + 1)
          PROVE  tmpl[k] = ((rs \o fs) \o ds)[k]
      <4>1. CASE k = 1
        <5>1. k <= 1 + N /\ k <= 1 /\ k \in 1..(1 + N)
          BY <3>1, <4>1
        <5> QED
          BY <3>1, <3>3, <3>5, <3>6, <4>1, <5>1 DEF Whole
      <4>2. CASE k = 1 + N + 1
        <5>1. ~ (k <= 1 + N) /\ k - (1 + N) = 1 /\ k = N + 2
          BY <3>1, <4>2
        <5> QED
          BY <3>1, <3>3, <3>6, <5>1 DEF Whole
      <4>3. CASE k # 1 /\ k # 1 + N + 1
        <5>1. k <= 1 + N /\ ~ (k <= 1) /\ k \in 1..(1 + N) /\ k - 1 \in 1..N /\ (k - 1) + 1 = k
          BY <3>1, <4>3
        <5> QED
          BY <3>1, <3>4, <3>5, <3>6, <5>1 DEF Whole
      <4> QED
        BY <4>1, <4>2, <4>3
    <3>8. Len(tmpl) = 1 + N + 1
      BY <3>1 DEF Whole
    <3>9. tmpl = (rs \o fs) \o ds
      BY <3>1, <3>6, <3>7, <3>8, SeqEqual
    <3> QED
      BY <3>9 DEF rs, fs, ds
  <2> QED
    BY <2>1, <2>2 DEF TemplateFits
<1> QED
  BY Invariant, <1>1, PTL

\* The dumped template has the scripts' prototypes in the order of the command line, one each.
THEOREM ChainInOrder == Spec => []ScriptsChained
<1>1. ASSUME IInv PROVE ScriptsChained
  <2> SUFFICES ASSUME pc = "dump", N > 1 PROVE protos = [k \in 1..N |-> N - k + 1] /\ stk = <<Combined>>
    BY DEF ScriptsChained
  <2>1. /\ Len(stk) = 1 /\ stk[1] = Combined /\ Len(protos) = N /\ \A k \in 1..N : protos[k] = N - k + 1
        /\ protos \in Seq(1..MaxFiles) /\ stk \in Seq(StackItem)
    BY <1>1 DEF IInv, Splicing, Types, TypeOK
  <2>2. DOMAIN protos = 1..N /\ protos = [k \in 1..N |-> protos[k]]
    BY <2>1
  <2>3. stk = <<stk[1]>>
    BY <2>1
  <2> QED
    BY <2>1, <2>2, <2>3
<1> QED
  BY Invariant, <1>1, PTL

\* For blocks of any sizes in any number, _writer never writes behind the array's end, and the
\* array holds exactly what lua_dump gave it unless an allocation has failed.
THEOREM NothingLostNorPastTheEnd == Spec => []ArrayHoldsDump
<1>1. IInv => ArrayHoldsDump
  BY DEF IInv, Dumping, ArrayHoldsDump
<1> QED
  BY Invariant, <1>1, PTL

\* daluac exits with LUA_OK exactly when it wrote the header and the code, and writes nothing
\* before the last script compiled; the header has the size of the code behind it.
THEOREM OutputIsWhole == Spec => []AllOrNothing
<1>1. ASSUME IInv PROVE AllOrNothing
  <2>0. N \in Nat
    BY <1>1 DEF IInv, Types
  <2>1. ASSUME out # <<>> PROVE i > N /\ out[1] = [what |-> "header", codesize |-> size]
    <3>1. i = N + 1
      BY <1>1, <2>1 DEF IInv, Writing, Loading
    <3>2. out = <<Header>> \/ out = <<Header, CodeOf>>
      BY <1>1, <2>1 DEF IInv, Writing
    <3> QED
      BY <2>0, <3>1, <3>2 DEF Header
  <2>2. ASSUME pc = "exit"
        PROVE  status = LUA_OK <=> [k \in DOMAIN out |-> out[k].what] = <<"header", "code">>
    <3>1. CASE status = LUA_OK
      <4>1. out = <<Header, CodeOf>>
        BY <1>1, <2>2, <3>1 DEF IInv, Writing
      <4>2. DOMAIN out = 1..2 /\ out[1].what = "header" /\ out[2].what = "code"
        BY <4>1 DEF Header, CodeOf
      <4>3. [k \in DOMAIN out |-> out[k].what] = <<"header", "code">>
        BY <4>2
      <4> QED
        BY <3>1, <4>3
    <3>2. CASE status # LUA_OK
      <4>1. out = <<>> \/ out = <<Header>>
        BY <1>1, <2>2, <3>2 DEF IInv, Writing
      <4>2. DOMAIN out # 1..2
        <5>1. DOMAIN <<>> = 1..0 /\ DOMAIN <<Header>> = 1..1
          OBVIOUS
        <5>2. 2 \in 1..2 /\ 2 \notin 1..0 /\ 2 \notin 1..1
          OBVIOUS
        <5> QED
          BY <4>1, <5>1, <5>2
      <4>3. DOMAIN <<"header", "code">> = 1..2
        OBVIOUS
      <4>4. DOMAIN [k \in DOMAIN out |-> out[k].what] = DOMAIN out
        OBVIOUS
      <4> QED
        BY <3>2, <4>2, <4>3, <4>4
    <3> QED
      BY <3>1, <3>2
  <2> QED
    BY <2>1, <2>2 DEF AllOrNothing
<1> QED
  BY Invariant, <1>1, PTL
==============================================================================
