----------------------------- MODULE MCLibrary ------------------------------
(***************************************************************************)
(* The compiler, the interpreter, the libraries and the command line on    *)
(* bounded inputs.  These parts compute: an input is chosen in two steps   *)
(* (choice, then the whole input), a third step works it out, and its      *)
(* property compares what the part makes of the input with what the manual *)
(* or the reference says.  Strings is the part that runs on: it takes its  *)
(* own steps, with its own properties.                                     *)
(***************************************************************************)
EXTENDS Programs, Strings

Match == INSTANCE Patterns
Format == INSTANCE Pack
Lists == INSTANCE TabLib
Binary == INSTANCE Chunk
Machine == INSTANCE Numbers
Unicode == INSTANCE Utf8
Source == INSTANCE Lexer
Api == INSTANCE Stack
Options == INSTANCE CommandLine
Finder == INSTANCE Devices WITH Port <- {"ACM0", "ACM1"}
Checksum == INSTANCE Fletcher

VARIABLES part, choice, input

chosen == <<part, choice, input>>

\* Two short strings of the same chain in a small table, a long one, and the message.
SomeContents == {"a", "c", "long", "memerr"}
SomeHash == [t \in SomeContents |-> IF t = "c" THEN 2 ELSE 0]

Fuel == 100
UpTo(S, n) == UNION {[1 .. k -> S] : k \in 0 .. n}
Chose(p) == part = p /\ input = <<>> /\ UNCHANGED <<part, choice, vars>>

-----------------------------------------------------------------------------
(* Inputs *)

Families == {"cond", "assign", "jump", "list", "table", "op", "scope", "index", "name"}
WriteProgram == Chose("program") /\ \E ss \in ProgramsOf(choice[1], choice[2]) : input' = <<ss>>

WritePattern == Chose("pattern") /\ \E t \in Match!PatternsFrom(choice), s \in Match!Subjects : input' = <<t, s>>
WriteText == Chose("text") /\ \E t \in Match!TextsFrom(choice) : input' = <<t>>
WriteFormat == Chose("format") /\ \E f \in Format!FormatsFrom(choice) : input' = <<f>>
BuildFunction == Chose("function") /\ \E f \in Binary!ChunksFrom(choice), strip \in BOOLEAN : input' = <<f, strip>>

\* An order: any sequence with <, or distinct elements with any answers at all.
ChooseOrder ==
  Chose("order") /\ \/ \E a \in [1 .. choice -> 1 .. 3] : input' = <<a, {}, 3>>
                    \/ choice > 3 /\ \E yes \in SUBSET (1 .. 10), rand \in {0, 3} : input' = <<[i \in 1 .. choice |-> i], yes, rand>>
ChooseMove ==
  Chose("move") /\ \E e, t \in Lists!Integer, z \in {0, 5} :
    input' = <<[i \in Lists!Integer |-> IF i = z THEN 0 ELSE 10 + i], [i \in Lists!Integer |-> 20 + i], e, t>>
ChooseInsert == Chose("insert") /\ \E pos \in 0 .. choice + 2 : input' = <<[i \in 1 .. choice - 1 |-> i], pos>>

ChooseNumber == Chose("number") /\ input' = <<choice>>
Steps == {Machine!int(n) : n \in {-32, -7, -1, 0, 1, 2, 20, 31}} \cup {Machine!flt(f) : f \in {0, 2, -5, 224}}
Starts == {o \in Machine!Numbers : o.t = "int" \/ o.v \in Machine!Finite}
ChooseLoop == Chose("loop") /\ \E step \in Steps : input' = <<choice, step>>
NumeralChars == {"0", "1", "3", "x", "e", "p", ".", "-", " "}
WriteNumeral == Chose("numeral") /\ \E t \in UpTo(NumeralChars, 3) : input' = <<<<choice>> \o t>>

SomeBytes == {0, 65, 127, 128, 143, 144, 159, 160, 191, 192, 193, 194, 223, 224, 225, 239, 240, 243, 244, 245, 247, 248, 252, 254, 255}
FewBytes == {65, 128, 191, 194, 225, 240}
WriteBytes == Chose("bytes") /\ \E b \in SomeBytes : input' = <<<<choice, b>>>>
Codes == {0, 1, 100, 127, 128, 2047, 2048, 4095, 4096, 32767, 32768, 65535, 65536, 262143, 262144, 1114111}
ChooseCode == Chose("code") /\ input' = <<choice>>

LongChars == {"[", "]", "=", "-", "\n", "\r"}
EscapeChars == {"\"", "\\", "\n", "z", "1", "\r"}
NumberChars == {"0", "x", "e", ".", "-", "="}
Words == Source!Ops \cup Source!Dots \cup Source!Names \cup Source!Numerals \cup Source!Longs \cup Source!Strings
WriteWords == Chose("words") /\ \E w \in Source!WordsAfter(choice) : input' = w
WriteSource ==
  Chose("source") /\ \E start \in {<<>>, <<"[", "=", "[">>, <<"\"">>} : \E t \in UpTo(choice, 3) : input' = <<start \o t>>
WriteQuoted == Chose("quoted") /\ \E s \in UpTo({0, 7, 10, 13, 34, 92, 49, 97}, 3) : input' = <<s>>

Rotate ==
  Chose("rotate") /\ \E idx \in 1 .. choice : \E k \in idx - choice - 1 .. choice + 1 - idx : \E i \in {idx, idx - choice - 1} :
    input' = <<[j \in 1 .. choice |-> j], i, k>>
Grow ==
  Chose("grow") /\ \E top \in 1 .. choice - 5, n \in 0 .. 26 : \E citop \in top .. choice - 5 :
    input' = <<[size |-> choice, top |-> top, citop |-> citop, status |-> "OK"], n>>
UseBuffer == Chose("buffer") /\ \E ops \in UpTo({0, 1, 2, 7, 10, 11, 13, 9, 19}, 4) : input' = <<ops>>
UseRefs == Chose("refs") /\ \E ops \in Api!Referring(choice, 0) : input' = <<ops>>
Object(n) == [t |-> "function", v |-> n]
Module(n) == [t |-> "table", v |-> n]
Fields == {<<Api!Str(<<"a">>), Object("f")>>, <<Api!Str(<<"a">>), Object("g")>>, <<[t |-> "number", v |-> <<"1">>], Object("f")>>,
           <<Api!Str(<<"_G">>), Module("G")>>, <<Api!Str(<<"m">>), Module("m")>>, <<Api!Str(<<"b">>), Module("loaded")>>}
NameFunction ==
  Chose("name") /\ \E loaded \in UpTo(Fields, 2), G \in UpTo(Fields, 2), m \in UpTo(Fields, 1) :
    input' = <<[loaded |-> loaded, G |-> G, m |-> m]>>
Trace == Chose("trace") /\ \E level \in 0 .. 30 : input' = <<choice, level>>
FileBytes == {"EF", "BB", "BF", "#", "nl", "ESC", "a"}
LoadFile ==
  Chose("file") /\ \E f \in UpTo(FileBytes, 3), more \in UpTo({"#", "nl", "ESC", "a"}, 2), fails \in {"none", "open", "reopen", "read"} :
    /\ choice = Len(f) /\ (choice < 3 => more = <<>>)
    /\ input' = <<f \o more, fails>>
TypeCommand == Chose("command") /\ \E items \in Options!ItemsFrom(choice), fails \in 0 .. 2 : input' = <<items, fails>>
PlugDevices == Chose("devices") /\ \E t \in UpTo(Finder!Entry, 3) : input' = <<<<choice>> \o t>>
ChooseData == Chose("data") /\ \E t \in UpTo({0, 1, 15}, 6) : input' = <<<<choice>> \o t>>

\* What is given is worked out.
Given(p) == part = p /\ input # <<>>
WorkOut == input # <<>> /\ part' = "done" /\ choice' = 0 /\ input' = <<>> /\ UNCHANGED vars

UseStrings == part = "strings" /\ Next /\ UNCHANGED chosen

PartAndChoice ==
  \/ part = "program" /\ choice \in UNION {{<<f, x>> : x \in Family[f]} : f \in Families}
  \/ part = "pattern" /\ choice \in Match!Items
  \/ part = "text" /\ choice \in Match!TextChars
  \/ part = "format" /\ choice \in Format!Options
  \/ part = "function" /\ choice \in {0, 5, 6}
  \/ part \in {"order", "insert"} /\ choice \in 1 .. 6
  \/ part = "move" /\ choice \in Lists!Integer
  \/ part = "number" /\ choice \in Machine!Numbers
  \/ part = "loop" /\ choice \in Starts
  \/ part = "numeral" /\ choice \in NumeralChars
  \/ part = "bytes" /\ choice \in SomeBytes
  \/ part = "code" /\ choice \in Codes
  \/ part = "words" /\ choice \in Words
  \/ part = "source" /\ choice \in {LongChars, EscapeChars, NumberChars}
  \/ part = "quoted" /\ choice = {}
  \/ part \in {"rotate", "refs"} /\ choice \in 1 .. 6
  \/ part = "grow" /\ choice \in {10, 12, 16, 20, 29, 30, 34}
  \/ part \in {"buffer", "name"} /\ choice = 0
  \/ part = "trace" /\ choice \in 0 .. 50
  \/ part = "file" /\ choice \in 0 .. 3
  \/ part = "command" /\ choice \in Options!Item
  \/ part = "devices" /\ choice \in Finder!Entry
  \/ part = "data" /\ choice \in {0, 1, 7, 15}

-----------------------------------------------------------------------------
\* The string table is at its least while another part is tried.
LibraryInit ==
  /\ Init /\ input = <<>>
  /\ \/ part = "strings" /\ choice = 0
     \/ PartAndChoice /\ Size(g) = 1

LibraryNext ==
  \/ WriteProgram \/ WritePattern \/ WriteText \/ WriteFormat \/ BuildFunction
  \/ ChooseOrder \/ ChooseMove \/ ChooseInsert
  \/ ChooseNumber \/ ChooseLoop \/ WriteNumeral \/ WriteBytes \/ ChooseCode
  \/ WriteWords \/ WriteSource \/ WriteQuoted
  \/ Rotate \/ Grow \/ UseBuffer \/ UseRefs \/ NameFunction \/ Trace \/ LoadFile
  \/ TypeCommand \/ PlugDevices \/ ChooseData \/ WorkOut \/ UseStrings

LibrarySpec == LibraryInit /\ [][LibraryNext]_<<chosen, vars>>

-----------------------------------------------------------------------------
\* The parser and the code generator refuse exactly the programs that break a rule, and the code of
\* every other program, run by the interpreter, does what the program means: same calls, same
\* values, same end; no register above the frame, no jump out of the code, no live upvalue left open.
\* An error message and a traceback name a value as the program does, or not at all where a jump hides it.
ProgramsRight == [][Given("program") => CompiledRight(input[1], Fuel, choice[1] \in {"name", "index"})]_chosen

\* string.find, match, gmatch and gsub find the first way in which the pattern matches, with its
\* captures, and a text that is no pattern raises an error and never reads behind its end.
PatternsRight == [][
  /\ Given("pattern") => Match!MatchedRight(input[1], input[2])
  /\ Given("text") => Match!TextRight(input[1], <<"a", "b">>)
  ]_chosen

\* string.pack and string.packsize agree, string.unpack gives back what was packed, and refuses data
\* that is too short, whatever length the data claims; UTF-8 characters are decoded, counted and walked
\* exactly where a string encodes them, both ways; where size_t is as wide as unsigned (the keyboard), a
\* dump loads to the function it was made from, in any pieces, and a chunk that lost its end or has
\* another header is refused; a host with a wider size_t refuses it; a checksum loses no carry.
BytesRight == [][
  /\ Given("format") => /\ \A args \in Format!Arguments(input[1]) : Format!PackedRight(input[1], args)
                        /\ Len(input[1]) <= 2 => \A data \in Format!Datas, init \in {1, 2} : Format!UnpackedRight(input[1], data, init)
  /\ Given("bytes") => \A w \in UpTo(SomeBytes, 1) \cup (FewBytes \X SomeBytes) : Unicode!DecodedRight(input[1] \o w)
  /\ Given("code") => Unicode!EncodedRight(input[1])
  /\ Given("function") => Binary!ChunkRight(input[1], input[2])
  /\ Given("data") => Checksum!SummedRight(input[1])
  ]_chosen

\* table.sort sorts, and under an order function that contradicts itself it stays inside the table;
\* table.move copies overlapping ranges, up to the limits of the integers; insert and remove shift.
ListsRight == [][
  /\ Given("order") => Lists!SortedRight(input[1], input[2], input[3])
  /\ Given("move") => Lists!MovedRight(input[1], input[2], choice, input[3], input[4])
  /\ Given("insert") => Lists!InsertedRight(input[1], input[2])
  ]_chosen

\* Integers and floats compare by their values, division and shifts wrap, sizes round up, a numeral is
\* read as written.  A numeric for is the manual's, which wraps when its limit is within a step of the
\* end of the integers, and never passes its limit elsewhere; with a step of 0 or NaN for a limit it
\* differs from the manual's, as LoopedRight says.
NumbersRight == [][
  /\ Given("number") => /\ \A o \in Machine!Numbers : Machine!ComparedRight(input[1], o)
                        /\ Machine!RoundedRight(input[1])
                        /\ input[1].t = "int" => \A n \in Machine!Integer : Machine!ComputedRight(input[1].v, n)
                        /\ input[1].t = "int" => \A i \in 0 .. 40 : Machine!SizedRight((input[1].v + 32) * 40 + i)
  /\ Given("loop") => \A limit \in Machine!Numbers : Machine!LoopedRight(input[1], limit, input[2])
  /\ Given("numeral") => \A c \in NumeralChars : Machine!ReadRight(input[1]) /\ Machine!ReadRight(input[1] \o <<c>>)
  ]_chosen

\* A source scans as the tokens it was written from, each at its line; looking ahead changes nothing;
\* string.format("%q") writes a string that scans as itself.
SourcesRight == [][
  /\ Given("words") => Source!WordsRight(input[1], input[2])
  /\ Given("source") => Source!ScannedRight(input[1])
  /\ Given("quoted") => Source!QuotedRight(input[1])
  ]_chosen

\* The stack of a C function, the buffers, references and names built on it, tracebacks and files.
StacksRight == [][
  /\ Given("rotate") => Api!RotatedRight(input[1], input[2], input[3])
  /\ Given("grow") => Api!GrownRight(input[1], input[2])
  /\ Given("buffer") => Api!BufferRight(input[1])
  /\ Given("refs") => Api!RefsRight(input[1])
  /\ Given("name") => Api!NameRight(input[1], Object("f"), Module("loaded"))
  /\ Given("trace") => Api!TracebackRight(input[1], input[2])
  /\ Given("file") => Api!LoadedFileRight(input[1], input[2])
  ]_chosen

\* A command line does what its items say however they are spelled: the jobs run in their order, each
\* with the options to its left, up to the first mistake, which the message names; without a device on
\* it, a device is found if it is the only one of its kind, wherever the system lists it, provided that
\* the system knows a port for each of that kind.
OptionsRight == [][
  /\ Given("command") => Options!ParsedRight(input[1], input[2])
  /\ Given("devices") => Finder!FoundRight(input[1])
  ]_chosen
=============================================================================
