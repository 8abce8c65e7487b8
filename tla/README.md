# A TLA+ model of dalua and daluac

This directory specifies, model-checks and proves properties of the code in `src/`:

* **daluac** compiles a list of Lua scripts off-line, splices them into one function and
  writes its bytecode to stdout (`daluac.c`, `dacomp.c`);
* **dalua** compiles what is typed (or given with `-e`, `-f`), sends the bytecode over a
  serial link to the Lua REPL of a keyboard's firmware, and shows what comes back
  (`dalua.cpp`, `darepl.cpp`, `serial_*.cpp`);
* both are linked with the **Lua 5.3.6 core** and `lauxlib.c` (`makefile:141-145`): the collector,
  calls and coroutines, tables, strings, the compiler and the interpreter are modelled, each as far
  as section 7 says; so are the **libraries** that the repository keeps beside the core and that
  neither program is linked with (`lstrlib.c`, `ltablib.c`, `lutf8lib.c`, `lmathlib.c`, `lcorolib.c`).

## 1. Inventory

| Component | State | Operations | What makes it correct |
|---|---|---|---|
| daluac (`daluac.c`, `dacomp.c`) | Lua stack, the count cell and `depth` of `_reader`, the growing `array`, stdout | stat the scripts, load each, generate the template, splice the prototypes, dump through `_writer`, write header and code | the template matches the number of scripts; scripts chained in the order listed; the array holds every block; nothing written unless all is well; stack left clean on every error path |
| dalua session, Linux (`dalua.cpp`, `darepl.cpp`, `serial_linux.cpp`, `serial_common.*`) | options and jobs, `m_fd`, `status_t`, Lua stack, Readline's line, prompt | jobs, `open` with its ping, prompt with `poll`, compile an expression / statement / further lines, `do_chunk`, `receive_status`, close | a status is taken for the request it answers; the prompt means the device is idle; the port is open when used; lost links are noticed; no endless wait |
| serial port, Windows (`serial_win.cpp`) | `m_handle`, `m_buffer`, `m_size_in`, `m_size_out` | `open`, `close`, `read_some`, `read_line`, write | lines are cut out of the byte stream without loss, repetition or mixing of sessions |
| timeouts (`serial_common.cpp`) | `since`, `timeout_ms` | `receive_status` | waits as long as told |
| device and link (not in this repository) | tty queues, hangup, the REPL's state | plug, unplug, boot, pong, execute, print | external |
| collector (`lgc.c`, barriers in `lapi.c`, `lvm.c`, `ltable.c`, `lfunc.c`) | colours, gray lists, weak lists, allgc/finobj/tobefnz, `sweepgc`, `gcstate` | one step of each phase, finalizers, barriers, `luaC_checkfinalizer`, full and emergency collections | nothing reachable is freed; weak entries cleared in time; finalizers only for garbage; the invariants of `lgc.h`; garbage is freed in the end |
| calls, errors, coroutines (`ldo.c`, `lstate.c`, `lcorolib.c`) | CallInfo list of each thread, C stack, `nCcalls`, `nny`, `errfunc`, `allowhook`, open upvalues | call, return, protect, throw, `resume`, `yield`, `unroll`, hooks | an error unwinds to the protected call and restores what it saved; a coroutine goes on where it yielded or cannot yield; bounded C stack |
| tables (`ltable.c`) | array part, node array, `lastfree` | get, set, `newkey`, rehash, resize, `next`, `getn` | no entry lost or doubled; traversal while erasing and collecting; the length is a border |
| strings (`lstring.c`) | string table, API cache, colours | intern, grow, shrink, resurrect, sweep | one copy of a short string, none freed while used |
| dump/undump (`ldump.c`, `lundump.c`, `lzio.c`) | writer's status, ZIO window | dump in blocks, load from any pieces | the round trip; truncation and foreign headers are refused |
| lexer (`llex.c`), parser (`lparser.c`), code generator (`lcode.c`) | look-ahead; FuncState: registers, jump lists, active variables, labels and gotos | tokens, expressions, statements | a program means what the manual says, or is refused for a rule it breaks |
| virtual machine (`lvm.c`, `lobject.c`, `ltm.c`) | stack, CallInfos, upvalues, tables | an instruction at a time, metamethods, arithmetic, comparisons, loops | the same, with the limits of integers and floats |
| C API, auxiliary library (`lapi.c`, `lauxlib.c`) | the stack of a C function, buffers, references | rotate, grow, buffer, ref, names, traceback, load a file | the stack holds what the manual says; nothing beyond its end |
| libraries (`lstrlib.c`, `ltablib.c`, `lutf8lib.c`, `lmathlib.c`, ...) | captures, formats, positions | match, pack, sort, move, decode, ... | their definitions, up to the ends of the integers and whatever functions and patterns they are given |
| option parsing (`opt_parser.hpp`, `dalua.cpp`) | the word and the place in it, the options so far | one option after the other | every spelling means the same; jobs run in order |
| Fletcher-32 (`checksum/`) | two sums | init, update, finish | the sums of the definition, no overflow |
| `lua.c`, `ltests.c` | | | not part of dalua |

**How they interact.** dalua and daluac call the core through `luaL_load*`, `lua_dump` (with
their own reader and writer callbacks) and the stack. The session calls the port; the port is
closed from four places (writer, `read_line`, `push_line`, `do_chunk`), each on an error that
another of them might have seen first. (In `Dalua` a `read_line` that fails closes the port in `PrintLine`; below
`receive_status` its callers close it as well, whether it failed or only gave up.) The device, the cable and the user act between any two
steps of the session. The collector is called by whatever allocates, so the Lua program runs
between any two of its steps.

**What is hard.** The order of link loss, answers and reads; timeouts of `open`'s ping against a
late answer; a statically sized buffer and a count that changes meaning (`_reader`); errors in the
middle of a dump; a line buffer across timeouts and reconnections; and, in the collector, every
interleaving of program and marking or sweeping, with resurrection, weak tables, and lists whose
members move while `sweepgc` points into them. In the core: errors and yields through C functions,
hooks and message handlers; colliding keys, dying keys and a rehash in a traversal; strings that are
found dead, or while an emergency collection frees others; one-pass code generation, in which a
register, a jump or a constant is committed before it is known what follows; backtracking; and
arithmetic at the ends of the integers. `PROJECT.json` lists these hazards at their lines,
with the properties aimed at each, and says why where there is none yet.

## 2. Modules

| Module | Models | Correspondence |
|---|---|---|
| `Status` | `status_t` values | `lua.h`, `lauxlib.h`, `lua.hpp` |
| `Daluac` | main of daluac, `compile_files`, `combine`, `_reader`, `_writer` | one action per call made; `arg` and `depth` are the cells of `_reader`, `stk` the Lua stack |
| `SerialLink` | cable, tty and device (external) | only what the host's code relies on |
| `Dalua` | the session on Linux; extends `SerialLink` | `pc` is the call dalua is in; one action per system call or Lua call and the branches behind it |
| `Daluac_proofs`, `Dalua_proofs`, `WinPort_proofs`, `Gc_proofs`, `Calls_proofs`, `Tables_proofs`, `Strings_proofs` | theorems about these modules | see section 5 |
| `Induction` | induction over the numbers, recursive definition: what proofs cite | models no code |
| `WinPort` | `read_line`, `read_some`, `close` on Windows and their callers | `m_buffer` is the first `m_size_in` bytes; `sent`, `nread`, `given` are history |
| `RecvTimeout` | the arithmetic of `receive_status`'s timeout | the clock ticks finer than a millisecond |
| `Gc` | `lgc.c`: all phases, barriers, weak tables, finalizers, full and emergency collections | one action per state of `singlestep`; `atomic()` is split into its stages, during which the program does not run |
| `MCGc` | the references (`Refs`) the program may make in `Gc`'s runs | |
| `Coroutines` | abstract: threads as stacks of activations, who may yield, where errors go | what the manual promises |
| `Calls` | `ldo.c`, the calls of `lapi.c`, the coroutine library | `th` has the CallInfo lists and counters, `cstack` the C functions between two `longjmp`s; implements `Coroutines` |
| `TableMap` | abstract: a map and a traversal | what the manual promises |
| `Tables`, `MCTables` | `ltable.c` | `t` is array and nodes with relative links; implements `TableMap` |
| `Strings` | `lstring.c`, and of `lgc.c` what strings see | `g` is the `global_State`; an operation has its allocation's emergency collection in it |
| `Code`, `Parser` | `lcode.c`, `lparser.c` | functions from a FuncState to the next; the syntax tree replaces the tokens |
| `Names` | `ldebug.c`: the name in a message, guessed from the code | functions of a prototype and a place in it |
| `Execute` | `luaV_execute` with calls, upvalues, metamethods, `varinfo` | a function from a machine to the next |
| `Compile`, `Programs` | the reference: what a program means, what its error is about, which programs are refused; the programs tried | models no code |
| `Lexer` | `llex.c`, and `%q` of `lstrlib.c` | functions from a LexState to the next |
| `StrMatch`, `Patterns` | the matcher of `lstrlib.c`; the reference: in which ways a pattern matches | a MatchState with its captures |
| `Pack`, `TabLib`, `Utf8`, `Numbers` | `string.pack`, `ltablib.c`, `lutf8lib.c`, numbers of `lvm.c`, `lobject.c`, `lmathlib.c` | one operator per function; their definitions stand in the same module |
| `Chunk` | `ldump.c`, `lundump.c`, `lzio.c` | the byte sequence between them |
| `Stack` | `lapi.c`, `lauxlib.c` | the stack of one C function as a sequence |
| `Devices` | `serial::serial` on Linux, `find_device` on Windows | a walk over a list of entries |
| `CommandLine` | `opt_parser.hpp`, `option.hpp`, the handlers of `dalua.cpp` | words as sequences of characters; jobs in the order run |
| `Fletcher` | `checksum/fletcher32.c` | words of fewer bits |
| `MCLibrary` | composes these: an input for one of them, or steps of `Strings` | inputs are chosen in two steps and worked out in a third, at which the properties look |

Beside some definitions stands a second form, introduced by a comment "Mutant". It is the same
definition with a plausible mistake (a dropped guard, a swapped order, a missing reset). No
specification uses it. `PROJECT.json` lists, for every property of a passing run, such a form
under which the run finds the property violated: none of the properties holds whatever the code
does.

### Abstractions

* **Daluac**: the header's checksum and the messages are left out, and of what `combine` writes into
  the prototypes the `instack` of their first upvalue and the empty `lineinfo` (`dacomp.c:88-94`):
  `Splice` is about which prototype goes where. The template is a sequence of
  its lines; a block of a dump is its size.
* **Dalua**: a line from the device is its status (or none) and the request it answers; a chunk is
  its number and its blocks. Left out: `termios` settings and `flock` (other than failing),
  Readline's history, reading a line in parts, the text shown, exact time (a timeout may expire
  whenever nothing has come in, or after any line). While the node is absent and `-n` is not
  given `open()` sleeps and tries again: in the model, the action is not enabled.
* **WinPort**: three bytes stand for the alphabet: text, the first byte of a ping, newline. A ping
  is two bytes long. A timeout may expire at any time. `ReadFile` returns any number of the bytes
  that are there.
* **Gc**: an object has one entry, a key and a value: a table's node, or a closure's upvalue, or
  a userdata's user value. Gray lists are sets, so every order is explored. The colours are
  relative to the current white: `"white"` is the current one, `"other"` the other one, and the
  flip renames them, which halves the states. Lists are cleared in the states
  where the code only overwrites them later. The pacing by debt is left out (a step may come at any
  time, after each any number of finalizers), so are strings (see `Strings`), prototypes, coroutines, open
  upvalues, `luaC_freeallobjects`, and collections nested in the finalizers of a full collection.
  The registry and the metatables stand for roots like the main thread's stack.
* **Calls**: values, results and messages are left out; the stack level of an upvalue or a handler
  is the number of its activation. A Lua function may do anything between two calls. An activation
  of `lua_callk` stands for every C function that calls back with a continuation (`dofile`) or
  without one (`call`: `table.sort`, `string.gsub`, a metamethod called from C).
* **Tables**: a key is its type and its hash; the value of a key is that key, so a mixed-up value
  shows. Metatables and the memory error itself are left out, its effect on the table is not. A
  string or an object that is used again after its key died has the same name in the model: only a traversal
  asks for dead keys, and it holds the key it goes on from, so that is the same string or object there.
* **Strings**: contents are names with a given hash, addresses a small set handed out from the lowest; a cycle has only the
  stages that treat strings; the cache has one line. The collector runs at any time, so `GCdebt` is not there.
* **Parser, Code, Execute**: numbers are small integers, `MAXINDEXRK`, `MAXARG_Bx` and
  `LFIELDS_PER_FLUSH` small constants, so that constants that fit in no operand,
  or not even in `OP_LOADK`, and constructors that are flushed occur. Lines are left out. The interpreter stops after
  a number of steps (`Fuel`); an error ends the program, with the name its message gives to the culprit.
* **Numbers**: integers of 6 bits, floats with a mantissa shorter than an integer, as in the build
  (`LUA_32BITS`: 32 and 24 bits). **Pack**, **TabLib**, **Utf8**, **Fletcher**: the heads of the modules give their widths.
* **Chunk**: a byte has few values; `int` and `unsigned` have two bytes. The loader's `size_t` is a
  parameter: as wide as `unsigned` (the keyboard) or twice as wide (an x86-64 host).

## 3. Runs

| Run | Instance | Shows |
|---|---|---|
| `daluac` | up to 4 scripts, room in the buffer for 3; blocks of 1 or 3 bytes, up to 3 of them, capacity from 2 (3,187 states) | `TemplateFits`, `ScriptsChained`, `ArrayHoldsDump`, `AllOrNothing` |
| `daluac_stack` | the same | **violated** `OnlyMessageLeft`: see finding 1 |
| `dalua` | 2 jobs, 3 chunks of up to 2 blocks, 3 unread lines (39,203 states) | `StatusAnswersRequest`, `IdleAtPrompt`, `OpenWhenUsed`, `StackBalanced`; `LostLinkNoticed` and `AnswerTaken` under fairness |
| `dalua_retry` | the same | **violated** `KeepsTrying`: finding 2 |
| `winport` | a buffer of 3, 5 bytes in a session, any number of sessions (182,876 states) | `WindowOfStream`, `WholeLines`, `StatusIsALine`; `StatusDelivered` under fairness |
| `recv_timeout` | a timeout of 3 ms, a clock of 1/4 ms | **violated** `WaitsUpToTimeout`: finding 3 |
| `gc` | a table with a finalizer, an ephemeron table, a userdata, any references but to oneself; batches of 2 (1,165,955 states) | `NoDangling` (nothing in use or held as a key is freed, every object on one list), `TriColour`, `AllWhite`, `FinalizedWhenGarbage` |
| `gc_weak` | a table with weak values, whose key is strong (so it can refer to itself: a cycle of garbage), an all-weak table with a finalizer, any references; batches of 2 (80,560 states) | `WeakSafe` (the first and the last of those, with weak tables); `GarbageCollected` under fairness |
| `gc_white` | two objects with finalizers, batches of 1 | **violated** `AllWhite`: finding 4 |
| `calls` | the main thread and a coroutine, up to 3 activations each, `LUAI_MAXCCALLS` 4 with 2 for error handling; every kind of function and hooks (444,672 states) | `Implements` (refines `Coroutines`), `YieldableUnlessBarrier`, `ContinuationKnown`, `HandlersRestored`, `UpvaluesLive`, `CStackBounded` |
| `tables` | five keys: integers, one also as a float, a string and an object, which may die, with colliding main positions; array part up to 4 (53,484 states) | `Implements` (refines `TableMap`), `WellFormed`, `NextKnowsKey`, `LengthIsBorder` |
| `library` | 219,543 states, each a part, a choice or an input; and 21,020 states of `Strings`: two short strings of one chain in a small table, a long one and the message, two addresses, tables of 1 to 8 chains, a cache line of two | `Interned`, `HeldIsAlive`, and see below |

Beside the two invariants of `Strings`, `library` asks one question of each part, on all inputs of a bounded family:

| Property | Inputs | Compared with |
|---|---|---|
| `ProgramsRight` | 16,066 programs in nine families: conditions, multiple assignment, gotos and loops around closures, value lists, constructors, operators with metamethods, scopes of nested functions, chains of `__index`, mistakes with variables, fields and calls | `Compile`: the calls, values and end of the program, or the rule it breaks; for the last two families also the names: the variable, field, method or constant at fault or called, or none where a jump hides it |
| `PatternsRight` | 19,024 patterns and texts, on several subjects | `Patterns`: the first way to match, its captures; malformed patterns raise errors |
| `BytesRight` | formats of up to three options, UTF-8 sequences at every boundary, 1,026 functions dumped in pieces, whole and cut, loaded with the keyboard's `size_t` and with a host's, data for the checksum | the round trips (a host refuses the dump), the definition of UTF-8, the sums as defined |
| `ListsRight` | all arrays of up to 6 of 3 values, and order functions that answer anything; moves at every boundary of 3-bit integers | sorted and permuted; inside the table whatever the order function says; the range as defined |
| `NumbersRight` | all pairs of integers and floats, loops from any number to any limit (NaN too) by eleven steps (0 too), numerals of up to 5 characters | exact values; the manual's loop, and what differs from it if the step is 0 or the limit NaN; the number written |
| `SourcesRight` | words with gaps between them, any short text, strings quoted by `%q` | the tokens they were written from, their lines |
| `StacksRight` | rotations, growth at the limits, sequences of 4 buffer operations and of references, names, tracebacks, files that fail | their definitions; balance of the stack |
| `OptionsRight` | lines of up to three options in each spelling, a job of which fails; lists of up to four devices, some without a port | what the options mean one by one; the only device of that name, if each of that name has a port (for the others see the remarks) |

**Why these bounds.** `daluac`: the fourth script is the first whose closing parentheses do not
fit, so the assertion is met; three blocks force the array to grow more than once, once by more
than one doubling. `dalua`: the second job and the third chunk meet whatever an earlier exchange
has left behind; two blocks let the link be lost within a dump; the device may print until three
lines wait, with answers in front of, among and behind them, and may reboot, vanish and return any
number of times. `winport`: the buffer holds a ping and one byte more, so a ping can be whole,
partly arrived or cut by the end of the buffer; five bytes fill the buffer, move it and fill it again. `gc`:
three objects are the least in which a barrier matters behind an ephemeron's key, with a cycle
through a finalizer; objects are freed and allocated again without bound, and batches of two end
within a list. Closures have the code paths of the userdata's barrier and the table's
traversal; no run of these bounds instantiates them. `calls`: three activations hold a protected
call, a function called by it and a hook, handler or yield in that; with four C calls the limit is met,
exceeded in the message handler, and met across a coroutine. `tables`: three keys of one main position
make a chain, and the fourth moves the middle one of it, which has its node; four array slots and four nodes let both parts grow and
shrink in either direction. `library`: two strings beside the fixed one let the table grow twice,
shrink, and fill a cache line of two; a string is resurrected while the other one is swept, and an
emergency collection frees one between the look-up of the other and its entry.
Programs, patterns and formats are as long as it takes to have any two features beside each other or one in the
other.

Deadlock is checked except in `daluac` (the program ends), `recv_timeout` (the clock's bound),
`calls` and `library` (the bounds on activations; an input worked out is the end).
`dalua` never deadlocks although the session ends, because the link goes on.

## 4. Fairness

* `Dalua`, `WinPort`: `WF_vars(Program)`. The program is a single thread which the system keeps running.
  Nothing is assumed of the user, the cable or the device; `AnswerTaken` is therefore about a
  status that has been sent, `LostLinkNoticed` about a hangup that the kernel has reported.
  `LostLinkNoticed` covers the prompt without any help of the user, because `poll()` watches the port as well.
* `Gc`: `WF_vars(Collect)`. A program that goes on to run goes on to allocate, and `luaC_step`
  is called again and again; without it nothing has to be freed. No step of the program is
  assumed to be taken.
* The other modules: only safety is stated. A Lua program, a comparison function or an order of
  calls need not come to an end.

## 5. Proofs

Each theorem holds for every value of the constants that the module's named assumptions allow
(`DaluaAssumption`, `SerialLinkAssumption`, `DaluacAssumption`, `WinPortAssumption`, `GcAssumption`,
`CallsAssumption`, `TablesAssumption`, `StringsAssumption`: bounds are natural numbers, a chunk has at least one block, a buffer some
room, objects are finitely many and of one kind each, the main thread is no coroutine, no integer key exceeds
`LUA_MAXINTEGER`, hashes are natural numbers, addresses finitely many, the message `MEMERRMSG` is a short string).
What TLC sees with three scripts, a buffer of three bytes or three objects is proved here for all.

| Module | Theorem | States |
|---|---|---|
| `Dalua_proofs` | `Invariant` | `Spec => []Inv`, the inductive invariant |
| | `TypeCorrect` | `TypeOK` |
| | `AnswersAreOurs` | `StatusAnswersRequest`: the status taken belongs to the request just made |
| | `PromptIsIdle` | `IdleAtPrompt`: at the prompt no request is under way and no status is still to come |
| | `PortIsOpen` | `OpenWhenUsed` |
| | `StackIsBalanced` | `StackBalanced`: the asserts on the Lua stack's height hold |
| `Daluac_proofs` | `Invariant`, `TypeCorrect` | the inductive invariant `IInv`, and `TypeOK` |
| | `TemplateHasOneFunctionPerScript` | `TemplateFits` |
| | `ChainInOrder` | `ScriptsChained` |
| | `NothingLostNorPastTheEnd` | `ArrayHoldsDump` |
| | `OutputIsWhole` | `AllOrNothing` |
| `WinPort_proofs` | `Invariant`, `TypeCorrect` | the inductive invariant `IInv`, and `TypeOK` |
| | `BufferIsWindow` | `WindowOfStream` |
| | `LinesAreWhole` | `WholeLines` |
| | `StatusesAreLines` | `StatusIsALine` |
| `Gc_proofs` | `Invariant`, `TypeCorrect` | `FewFinalizers => (Spec => []IInv)`, the inductive invariant, and `TypeOK` |
| | `NothingInUseIsFreed` | `NoDangling` |
| | `BlackNeverLeadsToWhite` | `TriColour` |
| | `SweepLeavesWhite` | `AllWhite` |
| | `OnlyGarbageIsFinalized` | `FinalizedWhenGarbage` |
| | `WeakTablesAreSafe` | `WeakSafe` |
| `Calls_proofs` | `Invariant`, `TypeCorrect` | `Spec => []IInv`, the inductive invariant, and `TypeOK` |
| | `YieldableIsRight` | `YieldableUnlessBarrier` |
| | `ContinuationsAreKnown` | `ContinuationKnown` |
| | `HandlersAreRestored` | `HandlersRestored` |
| | `UpvaluesAreLive` | `UpvaluesLive` |
| | `CStackIsBounded` | `CStackBounded` |
| `Tables_proofs` | `Invariant` | `Spec => []IInv`, the inductive invariant |
| | `TableWellFormed` | `WellFormed` |
| | `NextAlwaysKnows` | `NextKnowsKey` |
| | `LengthIsAlwaysBorder` | `LengthIsBorder` |
| | `ImplementsMap` | `Implements`: every step is one of `TableMap`, or is not seen |
| `Strings_proofs` | `Invariant` | `Spec => []IInv`, the inductive invariant |
| | `InternedOnce` | `Interned` |
| | `HeldStaysAlive` | `HeldIsAlive` |

### Dalua

**The argument.** None of the last three is inductive: that the next status is the present
chunk's follows only from there being *one* outstanding request, which is a statement about the
queue to the device, the queue from it and what the device executes, at every point of the
session. `OneRequest` says it: while the port is open and not hung up, the request of the call
dalua is in is either all in `tx`, or being executed, or is the only line of `rx` with a status
(`Exchange`); in every other call, and whenever the port is closed or hung up, nothing is anywhere
(`Quiet`). It holds because every way out of an exchange other than its answer either loses the
link, which empties the queues, or ends the session with `LUA_ERRFATAL` (`Over`) before the next
request: that is why the 500 ms of `open`'s ping, which can leave an answer behind, are harmless,
and it is the same line of code as finding 2. `Control` (ranges, `PortOpen`, `DumpCounts`,
`FatalEnds`) is the part about the program's control flow, proved by itself for each action;
`Ready` is the one fact that ties `poll()` to the `read()` behind it. The proof has a lemma per
part and, in each, a step per action.

`Pushed` says for each call what is on the Lua stack: nothing, the lines of a statement still being
typed, a chunk, or the message of a positive status. `StackBalanced` follows from it, and it is
kept because `FatalEnds` says which statuses are positive in `dochunk`.

### Daluac

`_reader` writes the template with one cell as its only state: it counts down from the
number of scripts to 1 for the functions, past 0 for the closing text. `Reading` says that the cell
knows the text written so far, and that nesting and functions agree; `Splicing` that the chunks
left on the stack and the prototypes in the template are together the scripts, in order; `Loading`
that a status other than `LUA_OK` leaves nothing begun; `Dumping` that the array's size is
the sum of the blocks. That `size <= cap` rests on what the doubling loop computes
(`GrownEnough`): it ends, and the capacity is then enough.

### WinPort

Neither of the properties says enough to be kept: a line is whole only because the buffer is
a window of the input, and because what was scanned before a timeout has no newline. `Window`
places every byte of the buffer in the input; `Cuts` places the last two cuts between lines, each behind a
newline or a buffer full of text; `Searched` is about the prefix that `m_size_out` skips when
the scan is resumed; `Returned` about the line just given.

### Gc

**The hypothesis.** All theorems of `Gc_proofs` assume `FewFinalizers`: at most `SweepMax` objects have
a finalizer. Without it `AllWhite` and `NoDangling` are false (finding 4), and this is the only place
of the proofs that uses it: then `finobj` and `tobefnz` are swept in one batch each, so `sweepgc`
is never inside `tobefnz` when `udata2finalize` takes an object from it. `allgc` is
swept in any number of batches, and everything else is proved for any number of objects, any references
and any interleaving of program, collector and finalizers.

**The argument.** That nothing in use is freed is three facts that hold at different times, and
that follow from each other around the cycle:

* `Marked`, while the collector marks: a black object leads to nothing white (`Coloured`), and a gray one is
  either still to be visited (`Pending`) or a weak table of which it is known what is white in it and
  in which list it is kept for clearing (`Settled`). `TriColour` is the part of it
  that lgc.h states; by itself it is not kept, as it does not say why a gray object may be
  forgotten. `Converged` says what the rounds over the ephemeron tables have reached when one marks
  nothing: every table that is left waits for a white key. From these it follows that what is
  strongly accessible is marked when `separatetobefnz` looks for garbage (`AliveIsMarked`:
  `OnlyGarbageIsFinalized`), and `Saved` that what is resurrected there is marked with all it leads to.
* `Closed`, always: what is not about to be freed (neither free nor of the other white) leads to nothing
  that is, not even by the key of an empty entry. `ClearAndFlip` is the step at which it has to be
  derived from `Marked`; from there on the sweep and the program only have to keep it.
* `SweptSoFar`, in the sweep phase: all of `allgc` up to the object `sweepgc` points into is of the
  current white. An object that becomes finalizable in this phase is swept at once, and `sweepgc` moves
  on if it pointed there (`SetFinalizerStep`).

`Listed` (an allocated object is on one list, once) ties the lists to the colours. The proof has a lemma for
each action; those that only write an entry or visit an object share `WriteStep` and `VisitStep`.
`ReachedIs`, `SweptIs` and `ThoseIs` say what `reallymarkobject`, `sweeplist` and the unlinking of objects
compute, for any heap and list. The model's operators are written as recursive functions for their
sake (`Those` in place of the library's `SelectSeq`, which the prover cannot expand).

### Calls

Any number of coroutines, any depth, any limits on C calls (`MaxDepth` is a guard and nothing more).

**Why the properties are not enough.** What a `longjmp` restores is kept in C frames
(`luaD_pcall`, `lua_resume`) or, for a call that can yield, in the `CallInfo` of the
protected function; what a return takes back (`nny`, `nCcalls`) is kept nowhere, it is undone. So
the invariant has to say of every frame of the C stack, not only of the one on top, in which state
its thread was when it was left. That state is not to be seen in the frame: `IInv` asserts that
there is a record `g` of it (`IInv == \E g \in Seq(Past) : Good(th, cstack, g)`), where `g[j]` is the
number of activations, `nny` and `nCcalls` of the thread at the time frame `j` was last on top. The proof
of each action gives the new record: the old one cut off, or extended by what the call has found.

**The invariant.** `Good` consists of

* `Sound`, of every thread: no open upvalue outlives its activation, and a protected call that can yield
  (`Saved`) has kept the handler and the hooks that were in force where it was called;
* `Asleep`, of a thread without a frame: it has yielded in a `yield` or a hook, and all below may be
  passed (`Passable`: each has a continuation or needs none), or it has not begun;
* `FrameAt`, of every frame: which frame may lie on which and what they have in common (`Kind`), that
  `nny` is zero only if no activation below is a barrier and conversely (`Barrier`), that the frames
  that are counted are at most `nCcalls` (`Count`; `luaG_errormsg` is ahead by one), and that
  `lua_resume` lies on a C function of another thread, which waits (`Awake`);
* `Pair`, of any two frames of a thread: levels do not fall, none is below a `lua_resume` of the same
  thread, and nothing above a `luaD_pcall` can yield. This is why `luaD_throw` with `LUA_YIELD` cannot end in a
  `luaD_pcall` (`ThrowYield`), although it looks for the innermost handler whichever it is;
* `Awake`, of the thread on top: handler and hooks are those of its activations.

**The argument.** The first part of `Calls_proofs` has what does not depend on the action: that frames stay good
when threads change above their levels (`FramesSame`), are cut off (`BaseCut`) or pushed
(`BasePush`), and that errors end well wherever they are caught (`ThrowError`, `RunErrorStep`). In
the second part each action uses these; hardest are the return into whichever frame has called
(`ReturnStep`), the return of a Lua function within one `luaV_execute` (`OpReturnLua`), and the
steps by which a coroutine goes on without the C frames it had (`RecoverStep`, `UnrollC`,
`HookResumedStep`).

That `Calls` implements `Coroutines` stays with TLC.

### Tables

Any set of keys, with any hashes, infinite ones included; parts of any size. The model defines the
walks, searches and loops of `ltable.c` as recursive functions for the sake of the proof.

**Why the properties are not enough.** That `luaH_get` finds what was stored depends on where every
other key lies: Brent's variation moves a node out of a main position because it is known which chain
it belongs to. And `LengthIsBorder` rests on the contents being a map at all.

**The invariant.** `IInv` is `Good(t)`, of the table, and `Going(t, trav)`, of the traversal. `Good` has the
conjuncts of `WellFormed` (`Shape`, `OwnValues`, `FreeNodes`) and

* `LinksOK` and `Acyclic`: at most one link leads to a node, and there is a rank that every link
  raises, so a walk ends at the latest after as many steps as there are nodes (`WalkTo`);
* `Found`: a live key is reached from its main position, and before any other node with the same key.
  So a dead key may stay in a chain when the key is entered again: the new node comes in front of it,
  and `next`, which takes dead keys as well, finds the live one;
* `Home`: if a live key is not in its main position, the node there is in *its* main position. Hence
  the chain of a displaced key does not begin in the node that is taken from it, `Previous` ends at the
  node before that one, and what follows a moved node is still found;
* `Apart`: no key of the array part is in the hash part.

`Going` says that the last key returned is still at its place, dead or not (`KnownAt`), and that the entries
at places up to it are the visited ones (`Ordered`). An assignment during a traversal keeps
places (`SameKeys`), as it finds its key there.

**The argument.** `StoreStep`, `LinkAfterStep` and `MoveStep` are the three ways in which `luaH_newkey` enters a
key: main position free; taken by a key at home; taken by a displaced key. That a rehash loses nothing (`Reinsert` drops
a key that finds no place) is arithmetic: `SizesAre` says that the `na` of `computesizes` is the number of keys that
will fit into the array part, `RehashStep` that the rest and the new key are at most as many as the nodes
allocated, and `Room` that a table of which each node in use holds a value then has a free one for the next
(`FillStep`, `ReinsertAllIs`). `luaH_resize` undoes the growth of the array when the allocation fails
(`ResizeFails`). The border is found by `BinaryIs` (the interval shrinks, and keeps a border)
and `UnboundIs` (no key lies above `LUA_MAXINTEGER`, so counting ends). `MapStep` maps each step:
assignments to `Assign`, also those whose rehash fails, `next` to `Visit` or `End`, `OP_SETLIST` and the
collector to no step at all.

### Strings

Any contents, any hash, any addresses; any first size, limit and cache line. The alternatives of an
allocation (no emergency, one before the table grows, one before the string is made, no memory) are all covered.

**Why the properties are not enough.** A look-up takes a string out of a chain that may be dead, so
`Interned` is only kept if dead strings stay in their chains until they are swept, and `HeldIsAlive` only if
nothing that is held is left dead when the colours change their meaning. Freeing a string removes it from
the chain of its hash, which is right only if it is there, and in no other place.

**The invariant.** `IInv` is `Good(g, stack)`:

* `Coloured`: the message of `luaS_init` is fixed and nothing else is; free means without contents;
* `Swept`: whatever is of the old white is on the list still to be swept, and while the
  collector marks, nothing is. So the end of a sweep leaves nothing dead for the next `atomic` to
  mistake for the new white;
* `Unique` and `Placed`: equal short strings are the same; a chain has exactly the short strings whose
  hash leads there, each once; and `nuse` counts them;
* `Alive`, of the stack and of the cache.

**The argument.** `FlatIs` and `ChainedIs` say what `luaS_resize` computes for any table and new
size: every string once, in its new chain (`ResizedPlaced`). `RemovedPlaced` and `EnteredPlaced` are the two other ways
in which chains change. `SweepStep` frees or whitens one string, `SweepAllStep` is the loop of it, and `AtomicStep` needs
that the cache is cleared of what is still white before the colours change. With these
`FullgcStep` shows that an emergency collection leaves a good state in which texts were removed and the table has kept
its size (`Fewer`): what was not found before it is still not there (`AbsentFewer`), and the chain
looked up before it is still the right one (`CreateStep`). `InternStep` combines them with the growth of the
table, after which the chain is looked up again, and `NewStep` with the cache.

### Induction

The library's induction theorems take an operator, which none of the provers can instantiate.
`Induction` states the same with sets (a property is the set of the numbers that
have it) and functions (`Iterates(S, a, h)`: the functions defined by a value and a step), and
derives it from the well-foundedness of `<`. With it `Daluac_proofs` proves
the doubling loop and the sum of a growing sequence, `Gc_proofs` what is reached and accessible,
`Tables_proofs` the walks, the rehash and the searches, and `Strings_proofs` the chains of a new table and the sweep.

### Only model-checked

That `Calls` implements `Coroutines`, and everything about the modules without proofs; all liveness (`LostLinkNoticed`, `AnswerTaken`,
`StatusDelivered`, `GarbageCollected`: fairness and ENABLED are outside what the prover does);
and the modules with recursive operators (the compiler, the libraries), of which the prover takes
none. The `TypeOK` of a module is proved with its inductive invariant, and no run repeats it.

## 6. Findings

1. **daluac aborts on an error in a later script** (`dacomp.c:119-156`). `compile_files` stops at
   the first script that does not load and pops its message; the chunks of the scripts before it
   stay on the stack, and the sanity check `assert( lua_gettop(L) == 0 )` fails.
2. **A lost port is not always tried again** (`serial_linux.cpp:147-156` against `readme.md:58`).
   When the link is lost again between `::open` and the answer to the ping, `open()` returns
   `LUA_ERRFATAL` and the REPL ends although `-n` was not given.
3. **receive_status may wait far beyond its timeout** (`serial_common.cpp:15-20` against
   `serial_common.hpp:23`). Each line costs the *whole* milliseconds since the last one; the
   remainder is dropped, so lines that come closer together than a millisecond cost nothing.
4. **Black objects at the end of a sweep** (`lgc.c:791` against `lgc.h:57-58`). Finalizers run
   between two sweep steps, and `udata2finalize` moves the head of `tobefnz` to `allgc` even when
   `sweepgc` points into it (`luaC_checkfinalizer` takes care of exactly this, `lgc.c:910`). The
   sweep then continues in `allgc`, and the rest of `tobefnz` is never swept. It takes more
   than `GCSWEEPMAX` (85) objects waiting for finalizers, which `runafewfinalizers`
   catches up with by doubling its count. Such black objects break the invariant in the next
   cycle: with a userdata and a closure beside the table, `NoDangling` fails as
   well. The passing run `gc` has one object with a finalizer and batches of two, so a batch is
   never smaller than `tobefnz` and this cannot happen there; what it shows of the collector is
   to be read with this restriction.

**Remarks**, met while modelling, that no run shows as a violation because the model follows the code:

* A 64-bit host refuses its own `string.dump`: `ldump.c` (77-87, 194) writes the size of an
  `unsigned`, as the keyboard has it, and `lundump.c` (93, 251) expects the host's `size_t`
  (`testes/calls.lua:257` loads such a dump). `BytesRight` is therefore about two loaders: where
  `size_t` is as wide as `unsigned` the round trip holds, where it is wider every dump is refused for its size.
* A numeric `for` wraps as the manual's does (`lvm.c:1193`): if its limit is within a step of the end of
  the integers, it goes on at the other end (from `math.maxinteger` to `math.maxinteger` without end).
* A numeric `for` with step 0 goes on while the limit is *below* the variable (`lvm.c:1195` tests
  `0 < step`), where `manual.of:1331` has it go on while it is above (`step >= 0`); if the limit is
  below all integers, or NaN, the variable is even 0 whatever the start (`lvm.c:1223`). A NaN
  limit lets a loop with integer start and negative step run to the last integer and any other
  stop at once, where the manual's never stops. A float loop rounds an integer limit to a float
  first. `LoopedRight` holds the loops to the manual elsewhere and says of these what they do.
* `#` after a part of a byte order mark skips the first line of a file (`lauxlib.c`, `skipcomment`).
* A `luaL_Buffer` refuses to grow once doubling would wrap, at half of the address space.
* On dalua's command line an option affects the jobs to its right only, a wrong option is
  reported after the jobs to its left have run, and the device must be the first word.
* `fletcher32.c` reduces after 359 words; 360 would be safe as well.
* On Windows a device whose port name cannot be read counts as no match if it is listed before
  the one that has a port, and as a second match behind it (`serial_win.cpp:93-97`, where
  `serial_win.cpp:61-64` says "unique"); on Linux a device that is unplugged between `readdir` and
  `realpath` fails an assertion (`serial_linux.cpp:53`). The model does both; `FoundRight` claims that
  the only device is found for lists in which each device of that name leads somewhere.
* If a string is joined to a value whose `__concat` is not callable, the message names what an
  earlier use left in the register (`luaV_concat` sets `L->top` inside the frame, and `varinfo`
  looks at the register the operand was copied to); likewise if an inner `..` of several gave the
  operand, which `findsetreg` does not see. The programs of `ProgramsRight` avoid both.

## 7. Not modelled, and the plan

`PROJECT.json` gives the reason for each component that is left out or modelled in part.

* **Not modelled**: `lua.c` and `ltests.c` (not part of dalua), `lbitlib.c` (empty in this
  build: `makefile:110` overrides the `CFLAGS` that carry `LUA_COMPAT_5_2` from line 52), `liolib.c`, `loslib.c`, `loadlib.c`, `linit.c` (calls to C and
  the operating system), `lmem.c`, and of `ldebug.c` all but the names in messages.
* **In part**: upvalues in the collector, error messages but for the names in them, line information, `lua_sethook` and stack
  reallocation (`Stack` has its size only), coercions between strings and numbers in
  arithmetic, `string.format` but for `%q`, floats in `string.pack`, termios.
* A hazard without a property has a note in `PROJECT.json`.

**Next**: proofs. Of `Calls`, that it implements `Coroutines`. The sweep of `Gc` without
`FewFinalizers` could be proved for `allgc` and `finobj` only. An abstract session ("one
request at a time; a lost link loses it") is worth stating with `Dalua` as its implementation.
