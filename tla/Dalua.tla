------------------------------- MODULE Dalua --------------------------------
(***************************************************************************)
(* dalua on Linux: the jobs of the command line (-e, -f), then the REPL    *)
(* (dalua.cpp, darepl.cpp), over the serial port (serial_linux.cpp,        *)
(* serial_common.cpp).  The link of SerialLink moves between any two steps *)
(* of the program.                                                         *)
(***************************************************************************)
EXTENDS SerialLink

CONSTANTS
  MaxJobs,    \* bound: -e and -f options on the command line
  MaxChunks,  \* bound: chunks sent in a session
  MaxBlocks   \* bound: blocks lua_dump writes for a chunk

ASSUME DaluaAssumption ==
  MaxJobs \in Nat /\ MaxChunks \in Nat /\ MaxBlocks \in Nat \ {0}

VARIABLES
  pc,      \* the call dalua is in
  todo,    \* jobs of the command line not yet done
  opt,     \* the other options: interactive, NO_RECONNECT, is DEVICE_PATH known
  fd,      \* m_fd # -1
  status,  \* the status_t being passed around
  again,   \* receive_status: a line was read, time may have passed
  stk,     \* the Lua stack
  typed,   \* rl_end # 0
  more,    \* push_line's prompt is LUA_PROMPT2
  chunk,   \* the chunk last dumped
  left,    \* blocks lua_dump has still to write
  linked   \* history: has open() ever succeeded?

host == <<pc, todo, opt, fd, status, again, stk, typed, more, chunk, left, linked>>
vars == <<link, host>>

console == <<typed, more>>
dump    == <<chunk, left>>

Init ==
  /\ LinkInit
  /\ todo \in 0..MaxJobs
  /\ opt \in [interactive : BOOLEAN, NO_RECONNECT : BOOLEAN, DEVICE_PATH : BOOLEAN]
  /\ pc = "parse" /\ fd = FALSE /\ status = LUA_OK /\ again = FALSE /\ stk = <<>>
  /\ typed = FALSE /\ more = FALSE /\ chunk = 0 /\ left = 0 /\ linked = FALSE

\* Does this call of do_string, do_file or do_repl belong to a job?
Job == todo > 0

-----------------------------------------------------------------------------
(* main *)

\* The next -e or -f, then "-" (or no job at all) for the REPL.
Parse ==
  /\ pc = "parse"
  /\ pc' = IF Job \/ opt.interactive THEN "open" ELSE "exit"
  /\ fd' = (fd /\ pc' # "exit")
  /\ UNCHANGED <<link, todo, opt, status, again, stk, console, dump, linked>>

\* do_chunk has returned.  A job that failed ends the program; the REPL ends on
\* LUA_ERRFATAL alone.  The destructor of the serial port closes it at exit.
Returned ==
  /\ pc = "done"
  /\ pc' = IF Job /\ status = LUA_OK THEN "parse"
            ELSE IF ~Job /\ status # LUA_ERRFATAL THEN "open" ELSE "exit"
  /\ todo' = IF pc' = "parse" THEN todo - 1 ELSE todo
  /\ fd' = (fd /\ pc' # "exit")
  /\ UNCHANGED <<link, opt, status, again, stk, console, dump, linked>>

-----------------------------------------------------------------------------
(* serial::open *)

\* Where do_string, do_file and do_repl go on: compile, read a line, or report.
Opened == IF Job THEN "load" ELSE "prompt"

OpenIsOpen ==
  /\ pc = "open" /\ fd
  /\ pc' = Opened /\ status' = LUA_OK /\ more' = FALSE /\ typed' = FALSE
  /\ UNCHANGED <<link, todo, opt, fd, again, stk, dump, linked>>

\* No device was found, or the node is not there and we must not wait for it.  (Otherwise
\* open() sleeps and tries again, which is no step here.)
OpenFails ==
  /\ pc = "open" /\ ~fd
  /\ ~opt.DEVICE_PATH \/ (~plugged /\ opt.NO_RECONNECT)
  /\ pc' = "dochunk" /\ status' = LUA_ERRFATAL
  /\ UNCHANGED <<link, todo, opt, fd, again, stk, console, dump, linked>>

\* ::open, flock, tcgetattr and tcsetattr.  The port may be locked by another process.
OpenPort ==
  /\ pc = "open" /\ ~fd /\ opt.DEVICE_PATH /\ plugged
  /\ \/ pc' = "ping" /\ fd' = TRUE /\ hup' = FALSE /\ UNCHANGED status
     \/ pc' = "dochunk" /\ status' = LUA_ERRFATAL /\ UNCHANGED <<fd, hup>>
  /\ UNCHANGED <<plugged, rx, tx, dev, run, todo, opt, again, stk, console, dump, linked>>

\* "no Lua running": restore the port, close it, give up.
GiveUp ==
  /\ pc' = "dochunk" /\ status' = LUA_ERRFATAL /\ fd' = FALSE

SendPing ==
  /\ pc = "ping"
  /\ IF hup
       THEN GiveUp /\ UNCHANGED <<tx, again>>
       ELSE /\ tx' = Append(tx, Ping)
            /\ pc' = "pong" /\ again' = FALSE /\ UNCHANGED <<status, fd>>
  /\ UNCHANGED <<plugged, hup, rx, dev, run, todo, opt, stk, console, dump, linked>>

-----------------------------------------------------------------------------
(* serial_common::receive_status, called by open and by do_chunk *)

\* Is the line a ping with a status in it?  (Mutant: any line is taken for one.)
AnyLine(line) == TRUE
HasStatus(line) == line.st # LUA_NOSTATUS

\* Has the timeout run out?  It may have while nothing came in, or once lines took time.
\* (Mutant: every call has one.)
ExpiresAlways(timeout_ms) == rx = <<>> \/ again
Expires(timeout_ms) == timeout_ms > 0 /\ (rx = <<>> \/ again)

\* The three ways a call goes on: it ends without a status, with one, or prints a line.
\* (Mutant: it does not break on an error of read_line.)
NoAnswerReadsOn(timeout_ms) == Expires(timeout_ms)
NoAnswer(timeout_ms) == hup \/ Expires(timeout_ms)
Answer == ~hup /\ rx # <<>> /\ HasStatus(Head(rx))
Skip   == ~hup /\ rx # <<>> /\ ~HasStatus(Head(rx))

SkipText ==
  /\ pc \in {"pong", "wait"} /\ Skip
  /\ rx' = Tail(rx) /\ again' = TRUE
  /\ UNCHANGED <<plugged, hup, tx, dev, run, pc, todo, opt, fd, status, stk, console, dump, linked>>

\* The answer to the ping: connected, try again shortly, or not our device.
TakePong ==
  /\ pc = "pong" /\ Answer
  /\ rx' = Tail(rx) /\ more' = FALSE /\ typed' = FALSE
  /\ IF Head(rx).st = LUA_OK
       THEN pc' = Opened /\ status' = LUA_OK /\ linked' = TRUE /\ UNCHANGED fd
       ELSE /\ IF Head(rx).st = LUA_YIELD THEN pc' = "ping" /\ UNCHANGED <<status, fd>> ELSE GiveUp
            /\ UNCHANGED linked
  /\ UNCHANGED <<plugged, hup, tx, dev, run, todo, opt, again, stk, dump>>

NoPong ==
  /\ pc = "pong" /\ NoAnswer(500)
  /\ GiveUp
  /\ UNCHANGED <<link, todo, opt, again, stk, console, dump, linked>>

-----------------------------------------------------------------------------
(* push_line: the prompt, with poll() on the port and the console *)

\* push_line ends without a line.  Its caller drops the lines collected before.
NoLine(s) == pc' = "dochunk" /\ status' = s /\ stk' = <<>>

\* poll() reports a hangup before anything else.  (Mutant: POLLERR is not looked at.)
PollIgnored == FALSE
PollError == pc = "prompt" /\ hup

ConnectionLost ==
  /\ PollError
  /\ NoLine(LUA_ERRIO) /\ fd' = FALSE
  /\ UNCHANGED <<link, todo, opt, again, console, dump, linked>>

\* poll() reports a line; it is displayed while nothing is being typed.
PollInput ==
  /\ pc = "prompt" /\ ~PollError /\ (rx # <<>> \/ hup) /\ ~typed
  /\ pc' = "print"
  /\ UNCHANGED <<link, todo, opt, fd, status, again, stk, console, dump, linked>>

\* print_line reads it, unless the tty has been hung up meanwhile: then read() returns 0, which
\* read_line does not take for an error, or fails, and read_line closes the port.
PrintLine ==
  /\ pc = "print"
  /\ IF hup
       THEN NoLine(LUA_ERRIO) /\ fd' \in {fd, FALSE} /\ UNCHANGED rx
       ELSE /\ rx' = Tail(rx)
            /\ pc' = "prompt" /\ UNCHANGED <<status, stk, fd>>
  /\ UNCHANGED <<plugged, hup, tx, dev, run, todo, opt, again, console, dump, linked>>

\* Otherwise Readline gets one character of the user's.
KeyRead == pc = "prompt" /\ ~PollError /\ (rx = <<>> \/ typed)

\* The line in the editor grows or shrinks; Enter on a blank one leaves it blank.
Edit ==
  /\ KeyRead
  /\ typed' \in BOOLEAN
  /\ UNCHANGED <<link, pc, todo, opt, fd, status, again, stk, more, dump, linked>>

Enter ==
  /\ KeyRead /\ typed /\ chunk < MaxChunks
  /\ pc' = "compile" /\ typed' = FALSE /\ stk' = Append(stk, "line")
  /\ UNCHANGED <<link, todo, opt, fd, status, again, more, dump, linked>>

\* ^D on an empty line.
EndOfFile ==
  /\ KeyRead /\ ~typed
  /\ NoLine(LUA_ERRFATAL)
  /\ UNCHANGED <<link, todo, opt, fd, again, console, dump, linked>>

-----------------------------------------------------------------------------
(* Compiling, here and now; nothing is sent. *)

\* What luaL_loadbuffer and luaL_loadfile push, and the status that goes with it.
Loads == {[status |-> LUA_OK, top |-> "chunk"]} \cup
         [status : {LUA_ERRSYNTAX, LUA_ERRMEM}, top : {"error"}]

\* do_string and do_file: an inline line is tried as an expression, then as statements.
Load ==
  /\ pc = "load" /\ chunk < MaxChunks
  /\ \E r \in Loads : status' = r.status /\ stk' = <<r.top>>
  /\ pc' = "dochunk"
  /\ UNCHANGED <<link, todo, opt, fd, again, console, dump, linked>>

\* incomplete() pops the message of a statement that wants more lines.  (Mutant: it stays.)
MessageKept(stack) == stack
MessagePopped(stack) == SubSeq(stack, 1, Len(stack) - 1)

\* compile_expression for the first line; compile_more_lines for the rest, whose lua_concat
\* joins the two lines on top.  do_repl removes the line from under the chunk or the message.
Compile ==
  LET lines == IF more THEN SubSeq(stk, 1, Len(stk) - 1) ELSE stk IN
  /\ pc = "compile"
  /\ \/ /\ \E r \in Loads : status' = r.status /\ stk' = Tail(Append(lines, r.top))
        /\ pc' = "dochunk" /\ UNCHANGED more
     \/ /\ stk' = MessagePopped(Append(lines, "error"))
        /\ pc' = "prompt" /\ more' = TRUE /\ UNCHANGED status
  /\ UNCHANGED <<link, todo, opt, fd, again, typed, dump, linked>>

-----------------------------------------------------------------------------
(* do_chunk *)

\* lua_dump begins, or there is nothing to run: a positive status has a message to pop.
DoChunk ==
  /\ pc = "dochunk"
  /\ IF status = LUA_OK
       THEN /\ pc' = "dump" /\ chunk' = chunk + 1 /\ left' \in 1..MaxBlocks
            /\ UNCHANGED stk
       ELSE /\ pc' = "done" /\ stk' = IF status > LUA_OK THEN Tail(stk) ELSE stk
            /\ UNCHANGED dump
  /\ UNCHANGED <<link, todo, opt, fd, status, again, console, linked>>

\* The writer: one write() per block.  The chunk is popped after the last.
DumpBlock ==
  /\ pc = "dump" /\ ~hup
  /\ left' = left - 1
  /\ IF left = 1
       THEN /\ tx' = Append(tx, Block(chunk, TRUE))
            /\ pc' = "wait" /\ stk' = Tail(stk) /\ again' = FALSE
       ELSE tx' = Append(tx, Block(chunk, FALSE)) /\ UNCHANGED <<pc, stk, again>>
  /\ UNCHANGED <<plugged, hup, rx, dev, run, todo, opt, fd, status, console, chunk, linked>>

\* Mutant: the failure of the writer is not looked at.
DumpThenWait ==
  /\ pc = "dump" /\ hup
  /\ pc' = "wait" /\ fd' = FALSE /\ stk' = Tail(stk)
  /\ UNCHANGED <<link, todo, opt, status, again, console, dump, linked>>

DumpFails ==
  /\ pc = "dump" /\ hup
  /\ pc' = "done" /\ status' = LUA_ERRIO /\ fd' = FALSE /\ stk' = Tail(stk)
  /\ UNCHANGED <<link, todo, opt, again, console, dump, linked>>

\* (A read_line that fails while receive_status waits, here or in open, closes the port as its caller
\* does for no answer.)  receive_status(true, -1) returns the chunk's status or, "no response", LUA_ERRIO.
Answered ==
  /\ pc = "wait" /\ Answer
  /\ rx' = Tail(rx)
  /\ pc' = "done" /\ status' = Head(rx).st /\ fd' = (Head(rx).st >= LUA_OK)
  /\ UNCHANGED <<plugged, hup, tx, dev, run, todo, opt, again, stk, console, dump, linked>>

NoResponse ==
  /\ pc = "wait" /\ NoAnswer(-1)
  /\ pc' = "done" /\ status' = LUA_ERRIO /\ fd' = FALSE
  /\ UNCHANGED <<link, todo, opt, again, stk, console, dump, linked>>

-----------------------------------------------------------------------------

Console == Edit \/ Enter \/ EndOfFile

Program ==
  \/ Parse \/ Returned
  \/ OpenIsOpen \/ OpenFails \/ OpenPort \/ SendPing
  \/ SkipText \/ TakePong \/ NoPong
  \/ ConnectionLost \/ PollInput \/ PrintLine
  \/ Load \/ Compile
  \/ DoChunk \/ DumpBlock \/ DumpFails \/ Answered \/ NoResponse

Next ==
  \/ LinkNext /\ UNCHANGED host
  \/ Program
  \/ Console

\* The program is one thread that the system keeps running; nothing is assumed of the
\* user, of the cable or of the device.
Spec == Init /\ [][Next]_vars /\ WF_vars(Program)

-----------------------------------------------------------------------------
(* Properties *)

Line == [st : {LUA_NOSTATUS, LUA_OK, LUA_YIELD}, of : {0}] \cup
        [st : {LUA_OK, LUA_ERRRUN}, of : 1..MaxChunks]
Message == [of : 0..MaxChunks, last : BOOLEAN]

TypeOK ==
  /\ plugged \in BOOLEAN /\ hup \in BOOLEAN /\ dev \in {"boot", "dfu", "repl"}
  /\ rx \in Seq(Line) /\ tx \in Seq(Message)
  /\ run \in 0..MaxChunks
  /\ pc \in {"parse", "open", "ping", "pong", "load", "prompt", "print", "compile",
             "dochunk", "dump", "wait", "done", "exit"}
  /\ todo \in 0..MaxJobs
  /\ opt \in [interactive : BOOLEAN, NO_RECONNECT : BOOLEAN, DEVICE_PATH : BOOLEAN]
  /\ fd \in BOOLEAN /\ again \in BOOLEAN /\ typed \in BOOLEAN /\ more \in BOOLEAN
  /\ linked \in BOOLEAN
  /\ status \in {LUA_OK, LUA_ERRRUN, LUA_ERRSYNTAX, LUA_ERRMEM, LUA_ERRIO, LUA_ERRFATAL}
  /\ chunk \in 0..MaxChunks /\ left \in 0..MaxBlocks

\* The status do_chunk is about to take belongs to the chunk it has just sent, never to an
\* earlier one, and the status open() takes for the answer to its ping belongs to a ping:
\* a status left over from an earlier exchange would shift every answer after it by one.
StatusAnswersRequest ==
  /\ pc = "wait" /\ Answer => Head(rx).of = chunk
  /\ pc = "pong" /\ Answer => Head(rx).of = 0

\* The prompt is shown only when the device is idle: no chunk of ours is under way to it or
\* being executed, and no status is still to come that would be printed as text.
IdleAtPrompt ==
  pc \in {"prompt", "compile"} /\ fd /\ ~hup =>
    run = 0 /\ tx = <<>> /\ \A j \in 1..Len(rx) : ~HasStatus(rx[j])

\* Every read, write and poll of the port happens on an open one, although close() is called
\* from the writer, read_line, push_line and do_chunk (m_fd would be -1: poll() would ignore
\* it and the prompt would never hear of the device again).
OpenWhenUsed == pc \in {"ping", "pong", "prompt", "print", "compile", "dump", "wait"} => fd

\* Every way through the compile calls and do_chunk leaves the Lua stack empty (the assert at
\* the end of do_chunk, and the one before push_line).
StackBalanced ==
  /\ pc \in {"parse", "open", "done", "exit"} => stk = <<>>
  /\ pc = "dochunk" => stk = IF status = LUA_OK THEN <<"chunk">>
                             ELSE IF status > LUA_OK THEN <<"error">> ELSE <<>>

\* A lost link is noticed, whatever the user and the device do: the port is closed, so that
\* it can be opened again.
LostLinkNoticed == fd /\ hup ~> ~fd

\* dalua does not wait for ever for a chunk whose status has arrived, however much other
\* output comes with it.
AnswerTaken ==
  pc = "wait" /\ run = 0 /\ tx = <<>> ~> pc # "wait"

\* readme.md, on -n: without it, dalua is "continuing to try the disconnected port".  So once
\* it has been connected, losing the port is never the end of the REPL; only ^D is.
KeepsTrying ==
  [][ linked /\ ~Job /\ ~opt.NO_RECONNECT /\ fd /\ hup /\ pc # "prompt"
        => (status' = LUA_ERRFATAL => status = LUA_ERRFATAL) ]_vars
=============================================================================
