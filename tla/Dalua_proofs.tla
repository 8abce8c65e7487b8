---------------------------- MODULE Dalua_proofs ----------------------------
(***************************************************************************)
(* Theorems about Dalua, for any number of jobs, chunks, blocks and lines. *)
(*                                                                         *)
(* Control is inductive by itself: the types, and what is known in each    *)
(* call of the program about the port, the status and the counters.        *)
(* OneRequest then says where the one outstanding request is, and Pushed   *)
(* what the calls have left on the Lua stack.                              *)
(***************************************************************************)
EXTENDS Dalua, SequenceTheorems, TLAPS

\* TypeOK in three parts: the Boolean variables, the link's and the program's.
Flags ==
  /\ plugged \in BOOLEAN /\ hup \in BOOLEAN /\ fd \in BOOLEAN /\ again \in BOOLEAN
  /\ typed \in BOOLEAN /\ more \in BOOLEAN /\ linked \in BOOLEAN
  /\ opt \in [interactive : BOOLEAN, NO_RECONNECT : BOOLEAN, DEVICE_PATH : BOOLEAN]

LinkData ==
  /\ dev \in {"boot", "dfu", "repl"}
  /\ rx \in Seq(Line) /\ tx \in Seq(Message)
  /\ run \in 0..MaxChunks

\* print_line finds the line that poll() reported, unless the link is lost.
Ready == pc = "print" /\ ~hup => rx # <<>>

HostData ==
  /\ pc \in {"parse", "open", "ping", "pong", "load", "prompt", "print", "compile",
             "dochunk", "dump", "wait", "done", "exit"}
  /\ todo \in 0..MaxJobs
  /\ status \in {LUA_OK, LUA_ERRRUN, LUA_ERRSYNTAX, LUA_ERRMEM, LUA_ERRIO, LUA_ERRFATAL}
  /\ chunk \in 0..MaxChunks /\ left \in 0..MaxBlocks

\* The port is open from the moment open() succeeds to the end of do_chunk.
PortOpen ==
  /\ OpenWhenUsed
  /\ pc = "load" => fd
  /\ pc = "dochunk" /\ status = LUA_OK => fd

\* Where the counters of a dump stand.
DumpCounts ==
  /\ pc = "compile" => chunk < MaxChunks
  /\ pc = "dochunk" /\ status = LUA_OK => chunk < MaxChunks
  /\ pc = "dump" => left > 0
  /\ pc \in {"dump", "wait"} => chunk > 0

\* A fatal status is on its way out of the program.
FatalEnds == status = LUA_ERRFATAL => pc \in {"dochunk", "done", "exit"}

Control == HostData /\ PortOpen /\ DumpCounts /\ FatalEnds

-----------------------------------------------------------------------------
(* The one outstanding request. *)

NoStatus(q) == \A j \in 1..Len(q) : q[j].st = LUA_NOSTATUS

\* Exactly one line of the queue has a status, that of request k.
OneStatus(q, k) ==
  \E j \in 1..Len(q) : /\ q[j].st # LUA_NOSTATUS /\ q[j].of = k
                       /\ \A i \in 1..Len(q) : i # j => q[i].st = LUA_NOSTATUS

Quiet == run = 0 /\ tx = <<>> /\ NoStatus(rx)

\* Request k has arrived at the device or has been answered.
Handled(k) == /\ tx = <<>>
              /\ \/ run = 0 /\ OneStatus(rx, k)
                 \/ k > 0 /\ run = k /\ NoStatus(rx)

\* All the messages to the device are blocks of the chunk; only the end of the last one
\* completes it.
Blocks(complete) ==
  \A j \in 1..Len(tx) : tx[j].of = chunk /\ (tx[j].last <=> (complete /\ j = Len(tx)))

Exchange ==
  /\ pc = "pong" => Handled(0) \/ (run = 0 /\ NoStatus(rx) /\ Len(tx) = 1 /\ tx[1] = Ping)
  /\ pc = "dump" => run = 0 /\ NoStatus(rx) /\ Blocks(FALSE)
  /\ pc = "wait" => Handled(chunk) \/ (run = 0 /\ NoStatus(rx) /\ tx # <<>> /\ Blocks(TRUE))
  /\ pc \notin {"pong", "dump", "wait"} => Quiet

\* Once the session is over, nobody reads the answers that are still to come.
Over == pc = "exit" \/ status = LUA_ERRFATAL

OneRequest == ~Over => IF fd /\ ~hup THEN Exchange ELSE Quiet

Inv == Flags /\ LinkData /\ Ready /\ Control /\ OneRequest

\* What the calls have pushed: the lines collected while a statement is being typed, then
\* the chunk, or the message of a positive status.
Pushed ==
  /\ pc \in {"parse", "open", "ping", "pong", "load", "wait", "done", "exit"} => stk = <<>>
  /\ pc \in {"prompt", "print"} => stk = IF more THEN <<"line">> ELSE <<>>
  /\ pc = "compile" => stk = IF more THEN <<"line", "line">> ELSE <<"line">>
  /\ pc = "dochunk" => stk = IF status = LUA_OK THEN <<"chunk">>
                             ELSE IF status > LUA_OK THEN <<"error">> ELSE <<>>
  /\ pc = "dump" => stk = <<"chunk">>

-----------------------------------------------------------------------------
(* Sequences *)

LEMMA TailOf ==
  ASSUME NEW S, NEW s \in Seq(S), s # <<>>
  PROVE  /\ Head(s) \in S /\ Head(s) = s[1]
         /\ Tail(s) \in Seq(S) /\ Len(s) > 0 /\ Len(Tail(s)) = Len(s) - 1
         /\ \A j \in 1..Len(Tail(s)) : Tail(s)[j] = s[j + 1]
  OBVIOUS

LEMMA AppendTo ==
  ASSUME NEW S, NEW s \in Seq(S), NEW e \in S
  PROVE  /\ Append(s, e) \in Seq(S) /\ Len(Append(s, e)) = Len(s) + 1
         /\ \A j \in 1..Len(s) : Append(s, e)[j] = s[j]
         /\ Append(s, e)[Len(s) + 1] = e
  OBVIOUS

\* LUA_NOSTATUS is no status that a device or a call of dalua's returns.
LEMMA NoStatusIsNone == LUA_NOSTATUS < -3
  BY SMT DEF LUA_NOSTATUS

USE DEF LUA_OK, LUA_YIELD, LUA_ERRRUN, LUA_ERRSYNTAX, LUA_ERRMEM, LUA_ERRIO, LUA_ERRFATAL

-----------------------------------------------------------------------------
(* Types and control *)

LEMMA FlagsInit == Init => Flags
  BY DEF Init, LinkInit, Flags

LEMMA FlagsStep == Flags /\ [Next]_vars => Flags'
<1> SUFFICES ASSUME Flags, [Next]_vars PROVE Flags'
  OBVIOUS
<1> USE DEF Flags
<1>1. CASE LinkNext /\ UNCHANGED host
  BY <1>1 DEF LinkNext, host, console, dump, Unplug, Replug, Boot, Pong, Receive, Output, Finish
<1>2. CASE Parse
  BY <1>2 DEF Parse, Job, link, console, dump
<1>3. CASE Returned
  BY <1>3 DEF Returned, Job, link, console, dump
<1>4. CASE OpenIsOpen
  BY <1>4 DEF OpenIsOpen, Opened, Job, link, console, dump
<1>5. CASE OpenFails
  BY <1>5 DEF OpenFails, link, console, dump
<1>6. CASE OpenPort
  BY <1>6 DEF OpenPort, link, console, dump
<1>7. CASE SendPing
  BY <1>7 DEF SendPing, GiveUp, link, console, dump
<1>8. CASE SkipText
  BY <1>8 DEF SkipText, link, console, dump
<1>9. CASE TakePong
  BY <1>9 DEF TakePong, Opened, GiveUp, Job, link, console, dump
<1>10. CASE NoPong
  BY <1>10 DEF NoPong, GiveUp, link, console, dump
<1>11. CASE ConnectionLost
  BY <1>11 DEF ConnectionLost, NoLine, link, console, dump
<1>12. CASE PollInput
  BY <1>12 DEF PollInput, link, console, dump
<1>13. CASE PrintLine
  BY <1>13 DEF PrintLine, NoLine, link, console, dump
<1>14. CASE Load
  BY <1>14 DEF Load, Loads, link, console, dump
<1>15. CASE Compile
  BY <1>15 DEF Compile, Loads, link, console, dump
<1>16. CASE DoChunk
  BY <1>16 DEF DoChunk, link, console, dump
<1>17. CASE DumpBlock
  BY <1>17 DEF DumpBlock, link, console, dump
<1>18. CASE DumpFails
  BY <1>18 DEF DumpFails, link, console, dump
<1>19. CASE Answered
  BY <1>19 DEF Answered, link, console, dump
<1>20. CASE NoResponse
  BY <1>20 DEF NoResponse, link, console, dump
<1>21. CASE Edit
  BY <1>21 DEF Edit, KeyRead, link, console, dump
<1>22. CASE Enter
  BY <1>22 DEF Enter, KeyRead, link, console, dump
<1>23. CASE EndOfFile
  BY <1>23 DEF EndOfFile, KeyRead, NoLine, link, console, dump
<1>24. CASE UNCHANGED vars
  BY <1>24 DEF vars, link, host, console, dump
<1> QED
  BY <1>1, <1>2, <1>3, <1>4, <1>5, <1>6, <1>7, <1>8, <1>9, <1>10, <1>11, <1>12, <1>13, <1>14, <1>15, <1>16, <1>17, <1>18, <1>19, <1>20, <1>21, <1>22, <1>23, <1>24 DEF Next, Program, Console

LEMMA ControlInit == Init => LinkData /\ Control
  BY DaluaAssumption DEF Init, LinkInit, LinkData, Control, HostData, PortOpen, OpenWhenUsed,
     DumpCounts, FatalEnds

LEMMA LinkStep == LinkData /\ Ready /\ Control /\ [Next]_vars => LinkData'
<1> SUFFICES ASSUME LinkData, Ready, Control, [Next]_vars PROVE LinkData'
  OBVIOUS
<1> USE DaluaAssumption DEF LinkData
<1>1. CASE Unplug
  <2>1. <<>> \in Seq(Line) /\ <<>> \in Seq(Message)
    OBVIOUS
  <2> QED BY <1>1, <2>1 DEF Unplug
<1>a. CASE Replug
  BY <1>a DEF Replug
<1>0. CASE Boot
  BY <1>0 DEF Boot
<1>2. CASE Pong
  <2>1. [st |-> LUA_OK, of |-> 0] \in Line /\ [st |-> LUA_YIELD, of |-> 0] \in Line
    BY DEF Line
  <2> QED BY <1>2, <2>1, TailOf, AppendTo DEF Pong
<1>3. CASE Receive
  <2>1. Head(tx) \in Message /\ Tail(tx) \in Seq(Message)
    BY <1>3, TailOf DEF Receive
  <2>2. Head(tx).of \in 0..MaxChunks
    BY <2>1 DEF Message
  <2> QED BY <1>3, <2>1, <2>2 DEF Receive
<1>4. CASE Output
  BY <1>4, AppendTo DEF Output, Text, Line
<1>5. CASE Finish
  <2>0. run \in 1..MaxChunks
    BY <1>5 DEF Finish
  <2>1. \A s \in {LUA_OK, LUA_ERRRUN} : [st |-> s, of |-> run] \in Line
    BY <2>0 DEF Line
  <2> QED BY <1>5, <2>1, AppendTo DEF Finish
<1>6. CASE SendPing
  <2>1. Ping \in Message
    BY DEF Ping, Message
  <2> QED BY <1>6, <2>1, AppendTo DEF SendPing
<1>7. CASE DumpBlock
  <2>1. Block(chunk, TRUE) \in Message /\ Block(chunk, FALSE) \in Message
    BY DEF Control, HostData, Block, Message
  <2>2. \E m \in Message : tx' = Append(tx, m)
    BY <1>7, <2>1 DEF DumpBlock
  <2> QED BY <1>7, <2>2, AppendTo DEF DumpBlock
<1>8. CASE SkipText \/ TakePong \/ Answered
  BY <1>8, TailOf DEF SkipText, TakePong, Answered, Skip, Answer
<1>9. CASE PrintLine
  <2>1. CASE hup
    BY <1>9, <2>1 DEF PrintLine
  <2>2. CASE ~hup
    BY <1>9, <2>2, TailOf DEF PrintLine, Ready
  <2> QED BY <2>1, <2>2
<1>10. CASE Parse \/ Returned \/ OpenIsOpen \/ OpenFails \/ OpenPort \/ NoPong \/ ConnectionLost \/ PollInput
  BY <1>10 DEF link, Parse, Returned, OpenIsOpen, OpenFails, OpenPort, NoPong, ConnectionLost, PollInput
<1>11. CASE Load \/ Compile \/ DoChunk \/ DumpFails \/ NoResponse \/ Edit \/ Enter \/ EndOfFile
  BY <1>11 DEF link, Load, Compile, DoChunk, DumpFails, NoResponse, Edit, Enter, EndOfFile
<1>12. CASE UNCHANGED vars
  BY <1>12 DEF vars, link
<1> QED
  BY <1>0, <1>1, <1>2, <1>3, <1>4, <1>5, <1>6, <1>7, <1>8, <1>a, <1>9, <1>10, <1>11, <1>12 DEF Next, LinkNext, Program, Console

LEMMA ReadyStep == LinkData /\ Ready /\ [Next]_vars => Ready'
<1> SUFFICES ASSUME LinkData, Ready, [Next]_vars PROVE Ready'
  OBVIOUS
<1>1. \A e : Append(rx, e) # <<>>
  BY DEF LinkData
<1>2. CASE LinkNext /\ UNCHANGED host
  BY <1>1, <1>2 DEF Ready, host, LinkNext, Unplug, Replug, Boot, Pong, Receive, Output, Finish
<1>3. CASE PollInput
  BY <1>3 DEF Ready, PollInput, PollError, link
<1>4. CASE (Program \/ Console) /\ ~PollInput
  <2>1. pc' = "print" => FALSE
    BY <1>4 DEF Program, Console, Parse, Returned, OpenIsOpen, OpenFails, OpenPort, SendPing, SkipText, TakePong, NoPong, ConnectionLost, PrintLine, Load, Compile, DoChunk, DumpBlock, DumpFails, Answered, NoResponse, Edit, Enter, EndOfFile,
     GiveUp, NoLine, Opened, Loads, KeyRead
  <2> QED BY <2>1 DEF Ready
<1>5. CASE UNCHANGED vars
  BY <1>5 DEF Ready, vars, link, host
<1> QED
  BY <1>2, <1>3, <1>4, <1>5 DEF Next

\* What do_chunk takes for the status of its chunk is one.
LEMMA AnswerInWait ==
  ASSUME LinkData, Control, OneRequest, pc = "wait", Answer
  PROVE  Head(rx).of = chunk /\ Head(rx).st \in {LUA_OK, LUA_ERRRUN}
<1>1. ~Over /\ fd /\ ~hup
  BY DEF Control, FatalEnds, PortOpen, OpenWhenUsed, Over, Answer
<1>2. Exchange
  BY <1>1 DEF OneRequest
<1>3. ~NoStatus(rx)
  BY TailOf DEF NoStatus, Answer, HasStatus, LinkData
<1>4. OneStatus(rx, chunk)
  BY <1>2, <1>3 DEF Exchange, Handled
<1>5. Head(rx).of = chunk
  BY <1>4, TailOf DEF OneStatus, Answer, HasStatus, LinkData
<1>6. Head(rx) \in Line /\ chunk > 0
  BY TailOf DEF Control, DumpCounts, LinkData, Answer
<1> QED
  BY <1>5, <1>6 DEF Line

LEMMA ControlStep == LinkData /\ Control /\ OneRequest /\ [Next]_vars => Control'
<1> SUFFICES ASSUME LinkData, Control, OneRequest, [Next]_vars PROVE Control'
  OBVIOUS
<1> USE DaluaAssumption DEF Control, HostData, PortOpen, OpenWhenUsed, DumpCounts, FatalEnds
<1>1. CASE LinkNext /\ UNCHANGED host
  BY <1>1 DEF host, console, dump
<1>2. CASE Parse
  BY <1>2 DEF Parse, Job, console, dump
<1>3. CASE Returned
  BY <1>3 DEF Returned, Job, console, dump
<1>4. CASE OpenIsOpen
  BY <1>4 DEF OpenIsOpen, Opened, Job, console, dump
<1>5. CASE OpenFails
  BY <1>5 DEF OpenFails, console, dump
<1>6. CASE OpenPort
  BY <1>6 DEF OpenPort, console, dump
<1>7. CASE SendPing
  <2>1. CASE hup
    BY <1>7, <2>1 DEF SendPing, GiveUp, dump
  <2>2. CASE ~hup
    BY <1>7, <2>2 DEF SendPing, dump
  <2> QED BY <2>1, <2>2
<1>8. CASE SkipText
  BY <1>8 DEF SkipText, console, dump
<1>9. CASE TakePong
  <2>1. CASE Head(rx).st = LUA_OK
    <3>1. /\ pc = "pong" /\ pc' \in {"load", "prompt"} /\ status' = LUA_OK
          /\ UNCHANGED <<fd, todo, chunk, left>>
      BY <1>9, <2>1 DEF TakePong, Opened, GiveUp, dump
    <3> QED BY <3>1
  <2>2. CASE Head(rx).st = LUA_YIELD
    <3>1. pc = "pong" /\ pc' = "ping" /\ UNCHANGED <<fd, status, todo, chunk, left>>
      <4>1. Head(rx).st # LUA_OK
        BY <2>2
      <4> QED BY <1>9, <2>2, <4>1, Zenon DEF TakePong, dump
    <3> QED BY <3>1
  <2>3. CASE Head(rx).st # LUA_OK /\ Head(rx).st # LUA_YIELD
    <3>1. pc' = "dochunk" /\ status' = LUA_ERRFATAL /\ UNCHANGED <<todo, chunk, left>>
      BY <1>9, <2>3 DEF TakePong, GiveUp, dump
    <3> QED BY <3>1
  <2> QED BY <2>1, <2>2, <2>3
<1>10. CASE NoPong
  BY <1>10 DEF NoPong, GiveUp, console, dump
<1>11. CASE ConnectionLost
  BY <1>11 DEF ConnectionLost, NoLine, console, dump
<1>12. CASE PollInput
  BY <1>12 DEF PollInput, console, dump
<1>13. CASE PrintLine
  <2>1. CASE hup /\ fd' = fd
    BY <1>13, <2>1 DEF PrintLine, NoLine, console, dump
  <2>2. CASE hup /\ fd' = FALSE
    BY <1>13, <2>2 DEF PrintLine, NoLine, console, dump
  <2>3. CASE ~hup
    BY <1>13, <2>3 DEF PrintLine, console, dump
  <2> QED BY <1>13, <2>1, <2>2, <2>3 DEF PrintLine
<1>14. CASE Load
  BY <1>14 DEF Load, Loads, console, dump
<1>15. CASE Compile
  BY <1>15 DEF Compile, Loads, console, dump
<1>16. CASE DoChunk
  BY <1>16 DEF DoChunk, console, dump
<1>17. CASE DumpBlock
  <2>1. CASE left = 1
    BY <1>17, <2>1 DEF DumpBlock
  <2>2. CASE left # 1
    BY <1>17, <2>2 DEF DumpBlock
  <2> QED BY <2>1, <2>2
<1>18. CASE DumpFails
  BY <1>18 DEF DumpFails, console, dump
<1>19. CASE Answered
  <2>1. Head(rx).st \in {LUA_OK, LUA_ERRRUN}
    BY <1>19, AnswerInWait DEF Answered
  <2>2. pc' = "done" /\ status' \in {LUA_OK, LUA_ERRRUN} /\ UNCHANGED <<todo, chunk, left>>
    BY <1>19, <2>1 DEF Answered, dump
  <2> QED BY <2>2
<1>20. CASE NoResponse
  BY <1>20 DEF NoResponse, console, dump
<1>21. CASE Edit
  BY <1>21 DEF Edit, KeyRead, console, dump
<1>22. CASE Enter
  BY <1>22 DEF Enter, KeyRead, console, dump
<1>23. CASE EndOfFile
  BY <1>23 DEF EndOfFile, KeyRead, NoLine, console, dump
<1>24. CASE UNCHANGED vars
  BY <1>24 DEF vars, host, console, dump
<1> QED
  BY <1>1, <1>2, <1>3, <1>4, <1>5, <1>6, <1>7, <1>8, <1>9, <1>10, <1>11, <1>12, <1>13, <1>14, <1>15, <1>16, <1>17, <1>18, <1>19, <1>20, <1>21, <1>22, <1>23, <1>24 DEF Next, Program, Console

-----------------------------------------------------------------------------
(* The one outstanding request *)

LEMMA SkipKeeps ==
  ASSUME NEW q \in Seq(Line), q # <<>>, Head(q).st = LUA_NOSTATUS
  PROVE  /\ NoStatus(q) => NoStatus(Tail(q))
         /\ \A k : OneStatus(q, k) => OneStatus(Tail(q), k)
<1>1. NoStatus(q) => NoStatus(Tail(q))
  BY TailOf DEF NoStatus
<1>2. ASSUME NEW k, OneStatus(q, k) PROVE OneStatus(Tail(q), k)
  <2>1. PICK j \in 1..Len(q) : /\ q[j].st # LUA_NOSTATUS /\ q[j].of = k
                               /\ \A i \in 1..Len(q) : i # j => q[i].st = LUA_NOSTATUS
    BY <1>2 DEF OneStatus
  <2>2. j # 1 /\ j - 1 \in 1..Len(Tail(q))
    BY <2>1, TailOf
  <2>3. Tail(q)[j - 1] = q[j]
    BY <2>2, TailOf
  <2>4. \A i \in 1..Len(Tail(q)) : i # j - 1 => Tail(q)[i].st = LUA_NOSTATUS
    BY <2>1, TailOf
  <2> QED BY <2>1, <2>2, <2>3, <2>4 DEF OneStatus
<1> QED BY <1>1, <1>2

LEMMA TakeLast ==
  ASSUME NEW q \in Seq(Line), NEW k, q # <<>>, Head(q).st # LUA_NOSTATUS, OneStatus(q, k)
  PROVE  NoStatus(Tail(q))
<1>1. \A i \in 1..Len(q) : i # 1 => q[i].st = LUA_NOSTATUS
  BY TailOf DEF OneStatus
<1> QED
  BY <1>1, TailOf DEF NoStatus

LEMMA TextKeeps ==
  ASSUME NEW q \in Seq(Line), Text \in Line
  PROVE  /\ NoStatus(q) => NoStatus(Append(q, Text))
         /\ \A k : OneStatus(q, k) => OneStatus(Append(q, Text), k)
<1> DEFINE r == Append(q, Text)
<1>1. /\ Len(r) = Len(q) + 1 /\ r[Len(q) + 1].st = LUA_NOSTATUS
      /\ \A j \in 1..Len(q) : r[j] = q[j]
  BY AppendTo DEF Text
<1>2. NoStatus(q) => NoStatus(r)
  BY <1>1 DEF NoStatus
<1>3. \A k : OneStatus(q, k) => OneStatus(r, k)
  BY <1>1 DEF OneStatus
<1> QED BY <1>2, <1>3

LEMMA AnswerArrives ==
  ASSUME NEW q \in Seq(Line), NEW e \in Line, e.st # LUA_NOSTATUS, NoStatus(q)
  PROVE  OneStatus(Append(q, e), e.of)
<1> DEFINE r == Append(q, e)
<1>1. /\ Len(r) = Len(q) + 1 /\ r[Len(q) + 1] = e
      /\ \A j \in 1..Len(q) : r[j] = q[j]
  BY AppendTo
<1>2. \A i \in 1..Len(r) : i # Len(q) + 1 => r[i].st = LUA_NOSTATUS
  BY <1>1 DEF NoStatus
<1> QED
  BY <1>1, <1>2 DEF OneStatus

\* Away from the three calls that have a request under way, nothing is under way.
LEMMA QuietElsewhere ==
  ASSUME OneRequest, ~Over, pc \notin {"pong", "dump", "wait"} \/ hup
  PROVE  Quiet
  BY DEF OneRequest, Exchange

LEMMA QuietStays ==
  ASSUME Quiet, UNCHANGED <<rx, tx, run>>
  PROVE  Quiet'
  BY DEF Quiet, NoStatus

LEMMA QuietSuffices ==
  ASSUME Quiet', pc' \notin {"pong", "dump", "wait"}
  PROVE  OneRequest'
  BY DEF OneRequest, Exchange

\* The session, once over, stays so.
LEMMA OverStays ==
  ASSUME Control, Over, [Next]_vars
  PROVE  Over'
<1> USE DEF Over, Control, FatalEnds
<1>1. CASE (LinkNext /\ UNCHANGED host) \/ UNCHANGED vars
  BY <1>1 DEF vars, host
<1>2. CASE Returned \/ DoChunk
  BY <1>2 DEF Returned, DoChunk
<1>3. CASE (Program \/ Console) /\ ~Returned /\ ~DoChunk
  <2>1. pc \notin {"dochunk", "done", "exit"}
    BY <1>3 DEF Program, Console, Parse, OpenIsOpen, OpenFails, OpenPort, SendPing, SkipText,
       TakePong, NoPong, ConnectionLost, PollInput, PrintLine, Load, Compile, DumpBlock,
       DumpFails, Answered, NoResponse, Edit, Enter, EndOfFile, KeyRead, PollError
  <2> QED BY <2>1
<1> QED
  BY <1>1, <1>2, <1>3 DEF Next

\* Steps of the link.
LEMMA OneRequestLink ==
  ASSUME LinkData, Control, OneRequest, ~Over, LinkNext, UNCHANGED host
  PROVE  OneRequest'
<1>0. UNCHANGED <<pc, fd, status, chunk>> /\ ~Over'
  BY DEF host, dump, Over
<1>1. CASE Unplug
  BY <1>0, <1>1 DEF Unplug, OneRequest, Quiet, NoStatus
<1>2. CASE Replug \/ Boot
  BY <1>0, <1>2 DEF Replug, Boot, OneRequest, Exchange, Quiet, Handled, NoStatus, OneStatus, Blocks
<1>3. CASE Pong
  <2>1. fd /\ ~hup /\ Exchange /\ tx # <<>> /\ Head(tx) = tx[1] /\ 1 \in 1..Len(tx)
    BY <1>3, TailOf DEF Pong, OneRequest, Quiet, LinkData
  <2>2. pc \notin {"dump", "wait"}
    BY <1>3, <2>1 DEF Exchange, Handled, Blocks, Block, Pong, Ping, Control, DumpCounts
  <2>3. pc = "pong" /\ run = 0 /\ NoStatus(rx) /\ Len(tx) = 1
    BY <2>1, <2>2 DEF Exchange, Handled, Quiet
  <2>4. tx' = <<>>
    BY <1>3, <2>1, <2>3, TailOf DEF Pong, LinkData
  <2>5. PICK e \in Line : rx' = Append(rx, e) /\ e.of = 0 /\ e.st # LUA_NOSTATUS
    BY <1>3, NoStatusIsNone DEF Pong, Line
  <2>6. OneStatus(rx', 0)
    BY <2>3, <2>5, AnswerArrives DEF LinkData
  <2>7. Handled(0)'
    BY <1>3, <2>3, <2>4, <2>6 DEF Handled, Pong
  <2> QED BY <1>0, <1>3, <2>1, <2>3, <2>7 DEF OneRequest, Exchange, Pong
<1>4. CASE Receive
  <2>1. fd /\ ~hup /\ Exchange /\ tx # <<>> /\ Head(tx) = tx[1] /\ 1 \in 1..Len(tx)
    BY <1>4, TailOf DEF Receive, OneRequest, Quiet, LinkData
  <2>2. pc \in {"dump", "wait"} /\ run = 0 /\ NoStatus(rx)
    BY <1>4, <2>1 DEF Exchange, Handled, Quiet, Receive
  <2>3. /\ Len(tx') = Len(tx) - 1 /\ \A j \in 1..Len(tx') : tx'[j] = tx[j + 1]
        /\ tx' \in Seq(Message)
    BY <1>4, <2>1, TailOf DEF Receive, LinkData
  <2>4. CASE pc = "dump"
    <3>1. run' = 0 /\ Blocks(FALSE)'
      BY <1>0, <1>4, <2>1, <2>3, <2>4 DEF Receive, Exchange, Blocks, Block
    <3> QED BY <1>0, <1>4, <2>1, <2>2, <2>4, <3>1 DEF OneRequest, Exchange, Receive, NoStatus
  <2>5. CASE pc = "wait" /\ Len(tx) = 1
    <3>1. Blocks(TRUE)
      BY <2>1, <2>5 DEF Exchange, Handled
    <3>2. run' = chunk /\ tx' = <<>>
      BY <1>4, <2>1, <2>3, <2>5, <3>1 DEF Receive, Blocks, Block
    <3> QED BY <1>0, <1>4, <2>1, <2>2, <2>5, <3>2
         DEF OneRequest, Exchange, Receive, NoStatus, Handled, Control, DumpCounts
  <2>6. CASE pc = "wait" /\ Len(tx) # 1
    <3>1. Blocks(TRUE)
      BY <2>1, <2>6 DEF Exchange, Handled
    <3>2. Len(tx) > 1 /\ Len(tx') > 0 /\ tx' # <<>>
      BY <2>1, <2>3, <2>6, TailOf DEF LinkData
    <3>3. run' = 0
      <4>1. ~tx[1].last
        BY <2>1, <3>1, <3>2 DEF Blocks
      <4> QED BY <1>4, <2>1, <4>1 DEF Receive
    <3>4. Blocks(TRUE)'
      BY <1>0, <2>3, <3>1, <3>2 DEF Blocks
    <3> QED BY <1>0, <1>4, <2>1, <2>2, <2>6, <3>2, <3>3, <3>4
         DEF OneRequest, Exchange, Receive, NoStatus
  <2> QED BY <2>2, <2>4, <2>5, <2>6
<1>5. CASE Output
  <2>1. Text \in Line
    BY DEF Text, Line
  <2>2. rx' = Append(rx, Text) /\ UNCHANGED <<hup, tx, run>>
    BY <1>5 DEF Output
  <2>3. /\ NoStatus(rx) => NoStatus(rx')
        /\ \A k : OneStatus(rx, k) => OneStatus(rx', k)
    BY <2>1, <2>2, TextKeeps DEF LinkData
  <2> QED BY <1>0, <2>2, <2>3 DEF OneRequest, Exchange, Quiet, Handled, Blocks
<1>6. CASE Finish
  <2>1. fd /\ ~hup /\ Exchange /\ run # 0
    BY <1>6 DEF Finish, OneRequest, Quiet
  <2>2. pc = "wait" /\ run = chunk /\ tx = <<>> /\ NoStatus(rx)
    BY <2>1 DEF Exchange, Quiet, Handled
  <2>3. PICK e \in Line : rx' = Append(rx, e) /\ e.of = chunk /\ e.st # LUA_NOSTATUS
    <3>1. chunk \in 1..MaxChunks
      BY <2>1, <2>2 DEF Control, HostData
    <3> QED BY <1>6, <2>2, <3>1, NoStatusIsNone DEF Finish, Line
  <2>4. OneStatus(rx', chunk)
    BY <2>2, <2>3, AnswerArrives DEF LinkData
  <2> QED BY <1>0, <1>6, <2>1, <2>2, <2>4 DEF OneRequest, Exchange, Handled, Finish
<1> QED
  BY <1>1, <1>2, <1>3, <1>4, <1>5, <1>6 DEF LinkNext

LEMMA AppendMessage ==
  ASSUME LinkData, NEW m \in Message, tx' = Append(tx, m)
  PROVE  /\ Len(tx') = Len(tx) + 1 /\ tx'[Len(tx) + 1] = m
         /\ \A j \in 1..Len(tx) : tx'[j] = tx[j]
  BY AppendTo DEF LinkData

LEMMA OneRequestInit == Init => OneRequest
  BY DEF Init, LinkInit, OneRequest, Quiet, NoStatus

\* Steps of the program that touch neither queue and begin where nothing is under way.
LEMMA OneRequestIdle ==
  ASSUME OneRequest, ~Over, UNCHANGED <<rx, tx, run>>,
         pc \notin {"pong", "dump", "wait"} \/ hup, pc' \notin {"pong", "dump", "wait"}
  PROVE  OneRequest'
  BY QuietElsewhere, QuietStays, QuietSuffices

\* The ping, up to the answer to it.
LEMMA OneRequestOpen ==
  ASSUME LinkData, Control, OneRequest, ~Over, SendPing \/ TakePong \/ NoPong
  PROVE  OneRequest'
<1>1. CASE SendPing
  <2>1. Quiet
    BY <1>1, QuietElsewhere DEF SendPing
  <2>2. CASE hup
    BY <1>1, <2>2 DEF SendPing, GiveUp, OneRequest, Over
  <2>3. CASE ~hup
    <3>0. Ping \in Message
      BY DaluaAssumption DEF Ping, Message
    <3>1. tx = <<>> /\ Len(tx) = 0
      BY <2>1 DEF Quiet
    <3>2. tx' = Append(tx, Ping)
      BY <1>1, <2>3 DEF SendPing
    <3>3. Len(tx') = 1 /\ tx'[1] = Ping
      BY <3>0, <3>1, <3>2, AppendMessage
    <3>4. /\ pc' = "pong" /\ UNCHANGED <<rx, run, fd, hup>> /\ fd
      BY <1>1, <2>3 DEF SendPing, Control, PortOpen, OpenWhenUsed
    <3>5. run' = 0 /\ NoStatus(rx)'
      BY <2>1, <3>4 DEF Quiet, NoStatus
    <3> QED BY <2>3, <3>3, <3>4, <3>5 DEF OneRequest, Exchange
  <2> QED BY <2>2, <2>3
<1>2. CASE TakePong
  <2>1. /\ fd /\ ~hup /\ pc = "pong" /\ rx # <<>> /\ Head(rx).st # LUA_NOSTATUS
    BY <1>2 DEF TakePong, Answer, HasStatus, Control, PortOpen, OpenWhenUsed
  <2>2. ~NoStatus(rx)
    BY <2>1, TailOf DEF NoStatus, LinkData
  <2>3. tx = <<>> /\ run = 0 /\ OneStatus(rx, 0)
    BY <2>1, <2>2 DEF OneRequest, Exchange, Handled
  <2>4. NoStatus(Tail(rx))
    BY <2>1, <2>3, TakeLast DEF LinkData
  <2>5. rx' = Tail(rx) /\ tx' = tx /\ run' = run
    BY <1>2 DEF TakePong
  <2>6. Quiet'
    BY <2>3, <2>4, <2>5 DEF Quiet, NoStatus
  <2>7. pc' \notin {"pong", "dump", "wait"}
    BY <1>2, Zenon DEF TakePong, Opened, GiveUp
  <2> QED BY <2>6, <2>7, QuietSuffices
<1>3. CASE NoPong
  BY <1>3 DEF NoPong, GiveUp, OneRequest, Over
<1> QED
  BY <1>1, <1>2, <1>3

\* Lines without a status, read while waiting or at the prompt.
LEMMA OneRequestText ==
  ASSUME LinkData, Ready, Control, OneRequest, ~Over, SkipText \/ PrintLine
  PROVE  OneRequest'
<1>1. CASE SkipText
  <2>1. /\ pc \in {"pong", "wait"} /\ fd /\ ~hup
        /\ rx # <<>> /\ Head(rx).st = LUA_NOSTATUS
    BY <1>1 DEF SkipText, Skip, HasStatus, Control, PortOpen, OpenWhenUsed
  <2>2. rx' = Tail(rx) /\ UNCHANGED <<tx, run, pc, fd, hup, chunk, status>>
    BY <1>1 DEF SkipText, dump
  <2>3. /\ NoStatus(rx) => NoStatus(rx')
        /\ \A k : OneStatus(rx, k) => OneStatus(rx', k)
    BY <2>1, <2>2, SkipKeeps DEF LinkData
  <2>4. Exchange
    BY <2>1 DEF OneRequest
  <2> QED BY <2>1, <2>2, <2>3, <2>4 DEF OneRequest, Exchange, Handled, Blocks
<1>2. CASE PrintLine
  <2>1. Quiet
    BY <1>2, QuietElsewhere DEF PrintLine
  <2>2. pc' \notin {"pong", "dump", "wait"}
    BY <1>2, Zenon DEF PrintLine, NoLine
  <2>3. CASE hup
    BY <1>2, <2>1, <2>2, <2>3, QuietStays, QuietSuffices DEF PrintLine
  <2>4. CASE ~hup
    <3>1. rx # <<>> /\ rx' = Tail(rx) /\ tx' = tx /\ run' = run
      BY <1>2, <2>4 DEF PrintLine, Ready
    <3>2. \A j \in 1..Len(Tail(rx)) : Tail(rx)[j].st = LUA_NOSTATUS
      BY <2>1, <3>1, TailOf DEF Quiet, NoStatus, LinkData
    <3>3. Quiet'
      BY <2>1, <3>1, <3>2 DEF Quiet, NoStatus
    <3> QED BY <2>2, <3>3, QuietSuffices
  <2> QED BY <2>3, <2>4
<1> QED
  BY <1>1, <1>2

\* A chunk, up to its status.
LEMMA OneRequestChunk ==
  ASSUME LinkData, Control, OneRequest, ~Over,
         DoChunk \/ DumpBlock \/ DumpFails \/ Answered \/ NoResponse
  PROVE  OneRequest'
<1>1. CASE DoChunk
  <2>1. Quiet
    BY <1>1, QuietElsewhere DEF DoChunk
  <2>2. UNCHANGED <<rx, tx, run, fd, hup>> /\ pc' \in {"dump", "done"}
    BY <1>1 DEF DoChunk, link
  <2>3. Quiet' /\ Blocks(FALSE)'
    BY <2>1, <2>2 DEF Quiet, NoStatus, Blocks
  <2> QED BY <2>2, <2>3 DEF OneRequest, Exchange, Quiet
<1>2. CASE DumpBlock
  <2>1. pc = "dump" /\ fd /\ ~hup /\ run = 0 /\ NoStatus(rx) /\ Blocks(FALSE)
    BY <1>2 DEF DumpBlock, Control, PortOpen, OpenWhenUsed, OneRequest, Exchange
  <2>2. UNCHANGED <<rx, run, fd, hup, chunk, status>>
    BY <1>2 DEF DumpBlock
  <2>3. run' = 0 /\ NoStatus(rx)'
    BY <2>1, <2>2 DEF NoStatus
  <2>4. Block(chunk, TRUE) \in Message /\ Block(chunk, FALSE) \in Message
    BY DEF Control, HostData, Block, Message
  <2>5. CASE left = 1
    <3>1. tx' = Append(tx, Block(chunk, TRUE)) /\ pc' = "wait"
      BY <1>2, <2>5 DEF DumpBlock
    <3>2. /\ Len(tx') = Len(tx) + 1 /\ tx'[Len(tx) + 1] = Block(chunk, TRUE)
          /\ \A j \in 1..Len(tx) : tx'[j] = tx[j]
      BY <2>4, <3>1, AppendMessage
    <3>3. Len(tx) \in Nat
      BY DEF LinkData
    <3>4. Blocks(TRUE)' /\ tx' # <<>>
      BY <2>1, <2>2, <3>2, <3>3 DEF Blocks, Block
    <3> QED BY <2>1, <2>2, <2>3, <3>1, <3>4 DEF OneRequest, Exchange
  <2>6. CASE left # 1
    <3>1. tx' = Append(tx, Block(chunk, FALSE)) /\ pc' = "dump"
      BY <1>2, <2>1, <2>6 DEF DumpBlock
    <3>2. /\ Len(tx') = Len(tx) + 1 /\ tx'[Len(tx) + 1] = Block(chunk, FALSE)
          /\ \A j \in 1..Len(tx) : tx'[j] = tx[j]
      BY <2>4, <3>1, AppendMessage
    <3>3. Len(tx) \in Nat
      BY DEF LinkData
    <3>4. Blocks(FALSE)'
      BY <2>1, <2>2, <3>2, <3>3 DEF Blocks, Block
    <3> QED BY <2>1, <2>2, <2>3, <3>1, <3>4 DEF OneRequest, Exchange
  <2> QED BY <2>5, <2>6
<1>3. CASE DumpFails
  BY <1>3, OneRequestIdle DEF DumpFails, link
<1>4. CASE Answered
  <2>1. fd /\ ~hup /\ pc = "wait" /\ rx # <<>> /\ Head(rx).st # LUA_NOSTATUS
    BY <1>4 DEF Answered, Answer, HasStatus, Control, PortOpen, OpenWhenUsed
  <2>2. ~NoStatus(rx)
    BY <2>1, TailOf DEF NoStatus, LinkData
  <2>3. tx = <<>> /\ run = 0 /\ OneStatus(rx, chunk)
    BY <2>1, <2>2 DEF OneRequest, Exchange, Handled
  <2>4. NoStatus(Tail(rx))
    BY <2>1, <2>3, TakeLast DEF LinkData
  <2>5. rx' = Tail(rx) /\ tx' = tx /\ run' = run /\ pc' = "done"
    BY <1>4 DEF Answered
  <2>6. Quiet'
    BY <2>3, <2>4, <2>5 DEF Quiet, NoStatus
  <2> QED BY <2>5, <2>6, QuietSuffices
<1>5. CASE NoResponse
  <2>1. hup
    BY <1>5 DEF NoResponse, NoAnswer, Expires
  <2> QED BY <1>5, <2>1, OneRequestIdle DEF NoResponse, link
<1> QED
  BY <1>1, <1>2, <1>3, <1>4, <1>5

LEMMA OneRequestStep ==
  ASSUME LinkData, Ready, Control, OneRequest, [Next]_vars
  PROVE  OneRequest'
<1>1. CASE Over
  BY <1>1, OverStays DEF OneRequest
<1>2. CASE ~Over /\ LinkNext /\ UNCHANGED host
  BY <1>2, OneRequestLink
<1>3. CASE ~Over /\ (SendPing \/ TakePong \/ NoPong)
  BY <1>3, OneRequestOpen
<1>4. CASE ~Over /\ (SkipText \/ PrintLine)
  BY <1>4, OneRequestText
<1>5. CASE ~Over /\ (DoChunk \/ DumpBlock \/ DumpFails \/ Answered \/ NoResponse)
  BY <1>5, OneRequestChunk
<1>6. CASE ~Over /\ (Parse \/ Returned \/ OpenIsOpen \/ OpenFails)
  <2>1. /\ UNCHANGED <<rx, tx, run>> /\ pc \notin {"pong", "dump", "wait"}
        /\ pc' \notin {"pong", "dump", "wait"}
    BY <1>6, Zenon DEF Parse, Returned, OpenIsOpen, OpenFails, Opened, link
  <2> QED BY <1>6, <2>1, OneRequestIdle
<1>7. CASE ~Over /\ OpenPort
  <2>1. /\ UNCHANGED <<rx, tx, run>> /\ pc \notin {"pong", "dump", "wait"}
        /\ pc' \notin {"pong", "dump", "wait"}
    BY <1>7 DEF OpenPort
  <2> QED BY <1>7, <2>1, OneRequestIdle
<1>8. CASE ~Over /\ (ConnectionLost \/ PollInput \/ Edit \/ Enter \/ EndOfFile)
  <2>1. /\ UNCHANGED <<rx, tx, run>> /\ pc \notin {"pong", "dump", "wait"}
        /\ pc' \notin {"pong", "dump", "wait"}
    BY <1>8 DEF ConnectionLost, PollInput, Edit, Enter, EndOfFile, KeyRead, PollError, NoLine, link
  <2> QED BY <1>8, <2>1, OneRequestIdle
<1>9. CASE ~Over /\ (Load \/ Compile)
  <2>1. /\ UNCHANGED <<rx, tx, run>> /\ pc \notin {"pong", "dump", "wait"}
        /\ pc' \notin {"pong", "dump", "wait"}
    BY <1>9 DEF Load, Compile, link
  <2> QED BY <1>9, <2>1, OneRequestIdle
<1>10. CASE UNCHANGED vars
  BY <1>10 DEF vars, link, host, dump, OneRequest, Over, Exchange, Quiet, Handled, NoStatus,
     OneStatus, Blocks
<1> QED
  BY <1>1, <1>2, <1>3, <1>4, <1>5, <1>6, <1>7, <1>8, <1>9, <1>10 DEF Next, Program, Console

-----------------------------------------------------------------------------
(* Theorems *)

\* Inv is inductive: whatever the cable, the device and the user do in between, every call of
\* the program begins and ends with at most one request under way.
THEOREM Invariant == Spec => []Inv
<1>1. Init => Inv
  <2>1. Init => Ready
    BY DEF Init, Ready
  <2> QED BY <2>1, FlagsInit, ControlInit, OneRequestInit DEF Inv
<1>2. Inv /\ [Next]_vars => Inv'
  BY FlagsStep, LinkStep, ReadyStep, ControlStep, OneRequestStep DEF Inv
<1> QED
  BY <1>1, <1>2, PTL DEF Spec

\* Every variable keeps its type; in particular only the statuses dalua knows of are passed on.
THEOREM TypeCorrect == Spec => []TypeOK
<1>1. Inv => TypeOK
  BY DEF Inv, Flags, LinkData, Control, HostData, TypeOK
<1> QED
  BY <1>1, Invariant, PTL

\* A status is never taken for the answer to another request than its own: receive_status can
\* return only the status of the chunk that do_chunk has just dumped, or of the ping open() sent.
THEOREM AnswersAreOurs == Spec => []StatusAnswersRequest
<1>1. Inv => StatusAnswersRequest
  <2> SUFFICES ASSUME Inv PROVE StatusAnswersRequest
    OBVIOUS
  <2>1. pc = "wait" /\ Answer => Head(rx).of = chunk
    BY AnswerInWait DEF Inv
  <2>2. ASSUME pc = "pong", Answer PROVE Head(rx).of = 0
    <3>1. ~Over /\ fd /\ ~hup
      BY <2>2 DEF Inv, Control, FatalEnds, PortOpen, OpenWhenUsed, Over, Answer
    <3>2. ~NoStatus(rx)
      BY <2>2, TailOf DEF NoStatus, Answer, HasStatus, LinkData, Inv
    <3>3. OneStatus(rx, 0)
      BY <2>2, <3>1, <3>2 DEF Inv, OneRequest, Exchange, Handled
    <3> QED BY <2>2, <3>3, TailOf DEF OneStatus, Answer, HasStatus, LinkData, Inv
  <2> QED BY <2>1, <2>2 DEF StatusAnswersRequest
<1> QED
  BY <1>1, Invariant, PTL

\* While the prompt is shown, or the line just entered is compiled, the device has no request of
\* ours: print_line, which reads at the prompt, can never swallow a status.
THEOREM PromptIsIdle == Spec => []IdleAtPrompt
<1>1. Inv => IdleAtPrompt
  <2> SUFFICES ASSUME Inv, pc \in {"prompt", "compile"}, fd, ~hup
               PROVE  run = 0 /\ tx = <<>> /\ \A j \in 1..Len(rx) : ~HasStatus(rx[j])
    BY DEF IdleAtPrompt
  <2>1. ~Over
    BY DEF Inv, Control, FatalEnds, Over
  <2>2. Quiet
    BY <2>1, QuietElsewhere DEF Inv
  <2> QED BY <2>2 DEF Quiet, NoStatus, HasStatus
<1> QED
  BY <1>1, Invariant, PTL

\* No call reads, writes or polls a port that one of the four callers of close() has closed.
THEOREM PortIsOpen == Spec => []OpenWhenUsed
<1>1. Inv => OpenWhenUsed
  BY DEF Inv, Control, PortOpen
<1> QED
  BY <1>1, Invariant, PTL

-----------------------------------------------------------------------------
(* The Lua stack *)

\* What the stack's operations do to the short stacks of this program.
LEMMA ShortStacks ==
  ASSUME NEW a, NEW b
  PROVE  /\ Append(<<>>, a) = <<a>> /\ Append(<<a>>, b) = <<a, b>>
         /\ Tail(<<a>>) = <<>> /\ Tail(<<a, b>>) = <<b>>
         /\ Len(<<a>>) = 1 /\ Len(<<a, b>>) = 2
         /\ SubSeq(<<a>>, 1, 0) = <<>> /\ SubSeq(<<a, b>>, 1, 1) = <<a>>
<1> DEFINE S == {a, b}
<1>1. /\ <<>> \in Seq(S) /\ Len(<<>>) = 0
      /\ <<a>> \in Seq(S) /\ Len(<<a>>) = 1 /\ <<a>>[1] = a /\ a \in S /\ b \in S
      /\ <<b>> \in Seq(S) /\ Len(<<b>>) = 1 /\ <<b>>[1] = b
      /\ <<a, b>> \in Seq(S) /\ Len(<<a, b>>) = 2 /\ <<a, b>>[1] = a /\ <<a, b>>[2] = b
  OBVIOUS
<1> HIDE DEF S
<1>2. Append(<<>>, a) = <<a>>
  <2>1. Append(<<>>, a) \in Seq(S) /\ Len(Append(<<>>, a)) = 1 /\ Append(<<>>, a)[1] = a
    BY <1>1, AppendProperties
  <2>2. \A k \in 1..1 : Append(<<>>, a)[k] = <<a>>[k]
    BY <1>1, <2>1
  <2> QED
    BY <1>1, <2>1, <2>2, SeqEqual
<1>3. Append(<<a>>, b) = <<a, b>>
  <2>1. /\ Append(<<a>>, b) \in Seq(S) /\ Len(Append(<<a>>, b)) = 2
        /\ Append(<<a>>, b)[1] = a /\ Append(<<a>>, b)[2] = b
    BY <1>1, AppendProperties
  <2>2. \A k \in 1..2 : Append(<<a>>, b)[k] = <<a, b>>[k]
    BY <1>1, <2>1
  <2> QED
    BY <1>1, <2>1, <2>2, SeqEqual
<1>4. Tail(<<a>>) = <<>>
  <2>1. Tail(<<a>>) \in Seq(S) /\ Len(Tail(<<a>>)) = 0
    BY <1>1, HeadTailProperties
  <2> QED
    BY <1>1, <2>1, EmptySeq
<1>5. Tail(<<a, b>>) = <<b>>
  <2>1. /\ Tail(<<a, b>>) \in Seq(S) /\ Len(Tail(<<a, b>>)) = 1
        /\ \A k \in 1..1 : Tail(<<a, b>>)[k] = <<a, b>>[k + 1]
    BY <1>1, HeadTailProperties
  <2>2. \A k \in 1..1 : Tail(<<a, b>>)[k] = <<b>>[k]
    BY <1>1, <2>1
  <2> QED
    BY <1>1, <2>1, <2>2, SeqEqual
<1>6. SubSeq(<<a>>, 1, 0) = <<>>
  BY SubSeqEmpty
<1>7. SubSeq(<<a, b>>, 1, 1) = <<a>>
  <2>1. 1 \in Int /\ 1 - 1 + 1 = 1 /\ \A k \in 1..1 : <<a, b>>[k] \in S
    BY <1>1
  <2>2. /\ SubSeq(<<a, b>>, 1, 1) \in Seq(S)
        /\ Len(SubSeq(<<a, b>>, 1, 1)) = 1 - 1 + 1
        /\ \A k \in 1..(1 - 1 + 1) : SubSeq(<<a, b>>, 1, 1)[k] = <<a, b>>[1 + k - 1]
    BY <2>1, SubSeqProperties
  <2>3. \A k \in 1..1 : SubSeq(<<a, b>>, 1, 1)[k] = <<a>>[k]
    BY <1>1, <2>1, <2>2
  <2> QED
    BY <1>1, <2>1, <2>2, <2>3, SeqEqual
<1> QED
  BY <1>1, <1>2, <1>3, <1>4, <1>5, <1>6, <1>7

LEMMA PushedStep == Flags /\ FatalEnds /\ Pushed /\ [Next]_vars => Pushed'
<1> SUFFICES ASSUME Flags, FatalEnds, Pushed, [Next]_vars PROVE Pushed'
  OBVIOUS
<1>0. more \in BOOLEAN
  BY DEF Flags
<1>1. CASE (LinkNext /\ UNCHANGED host) \/ UNCHANGED vars
  BY <1>1 DEF Pushed, host, vars, console, dump
<1>2. CASE Parse
  BY <1>2 DEF Pushed, Parse, console, dump
<1>3. CASE Returned
  BY <1>3 DEF Pushed, Returned, console, dump
<1>4. CASE OpenIsOpen
  BY <1>4 DEF Pushed, OpenIsOpen, Opened, console, dump
<1>5. CASE OpenFails
  BY <1>5 DEF Pushed, OpenFails, console, dump
<1>6. CASE OpenPort
  BY <1>6 DEF Pushed, OpenPort, console, dump
<1>7. CASE SendPing
  BY <1>7 DEF Pushed, SendPing, GiveUp, console, dump
<1>8. CASE SkipText
  BY <1>8 DEF Pushed, SkipText, console, dump
<1>9. CASE TakePong
  BY <1>9 DEF Pushed, TakePong, Opened, GiveUp, dump
<1>10. CASE NoPong
  BY <1>10 DEF Pushed, NoPong, GiveUp, console, dump
<1>11. CASE ConnectionLost
  BY <1>11 DEF Pushed, ConnectionLost, NoLine, console, dump
<1>12. CASE PollInput
  BY <1>12 DEF Pushed, PollInput, console, dump
<1>13. CASE PrintLine
  <2>1. CASE hup /\ fd' = fd
    BY <1>13, <2>1 DEF Pushed, PrintLine, NoLine, console, dump
  <2>2. CASE hup /\ fd' = FALSE
    BY <1>13, <2>2 DEF Pushed, PrintLine, NoLine, console, dump
  <2>3. CASE ~hup
    BY <1>13, <2>3 DEF Pushed, PrintLine, console, dump
  <2> QED BY <1>13, <2>1, <2>2, <2>3 DEF PrintLine
<1>14. CASE Load
  BY <1>14 DEF Pushed, Load, Loads, console, dump
<1>15. CASE Compile
  <2> DEFINE lines == IF more THEN SubSeq(stk, 1, Len(stk) - 1) ELSE stk
  <2>1. stk = IF more THEN <<"line", "line">> ELSE <<"line">>
    BY <1>15 DEF Compile, Pushed
  <2>2. lines = <<"line">>
    <3>1. CASE more
      <4>1. Len(stk) - 1 = 1
        BY <2>1, <3>1, ShortStacks
      <4>2. lines = SubSeq(<<"line", "line">>, 1, 1)
        BY <2>1, <3>1, <4>1
      <4> QED
        BY <4>2, ShortStacks
    <3> QED
      BY <2>1, <3>1
  <2> HIDE DEF lines
  <2>3. ASSUME NEW r PROVE Tail(Append(lines, r)) = <<r>>
    <3>1. Append(<<"line">>, r) = <<"line", r>> /\ Tail(<<"line", r>>) = <<r>>
      BY ShortStacks, Zenon
    <3> QED
      BY <2>2, <3>1, Zenon
  <2>4. MessagePopped(Append(lines, "error")) = <<"line">>
    <3>1. Append(<<"line">>, "error") = <<"line", "error">> /\ SubSeq(<<"line", "error">>, 1, 1) = <<"line">>
      BY ShortStacks, Zenon
    <3>2. Len(<<"line", "error">>) - 1 = 1
      OBVIOUS
    <3> QED
      BY <2>2, <3>1, <3>2, Zenon DEF MessagePopped
  <2>5. /\ pc = "compile"
        /\ \/ \E r \in Loads : status' = r.status /\ stk' = Tail(Append(lines, r.top)) /\ pc' = "dochunk"
           \/ stk' = MessagePopped(Append(lines, "error")) /\ pc' = "prompt" /\ more' = TRUE
    BY <1>15 DEF Compile, lines
  <2>6. CASE \E r \in Loads : status' = r.status /\ stk' = Tail(Append(lines, r.top)) /\ pc' = "dochunk"
    <3>1. PICK r \in Loads : status' = r.status /\ stk' = Tail(Append(lines, r.top)) /\ pc' = "dochunk"
      BY <2>6
    <3>2. stk' = <<r.top>>
      BY <2>3, <3>1
    <3>3. \/ status' = LUA_OK /\ stk' = <<"chunk">>
          \/ status' # LUA_OK /\ status' > LUA_OK /\ stk' = <<"error">>
      <4>1. \/ r.status = LUA_OK /\ r.top = "chunk"
            \/ r.status # LUA_OK /\ r.status > LUA_OK /\ r.top = "error"
        BY DEF Loads
      <4> QED
        BY <3>1, <3>2, <4>1
    <3> QED
      BY <3>1, <3>3 DEF Pushed
  <2> QED
    BY <2>4, <2>5, <2>6 DEF Pushed
<1>16. CASE DoChunk
  <2>1. Tail(<<"error">>) = <<>>
    BY ShortStacks, Zenon
  <2>2. CASE status = LUA_OK
    BY <1>16, <2>2 DEF Pushed, DoChunk, console
  <2>3. CASE status # LUA_OK
    <3>1. stk = (IF status > LUA_OK THEN <<"error">> ELSE <<>>)
      BY <1>16, <2>3 DEF Pushed, DoChunk
    <3>2. pc' = "done" /\ stk' = (IF status > LUA_OK THEN Tail(stk) ELSE stk)
      BY <1>16, <2>3 DEF DoChunk
    <3>3. stk' = <<>>
      BY <2>1, <3>1, <3>2, Zenon
    <3> QED
      BY <3>2, <3>3 DEF Pushed
  <2> QED
    BY <2>2, <2>3
<1>17. CASE DumpBlock
  BY <1>17, ShortStacks DEF Pushed, DumpBlock, console
<1>18. CASE DumpFails
  BY <1>18, ShortStacks DEF Pushed, DumpFails, console, dump
<1>19. CASE Answered
  BY <1>19 DEF Pushed, Answered, console, dump
<1>20. CASE NoResponse
  BY <1>20 DEF Pushed, NoResponse, console, dump
<1>21. CASE Edit
  BY <1>21 DEF Pushed, Edit, KeyRead, dump
<1>22. CASE Enter
  BY <1>0, <1>22, ShortStacks DEF Pushed, Enter, KeyRead, dump
<1>23. CASE EndOfFile
  BY <1>23 DEF Pushed, EndOfFile, KeyRead, NoLine, console, dump
<1> QED
  BY <1>1, <1>2, <1>3, <1>4, <1>5, <1>6, <1>7, <1>8, <1>9, <1>10, <1>11, <1>12, <1>13, <1>14, <1>15, <1>16, <1>17, <1>18, <1>19, <1>20, <1>21, <1>22, <1>23 DEF Next, Program, Console

\* Every way through the compile calls and do_chunk leaves the Lua stack empty: the asserts at
\* the end of do_chunk and before push_line (darepl.cpp) never fail.
THEOREM StackIsBalanced == Spec => []StackBalanced
<1>1. Init => Pushed
  BY DEF Init, Pushed
<1>2. Inv => Flags /\ FatalEnds
  BY DEF Inv, Control
<1>3. Pushed => StackBalanced
  BY DEF Pushed, StackBalanced
<1> QED
  BY Invariant, <1>1, <1>2, <1>3, PushedStep, PTL DEF Spec
==============================================================================
