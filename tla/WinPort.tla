------------------------------ MODULE WinPort -------------------------------
(***************************************************************************)
(* The line buffering of dalua on Windows (serial_win.cpp): read_line cuts *)
(* the bytes ReadFile returns into lines, for receive_status               *)
(* (serial_common.cpp) and for check_serial, which Readline calls while it *)
(* waits for a key (darepl.cpp).  Bytes arrive between any two steps.      *)
(***************************************************************************)
EXTENDS Status, Sequences, SequencesExt

CONSTANTS
  BufSize,   \* sizeof(m_buffer) (128 in the code)
  MaxBytes   \* bound: bytes that arrive in a session

ASSUME WinPortAssumption ==
  BufSize \in Nat \ {0, 1} /\ MaxBytes \in Nat

VARIABLES
  pc,          \* "call" and "more" are before and in the loop of read_line
  user,        \* who called it: "status" (receive_status) or "hook" (check_serial)
  timeout_ms,  \* its argument: -1, 0 or 500
  open,        \* m_handle # INVALID_HANDLE_VALUE
  m_buffer,    \* the first m_size_in bytes of the buffer
  m_size_out,  \* length of the line last returned, or of the text scanned
  len,         \* what read_line returned
  sent,        \* history: the bytes that arrived in this session
  nread,       \* how many of them ReadFile has returned
  given,       \* history: how many of them read_line has returned
  result       \* what receive_status returned

caller == <<user, timeout_ms>>
vars == <<pc, caller, open, m_buffer, m_size_out, len, sent, nread, given, result>>

\* A byte of text, the first byte of a ping, a newline.  A ping is two bytes here.
Byte == {"x", "[", "\n"}
Ping == <<"[", "\n">>

Init ==
  /\ pc = "idle" /\ user = "hook" /\ timeout_ms = 0 /\ open = FALSE
  /\ m_buffer = <<>> /\ m_size_out = 0 /\ len = 0
  /\ sent = <<>> /\ nread = 0 /\ given = 0 /\ result = LUA_OK

-----------------------------------------------------------------------------
(* open, close and the driver *)

Open ==
  /\ pc = "idle" /\ ~open
  /\ open' = TRUE
  /\ sent' = <<>> /\ nread' = 0 /\ given' = 0
  /\ UNCHANGED <<pc, user, timeout_ms, m_buffer, m_size_out, len, result>>

Arrive ==
  /\ open /\ Len(sent) < MaxBytes
  /\ \E b \in Byte : sent' = Append(sent, b)
  /\ UNCHANGED <<pc, caller, open, m_buffer, m_size_out, len, nread, given, result>>

\* close() drops the input of the old session.  (Mutant: it does not.)
KeepInput == open' = FALSE /\ UNCHANGED <<m_buffer, m_size_out>>
Close == open' = FALSE /\ m_buffer' = <<>> /\ m_size_out' = 0

\* A write failed: the writer of lua_dump closes the port.
WriteFails ==
  /\ pc = "idle" /\ open
  /\ Close
  /\ UNCHANGED <<pc, caller, len, sent, nread, given, result>>

-----------------------------------------------------------------------------
(* read_line *)

Call(u, t) ==
  /\ user' = u /\ timeout_ms' = t /\ pc' = "call"

\* receive_status(verbose, t) by open() and do_chunk; check_serial by Readline.
ReceiveStatus ==
  /\ pc = "idle" /\ open
  /\ \E t \in {-1, 500} : Call("status", t)
  /\ UNCHANGED <<open, m_buffer, m_size_out, len, sent, nread, given, result>>

CheckSerial ==
  /\ pc = "idle" /\ open
  /\ Call("hook", 0)
  /\ UNCHANGED <<open, m_buffer, m_size_out, len, sent, nread, given, result>>

\* The line returned last is moved out of the buffer.
Move ==
  /\ pc = "call"
  /\ m_buffer' = SubSeq(m_buffer, m_size_out + 1, Len(m_buffer)) /\ m_size_out' = 0
  /\ pc' = "more"
  /\ UNCHANGED <<caller, open, len, sent, nread, given, result>>

\* The scan goes on where it stopped and ends behind a newline or at the end.  (Mutant: in
\* front of the newline.)
Newlines == {k \in (m_size_out + 1)..Len(m_buffer) : m_buffer[k] = "\n"}
NewlineLeft == IF Newlines # {} THEN Min(Newlines) - 1 ELSE Len(m_buffer)
Scanned == IF Newlines # {} THEN Min(Newlines) ELSE Len(m_buffer)
Complete == Newlines # {} \/ Len(m_buffer) = BufSize

Return(n) ==
  /\ len' = n /\ given' = IF n > 0 THEN given + n ELSE given
  /\ pc' = "returned"

\* A complete line, or a full buffer, is returned.
ReturnLine ==
  /\ pc = "more" /\ Complete
  /\ m_size_out' = Scanned /\ Return(Scanned)
  /\ UNCHANGED <<caller, open, m_buffer, sent, nread, result>>

\* read_some: ReadFile returns some of the bytes that are there, as many as fit.
Space == BufSize - Len(m_buffer)

ReadSome ==
  /\ pc = "more" /\ ~Complete
  /\ \E n \in 1..Space :
       /\ nread + n <= Len(sent)
       /\ m_buffer' = m_buffer \o SubSeq(sent, nread + 1, nread + n)
       /\ nread' = nread + n
  /\ m_size_out' = Scanned
  /\ UNCHANGED <<pc, caller, open, len, sent, given, result>>

\* Out of time, before read_some or in it (it returns 0 then, at once for timeout_ms = 0): the
\* scan position is reset.  (Mutants: it is not, or the text scanned is returned.)
NotReset == m_size_out' = Scanned /\ Return(0)
PartialLine == m_size_out' = Scanned /\ Return(Scanned)
ResetScan == m_size_out' = 0 /\ Return(0)

TimedOut ==
  /\ pc = "more" /\ ~Complete
  /\ timeout_ms > 0 \/ (timeout_ms = 0 /\ nread = Len(sent))
  /\ ResetScan
  /\ UNCHANGED <<caller, open, m_buffer, sent, nread, result>>

\* The device is gone.
ReadError ==
  /\ pc = "more" /\ ~Complete
  /\ Close /\ Return(-1)
  /\ UNCHANGED <<caller, sent, nread, result>>

-----------------------------------------------------------------------------
(* The callers *)

Line == SubSeq(m_buffer, 1, len)

\* receive_status: a status ends it, text does not.
Received ==
  /\ pc = "returned" /\ user = "status"
  /\ IF len <= 0 THEN pc' = "idle" /\ result' = LUA_ERRIO
     ELSE IF Line = Ping THEN pc' = "idle" /\ result' = LUA_OK
     ELSE pc' = "call" /\ UNCHANGED result
  /\ UNCHANGED <<caller, open, m_buffer, m_size_out, len, sent, nread, given>>

\* Its own timeout may end it before the next line is read.
OutOfTime ==
  /\ pc = "call" /\ user = "status" /\ timeout_ms > 0
  /\ pc' = "idle" /\ result' = LUA_ERRIO
  /\ UNCHANGED <<caller, open, m_buffer, m_size_out, len, sent, nread, given>>

\* check_serial shows line after line, until there is none or a key is pressed.
Hooked ==
  /\ pc = "returned" /\ user = "hook"
  /\ IF len > 0 THEN pc' \in {"call", "idle"} ELSE pc' = "idle"
  /\ UNCHANGED <<caller, open, m_buffer, m_size_out, len, sent, nread, given, result>>

-----------------------------------------------------------------------------

\* Steps a call can take without the device.
Program ==
  \/ Move \/ ReturnLine \/ ReadSome \/ TimedOut
  \/ Received \/ OutOfTime \/ Hooked

Next ==
  \/ Open \/ Arrive \/ WriteFails \/ ReceiveStatus \/ CheckSerial \/ ReadError
  \/ Program

\* A call that can go on goes on; nothing is assumed of the device or of the callers.
Spec == Init /\ [][Next]_vars /\ WF_vars(Program)

-----------------------------------------------------------------------------
(* Properties *)

TypeOK ==
  /\ pc \in {"idle", "call", "more", "returned"}
  /\ user \in {"status", "hook"} /\ timeout_ms \in {-1, 0, 500}
  /\ open \in BOOLEAN
  /\ m_buffer \in Seq(Byte)
  /\ m_size_out \in 0..Len(m_buffer) /\ len \in -1..BufSize
  /\ sent \in Seq(Byte) /\ nread \in 0..Len(sent) /\ given \in 0..nread
  /\ result \in {LUA_OK, LUA_ERRIO}

\* The buffer is a window of the session's input: what read_line has returned, the line still
\* to be moved out, the text behind it and what the driver holds follow one another without a
\* byte lost, repeated or left over from an earlier session, also across timeouts; and the window
\* is never larger than the buffer.
WindowOfStream ==
  LET out == IF pc = "more" THEN 0 ELSE m_size_out IN
  /\ IF open THEN m_buffer = SubSeq(sent, given - out + 1, nread) ELSE m_buffer = <<>>
  /\ Len(m_buffer) <= BufSize

\* What read_line returns is a line up to its newline, or a buffer full of text; never the
\* beginning of a line that has only partly arrived.
WholeLines ==
  pc = "returned" /\ len > 0 =>
    /\ \A k \in 1..(len - 1) : Line[k] # "\n"
    /\ Line[len] = "\n" \/ len = BufSize

\* A status is taken only where one was sent as a line of its own, or where a line is too long
\* for the buffer and the text behind the cut looks like one.
StatusIsALine ==
  pc = "returned" /\ len = Len(Ping) /\ Line = Ping =>
    \/ given = Len(Ping)
    \/ sent[given - Len(Ping)] = "\n"
    \/ \A k \in (given - Len(Ping) - BufSize + 1)..(given - Len(Ping)) : k > 0 /\ sent[k] # "\n"

\* receive_status(verbose, -1) finds a ping that is in front of it on a line of its own,
\* whatever text comes before it and however it arrives, unless the port is lost.
PingInSight ==
  \E k \in (given + 1)..(Len(sent) - 1) :
    SubSeq(sent, k, k + 1) = Ping /\ (k = 1 \/ sent[k - 1] = "\n")
StatusDelivered ==
  user = "status" /\ timeout_ms = -1 /\ pc # "idle" /\ PingInSight
    ~> pc = "idle" /\ (result = LUA_OK \/ ~open)
=============================================================================
