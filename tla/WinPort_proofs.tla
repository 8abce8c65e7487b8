--------------------------- MODULE WinPort_proofs ---------------------------
(***************************************************************************)
(* Theorems about WinPort, for a buffer of any size and any input.         *)
(*                                                                         *)
(* The invariant says of every byte of the buffer which byte of the        *)
(* session it is, where the last two cuts between lines were made, and     *)
(* how far the text behind the last one has been searched.                 *)
(***************************************************************************)
EXTENDS WinPort, SequenceTheorems, Induction

USE WinPortAssumption

\* Where the text at the beginning of the buffer is in the session's input.
out == IF pc = "more" THEN 0 ELSE m_size_out

\* WindowOfStream byte for byte.
Window ==
  /\ ~open => m_buffer = <<>>
  /\ open => /\ out <= given /\ Len(m_buffer) = nread - (given - out)
             /\ \A k \in 1..Len(m_buffer) : m_buffer[k] = sent[given - out + k]
  /\ Len(m_buffer) <= BufSize

\* read_line cuts behind a newline, or behind a buffer full of text.
Cut(s, c) ==
  \/ c = 0
  \/ s[c] = "\n"
  \/ c >= BufSize /\ \A k \in (c - BufSize + 1)..c : s[k] # "\n"
Cuts == open => Cut(sent, given - out) /\ Cut(sent, given)

\* What has been scanned has no newline.
Searched == pc = "more" => \A k \in 1..m_size_out : m_buffer[k] # "\n"

\* A line that read_line has returned is still in the buffer.
Returned ==
  pc = "returned" /\ len > 0 =>
    /\ len = m_size_out
    /\ \A k \in 1..(len - 1) : m_buffer[k] # "\n"
    /\ m_buffer[len] = "\n" \/ len = BufSize

OpenInCall == pc \in {"call", "more"} \/ (pc = "returned" /\ len > 0) => open

IInv == TypeOK /\ OpenInCall /\ Window /\ Cuts /\ Searched /\ Returned

-----------------------------------------------------------------------------
\* The scan stops at the first newline behind what was scanned, or at the end.
LEMMA ScannedIs ==
  ASSUME TypeOK
  PROVE  /\ Scanned \in Nat /\ m_size_out <= Scanned /\ Scanned <= Len(m_buffer)
         /\ \A k \in (m_size_out + 1)..(Scanned - 1) : m_buffer[k] # "\n"
         /\ Newlines # {} => Scanned > m_size_out /\ m_buffer[Scanned] = "\n"
         /\ Newlines = {} => Scanned = Len(m_buffer) /\ \A k \in (m_size_out + 1)..Len(m_buffer) : m_buffer[k] # "\n"
<1>1. m_buffer \in Seq(Byte) /\ Len(m_buffer) \in Nat /\ m_size_out \in Nat /\ m_size_out <= Len(m_buffer)
  BY DEF TypeOK
<1>2. CASE Newlines = {}
  <2>1. Scanned = Len(m_buffer)
    BY <1>2 DEF Scanned
  <2>2. \A k \in (m_size_out + 1)..Len(m_buffer) : m_buffer[k] # "\n"
    BY <1>2 DEF Newlines
  <2> QED
    BY <1>1, <1>2, <2>1, <2>2
<1>3. CASE Newlines # {}
  <2>1. Newlines \in SUBSET Nat
    BY <1>1 DEF Newlines
  <2>2. PICK m \in Newlines : \A n \in Newlines : m <= n
    BY <1>3, <2>1, LeastOf
  <2>3. Min(Newlines) = CHOOSE x \in Newlines : \A y \in Newlines : x <= y
    BY DEF Min
  <2>4. Min(Newlines) \in Newlines /\ \A n \in Newlines : Min(Newlines) <= n
    BY <2>2, <2>3
  <2>5. Scanned = Min(Newlines)
    BY <1>3 DEF Scanned
  <2>6. Scanned \in (m_size_out + 1)..Len(m_buffer) /\ m_buffer[Scanned] = "\n"
    BY <2>4, <2>5 DEF Newlines
  <2>7. \A k \in (m_size_out + 1)..(Scanned - 1) : m_buffer[k] # "\n"
    <3> SUFFICES ASSUME NEW k \in (m_size_out + 1)..(Scanned - 1), m_buffer[k] = "\n" PROVE FALSE
      OBVIOUS
    <3>1. k \in Newlines
      BY <1>1, <2>6 DEF Newlines
    <3> QED
      BY <1>1, <2>4, <2>5, <2>6, <3>1
  <2> QED
    BY <1>1, <1>3, <2>6, <2>7
<1> QED
  BY <1>2, <1>3

USE DEF LUA_OK, LUA_ERRIO

LEMMA TypesStep == IInv /\ Next => TypeOK'
<1> SUFFICES ASSUME IInv, Next PROVE TypeOK'
  OBVIOUS
<1> USE DEF TypeOK, caller, Byte
<1>0. TypeOK
  BY DEF IInv
<1>1. CASE Open
  BY <1>0, <1>1 DEF Open, IInv, Window
<1>2. CASE Arrive
  BY <1>0, <1>2 DEF Arrive
<1>3. CASE WriteFails
  <2>1. open' \in BOOLEAN
    BY <1>3, Zenon DEF WriteFails, Close
  <2>2. m_buffer' \in Seq(Byte) /\ Len(m_buffer') = 0 /\ m_size_out' = 0
    BY <1>3 DEF WriteFails, Close
  <2> QED
    BY <1>0, <1>3, <2>1, <2>2 DEF WriteFails
<1>4. CASE ReceiveStatus
  BY <1>0, <1>4 DEF ReceiveStatus, Call
<1>5. CASE CheckSerial
  BY <1>0, <1>5 DEF CheckSerial, Call
<1>6. CASE ReadError
  <2>1. open' \in BOOLEAN
    BY <1>6, Zenon DEF ReadError, Close
  <2>2. m_buffer' \in Seq(Byte) /\ Len(m_buffer') = 0 /\ m_size_out' = 0
    BY <1>6 DEF ReadError, Close
  <2> QED
    BY <1>0, <1>6, <2>1, <2>2 DEF ReadError, Return
<1>7. CASE Move
  BY <1>0, <1>7 DEF Move
<1>8. CASE ReturnLine
  <2>1. Scanned \in Nat /\ Scanned <= Len(m_buffer)
    BY <1>0, ScannedIs
  <2>2. Scanned <= BufSize /\ given + Scanned <= nread
    BY <1>0, <1>8, <2>1 DEF IInv, OpenInCall, Window, out, ReturnLine
  <2> QED
    BY <1>0, <1>8, <2>1, <2>2 DEF ReturnLine, Return
<1>9. CASE ReadSome
  <2>1. Scanned \in Nat /\ Scanned <= Len(m_buffer)
    BY <1>0, ScannedIs
  <2>2. PICK n \in 1..Space : /\ nread + n <= Len(sent)
                              /\ m_buffer' = m_buffer \o SubSeq(sent, nread + 1, nread + n)
                              /\ nread' = nread + n
    BY <1>9 DEF ReadSome
  <2>3. SubSeq(sent, nread + 1, nread + n) \in Seq(Byte)
    BY <1>0, <2>2 DEF Space
  <2>4. m_buffer' \in Seq(Byte) /\ Len(m_buffer') >= Len(m_buffer)
    BY <1>0, <2>2, <2>3
  <2> QED
    BY <1>0, <1>9, <2>1, <2>2, <2>4 DEF ReadSome, Space
<1>10. CASE TimedOut
  BY <1>0, <1>10 DEF TimedOut, ResetScan, Return
<1>11. CASE Received
  BY <1>0, <1>11 DEF Received
<1>12. CASE OutOfTime
  BY <1>0, <1>12 DEF OutOfTime
<1>13. CASE Hooked
  BY <1>0, <1>13 DEF Hooked
<1> QED
  BY <1>1, <1>2, <1>3, <1>4, <1>5, <1>6, <1>7, <1>8, <1>9, <1>10, <1>11, <1>12, <1>13 DEF Next, Program

\* What read_line returned last, and the text behind it, stay where they are in the input.
LEMMA WindowStep == IInv /\ Next => OpenInCall' /\ Window'
<1> SUFFICES ASSUME IInv, Next PROVE OpenInCall' /\ Window'
  OBVIOUS
<1> USE DEF OpenInCall, Window, out
<1>0. TypeOK /\ OpenInCall /\ Window
  BY DEF IInv
<1>1. CASE Open
  BY <1>0, <1>1 DEF Open, TypeOK
<1>2. CASE Arrive
  <2>1. \A k \in 1..Len(sent) : sent'[k] = sent[k]
    BY <1>0, <1>2 DEF Arrive, TypeOK
  <2> QED
    BY <1>0, <1>2, <2>1 DEF Arrive, TypeOK, caller
<1>3. CASE WriteFails
  BY <1>0, <1>3 DEF WriteFails, Close, caller
<1>4. CASE ReceiveStatus
  BY <1>0, <1>4 DEF ReceiveStatus, Call
<1>5. CASE CheckSerial
  BY <1>0, <1>5 DEF CheckSerial, Call
<1>6. CASE ReadError
  BY <1>0, <1>6 DEF ReadError, Close, Return
<1>7. CASE Move
  <2>1. /\ Len(m_buffer') = Len(m_buffer) - m_size_out
        /\ \A k \in 1..Len(m_buffer') : m_buffer'[k] = m_buffer[m_size_out + k]
    BY <1>0, <1>7 DEF Move, TypeOK
  <2> QED
    BY <1>0, <1>7, <2>1 DEF Move, TypeOK, caller
<1>8. CASE ReturnLine
  <2>1. Scanned \in Nat /\ Scanned <= Len(m_buffer)
    BY <1>0, ScannedIs
  <2>2. given' = given + Scanned /\ pc = "more" /\ pc' = "returned" /\ m_size_out' = Scanned
    BY <1>0, <1>8, <2>1 DEF ReturnLine, Return, TypeOK
  <2>3. open' = open /\ m_buffer' = m_buffer /\ sent' = sent /\ nread' = nread
    BY <1>8 DEF ReturnLine
  <2>4. out = 0 /\ out' = Scanned /\ given' - out' = given
    BY <1>0, <2>1, <2>2 DEF TypeOK
  <2> QED
    BY <1>0, <2>1, <2>2, <2>3, <2>4 DEF TypeOK
<1>9. CASE ReadSome
  <2>2. PICK n \in 1..Space : /\ nread + n <= Len(sent)
                              /\ m_buffer' = m_buffer \o SubSeq(sent, nread + 1, nread + n)
                              /\ nread' = nread + n
    BY <1>9 DEF ReadSome
  <2> DEFINE s == SubSeq(sent, nread + 1, nread + n)
  <2>3. s \in Seq(Byte) /\ Len(s) = n /\ \A k \in 1..n : s[k] = sent[nread + k]
    <3>1. nread \in Nat /\ n \in Nat /\ \A i \in (nread + 1)..(nread + n) : sent[i] \in Byte
      BY <1>0, <2>2 DEF Space, TypeOK
    <3> QED
      BY <2>2, <3>1, SubSeqProperties
  <2> HIDE DEF s
  <2>4. /\ Len(m_buffer') = Len(m_buffer) + n
        /\ \A k \in 1..Len(m_buffer) : m_buffer'[k] = m_buffer[k]
        /\ \A k \in 1..n : m_buffer'[Len(m_buffer) + k] = s[k]
    BY <1>0, <2>2, <2>3 DEF TypeOK, s
  <2>5. pc = "more" /\ pc' = "more" /\ open /\ open' /\ given' = given /\ sent' = sent
    BY <1>0, <1>9 DEF ReadSome, caller
  <2>6. Len(m_buffer) = nread - given /\ given \in Nat /\ nread \in Nat /\ Len(m_buffer) \in Nat
    BY <1>0, <2>5 DEF TypeOK
  <2>7. \A k \in 1..Len(m_buffer') : m_buffer'[k] = sent[given + k]
    <3> TAKE k \in 1..Len(m_buffer')
    <3>1. CASE k <= Len(m_buffer)
      BY <1>0, <2>4, <2>5, <2>6, <3>1
    <3>2. CASE k > Len(m_buffer)
      <4>1. k - Len(m_buffer) \in 1..n /\ k = Len(m_buffer) + (k - Len(m_buffer))
        BY <2>2, <2>4, <2>6, <3>2 DEF Space
      <4>2. m_buffer'[k] = sent[nread + (k - Len(m_buffer))]
        BY <2>3, <2>4, <4>1
      <4> QED
        BY <2>6, <4>2
    <3> QED
      BY <2>2, <2>4, <2>6, <3>1, <3>2 DEF Space
  <2> QED
    BY <2>2, <2>4, <2>5, <2>6, <2>7 DEF Space
<1>10. CASE TimedOut
  BY <1>0, <1>10 DEF TimedOut, ResetScan, Return, TypeOK, caller
<1>11. CASE Received
  <2>1. pc = "returned" /\ pc' \in {"idle", "call"} /\ (pc' = "call" => len > 0)
    BY <1>0, <1>11 DEF Received, TypeOK
  <2> QED
    BY <1>0, <1>11, <2>1 DEF Received
<1>12. CASE OutOfTime
  BY <1>0, <1>12 DEF OutOfTime, caller
<1>13. CASE Hooked
  BY <1>0, <1>13 DEF Hooked, caller
<1> QED
  BY <1>1, <1>2, <1>3, <1>4, <1>5, <1>6, <1>7, <1>8, <1>9, <1>10, <1>11, <1>12, <1>13 DEF Next, Program

\* A step that gives no line leaves the cuts where they are, or forgets the older one.
LEMMA CutsKept ==
  ASSUME TypeOK, Window, Cuts, open, open', given' = given, given' - out' \in {given, given - out},
         \A k \in 1..given : sent'[k] = sent[k]
  PROVE  Cuts'
<1>1. \A c \in 0..given : Cut(sent, c) => Cut(sent', c)
  BY DEF Cut, TypeOK
<1>2. given \in Nat /\ out \in Nat /\ out <= given
  BY DEF Window, out, TypeOK
<1>3. Cut(sent, given) /\ Cut(sent, given - out)
  BY DEF Cuts
<1>4. Cut(sent', given) /\ Cut(sent', given - out)
  BY <1>1, <1>2, <1>3
<1> QED
  BY <1>4 DEF Cuts

LEMMA CutsStep == IInv /\ Next => Cuts'
<1> SUFFICES ASSUME IInv, Next PROVE Cuts'
  OBVIOUS
<1>0. TypeOK /\ OpenInCall /\ Window /\ Cuts /\ Searched
  BY DEF IInv
<1>1. CASE ~open'
  BY <1>1 DEF Cuts
<1>2. CASE Open
  BY <1>0, <1>2 DEF Open, Cuts, Cut, Window, TypeOK, out
<1>3. CASE ReturnLine
  <2>1. /\ Scanned \in Nat /\ m_size_out <= Scanned /\ Scanned <= Len(m_buffer)
        /\ \A k \in (m_size_out + 1)..(Scanned - 1) : m_buffer[k] # "\n"
        /\ Newlines # {} => Scanned > m_size_out /\ m_buffer[Scanned] = "\n"
        /\ Newlines = {} => Scanned = Len(m_buffer) /\ \A k \in (m_size_out + 1)..Len(m_buffer) : m_buffer[k] # "\n"
    BY <1>0, ScannedIs
  <2>2. /\ given' = given + Scanned /\ pc = "more" /\ pc' = "returned" /\ m_size_out' = Scanned
        /\ sent' = sent /\ open
    BY <1>0, <1>3, <2>1 DEF ReturnLine, Return, TypeOK, OpenInCall
  <2>3. out = 0 /\ given' - out' = given /\ given \in Nat
    BY <1>0, <2>1, <2>2 DEF TypeOK, out
  <2>4. Cut(sent, given)
    BY <1>0, <2>2 DEF Cuts
  <2>5. \A k \in 1..Len(m_buffer) : m_buffer[k] = sent[given + k]
    BY <1>0, <2>2, <2>3 DEF Window
  <2>6. CASE Newlines # {}
    <3>1. sent[given + Scanned] = "\n"
      BY <2>1, <2>5, <2>6, <1>0 DEF TypeOK
    <3> QED
      BY <2>2, <2>3, <2>4, <3>1 DEF Cuts, Cut
  <2>7. CASE Newlines = {}
    <3>1. Scanned = BufSize /\ Len(m_buffer) = BufSize
      BY <1>3, <2>1, <2>7 DEF ReturnLine, Complete
    <3>2. \A k \in 1..BufSize : m_buffer[k] # "\n"
      BY <1>0, <2>1, <2>2, <2>7, <3>1 DEF Searched, TypeOK
    <3>3. \A k \in (given + 1)..(given + BufSize) : sent[k] # "\n"
      <4> TAKE k \in (given + 1)..(given + BufSize)
      <4>1. k - given \in 1..BufSize /\ k = given + (k - given)
        BY <2>3
      <4> QED
        BY <2>5, <3>1, <3>2, <4>1
    <3>4. Cut(sent, given + BufSize)
      BY <2>3, <3>3 DEF Cut
    <3> QED
      BY <2>2, <2>3, <2>4, <3>1, <3>4 DEF Cuts
  <2> QED
    BY <2>6, <2>7
<1>4. CASE Arrive
  <2>1. \A k \in 1..given : sent'[k] = sent[k]
    BY <1>0, <1>4 DEF Arrive, TypeOK
  <2> QED
    BY <1>0, <1>4, <2>1, CutsKept DEF Arrive, out, caller
<1>5. CASE ReceiveStatus \/ CheckSerial \/ OutOfTime \/ Received \/ Hooked \/ Move \/ ReadSome
  <2>1. given' = given /\ sent' = sent /\ open' = open
    BY <1>5 DEF ReceiveStatus, CheckSerial, OutOfTime, Received, Hooked, Move, ReadSome
  <2>2. out' \in {out, 0}
    BY <1>5 DEF ReceiveStatus, CheckSerial, OutOfTime, Received, Hooked, Move, ReadSome, Call, out
  <2>3. given' - out' \in {given, given - out}
    BY <1>0, <2>1, <2>2 DEF TypeOK
  <2> QED
    BY <1>0, <1>1, <2>1, <2>3, CutsKept
<1>6. CASE TimedOut
  <2>1. given' = given /\ sent' = sent /\ open' = open /\ out' = 0
    BY <1>0, <1>6 DEF TimedOut, ResetScan, Return, out
  <2> QED
    BY <1>0, <1>1, <2>1, CutsKept DEF TypeOK
<1>7. CASE WriteFails \/ ReadError
  BY <1>1, <1>7 DEF WriteFails, ReadError, Close
<1> QED
  BY <1>2, <1>3, <1>4, <1>5, <1>6, <1>7 DEF Next, Program

LEMMA SearchedStep == IInv /\ Next => Searched'
<1> SUFFICES ASSUME IInv, Next, pc' = "more" PROVE \A k \in 1..(m_size_out') : m_buffer'[k] # "\n"
  BY DEF Searched
<1>0. TypeOK /\ Searched
  BY DEF IInv
<1>1. CASE Move
  BY <1>1 DEF Move
<1>2. CASE ReadSome
  <2>1. /\ Scanned \in Nat /\ Scanned <= Len(m_buffer)
        /\ Newlines = {} => Scanned = Len(m_buffer) /\ \A k \in (m_size_out + 1)..Len(m_buffer) : m_buffer[k] # "\n"
    BY <1>0, ScannedIs
  <2>2. Newlines = {} /\ m_size_out' = Len(m_buffer) /\ pc = "more"
    BY <1>2, <2>1 DEF ReadSome, Complete
  <2>3. \A k \in 1..Len(m_buffer) : m_buffer[k] # "\n"
    BY <1>0, <2>1, <2>2 DEF Searched, TypeOK
  <2>4. PICK n \in 1..Space : nread + n <= Len(sent) /\ m_buffer' = m_buffer \o SubSeq(sent, nread + 1, nread + n)
    BY <1>2 DEF ReadSome
  <2>5. SubSeq(sent, nread + 1, nread + n) \in Seq(Byte)
    <3>1. nread \in Nat /\ n \in Nat /\ \A i \in (nread + 1)..(nread + n) : sent[i] \in Byte
      BY <1>0, <2>4 DEF Space, TypeOK
    <3> QED
      BY <3>1, SubSeqProperties
  <2>6. \A k \in 1..Len(m_buffer) : m_buffer'[k] = m_buffer[k]
    BY <1>0, <2>4, <2>5 DEF TypeOK
  <2> QED
    BY <1>0, <2>2, <2>3, <2>6 DEF TypeOK
<1>3. CASE Arrive
  BY <1>0, <1>3 DEF Arrive, Searched
<1> QED
  BY <1>0, <1>1, <1>2, <1>3 DEF Next, Program, Open, WriteFails, ReceiveStatus, CheckSerial, ReadError, Call, Close,
     Return, ReturnLine, TimedOut, ResetScan, Received, OutOfTime, Hooked

LEMMA ReturnedStep == IInv /\ Next => Returned'
<1> SUFFICES ASSUME IInv, Next, pc' = "returned", len' > 0
             PROVE  /\ len' = m_size_out'
                    /\ \A k \in 1..(len' - 1) : m_buffer'[k] # "\n"
                    /\ m_buffer'[len'] = "\n" \/ len' = BufSize
  BY DEF Returned
<1>0. TypeOK /\ Searched /\ Returned
  BY DEF IInv
<1>1. CASE ReturnLine
  <2>1. /\ Scanned \in Nat /\ m_size_out <= Scanned /\ Scanned <= Len(m_buffer)
        /\ \A k \in (m_size_out + 1)..(Scanned - 1) : m_buffer[k] # "\n"
        /\ Newlines # {} => Scanned > m_size_out /\ m_buffer[Scanned] = "\n"
        /\ Newlines = {} => Scanned = Len(m_buffer)
    BY <1>0, ScannedIs
  <2>2. pc = "more" /\ len' = Scanned /\ m_size_out' = Scanned /\ m_buffer' = m_buffer
    BY <1>1 DEF ReturnLine, Return
  <2>3. \A k \in 1..(Scanned - 1) : m_buffer[k] # "\n"
    BY <1>0, <2>1, <2>2 DEF Searched, TypeOK
  <2>4. m_buffer[Scanned] = "\n" \/ Scanned = BufSize
    BY <1>1, <2>1 DEF ReturnLine, Complete
  <2> QED
    BY <2>2, <2>3, <2>4
<1>2. CASE Arrive
  BY <1>0, <1>2 DEF Arrive, Returned
<1> QED
  BY <1>0, <1>1, <1>2 DEF Next, Program, Open, WriteFails, ReceiveStatus, CheckSerial, ReadError, Call, Close,
     Return, Move, ReadSome, TimedOut, ResetScan, Received, OutOfTime, Hooked

-----------------------------------------------------------------------------
\* In every state the buffer, the scan and the cuts are where the session's input has them.
THEOREM Invariant == Spec => []IInv
<1>1. Init => IInv
  <2> SUFFICES ASSUME Init PROVE IInv
    OBVIOUS
  <2>1. open \in BOOLEAN
    BY Zenon DEF Init
  <2>2. TypeOK
    BY <2>1 DEF Init, TypeOK, Byte
  <2> QED
    BY <2>2 DEF Init, IInv, OpenInCall, Window, Cuts, Searched, Returned, out
<1>2. IInv /\ [Next]_vars => IInv'
  <2>1. IInv /\ Next => IInv'
    BY TypesStep, WindowStep, CutsStep, SearchedStep, ReturnedStep DEF IInv
  <2>2. IInv /\ UNCHANGED vars => IInv'
    BY DEF IInv, vars, caller, TypeOK, OpenInCall, Window, Cuts, Cut, Searched, Returned, out
  <2> QED
    BY <2>1, <2>2
<1> QED
  BY <1>1, <1>2, PTL DEF Spec

\* Every variable keeps its type; the line scanned lies in the buffer, the bytes given among those read.
THEOREM TypeCorrect == Spec => []TypeOK
<1>1. IInv => TypeOK
  BY DEF IInv
<1> QED
  BY <1>1, Invariant, PTL

\* For any size of m_buffer, and across any timeouts and reconnections, read_line's buffer is a
\* window of what the device has sent in this session: no byte is lost, repeated or left over.
THEOREM BufferIsWindow == Spec => []WindowOfStream
<1>1. IInv => WindowOfStream
  <2> SUFFICES ASSUME IInv, open PROVE m_buffer = SubSeq(sent, given - out + 1, nread)
    BY DEF IInv, Window, WindowOfStream, out
  <2>1. TypeOK /\ Window
    BY DEF IInv
  <2>2. out \in Nat /\ out <= given /\ Len(m_buffer) = nread - (given - out)
    BY <2>1 DEF Window, TypeOK, out
  <2> DEFINE a == given - out + 1
  <2>3. a \in Nat \ {0} /\ nread \in Nat /\ nread <= Len(sent) /\ Len(m_buffer) = nread - a + 1
    BY <2>1, <2>2 DEF TypeOK
  <2>4. \A k \in 1..Len(m_buffer) : m_buffer[k] = sent[a + k - 1]
    <3> TAKE k \in 1..Len(m_buffer)
    <3>1. given - out + k = a + k - 1
      BY <2>1, <2>2 DEF TypeOK
    <3>2. m_buffer[k] = sent[given - out + k]
      BY <2>1 DEF Window
    <3> QED
      BY <3>1, <3>2
  <2>5. \A i \in a..nread : sent[i] \in Byte
    BY <2>1, <2>3 DEF TypeOK
  <2> HIDE DEF a
  <2> DEFINE w == SubSeq(sent, a, nread)
  <2>6. /\ w \in Seq(Byte) /\ Len(w) = IF a <= nread THEN nread - a + 1 ELSE 0
        /\ \A k \in 1..(nread - a + 1) : w[k] = sent[a + k - 1]
    BY <2>3, <2>5, SubSeqProperties
  <2> HIDE DEF w
  <2>7. Len(w) = Len(m_buffer) /\ \A k \in 1..Len(m_buffer) : w[k] = m_buffer[k]
    BY <2>1, <2>3, <2>4, <2>6 DEF TypeOK
  <2>8. w = m_buffer
    BY <2>1, <2>6, <2>7, SeqEqual DEF TypeOK
  <2> QED
    BY <2>8 DEF w, a
<1> QED
  BY <1>1, Invariant, PTL

\* What read_line returns is a line up to its newline or a buffer full of text, however the bytes
\* arrived and whatever timeouts interrupted the scan.
THEOREM LinesAreWhole == Spec => []WholeLines
<1>1. IInv => WholeLines
  <2> SUFFICES ASSUME IInv, pc = "returned", len > 0
               PROVE  /\ \A k \in 1..(len - 1) : Line[k] # "\n"
                      /\ Line[len] = "\n" \/ len = BufSize
    BY DEF WholeLines
  <2>1. TypeOK /\ Returned
    BY DEF IInv
  <2>2. \A k \in 1..len : Line[k] = m_buffer[k]
    BY <2>1 DEF Returned, TypeOK, Line
  <2> QED
    BY <2>1, <2>2 DEF Returned, TypeOK
<1> QED
  BY <1>1, Invariant, PTL

\* receive_status takes a ping for a status only if one was sent as a line of its own, or behind
\* a buffer full of text without a newline.
THEOREM StatusesAreLines == Spec => []StatusIsALine
<1>1. IInv => StatusIsALine
  <2> SUFFICES ASSUME IInv, pc = "returned", len = 2
               PROVE  \/ given = 2 \/ sent[given - 2] = "\n"
                      \/ \A k \in (given - 2 - BufSize + 1)..(given - 2) : k > 0 /\ sent[k] # "\n"
    BY DEF StatusIsALine, Ping
  <2>1. TypeOK /\ Returned /\ OpenInCall /\ Cuts /\ Window
    BY DEF IInv
  <2>2. m_size_out = 2 /\ open /\ given \in Nat /\ out = 2 /\ out <= given
    BY <2>1 DEF Returned, OpenInCall, out, Window, TypeOK
  <2>3. Cut(sent, given - 2)
    BY <2>1, <2>2 DEF Cuts
  <2> QED
    BY <2>2, <2>3 DEF Cut
<1> QED
  BY <1>1, Invariant, PTL
=============================================================================
