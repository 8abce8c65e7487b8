---------------------------- MODULE RecvTimeout -----------------------------
(***************************************************************************)
(* The timeout of receive_status (serial_common.cpp) against the clock:    *)
(* every line read takes the whole milliseconds that have passed since the *)
(* last one off timeout_ms, and read_line may wait for what is left.       *)
(***************************************************************************)
EXTENDS Integers

CONSTANTS
  Timeout,  \* the timeout_ms that receive_status is called with
  Tick,     \* units of the clock in a millisecond
  MaxTime   \* bound: time units looked at

VARIABLES
  pc,          \* "check" the time, "read" a line, or "done"
  now,         \* the clock, 0 when receive_status is called
  since,       \* when timeout_ms was last brought up to date
  timeout_ms,  \* what is left of it
  deadline     \* when read_line gives up

vars == <<pc, now, since, timeout_ms, deadline>>

Init == pc = "check" /\ now = 0 /\ since = 0 /\ timeout_ms = Timeout /\ deadline = 0

\* duration_cast<milliseconds> rounds down.
elapsed_ms == (now - since) \div Tick

Check ==
  /\ pc = "check"
  /\ IF timeout_ms <= elapsed_ms
       THEN pc' = "done" /\ UNCHANGED <<since, timeout_ms, deadline>>
       ELSE /\ timeout_ms' = timeout_ms - elapsed_ms
            /\ since' = now
            /\ deadline' = now + timeout_ms' * Tick
            /\ pc' = "read"
  /\ UNCHANGED now

\* read_line returns a line without a status.
Text ==
  /\ pc = "read"
  /\ pc' = "check"
  /\ UNCHANGED <<now, since, timeout_ms, deadline>>

Expire ==
  /\ pc = "read" /\ now = deadline
  /\ pc' = "done"
  /\ UNCHANGED <<now, since, timeout_ms, deadline>>

Pass ==
  /\ pc = "read" /\ now < deadline /\ now < MaxTime
  /\ now' = now + 1
  /\ UNCHANGED <<pc, since, timeout_ms, deadline>>

Next == Check \/ Text \/ Expire \/ Pass

Spec == Init /\ [][Next]_vars

-----------------------------------------------------------------------------

\* serial_common.hpp on timeout_ms > 0: "Wait up to the specified timeout in milliseconds."
\* Not counting rounding, of up to as long again.
WaitsUpToTimeout == now <= 2 * Timeout * Tick
=============================================================================
