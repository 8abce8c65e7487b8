----------------------------- MODULE SerialLink -----------------------------
(***************************************************************************)
(* What dalua talks to, none of it code of this repository: the USB cable, *)
(* the kernel's line-buffered tty and the Lua REPL on the device, as       *)
(* serial_linux.cpp and serial_common.hpp rely on them.                    *)
(*                                                                         *)
(* A line to the host is [st, of]: the status in it (LUA_NOSTATUS for      *)
(* program output and log messages) and the chunk it answers (0 for a      *)
(* ping).  A message to the device is [of, last]: a block of a dumped      *)
(* chunk, or a ping (of = 0).                                              *)
(***************************************************************************)
EXTENDS Status, Sequences

CONSTANT MaxRx  \* bound: lines waiting to be read while the device still prints text

ASSUME SerialLinkAssumption == MaxRx \in Nat

VARIABLES
  plugged,  \* is there a node to open?
  hup,      \* has the tty dalua opened been hung up?
  rx,       \* lines in the tty's input queue
  tx,       \* messages on their way to the device
  dev,      \* the device: "boot", "dfu" (firmware update) or "repl"
  run       \* the chunk it is executing, 0 when it waits for input

link == <<plugged, hup, rx, tx, dev, run>>

Ping        == [of |-> 0, last |-> TRUE]
Block(k, l) == [of |-> k, last |-> l]
Text        == [st |-> LUA_NOSTATUS, of |-> 0]

LinkInit ==
  /\ plugged \in BOOLEAN /\ dev \in {"boot", "dfu", "repl"}
  /\ hup = FALSE /\ rx = <<>> /\ tx = <<>> /\ run = 0

\* The device goes away: the tty is hung up and both queues are lost.
Unplug ==
  /\ plugged
  /\ plugged' = FALSE /\ hup' = TRUE
  /\ rx' = <<>> /\ tx' = <<>> /\ dev' = "boot" /\ run' = 0

\* It comes back as a new tty.  A file opened before stays hung up.
Replug ==
  /\ ~plugged
  /\ plugged' = TRUE
  /\ UNCHANGED <<hup, rx, tx, dev, run>>

Boot ==
  /\ plugged /\ dev # "repl"
  /\ dev' \in (IF dev = "boot" THEN {"dfu", "repl"} ELSE {"repl"})
  /\ UNCHANGED <<plugged, hup, rx, tx, run>>

\* It answers a ping: LUA_OK, or LUA_YIELD while in firmware-update mode.
Pong ==
  /\ plugged /\ tx # <<>> /\ Head(tx) = Ping /\ dev # "boot" /\ run = 0
  /\ tx' = Tail(tx)
  /\ rx' = Append(rx, [st |-> IF dev = "repl" THEN LUA_OK ELSE LUA_YIELD, of |-> 0])
  /\ UNCHANGED <<plugged, hup, dev, run>>

\* It collects the blocks of a chunk and executes it after the last.
Receive ==
  /\ plugged /\ tx # <<>> /\ Head(tx) # Ping /\ dev = "repl" /\ run = 0
  /\ tx' = Tail(tx)
  /\ run' = IF Head(tx).last THEN Head(tx).of ELSE 0
  /\ UNCHANGED <<plugged, hup, rx, dev>>

\* Output of the program or a log message.
Output ==
  /\ plugged /\ dev = "repl" /\ Len(rx) < MaxRx
  /\ rx' = Append(rx, Text)
  /\ UNCHANGED <<plugged, hup, tx, dev, run>>

\* The chunk ends, or fails; its error message went out as text.
Finish ==
  /\ plugged /\ run # 0
  /\ \E s \in {LUA_OK, LUA_ERRRUN} : rx' = Append(rx, [st |-> s, of |-> run])
  /\ run' = 0
  /\ UNCHANGED <<plugged, hup, tx, dev>>

LinkNext == Unplug \/ Replug \/ Boot \/ Pong \/ Receive \/ Output \/ Finish
=============================================================================
