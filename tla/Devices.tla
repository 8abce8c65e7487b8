------------------------------ MODULE Devices -------------------------------
(***************************************************************************)
(* How dalua finds its device when the command line names none             *)
(* (serial_linux.cpp serial::serial, serial_win.cpp find_device): it walks *)
(* a list of entries that the system gives in any order and looks for the  *)
(* only one that names the product.                                        *)
(*                                                                         *)
(* An entry tells whether it names the product and where it leads: "" if   *)
(* the link leads nowhere (a device that was just unplugged) or the        *)
(* registry has no port for it.                                            *)
(***************************************************************************)
EXTENDS Naturals, Sequences, SequencesExt, FiniteSets

CONSTANT Port

Entry == [matches : BOOLEAN, leads : Port \cup {""}]
\* What was found, the message, whether an assertion failed, and whether the walk is over.
Walk == [path |-> "", error |-> "", ok |-> TRUE, found |-> FALSE, over |-> FALSE]

\* DEVICE_PATH when a second entry is found.  (Mutant: the first one stays.)
staysFirst(w) == [w EXCEPT !.found = FALSE, !.over = TRUE]
forgetFirst(w) == [w EXCEPT !.found = FALSE, !.path = "", !.over = TRUE]

\* serial::serial on Linux; the second match ends the walk with found = false and pdirent set.
LinuxEntry(w, e) ==
  CASE w.over \/ ~e.matches -> w
    [] ~w.over /\ e.matches /\ w.found -> forgetFirst(w)
    [] OTHER -> [w EXCEPT !.found = TRUE, !.path = e.leads, !.ok = e.leads # ""]   \* realpath, assert
findLinux(entries) ==
  LET w == FoldLeft(LinuxEntry, Walk, entries) IN
  [w EXCEPT !.error = CASE w.found -> "" [] ~w.found /\ w.over -> "multiple devices" [] OTHER -> "no device"]

\* find_device on Windows; whether there was a match is told by port_name.
WindowsEntry(w, e) ==
  CASE w.over \/ ~e.matches -> w
    [] ~w.over /\ e.matches /\ w.path # "" -> [w EXCEPT !.over = TRUE]
    [] OTHER -> [w EXCEPT !.path = e.leads]
find_device(entries) ==
  LET w == FoldLeft(WindowsEntry, Walk, entries) IN
  CASE w.over -> [w EXCEPT !.path = "", !.error = "multiple devices"]
    [] ~w.over /\ w.path = "" -> [w EXCEPT !.error = "no device"]
    [] OTHER -> w

-----------------------------------------------------------------------------
\* If every entry that names the product leads somewhere, a device is found exactly when one entry
\* does, wherever it stands in the list, the message tells why not, and the assertion holds.
\* In any list, what is found is where an entry that names the product leads; "no device" is said only
\* if none leads anywhere, and "multiple devices" only if several name the product.
\* (Where one of them leads nowhere, the Linux assertion may fail, and Windows may take the second of
\* two for the only one: no claim is made of either.)
FoundRight(entries) ==
  LET matching == {i \in DOMAIN entries : entries[i].matches}
      leads == {entries[i].leads : i \in matching}
      message == CASE Cardinality(matching) = 0 -> "no device" [] Cardinality(matching) = 1 -> "" [] OTHER -> "multiple devices"
  IN \A w \in {findLinux(entries), find_device(entries)} :
       /\ "" \notin leads => /\ w.ok /\ w.error = message
                             /\ IF Cardinality(matching) = 1 THEN leads = {w.path} ELSE w.path = ""
       /\ w.path # "" => w.path \in leads /\ w.error = ""
       /\ w.error = "no device" => leads \subseteq {""}
       /\ w.error = "multiple devices" => Cardinality(matching) > 1
=============================================================================
