------------------------------ MODULE TableMap ------------------------------
(***************************************************************************)
(* What a table promises a Lua program: it maps keys to values, and a      *)
(* traversal with next visits every entry once, in any order, while fields *)
(* are cleared or changed and the garbage collector runs.  Tables          *)
(* implements this with an array part and a hash part.                     *)
(***************************************************************************)
CONSTANTS Key, nil

VARIABLES
  contents,  \* the value of each key
  visited    \* the keys that the traversal has returned, the last one, or "idle"

Init == contents = [k \in Key |-> nil] /\ visited = [on |-> FALSE, keys |-> {}, last |-> nil]

Present == {k \in Key : contents[k] # nil}

\* A field that does not exist may not be assigned during a traversal.
Assign(k) == /\ UNCHANGED visited
             /\ visited.on => contents[k] # nil
             /\ \A j \in Key \ {k} : contents'[j] = contents[j]
             /\ contents'[k] \in Key \cup {nil}

First == /\ ~visited.on
         /\ visited' = [on |-> TRUE, keys |-> {}, last |-> nil]
         /\ UNCHANGED contents

Visit(k) == /\ visited.on /\ k \in Present \ visited.keys
            /\ visited' = [visited EXCEPT !.keys = @ \cup {k}, !.last = k]
            /\ UNCHANGED contents

\* next ends the traversal only when every entry has been visited; a program may stop before.
End == /\ visited.on /\ Present \subseteq visited.keys
       /\ visited' = [on |-> FALSE, keys |-> {}, last |-> nil]
       /\ UNCHANGED contents

Next == \/ \E k \in Key : Assign(k) \/ Visit(k)
        \/ First \/ End

Spec == Init /\ [][Next]_<<contents, visited>>
=============================================================================
