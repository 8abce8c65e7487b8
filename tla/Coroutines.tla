----------------------------- MODULE Coroutines -----------------------------
(***************************************************************************)
(* What calls, errors and coroutines promise a Lua program: every thread   *)
(* is a stack of activations, an error goes to the innermost protected     *)
(* call of the thread that raised it, and a coroutine yields with all its  *)
(* activations and goes on with all of them.  No C stack, no long jumps,   *)
(* no continuations: those are in Calls, which implements this.            *)
(***************************************************************************)
EXTENDS Naturals, Sequences, SequencesExt

CONSTANTS Main, Coroutine

VARIABLES
  frames,  \* the activations of each thread, by the kind of function
  state,   \* what coroutine.status says of it
  chain    \* the threads that wait for one another, the running one last

Thread == {Main} \cup Coroutine
Running == Last(chain)
Protecting == {"pcall", "xpcall"}

\* No coroutine can be suspended while it runs one of these.
Barrier == {"call", "hooked", "handler"}

Init ==
  /\ frames = [L \in Thread |-> <<>>]
  /\ state = [L \in Thread |-> IF L = Main THEN "running" ELSE "dead"]
  /\ chain = <<Main>>

Frames(s) == frames' = [frames EXCEPT ![Running] = s]

Enter == /\ \E f \in {"lua", "handler", "hooked"} \cup Protecting \cup
                     {"call", "dofile", "yield", "resume", "wrap", "error"} :
              Frames(Append(frames[Running], f))
         /\ UNCHANGED <<state, chain>>

Leave == /\ frames[Running] # <<>>
         /\ Frames(Front(frames[Running]))
         /\ UNCHANGED <<state, chain>>

\* A hook starts, or ends, in the Lua function on top.
Hook == /\ frames[Running] # <<>>
        /\ \E f \in {<<"lua", "hooked">>, <<"hooked", "lua">>} :
             /\ Last(frames[Running]) = f[1]
             /\ Frames(Append(Front(frames[Running]), f[2]))
        /\ UNCHANGED <<state, chain>>

\* The running coroutine gives way to the thread that resumed it.
Back(s) == /\ Running # Main
           /\ chain' = Front(chain)
           /\ state' = [state EXCEPT ![Running] = s, ![Last(Front(chain))] = "running"]

\* An error goes to the innermost protected call, else it ends the thread.
Raise ==
  LET s == frames[Running]
      P == {j \in DOMAIN s : s[j] \in Protecting}
  IN IF P # {}
       THEN Frames(SubSeq(s, 1, CHOOSE j \in P : \A i \in P : i <= j)) /\ UNCHANGED <<state, chain>>
     ELSE IF Running = Main THEN Frames(<<>>) /\ UNCHANGED <<state, chain>>
     ELSE Back("dead") /\ UNCHANGED frames

Create(co) ==
  /\ state[co] = "dead"
  /\ state' = [state EXCEPT ![co] = "suspended"]
  /\ frames' = [frames EXCEPT ![co] = <<>>]
  /\ UNCHANGED chain

Finish == frames[Running] = <<>> /\ Back("dead") /\ UNCHANGED frames

\* coroutine.yield, or a hook that yields, which is over then.
Yield ==
  LET s == frames[Running] IN
  /\ s # <<>> /\ \A j \in DOMAIN Front(s) : s[j] \notin Barrier
  /\ Last(s) \in {"yield", "hooked"}
  /\ Frames(IF Last(s) = "yield" THEN s ELSE Append(Front(s), "lua"))
  /\ Back("suspended")

\* It starts with any function, or yield returns, or the hooked function goes on.
Resume(co) ==
  LET s == frames[co] IN
  /\ state[co] = "suspended"
  /\ state' = [state EXCEPT ![co] = "running", ![Running] = "normal"]
  /\ chain' = Append(chain, co)
  /\ \E t \in {<<f>> : f \in {"lua"} \cup Protecting \cup
                            {"call", "dofile", "yield", "resume", "wrap", "error"}} :
       frames' = [frames EXCEPT ![co] =
         IF s = <<>> THEN t ELSE IF Last(s) = "yield" THEN Front(s) ELSE s]

Next == \/ Enter \/ Leave \/ Hook \/ Raise \/ Finish \/ Yield
        \/ \E co \in Coroutine : Create(co) \/ Resume(co)

Spec == Init /\ [][Next]_<<frames, state, chain>>
=============================================================================
