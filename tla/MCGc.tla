-------------------------------- MODULE MCGc --------------------------------
(* Instances of the collector: what may refer to what. *)
EXTENDS Gc
All == Obj \X Obj
NoSelf == {r \in Obj \X Obj : r[1] # r[2]}
=============================================================================
