------------------------------ MODULE MCTables ------------------------------
(* Integers, one of them also as a float, a string and an object; three of one main position. *)
EXTENDS Tables
K(tt, h) == [tt |-> tt, h |-> h]
MCnil == K("nil", 0)
MCKeys == {K("int", 1), K("int", 2), K("integral", 2), K("str", 2), K("obj", 2)}
=============================================================================
