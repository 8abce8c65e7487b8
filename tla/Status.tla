------------------------------- MODULE Status -------------------------------
(***************************************************************************)
(* The status codes shared by both programs: Lua's own (lua.h, lauxlib.h)  *)
(* and the negative ones this repository adds (lua.hpp, dacomp.h).  The    *)
(* sign matters: a positive status comes with an error message on the Lua  *)
(* stack, a negative one does not.                                         *)
(***************************************************************************)
EXTENDS Integers

LUA_OK        == 0
LUA_YIELD     == 1
LUA_ERRRUN    == 2
LUA_ERRSYNTAX == 3
LUA_ERRMEM    == 4
LUA_ERRFILE   == 7
LUA_ERROPT    == -1
LUA_ERRIO     == -2
LUA_ERRFATAL  == -3

\* INT_MIN: the answer of ping::status() for a line that is not a ping.
LUA_NOSTATUS  == -2147483647 - 1
=============================================================================
