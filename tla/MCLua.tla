------------------------------- MODULE MCLua --------------------------------
(***************************************************************************)
(* Small instances of Lua.                                                 *)
(***************************************************************************)
EXTENDS Lua

\* One script runs on buttons, the other on sensors as well.
MCFilters == <<{"button"}, {"button", "sensor"}>>
=============================================================================
