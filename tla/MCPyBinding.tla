------------------------------ MODULE MCPyBinding ------------------------------
(***************************************************************************)
(* PyBinding for TLC.                                                      *)
(***************************************************************************)
EXTENDS PyBinding
===============================================================================
