------------------------------ MODULE MCKeepOne ------------------------------
(***************************************************************************)
(* KeepOneCases for TLC: every group of up to three listed copies.          *)
(***************************************************************************)
EXTENDS KeepOneCases
MCPaths == 1..3
=============================================================================
