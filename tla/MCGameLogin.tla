------------------------------ MODULE MCGameLogin ------------------------------
(***************************************************************************)
(* Small instances of GameLogin for TLC.                                   *)
(***************************************************************************)
EXTENDS GameLogin

CONSTANTS s1, s2
=============================================================================
