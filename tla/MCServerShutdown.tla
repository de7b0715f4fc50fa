--------------------------- MODULE MCServerShutdown ---------------------------
(***************************************************************************)
(* Small instances of ServerShutdown for TLC.                              *)
(***************************************************************************)
EXTENDS ServerShutdown

CONSTANTS p1, p2
=============================================================================
