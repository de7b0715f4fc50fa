--------------------------- MODULE MCSendPipeline ---------------------------
(***************************************************************************)
(* Small instances of SendPipeline for TLC.                                *)
(***************************************************************************)
EXTENDS SendPipeline

CONSTANTS t1, t2
=============================================================================
