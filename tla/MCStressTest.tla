----------------------------- MODULE MCStressTest -----------------------------
(***************************************************************************)
(* Small instances of StressTest for TLC.                                  *)
(***************************************************************************)
EXTENDS StressTest
=============================================================================
