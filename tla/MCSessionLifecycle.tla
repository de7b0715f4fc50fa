-------------------------- MODULE MCSessionLifecycle --------------------------
(***************************************************************************)
(* Small instances of SessionLifecycle for TLC.                            *)
(***************************************************************************)
EXTENDS SessionLifecycle

CONSTANTS w1, w2, s1, s2
=============================================================================
