----------------------------- MODULE MCTestClient -----------------------------
(***************************************************************************)
(* Small instances of TestClient for TLC.                                  *)
(***************************************************************************)
EXTENDS TestClient
=============================================================================
