------------------------------- MODULE MCLogin -------------------------------
(***************************************************************************)
(* A small instance of Login.  Its slots are interchangeable, but the run   *)
(* checks a liveness property, so that no symmetry is declared.             *)
(***************************************************************************)
EXTENDS Login
=============================================================================
