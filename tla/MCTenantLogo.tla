---------------------------- MODULE MCTenantLogo ----------------------------
(***************************************************************************)
(* A small instance of TenantLogo: slots and extensions are interchangeable.*)
(***************************************************************************)
EXTENDS TenantLogo, TLC

Interchange == Permutations(Requests) \cup Permutations(Extensions)
=============================================================================
