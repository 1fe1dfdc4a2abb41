--------------------------- MODULE MCAccountLinks ---------------------------
(* Small instances of AccountLinks.                                          *)
EXTENDS AccountLinks, TLC

\* Requests differ in name only.
Interchange == Permutations(Requests)
=============================================================================
