--------------------------- MODULE MCEmailDelivery ---------------------------
(* Small instances of EmailDelivery.                                         *)
EXTENDS EmailDelivery

\* One e-mail is enough for its whole tree: tasks meet in the pool only, and two
\* processes let the attempts of one task overlap.
=============================================================================
