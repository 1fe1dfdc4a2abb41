-------------------------- MODULE MCInvoiceLifecycle --------------------------
(***************************************************************************)
(* Small instances of InvoiceLifecycle; invoices are interchangeable, and   *)
(* so are requests.                                                         *)
(***************************************************************************)
EXTENDS InvoiceLifecycle, TLC

Interchange == Permutations(Requests) \cup Permutations(Invoices)
=============================================================================
