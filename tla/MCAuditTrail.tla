---------------------------- MODULE MCAuditTrail ----------------------------
(***************************************************************************)
(* A small instance of AuditTrail: slots are interchangeable, and of the    *)
(* changes there are those that begin, break and mend a story each way.     *)
(***************************************************************************)
EXTENDS AuditTrail, TLC

Slots == Permutations(Requests)

AskedChanges == UNION {
    {c \in InvoiceChanges : c.to # "OVERDUE" /\ c.from # "OVERDUE"},
    Suspensions, Deletions, Reactivations,
    {c \in TenantUpdates : c.from = "active" /\ c.to = "null"}}
=============================================================================
