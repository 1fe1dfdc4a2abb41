----------------------------- MODULE InvoiceBook -----------------------------
(***************************************************************************)
(* What invoice numbering promises to its callers: a tenant's book of       *)
(* invoices in which no two entries bear the same number, and an answer to  *)
(* every create call that agrees with the book.  Nothing is said here of    *)
(* the counter, of locks or of transactions.                                *)
(***************************************************************************)
CONSTANT Requests     \* the POST /invoices calls

VARIABLES book,       \* the entries [by, number] of the invoices table
          outcome     \* what became of each call

vars == <<book, outcome>>

Init == /\ book = {}
        /\ outcome = [r \in Requests |-> "pending"]

\* A call enters an invoice under a number that no entry bears.
Enter(r) ==
    /\ outcome[r] = "pending"
    /\ \E e \in book' \ book :
           /\ e.by = r
           /\ \A d \in book : d.number # e.number
           /\ book' = book \cup {e}
    /\ outcome' = [outcome EXCEPT ![r] = "entered"]

\* The caller is told 201, only once the invoice was entered.
Confirm(r) ==
    /\ outcome[r] = "entered"
    /\ outcome' = [outcome EXCEPT ![r] = "created"]
    /\ UNCHANGED book

\* The caller is told 400, only while another call's invoice is in the book.
Refuse(r) ==
    /\ outcome[r] = "pending"
    /\ \E e \in book : e.by # r
    /\ outcome' = [outcome EXCEPT ![r] = "refused"]
    /\ UNCHANGED book

\* The caller is told nothing: the worker died.
Lose(r) ==
    /\ outcome[r] \in {"pending", "entered"}
    /\ outcome' = [outcome EXCEPT ![r] = "lost"]
    /\ UNCHANGED book

\* An invoice that is still a draft is deleted.
Void(e) ==
    /\ e \in book
    /\ book' = book \ {e}
    /\ UNCHANGED outcome

Next == \/ \E r \in Requests : Enter(r) \/ Confirm(r) \/ Refuse(r) \/ Lose(r)
        \/ \E e \in book : Void(e)

Spec == Init /\ [][Next]_vars
=============================================================================
