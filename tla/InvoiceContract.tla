--------------------------- MODULE InvoiceContract ---------------------------
(***************************************************************************)
(* The life of an invoice as the API documents it: DRAFT -> SENT -> PAID or *)
(* OVERDUE -> PAID, contents that change and rows that go only in DRAFT, a  *)
(* payment recorded with PAID.  Every change is one step: nothing is said   *)
(* of requests, transactions or sessions.                                   *)
(***************************************************************************)
CONSTANT Invoices

VARIABLES status,    \* "absent" once deleted
          paid,      \* the invoices whose payment_method and paid_at are set
          content,   \* customer, items and amounts
          consistent \* the invoices whose amounts are those of their items

vars == <<status, paid, content, consistent>>

Follows == {<<"draft", "sent">>, <<"sent", "paid">>, <<"sent", "overdue">>,
            <<"overdue", "paid">>}

Init == /\ status = [i \in Invoices |-> "draft"]
        /\ paid = {}
        /\ consistent = Invoices

\* The status of one invoice moves on, with the payment when it is paid.
Advance(i) ==
    /\ \E step \in Follows :
           /\ status[i] = step[1]
           /\ status' = [status EXCEPT ![i] = step[2]]
           /\ paid' = IF step[2] = "paid" THEN paid \cup {i} ELSE paid
    /\ UNCHANGED <<content, consistent>>

\* Late invoices are marked in one step.
MarkOverdue(late) ==
    /\ \A i \in late : status[i] = "sent"
    /\ status' = [i \in Invoices |-> IF i \in late THEN "overdue" ELSE status[i]]
    /\ UNCHANGED <<paid, content, consistent>>

\* A draft is edited; amounts and items stay consistent.
Edit(i) ==
    /\ status[i] = "draft"
    /\ \A j \in Invoices \ {i} : content'[j] = content[j]
    /\ consistent \subseteq consistent'
    /\ UNCHANGED <<status, paid>>

\* A draft is deleted.
Remove(i) ==
    /\ status[i] = "draft"
    /\ status' = [status EXCEPT ![i] = "absent"]
    /\ \A j \in Invoices \ {i} : content'[j] = content[j]
    /\ consistent \ {i} \subseteq consistent'
    /\ UNCHANGED paid

Next == \/ \E i \in Invoices : Advance(i) \/ Edit(i) \/ Remove(i)
        \/ \E late \in SUBSET Invoices : MarkOverdue(late)

Spec == Init /\ [][Next]_vars
=============================================================================
