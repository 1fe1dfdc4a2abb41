------------------------ MODULE InvoiceLifecycleProofs ------------------------
(***************************************************************************)
(* Proofs about InvoiceLifecycle, for every set of invoices and requests:   *)
(* what survives every interleaving of handlers, sweep and crashes, and     *)
(* that only a commit acting on an outdated read departs from the           *)
(* documented life of an invoice or from the PDF that was mailed.           *)
(***************************************************************************)
EXTENDS InvoiceLifecycle, TLAPS

\* A request that works on something knows what, and what it is about to commit
\* follows from the status it read.
OperationsKnown ==
    \A r \in Requests :
        pc[r] \notin {"idle", "refused"} =>
            /\ op[r] \in Operation
            /\ IF op[r].kind = "status"
               THEN op[r].to \in ValidTransitions(seen[r].status)
               ELSE seen[r].status = "draft"
            /\ pc[r] = "queued" => op[r].kind = "send"
            /\ pc[r] = "cleared" => op[r].kind = "editItems"

LifecycleInv ==
    TypeOK /\ OperationsKnown /\ PaymentMatchesStatus /\ AmountsHaveItems

\* The initial rows are drafts with their original items and no payment.
LEMMA LifecycleInit == Init => LifecycleInv
<1> SUFFICES ASSUME Init PROVE LifecycleInv
  OBVIOUS
<1>1. TypeOK
  BY DEF Init, TypeOK, Statuses, Authors, Steps, NoOperation, Row, Mail
<1>2. OperationsKnown /\ PaymentMatchesStatus /\ AmountsHaveItems
  BY DEF Init, OperationsKnown, PaymentMatchesStatus, AmountsHaveItems, Exists
<1>3. QED
  BY <1>1, <1>2 DEF LifecycleInv

\* Every action keeps the invariant.
LEMMA LifecycleStep == LifecycleInv /\ [Next]_vars => LifecycleInv'
<1> SUFFICES ASSUME LifecycleInv, [Next]_vars PROVE LifecycleInv'
  OBVIOUS
<1> USE DEF LifecycleInv
<1>1. ASSUME NEW r \in Requests, Begin(r) PROVE LifecycleInv'
  <2>1. PICK kind \in Kinds, i \in Invoices, to \in Statuses, withMethod \in BOOLEAN :
            /\ kind # "status" => to = "sent"
            /\ Exists(i)
            /\ Admitted(kind, status[i], to, withMethod)
            /\ op' = [op EXCEPT ![r] = [kind |-> kind, inv |-> i, to |-> to]]
            /\ seen' = [seen EXCEPT ![r] = Reads(i)]
    BY <1>1 DEF Begin
  <2>2. IF kind = "status" THEN to \in ValidTransitions(status[i])
                           ELSE status[i] = "draft"
    BY <2>1 DEF Admitted
  <2>3. TypeOK'
    BY <1>1, <2>1 DEF Begin, Goto, rows, TypeOK, Operation, Row, Reads, Steps, Exists
  <2>4. OperationsKnown'
    BY <1>1, <2>1, <2>2 DEF Begin, Goto, TypeOK, OperationsKnown, Operation, Reads, Exists
  <2>5. QED
    BY <1>1, <2>3, <2>4 DEF Begin, rows, PaymentMatchesStatus, AmountsHaveItems, Exists
<1>2. ASSUME NEW r \in Requests, Refuse(r) PROVE LifecycleInv'
  BY <1>2 DEF Refuse, Goto, rows, TypeOK, Steps, OperationsKnown,
              PaymentMatchesStatus, AmountsHaveItems, Exists
<1>3. ASSUME NEW r \in Requests, CommitStatus(r) PROVE LifecycleInv'
  <2> DEFINE i == Target(r)
  <2>1. /\ op[r] \in Operation /\ i \in Invoices
        /\ op[r].to \in Statuses \ {"draft"}
    BY <1>3 DEF CommitStatus, OperationsKnown, Operation, Target, ValidTransitions
  <2>2. TypeOK'
    BY <1>3, <2>1 DEF CommitStatus, Goto, TypeOK, Steps
  <2>3. OperationsKnown'
    BY <1>3 DEF CommitStatus, Goto, TypeOK, OperationsKnown
  <2>4. PaymentMatchesStatus'
    BY <1>3, <2>1 DEF CommitStatus, TypeOK, PaymentMatchesStatus
  <2>5. AmountsHaveItems'
    BY <1>3, <2>1 DEF CommitStatus, TypeOK, AmountsHaveItems, Exists, Statuses
  <2>6. QED
    BY <2>2, <2>3, <2>4, <2>5
<1>6. ASSUME NEW r \in Requests, ReadItems(r) PROVE LifecycleInv'
  <2>1. Target(r) \in Invoices
    BY <1>6 DEF ReadItems, OperationsKnown, Operation, Target
  <2>2. QED
    BY <1>6, <2>1 DEF ReadItems, Goto, rows, TypeOK, Steps, OperationsKnown,
                      PaymentMatchesStatus, AmountsHaveItems, Exists
<1>7. ASSUME NEW r \in Requests, ClearItems(r) PROVE LifecycleInv'
  BY <1>7 DEF ClearItems, Goto, rows, TypeOK, Steps, OperationsKnown,
              PaymentMatchesStatus, AmountsHaveItems, Exists
<1>8. ASSUME NEW r \in Requests, CommitEdit(r) PROVE LifecycleInv'
  <2> DEFINE i == Target(r)
  <2>1. i \in Invoices /\ r \in Authors
    BY <1>8 DEF CommitEdit, OperationsKnown, Operation, Target, Authors
  <2>2. /\ items' \in [Invoices -> SUBSET Authors]
        /\ totals' \in [Invoices -> Authors]
    BY <1>8, <2>1 DEF CommitEdit, TypeOK
  <2>3. TypeOK'
    BY <1>8, <2>1, <2>2 DEF CommitEdit, Goto, TypeOK, Steps
  <2>4. OperationsKnown' /\ PaymentMatchesStatus'
    BY <1>8 DEF CommitEdit, Goto, TypeOK, OperationsKnown, PaymentMatchesStatus
  <2>5. AmountsHaveItems'
    BY <1>8, <2>1 DEF CommitEdit, TypeOK, AmountsHaveItems, Exists
  <2>6. QED
    BY <2>3, <2>4, <2>5
<1>9. ASSUME NEW r \in Requests, CommitDelete(r) PROVE LifecycleInv'
  <2>1. Target(r) \in Invoices
    BY <1>9 DEF CommitDelete, OperationsKnown, Operation, Target
  <2>2. TypeOK' /\ OperationsKnown'
    BY <1>9, <2>1 DEF CommitDelete, Goto, TypeOK, Steps, OperationsKnown
  <2>3. PaymentMatchesStatus' /\ AmountsHaveItems'
    BY <1>9, <2>1
       DEF CommitDelete, TypeOK, PaymentMatchesStatus, AmountsHaveItems, Exists
  <2>4. QED
    BY <2>2, <2>3
<1>10. ASSUME NEW r \in Requests, RefuseDelete(r) PROVE LifecycleInv'
  BY <1>10 DEF RefuseDelete, Goto, rows, TypeOK, Steps, OperationsKnown,
               PaymentMatchesStatus, AmountsHaveItems, Exists
<1>11. ASSUME NEW r \in Requests, QueueMail(r) PROVE LifecycleInv'
  <2> DEFINE mail == [by |-> r, inv |-> Target(r), fields |-> seen[r].fields,
                      totals |-> seen[r].totals, items |-> items[Target(r)]]
  <2>1. Target(r) \in Invoices
    BY <1>11 DEF QueueMail, OperationsKnown, Operation, Target
  <2>2. mail \in Mail
    BY <2>1 DEF Mail, TypeOK, Row
  <2>3. mails' \subseteq Mail
    BY <1>11, <2>2 DEF QueueMail, TypeOK
  <2>4. QED
    BY <1>11, <2>3 DEF QueueMail, Goto, rows, TypeOK, Steps, OperationsKnown,
                       PaymentMatchesStatus, AmountsHaveItems, Exists
<1>12. ASSUME NEW r \in Requests, RefuseSend(r) PROVE LifecycleInv'
  BY <1>12 DEF RefuseSend, Goto, rows, TypeOK, Steps, OperationsKnown,
               PaymentMatchesStatus, AmountsHaveItems, Exists
<1>13. ASSUME NEW r \in Requests, CommitSent(r) PROVE LifecycleInv'
  <2>1. Target(r) \in Invoices
    BY <1>13 DEF CommitSent, OperationsKnown, Operation, Target
  <2>2. TypeOK' /\ OperationsKnown'
    BY <1>13, <2>1 DEF CommitSent, Goto, TypeOK, Steps, Statuses, OperationsKnown
  <2>3. PaymentMatchesStatus' /\ AmountsHaveItems'
    BY <1>13, <2>1
       DEF CommitSent, TypeOK, PaymentMatchesStatus, AmountsHaveItems, Exists
  <2>4. QED
    BY <2>2, <2>3
<1>14. ASSUME NEW r \in Requests, RowGone(r) PROVE LifecycleInv'
  BY <1>14 DEF RowGone, Goto, rows, TypeOK, Steps, OperationsKnown,
               PaymentMatchesStatus, AmountsHaveItems, Exists
<1>15. ASSUME NEW r \in Requests, Answer(r) PROVE LifecycleInv'
  BY <1>15 DEF Answer, Goto, rows, TypeOK, Steps, OperationsKnown,
               PaymentMatchesStatus, AmountsHaveItems, Exists
<1>16. ASSUME NEW r \in Requests, Crash(r) PROVE LifecycleInv'
  BY <1>16 DEF Crash, Finished, Goto, rows, TypeOK, Steps, OperationsKnown,
               PaymentMatchesStatus, AmountsHaveItems, Exists
<1>17. CASE SweepPick
  BY <1>17 DEF SweepPick, rows, TypeOK, OperationsKnown,
               PaymentMatchesStatus, AmountsHaveItems, Exists
<1>18. CASE SweepCommit
  <2>1. TypeOK' /\ OperationsKnown'
    BY <1>18 DEF SweepCommit, TypeOK, Statuses, OperationsKnown
  <2>2. PaymentMatchesStatus'
    BY <1>18 DEF SweepCommit, TypeOK, PaymentMatchesStatus
  <2>3. AmountsHaveItems'
    BY <1>18 DEF SweepCommit, TypeOK, AmountsHaveItems, Exists
  <2>4. QED
    BY <2>1, <2>2, <2>3
<1>19. CASE SweepAbort
  BY <1>19 DEF SweepAbort, rows, TypeOK, OperationsKnown,
               PaymentMatchesStatus, AmountsHaveItems, Exists
<1>20. CASE DayPasses
  BY <1>20 DEF DayPasses, rows, TypeOK, OperationsKnown,
               PaymentMatchesStatus, AmountsHaveItems, Exists
<1>21. CASE UNCHANGED vars
  BY <1>21 DEF vars, rows, TypeOK, OperationsKnown,
               PaymentMatchesStatus, AmountsHaveItems, Exists
<1>22. QED
  BY <1>1, <1>2, <1>3, <1>6, <1>7, <1>8, <1>9, <1>10, <1>11, <1>12,
     <1>13, <1>14, <1>15, <1>16, <1>17, <1>18, <1>19, <1>20, <1>21
     DEF Next, Handle

\* The invariant holds throughout.
LEMMA LifecycleInvariant == Spec => []LifecycleInv
BY LifecycleInit, LifecycleStep, PTL DEF Spec

\* Every reachable state is well typed.
THEOREM LifecycleTypeCorrect == Spec => []TypeOK
BY LifecycleInvariant, PTL DEF LifecycleInv

\* However handlers, sweep and crashes interleave, a PAID invoice has its
\* payment recorded and a DRAFT has none.
THEOREM PaymentAlwaysMatches == Spec => []PaymentMatchesStatus
BY LifecycleInvariant, PTL DEF LifecycleInv

\* The amounts of an invoice always stem from items it still has, and a deleted
\* invoice leaves none behind.
THEOREM AmountsAlwaysHaveItems == Spec => []AmountsHaveItems
BY LifecycleInvariant, PTL DEF LifecycleInv

\* Whatever a handler read, its commit never leads back to DRAFT, revives a
\* deleted invoice, or erases a payment.
THEOREM NeverBack == Spec => NoWayBack
<1> DEFINE Kept ==
        \A i \in Invoices : /\ status[i] # "draft" => status'[i] # "draft"
                            /\ status[i] = "absent" => status'[i] = "absent"
                            /\ i \in paid => i \in paid'
<1>1. ASSUME LifecycleInv, Next PROVE Kept
  <2>1. ASSUME NEW r \in Requests, CommitStatus(r) PROVE Kept
    <3>1. op[r].to # "draft"
      BY <1>1, <2>1 DEF CommitStatus, LifecycleInv, OperationsKnown, ValidTransitions
    <3>2. QED
      BY <1>1, <2>1, <3>1 DEF CommitStatus, LifecycleInv, TypeOK, Exists
  <2>2. ASSUME NEW r \in Requests, CommitSent(r) PROVE Kept
    BY <1>1, <2>2 DEF CommitSent, LifecycleInv, TypeOK, Exists
  <2>3. ASSUME NEW r \in Requests, CommitDelete(r) PROVE Kept
    BY <1>1, <2>3 DEF CommitDelete, LifecycleInv, TypeOK
  <2>4. CASE SweepCommit
    BY <2>4 DEF SweepCommit, Exists
  <2>5. CASE status' = status /\ paid' = paid
    BY <2>5
  <2>6. QED
    BY <1>1, <2>1, <2>2, <2>3, <2>4, <2>5
       DEF Next, Handle, rows, Begin, Refuse, ReadItems,
           ClearItems, CommitEdit, RefuseDelete, QueueMail, RefuseSend, RowGone,
           Answer, Crash, SweepPick, SweepAbort, DayPasses
<1>2. LifecycleInv /\ [Next]_vars => [Kept]_vars
  BY <1>1
<1>3. QED
  BY <1>2, LifecycleInvariant, PTL DEF Spec, NoWayBack

-----------------------------------------------------------------------------

(***************************************************************************)
(* The documented life of an invoice.                                       *)
(***************************************************************************)

\* Each commit that acts on what is still so is a step of that life.
LEMMA ContractStep ==
    LifecycleInv /\ [Next]_vars => [Contract!Next \/ Outdated]_(Contract!vars)
<1> SUFFICES ASSUME LifecycleInv, [Next]_vars, ~Outdated
             PROVE  [Contract!Next]_(Contract!vars)
  OBVIOUS
<1> USE DEF LifecycleInv, Contract!vars, Contract!Next
<1>0. ASSUME NEW r \in Requests, pc[r] \in {"checked", "clearing", "cleared", "queued"},
             pc'[r] # pc[r]
      PROVE  /\ op[r] \in Operation /\ Target(r) \in Invoices
             /\ IF op[r].kind = "status"
                THEN op[r].to \in ValidTransitions(status[Target(r)])
                ELSE status[Target(r)] = "draft"
             /\ pc[r] = "cleared" => items[Target(r)] = snap[r]
  BY <1>0 DEF Outdated, OutdatedRequest, OperationsKnown, Operation, Target
<1>1. ASSUME NEW r \in Requests, CommitStatus(r) PROVE Contract!Next
  <2> DEFINE i == Target(r)
             step == <<status[i], op[r].to>>
  <2>1. i \in Invoices /\ op[r].to \in ValidTransitions(status[i])
    BY <1>1, <1>0 DEF CommitStatus, Goto, TypeOK
  <2>2. step \in Contract!Follows
    BY <2>1 DEF ValidTransitions, Contract!Follows
  <2>3. /\ status' = [status EXCEPT ![i] = step[2]]
        /\ paid' = IF step[2] = "paid" THEN paid \cup {i} ELSE paid
        /\ status[i] = step[1]
        /\ UNCHANGED <<fields, totals, items>>
    BY <1>1 DEF CommitStatus
  <2> HIDE DEF step
  <2>4. Contract!Advance(i)
    BY <2>2, <2>3 DEF Contract!Advance
  <2>5. QED
    BY <2>1, <2>4
<1>2. ASSUME NEW r \in Requests, CommitSent(r) PROVE Contract!Next
  <2> DEFINE i == Target(r)
             step == <<"draft", "sent">>
  <2>1. i \in Invoices /\ status[i] = "draft" /\ step \in Contract!Follows
    BY <1>2, <1>0 DEF CommitSent, Goto, TypeOK, Contract!Follows, OperationsKnown
  <2>2. /\ status' = [status EXCEPT ![i] = step[2]] /\ paid' = paid
        /\ step[1] = "draft" /\ step[2] # "paid"
        /\ UNCHANGED <<fields, totals, items>>
    BY <1>2 DEF CommitSent
  <2> HIDE DEF step
  <2>3. Contract!Advance(i)
    BY <2>1, <2>2 DEF Contract!Advance
  <2>4. QED
    BY <2>1, <2>3
<1>3. ASSUME NEW r \in Requests, CommitEdit(r) PROVE Contract!Next
  <2> DEFINE i == Target(r)
             consistent == {j \in Invoices : items[j] = {totals[j]}}
  <2>1. /\ i \in Invoices /\ status[i] = "draft"
        /\ op[r].kind = "editItems" => items[i] = snap[r]
    BY <1>3, <1>0 DEF CommitEdit, Goto, TypeOK, OperationsKnown
  <2>2. \A j \in Invoices \ {i} :
            fields'[j] = fields[j] /\ totals'[j] = totals[j] /\ items'[j] = items[j]
    BY <1>3 DEF CommitEdit, TypeOK
  <2>3. i \in consistent => items'[i] = {totals'[i]}
    BY <1>3, <2>1 DEF CommitEdit, TypeOK
  <2>4. consistent \subseteq consistent'
    BY <2>2, <2>3
  <2>5. QED
    BY <1>3, <2>1, <2>2, <2>4 DEF CommitEdit, Contract!Edit
<1>4. ASSUME NEW r \in Requests, CommitDelete(r) PROVE Contract!Next
  <2> DEFINE i == Target(r)
             held == [j \in Invoices |-> <<fields[j], totals[j], items[j]>>]
             whole == {j \in Invoices : items[j] = {totals[j]}}
  <2>1. i \in Invoices /\ status[i] = "draft"
    BY <1>4, <1>0 DEF CommitDelete, Goto, TypeOK
  <2>2. \A j \in Invoices \ {i} : held'[j] = held[j] /\ items'[j] = items[j]
                                                       /\ totals'[j] = totals[j]
    BY <1>4 DEF CommitDelete, TypeOK
  <2>3. status' = [status EXCEPT ![i] = "absent"] /\ paid' = paid
    BY <1>4 DEF CommitDelete
  <2>4. whole \ {i} \subseteq whole'
    BY <2>2
  <2>5. PICK k \in Invoices : k = i
    BY <2>1
  <2>6. Contract!Remove(k)
    BY <2>1, <2>2, <2>3, <2>4, <2>5 DEF Contract!Remove
  <2>7. QED
    BY <2>6
<1>5. ASSUME SweepCommit PROVE Contract!Next
  <2>1. \A i \in picked : status[i] = "sent"
    BY <1>5 DEF SweepCommit, Outdated, OutdatedSweep
  <2>2. Contract!MarkOverdue(picked)
    BY <1>5, <2>1 DEF SweepCommit, Exists, Contract!MarkOverdue
  <2>3. QED
    BY <2>2 DEF TypeOK
<1>6. CASE UNCHANGED rows
  BY <1>6 DEF rows
<1>7. QED
  BY <1>1, <1>2, <1>3, <1>4, <1>5, <1>6
     DEF Next, Handle, vars, Begin, Refuse, ReadItems, ClearItems, RefuseDelete,
         QueueMail, RefuseSend, RowGone, Answer, Crash, SweepPick, SweepAbort, DayPasses

\* Whatever happens between the read and the commit of a handler or of the sweep,
\* an invoice changes as documented (PAID is final, contents and rows change in
\* DRAFT only, a payment comes with PAID, amounts stay those of the items) unless
\* the commit acts on a read that is outdated.
THEOREM ContractHolds == Spec => ContractUnlessOutdated
<1>1. Init => Contract!Init
  BY DEF Init, Contract!Init
<1>2. QED
  BY <1>1, LifecycleInvariant, ContractStep, PTL DEF Spec, ContractUnlessOutdated

-----------------------------------------------------------------------------

(***************************************************************************)
(* The mailed PDF.  Amounts name the edit that computed them, so amounts    *)
(* that are still the ones a send has read vouch for the items too.         *)
(***************************************************************************)

\* An edit that has not committed has left its amounts nowhere.
AmountsNameCommits ==
    \A q \in Requests : pc[q] \in {"idle", "checked", "clearing", "cleared"} =>
        /\ \A i \in Invoices : totals[i] # q
        /\ \A r \in Requests : seen[r].totals # q

\* An e-mail is of what its send has read, and its items are those of its amounts.
MailsAreTrue ==
    \A m \in mails :
        /\ m.inv = Target(m.by) /\ op[m.by].kind = "send"
        /\ pc[m.by] \in {"queued", "committed", "ok", "failed", "crashed"}
        /\ m.fields = seen[m.by].fields /\ m.totals = seen[m.by].totals
        /\ Exists(m.inv) /\ totals[m.inv] = m.totals => items[m.inv] = m.items
        /\ pc[m.by] \in {"committed", "ok"} => status[m.inv] # "draft"

MailInv == LifecycleInv /\ AmountsNameCommits /\ MailsAreTrue

\* At the start every amount is Original and nothing is mailed.
LEMMA MailInit == Init => MailInv
<1> SUFFICES ASSUME Init PROVE MailInv
  OBVIOUS
<1>1. AmountsNameCommits
  BY OriginalIsNoRequest DEF Init, AmountsNameCommits
<1>2. MailsAreTrue
  BY DEF Init, MailsAreTrue
<1>3. QED
  BY <1>1, <1>2, LifecycleInit DEF MailInv

\* Only the commit of an edit puts its request's name on amounts.
LEMMA AmountsStep ==
    LifecycleInv /\ AmountsNameCommits /\ [Next]_vars => AmountsNameCommits'
<1> SUFFICES ASSUME LifecycleInv, AmountsNameCommits, [Next]_vars
             PROVE  AmountsNameCommits'
  OBVIOUS
<1> USE DEF LifecycleInv, AmountsNameCommits
<1>1. ASSUME NEW r \in Requests, Begin(r) PROVE AmountsNameCommits'
  <2>1. PICK i \in Invoices : seen' = [seen EXCEPT ![r] = Reads(i)]
    BY <1>1 DEF Begin
  <2>2. totals' = totals /\ pc' = [pc EXCEPT ![r] = "checked"] /\ pc[r] = "idle"
    BY <1>1 DEF Begin, rows, Goto
  <2>3. \A q \in Requests : seen'[q].totals \in {seen[q].totals, totals[i]}
    BY <2>1 DEF TypeOK, Reads
  <2>4. QED
    BY <2>2, <2>3 DEF TypeOK
<1>2. ASSUME NEW r \in Requests, CommitEdit(r) PROVE AmountsNameCommits'
  <2>1. /\ seen' = seen /\ pc' = [pc EXCEPT ![r] = "committed"]
        /\ \A i \in Invoices : totals'[i] \in {totals[i], r}
    BY <1>2 DEF CommitEdit, Goto, TypeOK
  <2>2. QED
    BY <2>1 DEF TypeOK
<1>3. CASE UNCHANGED <<totals, seen, pc>>
  BY <1>3
<1>4. ASSUME NEW r \in Requests, UNCHANGED <<totals, seen>>,
             \E step : /\ pc' = [pc EXCEPT ![r] = step]
                       /\ \/ step \in {"refused", "committed", "ok", "queued",
                                       "failed", "crashed"}
                          \/ pc[r] \in {"checked", "clearing"}
      PROVE  AmountsNameCommits'
  BY <1>4 DEF TypeOK
<1>5. QED
  BY <1>1, <1>2, <1>3, <1>4
     DEF Next, Handle, vars, rows, Goto, Refuse, CommitStatus, ReadItems, ClearItems,
         CommitDelete, RefuseDelete, QueueMail, RefuseSend, CommitSent, RowGone,
         Answer, Crash, SweepPick, SweepCommit, SweepAbort, DayPasses

\* The e-mails stay true to what their sends have read.
LEMMA MailStep == MailInv /\ [Next]_vars => MailInv'
<1> SUFFICES ASSUME MailInv, [Next]_vars PROVE MailInv'
  OBVIOUS
<1> USE DEF MailInv
<1>0. LifecycleInv' /\ AmountsNameCommits'
  BY LifecycleStep, AmountsStep
<1> SUFFICES MailsAreTrue'
  BY <1>0
<1> USE DEF LifecycleInv, MailsAreTrue
<1>1. mails \subseteq Mail /\ \A m \in mails : m.by \in Requests /\ m.inv \in Invoices
  BY DEF TypeOK, Mail
<1>2. ASSUME NEW r \in Requests, Begin(r) PROVE MailsAreTrue'
  <2>1. \A q \in Requests : pc[q] # "idle" =>
            op'[q] = op[q] /\ seen'[q] = seen[q] /\ pc'[q] = pc[q]
    BY <1>2 DEF Begin, Goto, TypeOK
  <2>2. UNCHANGED <<status, totals, items, mails>>
    BY <1>2 DEF Begin, rows
  <2>3. QED
    BY <1>1, <2>1, <2>2 DEF Exists, Target
<1>3. ASSUME NEW r \in Requests, CommitStatus(r) PROVE MailsAreTrue'
  <2>1. /\ op[r].kind = "status" /\ pc[r] = "checked" /\ op[r].to # "draft"
        /\ Target(r) \in Invoices /\ Exists(Target(r))
    BY <1>3 DEF CommitStatus, OperationsKnown, ValidTransitions, Operation, Target
  <2>2. /\ UNCHANGED <<op, seen, totals, items, mails>>
        /\ \A q \in Requests \ {r} : pc'[q] = pc[q]
        /\ \A i \in Invoices : /\ status'[i] \in {status[i], op[r].to}
                               /\ status[i] = "absent" => status'[i] = "absent"
    BY <1>3, <2>1 DEF CommitStatus, Goto, TypeOK, Exists
  <2>3. QED
    BY <1>1, <2>1, <2>2 DEF Exists, Target
<1>4. ASSUME NEW r \in Requests, CommitEdit(r) PROVE MailsAreTrue'
  <2>1. /\ op[r].kind \in {"edit", "editItems"} /\ pc[r] \in {"checked", "cleared"}
        /\ Target(r) \in Invoices
    BY <1>4 DEF CommitEdit, OperationsKnown, Operation, Target
  <2>2. /\ UNCHANGED <<op, seen, status, mails>>
        /\ \A q \in Requests \ {r} : pc'[q] = pc[q]
        /\ \A i \in Invoices : \/ totals'[i] = totals[i] /\ items'[i] = items[i]
                               \/ totals'[i] = r
    BY <1>4 DEF CommitEdit, Goto, TypeOK
  <2>3. \A m \in mails : m.totals # r /\ m.by # r
    BY <1>1, <2>1 DEF AmountsNameCommits
  <2>4. QED
    BY <1>1, <2>1, <2>2, <2>3 DEF Exists, Target
<1>5. ASSUME NEW r \in Requests, CommitDelete(r) PROVE MailsAreTrue'
  <2>1. op[r].kind = "delete" /\ pc[r] = "clearing" /\ Target(r) \in Invoices
    BY <1>5 DEF CommitDelete, OperationsKnown, Operation, Target
  <2>2. /\ UNCHANGED <<op, seen, totals, mails>>
        /\ \A q \in Requests \ {r} : pc'[q] = pc[q]
        /\ \A i \in Invoices : \/ status'[i] = status[i] /\ items'[i] = items[i]
                               \/ status'[i] = "absent"
    BY <1>5 DEF CommitDelete, Goto, TypeOK
  <2>3. QED
    BY <1>1, <2>1, <2>2 DEF Exists, Target
<1>6. ASSUME NEW r \in Requests, QueueMail(r) PROVE MailsAreTrue'
  <2> DEFINE mail == [by |-> r, inv |-> Target(r), fields |-> seen[r].fields,
                      totals |-> seen[r].totals, items |-> items[Target(r)]]
  <2>1. /\ op[r].kind = "send" /\ pc[r] = "checked"
        /\ pc' = [pc EXCEPT ![r] = "queued"]
        /\ UNCHANGED <<op, seen, status, totals, items>>
        /\ \A m \in mails' : m \in mails \/ m = mail
    BY <1>6 DEF QueueMail, rows, Goto
  <2>2. \A m \in mails : m.by # r
    BY <1>1, <2>1
  <2>3. QED
    BY <1>1, <2>1, <2>2 DEF Exists, Target, TypeOK
<1>7. ASSUME NEW r \in Requests, CommitSent(r) PROVE MailsAreTrue'
  <2>1. /\ Target(r) \in Invoices /\ Exists(Target(r))
    BY <1>7 DEF CommitSent, OperationsKnown, Operation, Target
  <2>2. /\ UNCHANGED <<op, seen, totals, items, mails>>
        /\ pc' = [pc EXCEPT ![r] = "committed"]
        /\ status' = [status EXCEPT ![Target(r)] = "sent"]
    BY <1>7 DEF CommitSent, Goto
  <2>3. QED
    BY <1>1, <2>1, <2>2 DEF Exists, Target, TypeOK
<1>8. CASE SweepCommit
  <2>1. /\ UNCHANGED <<pc, op, seen, totals, items, mails>>
        /\ \A i \in Invoices : /\ status'[i] \in {status[i], "overdue"}
                               /\ status[i] = "absent" => status'[i] = "absent"
    BY <1>8 DEF SweepCommit, TypeOK, Exists
  <2>2. QED
    BY <1>1, <2>1 DEF Exists, Target
<1>9. CASE UNCHANGED <<rows, pc, op, seen, mails>>
  BY <1>9 DEF rows, Exists, Target
<1>10. ASSUME NEW r \in Requests, UNCHANGED <<rows, op, seen, mails>>,
              \E step : /\ pc' = [pc EXCEPT ![r] = step]
                        /\ \/ pc[r] \in {"idle", "checked", "clearing"}
                           \/ step \in {"failed", "crashed"}
                           \/ pc[r] = "committed" /\ step = "ok"
       PROVE  MailsAreTrue'
  BY <1>1, <1>10 DEF rows, Exists, Target, TypeOK
<1>11. QED
  BY <1>2, <1>3, <1>4, <1>5, <1>6, <1>7, <1>8, <1>9, <1>10
     DEF Next, Handle, vars, Goto, Refuse, ReadItems, ClearItems, RefuseDelete,
         RefuseSend, RowGone, Answer, Crash, SweepPick, SweepAbort, DayPasses

\* A send that commits with a fresh read has mailed the row, and the row stays as
\* mailed.
LEMMA MailedStep ==
    ASSUME MailInv, [Next]_vars, NEW m \in mails
    PROVE  /\ pc[m.by] = "queued" /\ pc'[m.by] = "committed" =>
                  ShowsRow(m)' \/ Reads(m.inv) # seen[m.by]
           /\ pc[m.by] \in {"committed", "ok"} /\ ShowsRow(m) =>
                  ShowsRow(m)' \/ Outdated
<1> USE DEF MailInv, LifecycleInv
<1>0. m.by \in Requests /\ m.inv \in Invoices /\ m.inv = Target(m.by)
  BY DEF TypeOK, Mail, MailsAreTrue
<1>1. ASSUME pc[m.by] = "queued", pc'[m.by] = "committed", Reads(m.inv) = seen[m.by]
      PROVE  ShowsRow(m)'
  <2>1. CommitSent(m.by)
    <3>1. ASSUME NEW r \in Requests, Begin(r) \/ Refuse(r) \/ CommitStatus(r) \/ ReadItems(r)
          PROVE  FALSE
      BY <1>0, <1>1, <3>1 DEF Begin, Refuse, CommitStatus, ReadItems, Goto, TypeOK
    <3>2. ASSUME NEW r \in Requests, CommitEdit(r) \/ ClearItems(r) \/ CommitDelete(r)
                                    \/ RefuseDelete(r)
          PROVE  FALSE
      BY <1>0, <1>1, <3>2 DEF CommitEdit, ClearItems, CommitDelete, RefuseDelete, Goto, TypeOK
    <3>3. ASSUME NEW r \in Requests, QueueMail(r) \/ RefuseSend(r) \/ RowGone(r)
                                    \/ Answer(r) \/ Crash(r)
          PROVE  FALSE
      BY <1>0, <1>1, <3>3 DEF QueueMail, RefuseSend, RowGone, Answer, Crash, Goto, TypeOK
    <3>4. ASSUME NEW r \in Requests, CommitSent(r) PROVE r = m.by
      BY <1>0, <1>1, <3>4 DEF CommitSent, Goto, TypeOK
    <3>5. pc' # pc
      BY <1>1
    <3>6. QED
      BY <3>1, <3>2, <3>3, <3>4, <3>5
         DEF Next, Handle, vars, SweepPick, SweepCommit, SweepAbort, DayPasses
  <2>2. m.fields = fields[m.inv] /\ m.totals = totals[m.inv]
    BY <1>1 DEF MailsAreTrue, Reads
  <2>3. m.items = items[m.inv]
    BY <1>0, <2>1, <2>2 DEF MailsAreTrue, CommitSent
  <2>4. QED
    BY <2>1, <2>2, <2>3 DEF CommitSent, ShowsRow
<1>2. ASSUME pc[m.by] \in {"committed", "ok"}, ShowsRow(m), ~Outdated
      PROVE  ShowsRow(m)'
  <2>1. status[m.inv] # "draft"
    BY <1>2 DEF MailsAreTrue
  <2>2. ASSUME NEW r \in Requests, CommitEdit(r) \/ CommitDelete(r)
        PROVE  Target(r) # m.inv /\ Target(r) \in Invoices
    BY <1>2, <2>1, <2>2
       DEF Outdated, OutdatedRequest, OperationsKnown, CommitEdit, CommitDelete, Goto,
           TypeOK, Operation, Target
  <2>3. ASSUME NEW r \in Requests, CommitEdit(r) \/ CommitDelete(r)
        PROVE  ShowsRow(m)'
    BY <1>0, <1>2, <2>2, <2>3 DEF CommitEdit, CommitDelete, TypeOK, ShowsRow
  <2>4. CASE UNCHANGED <<fields, totals, items>>
    BY <1>2, <2>4 DEF ShowsRow
  <2>5. QED
    BY <2>3, <2>4
       DEF Next, Handle, vars, rows, Begin, Refuse, CommitStatus, ReadItems, ClearItems,
           RefuseDelete, QueueMail, RefuseSend, CommitSent, RowGone, Answer, Crash,
           SweepPick, SweepCommit, SweepAbort, DayPasses
<1>3. QED
  BY <1>1, <1>2

\* The customer holds what the table holds: the PDF of a committed send shows the
\* stored invoice from then on, unless a commit acts on an outdated read.
THEOREM MailShowsTheRow == Spec => MailedIsStored
<1> DEFINE Faithful ==
        \A m \in mails :
            /\ pc[m.by] = "queued" /\ pc'[m.by] = "committed" =>
                   ShowsRow(m)' \/ Reads(m.inv) # seen[m.by]
            /\ pc[m.by] \in {"committed", "ok"} /\ ShowsRow(m) =>
                   ShowsRow(m)' \/ Outdated
<1>1. Spec => []MailInv
  BY MailInit, MailStep, PTL DEF Spec
<1>2. MailInv /\ [Next]_vars => [Faithful]_vars
  BY MailedStep
<1>3. QED
  BY <1>1, <1>2, PTL DEF Spec, MailedIsStored
=============================================================================
