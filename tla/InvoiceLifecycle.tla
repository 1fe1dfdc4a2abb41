--------------------------- MODULE InvoiceLifecycle ---------------------------
(***************************************************************************)
(* Invoices after their creation: update_invoice, update_invoice_status,    *)
(* delete_invoice and send_invoice (app/api/v1/endpoints/invoices.py) run   *)
(* by concurrent requests, and check_overdue_invoices                       *)
(* (app/tasks/invoice_tasks.py) run by the Celery worker.                   *)
(*                                                                         *)
(* Every handler reads the row in its own session, checks the status it     *)
(* read, and commits later with UPDATE ... WHERE id = ...: the status is    *)
(* not checked again, only the columns it assigned are written, and a row   *)
(* that is gone raises StaleDataError.  A request or the task may die       *)
(* between any two of its steps.  The audit entry a status change leaves is  *)
(* AuditTrail's.                                                            *)
(*                                                                         *)
(* Contents are tokens: Original for what create_invoice stored, r for what *)
(* request r wrote.  items[i] is the set of batches whose rows are in       *)
(* invoice_items, totals[i] the batch the four amounts were computed from,  *)
(* fields[i] the last writer of the other columns.                          *)
(***************************************************************************)
EXTENDS Naturals, FiniteSets

CONSTANTS Invoices, Requests,
          Original        \* the contents create_invoice stored

ASSUME OriginalIsNoRequest == Original \notin Requests

VARIABLES
    status, paid, fields, totals, items,   \* the committed rows; paid: those
                 \* whose payment_method and paid_at are set
    pastDue,     \* the invoices whose due_date is before the current day
    pc, op, seen, snap,    \* per request: step, operation, row read, items read
    mails,       \* the invoice e-mail tasks put on the queue
    sweep, picked   \* check_overdue_invoices: step, the invoices it found

rows == <<status, paid, fields, totals, items>>
vars == <<rows, pastDue, pc, op, seen, snap, mails, sweep, picked>>

Statuses == {"draft", "sent", "paid", "overdue"}
Kinds == {"status", "edit", "editItems", "delete", "send"}
Authors == Requests \cup {Original}
Operation == [kind : Kinds, inv : Invoices, to : Statuses]
NoOperation == [kind |-> "none"]
Row == [status : Statuses, fields : Authors, totals : Authors]
Steps == {"idle", "checked", "clearing", "cleared", "queued", "committed",
          "ok", "refused", "failed", "crashed"}
Finished == {"idle", "ok", "refused", "failed", "crashed"}
Mail == [by : Requests, inv : Invoices, fields : Authors, totals : Authors,
         items : SUBSET Authors]

-----------------------------------------------------------------------------

\* The lifecycle the status endpoint knows.
ValidTransitions(s) ==
    CASE s = "draft"   -> {"sent"}
      [] s = "sent"    -> {"paid", "overdue"}
      [] s = "overdue" -> {"paid"}
      [] OTHER         -> {}

\* The check each handler makes on the status it read.
Admitted(kind, s, to, withMethod) ==
    IF kind = "status"
    THEN to \in ValidTransitions(s) /\ (to = "paid" => withMethod)
    ELSE s = "draft"

Target(r) == op[r].inv
Exists(i) == status[i] # "absent"
Reads(i) == [status |-> status[i], fields |-> fields[i], totals |-> totals[i]]

\* A DELETE FROM invoice_items waits for the item rows that another request has
\* deleted and not yet committed.
Blocked(r) ==
    \E q \in Requests \ {r} : /\ pc[q] = "cleared"
                              /\ Target(q) = Target(r)
                              /\ snap[q] \cap snap[r] \cap items[Target(r)] # {}

Goto(r, step) == pc' = [pc EXCEPT ![r] = step]

-----------------------------------------------------------------------------

(***************************************************************************)
(* Slips a maintainer could make, each named after the definition it would  *)
(* replace; they are no part of Next, and show that the properties would    *)
(* notice.                                                                  *)
(***************************************************************************)

\* The handler goes on with whatever it found, or did not find.
BeginUnchecked(r) ==
    /\ pc[r] = "idle"
    /\ \E kind \in Kinds, i \in Invoices :
           /\ op' = [op EXCEPT ![r] = [kind |-> kind, inv |-> i, to |-> "sent"]]
           /\ seen' = [seen EXCEPT ![r] = Reads(i)]
    /\ Goto(r, "checked")
    /\ UNCHANGED <<rows, pastDue, snap, mails, sweep, picked>>

\* The PDF is made of the row as the previous request left it: the e-mail names
\* the original amounts.
QueueOldMail(r) ==
    LET i == Target(r)
    IN /\ pc[r] = "checked"
       /\ op[r].kind = "send"
       /\ mails' = mails \cup {[by |-> r, inv |-> i, fields |-> Original,
                               totals |-> Original, items |-> items[i]]}
       /\ Goto(r, "queued")
       /\ UNCHANGED <<rows, pastDue, op, seen, snap, sweep, picked>>

\* The new items are added to the old ones.
CommitEditAdding(r) ==
    LET i == Target(r)
    IN /\ pc[r] = "cleared" /\ Exists(i)
       /\ fields' = [fields EXCEPT ![i] = r]
       /\ items' = [items EXCEPT ![i] = @ \cup {r}]
       /\ totals' = [totals EXCEPT ![i] = r]
       /\ Goto(r, "committed")
       /\ UNCHANGED <<status, paid, pastDue, op, seen, snap, mails, sweep, picked>>

\* The delete removes the rows it read and no foreign key stops it.
CommitDeleteUnkeyed(r) ==
    /\ pc[r] = "clearing" /\ op[r].kind = "delete" /\ ~Blocked(r)
    /\ status' = [status EXCEPT ![Target(r)] = "absent"]
    /\ items' = [items EXCEPT ![Target(r)] = @ \ snap[r]]
    /\ Goto(r, "ok")
    /\ UNCHANGED <<paid, fields, totals, pastDue, op, seen, snap, mails,
                   sweep, picked>>

\* SENT is written whether the row is there or not, as a merge would.
CommitSentAnyway(r) ==
    /\ pc[r] = "queued"
    /\ status' = [status EXCEPT ![Target(r)] = "sent"]
    /\ Goto(r, "committed")
    /\ UNCHANGED <<paid, fields, totals, items, pastDue, op, seen, snap,
                   mails, sweep, picked>>

\* A row that is gone is noticed by the first commit only.
RowGoneFirst(r) ==
    /\ pc[r] = "checked" /\ op[r].kind \in {"status", "edit"}
    /\ ~Exists(Target(r))
    /\ Goto(r, "failed")
    /\ UNCHANGED <<rows, pastDue, op, seen, snap, mails, sweep, picked>>

\* The due date is compared the wrong way round.
SweepPickEarly ==
    /\ sweep = "idle"
    /\ picked' = {i \in Invoices \ pastDue : status[i] = "sent"}
    /\ sweep' = "picked"
    /\ UNCHANGED <<rows, pastDue, pc, op, seen, snap, mails>>

-----------------------------------------------------------------------------

Init ==
    /\ status = [i \in Invoices |-> "draft"]
    /\ paid = {}
    /\ fields = [i \in Invoices |-> Original]
    /\ totals = [i \in Invoices |-> Original]
    /\ items = [i \in Invoices |-> {Original}]
    /\ pastDue = {}
    /\ pc = [r \in Requests |-> "idle"]
    /\ op = [r \in Requests |-> NoOperation]
    /\ seen = [r \in Requests |->
                  [status |-> "draft", fields |-> Original, totals |-> Original]]
    /\ snap = [r \in Requests |-> {}]
    /\ mails = {}
    /\ sweep = "idle"
    /\ picked = {}

\* A handler reads its invoice, checks the status it read and goes on; withMethod:
\* the body of a status request names a payment method.
Begin(r) ==
    /\ pc[r] = "idle"
    /\ \E kind \in Kinds, i \in Invoices, to \in Statuses, withMethod \in BOOLEAN :
           /\ kind # "status" => to = "sent"
           /\ Exists(i)
           /\ Admitted(kind, status[i], to, withMethod)
           /\ op' = [op EXCEPT ![r] = [kind |-> kind, inv |-> i, to |-> to]]
           /\ seen' = [seen EXCEPT ![r] = Reads(i)]
    /\ Goto(r, "checked")
    /\ UNCHANGED <<rows, pastDue, snap, mails, sweep, picked>>

\* Or it answers 400 for the status it read, or 403 or 404 for reasons that are
\* not the status: whose the invoice is, and whether it is there.
Refuse(r) ==
    /\ pc[r] = "idle"
    /\ Goto(r, "refused")
    /\ UNCHANGED <<rows, pastDue, op, seen, snap, mails, sweep, picked>>

\* update_invoice_status commits the status, and the payment with PAID; other
\* columns are not written.
CommitStatus(r) ==
    LET i == Target(r)
    IN /\ pc[r] = "checked"
       /\ op[r].kind = "status"
       /\ Exists(i)
       /\ status' = [status EXCEPT ![i] = op[r].to]
       /\ paid' = IF op[r].to = "paid" THEN paid \cup {i} ELSE paid
       /\ Goto(r, "committed")
       /\ UNCHANGED <<fields, totals, items, pastDue, op, seen, snap, mails,
                      sweep, picked>>

\* update_invoice and delete_invoice start on the item rows: the statement sees
\* those committed now.
ReadItems(r) ==
    /\ pc[r] = "checked"
    /\ op[r].kind \in {"editItems", "delete"}
    /\ snap' = [snap EXCEPT ![r] = items[Target(r)]]
    /\ Goto(r, "clearing")
    /\ UNCHANGED <<rows, pastDue, op, seen, mails, sweep, picked>>

\* update_invoice's DELETE of the old items gets its row locks.
ClearItems(r) ==
    /\ pc[r] = "clearing"
    /\ op[r].kind = "editItems"
    /\ ~Blocked(r)
    /\ Goto(r, "cleared")
    /\ UNCHANGED <<rows, pastDue, op, seen, snap, mails, sweep, picked>>

\* update_invoice commits fields, and new items with the totals computed from
\* them; a new due date may be later or earlier than today.
CommitEdit(r) ==
    LET i == Target(r)
    IN /\ \/ pc[r] = "checked" /\ op[r].kind = "edit"
          \/ pc[r] = "cleared"
       /\ Exists(i)
       /\ fields' = [fields EXCEPT ![i] = r]
       /\ pastDue' \in {pastDue \cup {i}, pastDue \ {i}}
       /\ IF op[r].kind = "editItems"
          THEN /\ items' = [items EXCEPT ![i] = (@ \ snap[r]) \cup {r}]
               /\ totals' = [totals EXCEPT ![i] = r]
          ELSE UNCHANGED <<items, totals>>
       /\ Goto(r, "committed")
       /\ UNCHANGED <<status, paid, op, seen, snap, mails, sweep, picked>>

\* delete_invoice deletes the items it read and the row; a row that is gone
\* already is no error.
CommitDelete(r) ==
    LET i == Target(r)
    IN /\ pc[r] = "clearing"
       /\ op[r].kind = "delete"
       /\ ~Blocked(r)
       /\ items[i] \subseteq snap[r]
       /\ status' = [status EXCEPT ![i] = "absent"]
       /\ items' = [items EXCEPT ![i] = {}]
       /\ Goto(r, "ok")
       /\ UNCHANGED <<paid, fields, totals, pastDue, op, seen, snap, mails,
                      sweep, picked>>

\* The foreign key of an item row it did not read refuses the delete.
RefuseDelete(r) ==
    /\ pc[r] = "clearing"
    /\ op[r].kind = "delete"
    /\ ~Blocked(r)
    /\ ~(items[Target(r)] \subseteq snap[r])
    /\ Goto(r, "failed")
    /\ UNCHANGED <<rows, pastDue, op, seen, snap, mails, sweep, picked>>

\* send_invoice makes the PDF of the row it read and the items it reads now,
\* and queues the e-mail; a queue that fails is logged and passed over.
QueueMail(r) ==
    LET i == Target(r)
    IN /\ pc[r] = "checked"
       /\ op[r].kind = "send"
       /\ \/ mails' = mails \cup {[by |-> r, inv |-> i, fields |-> seen[r].fields,
                                   totals |-> seen[r].totals, items |-> items[i]]}
          \/ UNCHANGED mails
       /\ Goto(r, "queued")
       /\ UNCHANGED <<rows, pastDue, op, seen, snap, sweep, picked>>

\* No customer e-mail (400), or no PDF (500): nothing has happened yet.
RefuseSend(r) ==
    /\ pc[r] = "checked"
    /\ op[r].kind = "send"
    /\ Goto(r, "refused")
    /\ UNCHANGED <<rows, pastDue, op, seen, snap, mails, sweep, picked>>

\* send_invoice commits SENT after the e-mail was queued.
CommitSent(r) ==
    LET i == Target(r)
    IN /\ pc[r] = "queued"
       /\ Exists(i)
       /\ status' = [status EXCEPT ![i] = "sent"]
       /\ Goto(r, "committed")
       /\ UNCHANGED <<paid, fields, totals, items, pastDue, op, seen, snap,
                      mails, sweep, picked>>

\* A commit or a refresh whose row is gone raises: 500, after a commit or not.
RowGone(r) ==
    /\ \/ pc[r] = "checked" /\ op[r].kind \in {"status", "edit"}
       \/ pc[r] \in {"cleared", "queued", "committed"}
    /\ ~Exists(Target(r))
    /\ Goto(r, "failed")
    /\ UNCHANGED <<rows, pastDue, op, seen, snap, mails, sweep, picked>>

\* After refresh, audit entry and cache invalidation, 200.
Answer(r) ==
    /\ pc[r] = "committed"
    /\ Exists(Target(r))
    /\ Goto(r, "ok")
    /\ UNCHANGED <<rows, pastDue, op, seen, snap, mails, sweep, picked>>

\* The worker process dies: what is committed and queued stays.
Crash(r) ==
    /\ pc[r] \notin Finished
    /\ Goto(r, "crashed")
    /\ UNCHANGED <<rows, pastDue, op, seen, snap, mails, sweep, picked>>

-----------------------------------------------------------------------------

\* check_overdue_invoices finds the SENT invoices that are past their due date.
SweepPick ==
    /\ sweep = "idle"
    /\ picked' = {i \in Invoices : status[i] = "sent" /\ i \in pastDue}
    /\ sweep' = "picked"
    /\ UNCHANGED <<rows, pastDue, pc, op, seen, snap, mails>>

\* It commits OVERDUE for all of them at once, or, when one of their rows is
\* gone, rolls all of it back.
SweepCommit ==
    /\ sweep = "picked"
    /\ status' = IF \A i \in picked : Exists(i)
                 THEN [i \in Invoices |-> IF i \in picked THEN "overdue"
                                                          ELSE status[i]]
                 ELSE status
    /\ sweep' = "idle"
    /\ picked' = {}
    /\ UNCHANGED <<paid, fields, totals, items, pastDue, pc, op, seen, snap,
                   mails>>

\* The Celery worker dies, or the database refuses: nothing is marked.
SweepAbort ==
    /\ sweep = "picked"
    /\ sweep' = "idle"
    /\ picked' = {}
    /\ UNCHANGED <<rows, pastDue, pc, op, seen, snap, mails>>

DayPasses ==
    /\ \E i \in Invoices \ pastDue : pastDue' = pastDue \cup {i}
    /\ UNCHANGED <<rows, pc, op, seen, snap, mails, sweep, picked>>

Handle(r) ==
    \/ CommitStatus(r) \/ ReadItems(r) \/ ClearItems(r) \/ CommitEdit(r)
    \/ CommitDelete(r) \/ RefuseDelete(r)
    \/ QueueMail(r) \/ RefuseSend(r) \/ CommitSent(r)
    \/ RowGone(r) \/ Answer(r)

Next == \/ \E r \in Requests : Begin(r) \/ Refuse(r) \/ Handle(r) \/ Crash(r)
        \/ SweepPick \/ SweepCommit \/ SweepAbort \/ DayPasses

Spec == Init /\ [][Next]_vars

\* Server threads run a started request to its end; beat starts the sweep every
\* hour and not every one of them is aborted.
FairSpec == Spec /\ WF_vars(SweepPick) /\ SF_vars(SweepCommit)
                 /\ \A r \in Requests : WF_vars(Handle(r))

-----------------------------------------------------------------------------

TypeOK ==
    /\ status \in [Invoices -> Statuses \cup {"absent"}]
    /\ paid \subseteq Invoices
    /\ fields \in [Invoices -> Authors]
    /\ totals \in [Invoices -> Authors]
    /\ items \in [Invoices -> SUBSET Authors]
    /\ pastDue \subseteq Invoices
    /\ pc \in [Requests -> Steps]
    /\ op \in [Requests -> Operation \cup {NoOperation}]
    /\ seen \in [Requests -> Row]
    /\ snap \in [Requests -> SUBSET Authors]
    /\ mails \subseteq Mail
    /\ sweep \in {"idle", "picked"}
    /\ picked \subseteq Invoices

\* However requests and the sweep interleave, an invoice that is PAID has its
\* payment recorded, and no DRAFT has one.
PaymentMatchesStatus ==
    \A i \in Invoices : /\ status[i] = "paid" => i \in paid
                        /\ i \in paid => status[i] # "draft"

\* The amounts of an invoice were computed from item rows that are still there,
\* and a deleted invoice leaves no item row behind, whatever edits and deletes
\* race.
AmountsHaveItems ==
    \A i \in Invoices : IF Exists(i) THEN totals[i] \in items[i] ELSE items[i] = {}

\* An invoice that has left DRAFT never returns to it, a deleted one never comes
\* back, and a recorded payment is never erased, however stale a handler's read.
NoWayBack ==
    [][\A i \in Invoices : /\ status[i] # "draft" => status'[i] # "draft"
                           /\ status[i] = "absent" => status'[i] = "absent"
                           /\ i \in paid => i \in paid']_vars

\* "# Cannot transition from PAID": nothing takes an invoice out of PAID.
PaidIsFinal ==
    [][\A i \in Invoices : status[i] = "paid" => status'[i] = "paid"]_vars

\* A commit that acts on what is no longer so: the invoice has another status
\* than the handler read, or other items than it cleared; or the sweep marks an
\* invoice that is not SENT any more.
OutdatedRequest(r) ==
    /\ pc[r] \in {"checked", "clearing", "cleared", "queued"}
    /\ pc'[r] # pc[r]
    /\ \/ status[Target(r)] # seen[r].status
       \/ pc[r] = "cleared" /\ items[Target(r)] # snap[r]
OutdatedSweep == sweep' # sweep /\ \E i \in picked : status[i] # "sent"
Outdated == OutdatedSweep \/ \E r \in Requests : OutdatedRequest(r)

\* The e-mail shows what the invoice holds.
ShowsRow(m) == <<m.fields, m.totals, m.items>> =
                   <<fields[m.inv], totals[m.inv], items[m.inv]>>

\* The e-mail of a send shows what the invoice holds at the commit of SENT, if
\* nothing was edited since the handler's read, and ever after: only a commit
\* that acts on an outdated read makes the mailed PDF differ from the row.
MailedIsStored ==
    [][\A m \in mails :
           /\ pc[m.by] = "queued" /\ pc'[m.by] = "committed" =>
                  ShowsRow(m)' \/ Reads(m.inv) # seen[m.by]
           /\ pc[m.by] \in {"committed", "ok"} /\ ShowsRow(m) =>
                  ShowsRow(m)' \/ Outdated]_vars

\* A SENT invoice that is past its due date does not stay so.
LateIsMarked ==
    \A i \in Invoices :
        status[i] = "sent" /\ i \in pastDue ~> ~(status[i] = "sent" /\ i \in pastDue)

\* No handler waits for ever, on item rows least of all.
EveryRequestEnds == \A r \in Requests : pc[r] = "checked" ~> pc[r] \in Finished

-----------------------------------------------------------------------------

\* Every change of a row is one the documented life of an invoice allows, but
\* for a commit that acts on an outdated read: the steps between read and commit
\* add nothing else.
Contract == INSTANCE InvoiceContract WITH
                content <- [i \in Invoices |-> <<fields[i], totals[i], items[i]>>],
                consistent <- {i \in Invoices : items[i] = {totals[i]}}
ContractUnlessOutdated ==
    Contract!Init /\ [][Contract!Next \/ Outdated]_(Contract!vars)
=============================================================================
