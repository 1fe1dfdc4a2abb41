--------------------------- MODULE InvoiceNumbering ---------------------------
(***************************************************************************)
(* The creation of invoices of one tenant: create_invoice and              *)
(* generate_invoice_number (app/api/v1/endpoints/invoices.py), with the     *)
(* tenant's numbering settings changed under it by update_tenant, drafts    *)
(* deleted by delete_invoice and worker processes dying at any point.       *)
(*                                                                         *)
(* A request runs in a session of its own on a READ COMMITTED database.     *)
(* create_invoice reads the tenant and keeps the object; the SELECT ... FOR *)
(* UPDATE of generate_invoice_number then locks the row, but the session    *)
(* answers it with the object it already holds, whose attributes it does    *)
(* not refresh.  So the row is locked and the values are those of the first *)
(* read: seen[r].                                                           *)
(***************************************************************************)
EXTENDS Naturals

CONSTANTS Requests,      \* the POST /invoices calls, one creation each
          Prefixes,      \* invoice_number_prefix settings, any text
          Formats,       \* invoice_number_format settings, any text
          DefaultFormat, \* "{prefix}-{date}-{sequence:04d}"
          Free,          \* the tenant row is not locked
          Day            \* the UTC day each call's number is dated, in any order

\* Python's strings: the placeholders a format names, and what str.format makes
\* of a format, a prefix, a date and a sequence number: a text, or Failure.
CONSTANTS Fields(_), Formatted(_, _, _, _), Failure

\* The placeholders a format may name; a format with another is not valid.
Placeholders == {"prefix", "date", "sequence"}

\* The prefix and format that are in force when the setting is empty or, the
\* format, not valid.
INV == "INV"

ASSUME FreeIsNoRequest == Free \notin Requests
ASSUME CallsAreDated == Day \in [Requests -> Nat]

(***************************************************************************)
(* A number is kept as what it is formatted from.  Its text is what the     *)
(* table holds, the unique constraint compares and the customer reads: two  *)
(* numbers formatted from different parts may well have one text.           *)
(***************************************************************************)
Number == [format   : Formats \cup {DefaultFormat}, prefix : Prefixes \cup {INV},
           date     : Nat, sequence : Nat]
NoNumber == [format |-> DefaultFormat, prefix |-> INV, date |-> 0, sequence |-> 0]

VARIABLES
    tenant,       \* the committed tenant row: prefix, format, sequence
    tenantLock,   \* the request whose transaction holds the row lock, or Free
    pc,           \* where each request is
    seen,         \* the tenant object a request will number from, or Unread
    number,       \* the number each request generated, or NoNumber
    invoices,     \* the committed rows of invoices: [by, number]
    issued,       \* history: every [by, number] that ever was a row
    overtaken     \* history: a request has counted on from a value that was no
                  \* longer the row's

vars == <<tenant, tenantLock, pc, seen, number, invoices, issued, overtaken>>

TenantRow == [prefix : Prefixes, format : Formats, sequence : Nat]
\* Nothing read yet, or the number made of it: no later step counts from it.
Unread == [prefix |-> "", format |-> DefaultFormat, sequence |-> 0]
Steps == {"idle", "loaded", "locked", "numbered", "stored",
          "created", "refused", "crashed"}
Answered == {"created", "refused", "crashed"}
InvoiceRow == [by : Requests, number : Number]

-----------------------------------------------------------------------------

\* validate_invoice_number_format: only known placeholders, the sequence among
\* them, and a trial with a sample of each goes through.
ValidFormat(f) ==
    /\ Fields(f) \subseteq Placeholders /\ "sequence" \in Fields(f)
    /\ Formatted(f, "TEST", 20260103, 1) # Failure

\* What a tenant object, a day and a counter value are formatted from.
NumberFor(t, day, seq) ==
    [format   |-> IF ValidFormat(t.format) THEN t.format ELSE DefaultFormat,
     prefix   |-> IF t.prefix = "" THEN INV ELSE t.prefix,
     date     |-> day,
     sequence |-> seq]

\* What they are formatted to: by the format, or by the default one when the
\* formatting fails after all.
Text(n) ==
    LET text == Formatted(n.format, n.prefix, n.date, n.sequence)
    IN IF text # Failure THEN text
       ELSE Formatted(DefaultFormat, n.prefix, n.date, n.sequence)

\* Two slips (see the slips below): the number is taken by nobody, and the
\* counter is decremented.
TakenByNobody(n) == FALSE
PreviousSequence(t) == t.sequence - 1

\* uq_invoice_tenant_invoice_number: another row of the tenant has the text.
Taken(n) == \E i \in invoices : Text(i.number) = Text(n)

\* The counter value a tenant object gives out.
NextSequence(t) == t.sequence + 1

-----------------------------------------------------------------------------

(***************************************************************************)
(* Slips a maintainer could make, each named after the definition it would  *)
(* replace; they are no part of Next, and show that the properties would    *)
(* notice.                                                                  *)
(***************************************************************************)

\* The INSERT that was refused is tried once more, with the same number.
TryDuplicateAgain(r) ==
    /\ pc[r] = "numbered"
    /\ Taken(number[r])
    /\ UNCHANGED vars

\* A deleted draft gives its number back.
DeleteDraftGivingBack ==
    /\ \E i \in invoices : invoices' = invoices \ {i}
    /\ tenantLock = Free /\ tenant.sequence > 0
    /\ tenant' = [tenant EXCEPT !.sequence = @ - 1]
    /\ UNCHANGED <<tenantLock, pc, seen, number, issued, overtaken>>

-----------------------------------------------------------------------------

Init ==
    /\ tenant \in [prefix : Prefixes, format : Formats, sequence : {0}]
    /\ tenantLock = Free
    /\ pc = [r \in Requests |-> "idle"]
    /\ seen = [r \in Requests |-> Unread]
    /\ number = [r \in Requests |-> NoNumber]
    /\ invoices = {}
    /\ issued = {}
    /\ overtaken = FALSE

\* create_invoice reads the tenant into its session and keeps the object.
LoadTenant(r) ==
    /\ pc[r] = "idle"
    /\ pc' = [pc EXCEPT ![r] = "loaded"]
    /\ seen' = [seen EXCEPT ![r] = tenant]
    /\ UNCHANGED <<tenant, tenantLock, number, invoices, issued, overtaken>>

\* SELECT ... FOR UPDATE: waits for the row lock, keeps the values it had.
LockTenant(r) ==
    /\ pc[r] = "loaded"
    /\ tenantLock = Free
    /\ tenantLock' = r
    /\ pc' = [pc EXCEPT ![r] = "locked"]
    /\ UNCHANGED <<tenant, seen, number, invoices, issued, overtaken>>

\* The counter is incremented, the number formatted, and the commit writes the
\* one column that changed and releases the lock.
CommitSequence(r) ==
    LET next == NextSequence(seen[r])
    IN /\ pc[r] = "locked"
       /\ tenant' = [tenant EXCEPT !.sequence = next]
       /\ seen' = [seen EXCEPT ![r] = Unread]
       /\ number' = [number EXCEPT ![r] = NumberFor(seen[r], Day[r], next)]
       /\ tenantLock' = Free
       /\ overtaken' = (overtaken \/ seen[r].sequence # tenant.sequence)
       /\ pc' = [pc EXCEPT ![r] = "numbered"]
       /\ UNCHANGED <<invoices, issued>>

\* INSERT and commit, which uq_invoice_tenant_invoice_number lets through.
InsertInvoice(r) ==
    LET row == [by |-> r, number |-> number[r]]
    IN /\ pc[r] = "numbered"
       /\ ~Taken(number[r])
       /\ invoices' = invoices \cup {row}
       /\ issued' = issued \cup {row}
       /\ pc' = [pc EXCEPT ![r] = "stored"]
       /\ UNCHANGED <<tenant, tenantLock, seen, number, overtaken>>

\* The unique constraint refuses the row: rollback and 400.
RefuseDuplicate(r) ==
    /\ pc[r] = "numbered"
    /\ Taken(number[r])
    /\ pc' = [pc EXCEPT ![r] = "refused"]
    /\ UNCHANGED <<tenant, tenantLock, seen, number, invoices, issued, overtaken>>

\* The cache is invalidated and 201 is answered.
AnswerCreated(r) ==
    /\ pc[r] = "stored"
    /\ pc' = [pc EXCEPT ![r] = "created"]
    /\ UNCHANGED <<tenant, tenantLock, seen, number, invoices, issued, overtaken>>

\* The worker dies, or an error the handler does not catch ends the request: the
\* formatting fails with another error, the database rejects the row (a text
\* longer than the column).  The transaction is rolled back and its lock released.
Crash(r) ==
    /\ pc[r] \notin Answered \cup {"idle"}
    /\ pc' = [pc EXCEPT ![r] = "crashed"]
    /\ tenantLock' = IF tenantLock = r THEN Free ELSE tenantLock
    /\ seen' = [seen EXCEPT ![r] = Unread]
    /\ UNCHANGED <<tenant, number, invoices, issued, overtaken>>

\* update_tenant writes a new prefix or format; its UPDATE waits for the lock.
Configure ==
    /\ tenantLock = Free
    /\ \E p \in Prefixes, f \in Formats :
           tenant' = [tenant EXCEPT !.prefix = p, !.format = f]
    /\ UNCHANGED <<tenantLock, pc, seen, number, invoices, issued, overtaken>>

\* delete_invoice removes a draft; issued remembers it.
DeleteDraft ==
    /\ \E i \in invoices : invoices' = invoices \ {i}
    /\ UNCHANGED <<tenant, tenantLock, pc, seen, number, issued, overtaken>>

Creation(r) == \/ LoadTenant(r)    \/ LockTenant(r)      \/ CommitSequence(r)
               \/ InsertInvoice(r) \/ RefuseDuplicate(r) \/ AnswerCreated(r)

Next == \/ \E r \in Requests : Creation(r) \/ Crash(r)
        \/ Configure \/ DeleteDraft

Spec == Init /\ [][Next]_vars

\* A request that has started is run by a thread of the server to its end; that
\* it starts is up to the client.
FairSpec == Spec /\ \A r \in Requests : WF_vars(Creation(r) /\ pc[r] # "idle")

-----------------------------------------------------------------------------

TypeOK ==
    /\ tenant \in TenantRow
    /\ tenantLock \in Requests \cup {Free}
    /\ pc \in [Requests -> Steps]
    /\ seen \in [Requests -> TenantRow \cup {Unread}]
    /\ number \in [Requests -> Number]
    /\ invoices \subseteq InvoiceRow
    /\ issued \subseteq InvoiceRow
    /\ overtaken \in BOOLEAN

\* The answer agrees with the table: 201 only for a call whose invoice was
\* stored under the number it generated, 400 only for one that never was, and
\* whose text was on the invoice of another call.
AnswerMatchesTable ==
    \A r \in Requests :
        LET stored == \E i \in issued : i.by = r /\ i.number = number[r]
        IN /\ pc[r] \in {"stored", "created"} => stored
           /\ pc[r] \in {"idle", "loaded", "locked", "numbered", "refused"} => ~stored
           /\ pc[r] = "refused" =>
                  \E i \in issued : i.by # r /\ Text(i.number) = Text(number[r])

Generated == {r \in Requests : number[r] # NoNumber}

\* "Generate unique invoice number for tenant using atomic counter": two calls
\* of generate_invoice_number never return the same text.
GeneratedNumbersDiffer ==
    \A r, s \in Generated : Text(number[r]) = Text(number[s]) => r = s

\* The settings a number was formatted under.
SettingsOf(n) == <<n.format, n.prefix>>

\* And they do not, through changing days, deleted drafts and dying workers, unless
\* some call has counted on from a tenant object another call's commit had
\* overtaken, which the row lock fails to prevent, or update_tenant has changed
\* the settings between the two: nothing keeps the texts of two settings apart.
DifferUnlessOvertaken ==
    \/ overtaken
    \/ \A r, s \in Generated :
           SettingsOf(number[r]) = SettingsOf(number[s])
               /\ Text(number[r]) = Text(number[s]) => r = s

\* A text is never printed on two invoices, not even when the first of them was
\* deleted as a draft in between; but for overtaken reads and changed settings.
NeverReissued ==
    \/ overtaken
    \/ \A i, j \in issued :
           SettingsOf(i.number) = SettingsOf(j.number)
               /\ Text(i.number) = Text(j.number) => i = j

\* What the two ask of the tenant's formats, and validation does not: under given
\* settings the text tells the counter value, on whatever days.  The valid format
\* "{sequence!s:.1}" prints the first digit only.
TextTellsSequence ==
    \A m, n \in Number :
        SettingsOf(m) = SettingsOf(n) /\ Text(m) = Text(n) => m.sequence = n.sequence

\* Every creation that has started is answered in the end, or its worker died.
EveryCallEnds == <>[](\A r \in Requests : pc[r] \in Answered \cup {"idle"})

-----------------------------------------------------------------------------

\* The table and the answers, as InvoiceBook sees them.
Outcome ==
    [r \in Requests |->
        CASE pc[r] = "stored"  -> "entered"
          [] pc[r] = "created" -> "created"
          [] pc[r] = "refused" -> "refused"
          [] pc[r] = "crashed" -> "lost"
          [] OTHER             -> "pending"]

Printed == {[by |-> i.by, number |-> Text(i.number)] : i \in invoices}

Book == INSTANCE InvoiceBook WITH book <- Printed, outcome <- Outcome

\* Every step of numbering is one the book of invoices allows: an invoice is
\* entered under a free number, confirmed after, refused only over a rival.
ImplementsBook == Book!Spec
=============================================================================
