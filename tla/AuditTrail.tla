----------------------------- MODULE AuditTrail -----------------------------
(***************************************************************************)
(* The audit log: how handlers append to it                                 *)
(* (create_audit_log in app/services/audit_logger.py, called from           *)
(* update_invoice_status, from login, and from the handlers that change     *)
(* is_active of a tenant: suspend_tenant, reactivate_tenant, delete_tenant  *)
(* and the two updates), and how it is read page by page                    *)
(* (app/api/v1/endpoints/audit_logs.py, list_platform_audit_logs in         *)
(* admin.py).                                                               *)
(*                                                                         *)
(* A handler reads a row, commits its change, reads the row again, and only *)
(* then adds an entry, in a transaction of its own: the worker may die      *)
(* between, and an entry the database refuses is passed over.  The overdue  *)
(* sweep and the sending of an invoice change its status and log nothing.   *)
(* An entry is stamped when it is made and seen when it is committed.  A    *)
(* page is two queries, the count and the rows of the page.                 *)
(***************************************************************************)
EXTENDS Naturals, FiniteSets

CONSTANTS Requests,   \* slots for handlers that run at the same time
          Readers,    \* clients that fetch the log page after page
          Limit,      \* the limit they ask for
          Asked,      \* the changes that handlers are asked for
          MaxEntries  \* bound: no handler begins once as many entries are made

ASSUME PagesHaveEntries == Limit \in Nat \ {0} /\ MaxEntries \in Nat

\* A server has so many threads.
ASSUME SlotsAreFinite == IsFiniteSet(Requests)

VARIABLES
    value,     \* the status of an invoice, is_active of a tenant
    trail,     \* the audit_logs table
    clock,     \* the stamp of the entry made last
    pc, job,   \* per request: step, and the change it is to make
    seen,      \* the status of the invoice, read again after the commit
    stamp,     \* created_at of the entry it has made
    at,        \* per reader: step
    view,      \* the list it reads
    skip, total,  \* the offset of its page, the number counted for it
    clash,     \* history: requests whose thing another one changed, or had
               \* changed and not logged yet, while they ran
    gap,       \* history: per thing, whether a change was not logged, or not by
               \* a proper entry, with no proper entry since
    since,     \* history: per thing, the stamp of the entry that ended the last
               \* gap, 0 if there was none
    owed,      \* history: the stamps of the entries that were there when the
               \* reader began, and that it has not received
    late       \* history: readers whose last page was counted before an entry
               \* and fetched after it

requestVars == <<pc, job, seen, stamp, clash>>
readerVars == <<at, view, skip, total, owed, late>>
tableVars == <<value, trail, clock, gap, since>>
vars == <<requestVars, readerVars, tableVars>>

Things == {"invoice", "tenant"}
\* The values at the beginning.
First == [invoice |-> "DRAFT", tenant |-> "active"]
Statuses == {"DRAFT", "SENT", "OVERDUE", "PAID"}
\* is_active: TRUE, FALSE or NULL.
Flags == {"active", "suspended", "null"}
Values == Statuses \cup Flags \cup {"none"}

\* A change, and the value that its entry is to give as the one before.
Change(thing, from, to, told) == [thing |-> thing, from |-> from, to |-> to, told |-> told]

InvoiceChanges ==
    {Change("invoice", "DRAFT", "SENT", "DRAFT"), Change("invoice", "SENT", "PAID", "SENT"),
     Change("invoice", "SENT", "OVERDUE", "SENT"), Change("invoice", "OVERDUE", "PAID", "OVERDUE")}

\* The two updates of a tenant tell what they loaded and what the body says, when
\* the two differ.
TenantUpdates == {Change("tenant", flag[1], flag[2], flag[1]) :
                     flag \in {pair \in Flags \X Flags : pair[1] # pair[2]}}

\* suspend_tenant and reactivate_tenant ask whether is_active is true, and tell a
\* literal, whatever they loaded.
Suspensions == {Change("tenant", "active", "suspended", "active")}
Reactivations == {Change("tenant", flag, "active", "suspended") : flag \in Flags \ {"active"}}

\* delete_tenant clears is_active, and its entry tells neither value.
Deletions == {Change("tenant", "active", "suspended", "none")}

Changes == UNION {InvoiceChanges, TenantUpdates, Suspensions, Reactivations, Deletions}
ASSUME AskedAreChanges == Asked \subseteq Changes

\* A failed login is logged, without a tenant, and changes nothing.
FailedLogin == Change("login", "none", "none", "none")
\* What no audit entry is written for: send_invoice and check_overdue_invoices.
\* (They too check and write apart; what they do to the entries of others is told
\* by their commit alone.)
SilentChanges == {c \in InvoiceChanges : c.to = "SENT" \/ c.to = "OVERDUE"}

\* What a list holds: everything for a superadmin, or what is about one invoice.
Matches(v, e) == v = "platform" \/ e.thing = "invoice"
Listed(v) == {e \in trail : Matches(v, e)}

Goto(r, step) == pc' = [pc EXCEPT ![r] = step]
Unlogged(r) == pc[r] \in {"changed", "reread", "stamped"}
About(r, t) == pc[r] # "idle" /\ job[r].thing = t

-----------------------------------------------------------------------------

(***************************************************************************)
(* Slips a maintainer could make, each named after the definition it would  *)
(* replace.                                                                 *)
(***************************************************************************)

\* The old value is taken from the object after it was assigned.
EntryAssigned(r) == [thing |-> job[r].thing, before |-> job[r].to, after |-> job[r].to,
                     stamp |-> stamp[r]]

\* An entry whose commit was not confirmed is added once more.
EntryFailsTwice(r) ==
    /\ pc[r] = "stamped"
    /\ trail' = trail \cup {[thing |-> job[r].thing, before |-> job[r].told,
                             after |-> job[r].to, stamp |-> stamp[r]]}
    /\ UNCHANGED <<requestVars, readerVars, value, clock, gap, since>>

\* The page after the last but one is not announced.
NextIsFull(k, n) == k + Limit + 1 < n

-----------------------------------------------------------------------------

Init == /\ value = First
        /\ trail = {} /\ clock = 0
        /\ pc = [r \in Requests |-> "idle"]
        /\ job = [r \in Requests |-> FailedLogin]
        /\ seen = [r \in Requests |-> "none"]
        /\ stamp = [r \in Requests |-> 0]
        /\ at = [w \in Readers |-> "off"]
        /\ view = [w \in Readers |-> "platform"]
        /\ skip = [w \in Readers |-> 0]
        /\ total = [w \in Readers |-> 0]
        /\ owed = [w \in Readers |-> {}]
        /\ late = {} /\ clash = {}
        /\ gap = [t \in Things |-> FALSE]
        /\ since = [t \in Things |-> 0]

\* No more handlers begin than there is room for entries.
Room == clock + Cardinality({s \in Requests : pc[s] \in {"loaded", "changed", "reread"}})
            < MaxEntries

\* The row is read and the change admitted.
Load(r) == \E c \in Asked :
    /\ pc[r] = "idle" /\ Room
    /\ value[c.thing] = c.from
    /\ job' = [job EXCEPT ![r] = c]
    /\ Goto(r, "loaded")
    /\ clash' = IF \E s \in Requests : About(s, c.thing) /\ Unlogged(s)
                THEN clash \cup {r} ELSE clash
    /\ UNCHANGED <<seen, stamp, readerVars, tableVars>>

\* A login with a wrong password has nothing to change.
FailLogin(r) == /\ pc[r] = "idle" /\ Room
                /\ job' = [job EXCEPT ![r] = FailedLogin]
                /\ Goto(r, "reread")
                /\ UNCHANGED <<seen, stamp, clash, readerVars, tableVars>>

\* db.commit(): the row is written by id, whatever it holds by now.
CommitChange(r) ==
    /\ pc[r] = "loaded"
    /\ value' = [value EXCEPT ![job[r].thing] = job[r].to]
    /\ clash' = clash \cup {s \in Requests \ {r} : About(s, job[r].thing)}
                      \cup {s \in {r} : \E q \in Requests :
                                         About(q, job[r].thing) /\ Unlogged(q)}
    /\ Goto(r, "changed")
    /\ UNCHANGED <<job, seen, stamp, readerVars, trail, clock, gap, since>>

\* db.refresh(), or in delete_tenant the first use of the expired object.  Of a
\* tenant the entry takes only the name from it.
Reread(r) == /\ pc[r] = "changed"
             /\ seen' = [seen EXCEPT ![r] = IF job[r].thing = "invoice" THEN value.invoice ELSE @]
             /\ Goto(r, "reread")
             /\ UNCHANGED <<job, stamp, clash, readerVars, tableVars>>

\* The AuditLog object is made; no two are made in the same microsecond.
Stamp(r) == /\ pc[r] = "reread"
            /\ clock' = clock + 1
            /\ stamp' = [stamp EXCEPT ![r] = clock + 1]
            /\ Goto(r, "stamped")
            /\ UNCHANGED <<job, seen, clash, readerVars, value, trail, gap, since>>

\* The request is over.
Leave(r) == /\ Goto(r, "idle")
            /\ job' = [job EXCEPT ![r] = FailedLogin]
            /\ seen' = [seen EXCEPT ![r] = "none"]
            /\ stamp' = [stamp EXCEPT ![r] = 0]
            /\ clash' = clash \ {r}

\* The value the entry gives as the new one: of an invoice the one read again, of
\* a tenant the one that was to be written, and none if it gives no old one.
After(r) == CASE job[r].told = "none"     -> "none"
              [] job[r].thing = "invoice" -> seen[r]
              [] OTHER                    -> job[r].to

Entry(r) == [thing |-> job[r].thing, before |-> job[r].told, after |-> After(r),
             stamp |-> stamp[r]]

\* For the history: the entry of a request that ran by itself, telling the value
\* that it found.
Proper(r) == r \notin clash /\ job[r].told = job[r].from

CommitEntry(r) ==
    /\ pc[r] = "stamped"
    /\ trail' = trail \cup {Entry(r)}
    /\ gap' = [t \in Things |-> IF t = job[r].thing THEN ~Proper(r) ELSE gap[t]]
    /\ since' = [t \in Things |-> IF t = job[r].thing /\ gap[t] /\ Proper(r)
                                 THEN stamp[r] ELSE since[t]]
    /\ Leave(r)
    /\ UNCHANGED <<value, clock, readerVars>>

\* The entry is refused: rolled back, and the handler answers as if nothing was.
EntryFails(r) == /\ pc[r] = "stamped"
                 /\ gap' = [t \in Things |-> gap[t] \/ t = job[r].thing]
                 /\ Leave(r)
                 /\ UNCHANGED <<value, trail, clock, since, readerVars>>

\* The worker dies, or a query fails and the request with it.
Crash(r) == /\ pc[r] # "idle"
            /\ gap' = [t \in Things |-> gap[t] \/ (Unlogged(r) /\ t = job[r].thing)]
            /\ Leave(r)
            /\ UNCHANGED <<value, trail, clock, since, readerVars>>

\* A status is changed and nothing logged.
ChangeSilently == \E c \in SilentChanges :
    /\ value[c.thing] = c.from
    /\ value' = [value EXCEPT ![c.thing] = c.to]
    /\ gap' = [gap EXCEPT ![c.thing] = TRUE]
    /\ clash' = clash \cup {s \in Requests : About(s, c.thing)}
    /\ UNCHANGED <<pc, job, seen, stamp, readerVars, trail, clock, since>>

-----------------------------------------------------------------------------

\* The entries of a page, newest first.
Page(v, k) ==
    LET Newer(e) == {f \in Listed(v) : f.stamp > e.stamp}
    IN  {e \in Listed(v) : Cardinality(Newer(e)) \in k .. k + Limit - 1}

\* has_next of create_paginated_response.
HasNext(k, n) == k + Limit < n

\* query.count(): for the first page of a list, and for the next one.
CountFirst(w, v) ==
    /\ at[w] = "off"
    /\ view' = [view EXCEPT ![w] = v]
    /\ skip' = [skip EXCEPT ![w] = 0]
    /\ total' = [total EXCEPT ![w] = Cardinality(Listed(v))]
    /\ owed' = [owed EXCEPT ![w] = {e.stamp : e \in Listed(v)}]
    /\ at' = [at EXCEPT ![w] = "counted"]
    /\ UNCHANGED <<late, requestVars, tableVars>>
ListPlatform(w) == CountFirst(w, "platform")
ListResource(w) == CountFirst(w, "resource")
CountNext(w) == /\ at[w] = "reading"
                /\ total' = [total EXCEPT ![w] = Cardinality(Listed(view[w]))]
                /\ at' = [at EXCEPT ![w] = "counted"]
                /\ UNCHANGED <<view, skip, owed, late, requestVars, tableVars>>

\* query.offset(skip).limit(limit).all(); the client goes on while has_next.
FetchPage(w) ==
    /\ at[w] = "counted"
    /\ owed' = [owed EXCEPT ![w] = @ \ {e.stamp : e \in Page(view[w], skip[w])}]
    /\ total' = [total EXCEPT ![w] = 0]
    /\ \/ /\ HasNext(skip[w], total[w])
          /\ at' = [at EXCEPT ![w] = "reading"]
          /\ skip' = [skip EXCEPT ![w] = @ + Limit]
          /\ UNCHANGED <<view, late>>
       \/ /\ ~HasNext(skip[w], total[w])
          /\ at' = [at EXCEPT ![w] = "done"]
          /\ skip' = [skip EXCEPT ![w] = 0]
          /\ view' = [view EXCEPT ![w] = "platform"]
          /\ late' = IF total[w] = Cardinality(Listed(view[w])) THEN late
                                                               ELSE late \cup {w}
    /\ UNCHANGED <<requestVars, tableVars>>
Close(w) == /\ at[w] = "done"
            /\ at' = [at EXCEPT ![w] = "off"]
            /\ owed' = [owed EXCEPT ![w] = {}]
            /\ late' = late \ {w}
            /\ UNCHANGED <<view, skip, total, requestVars, tableVars>>

Handle(r) == \/ Load(r) \/ FailLogin(r) \/ CommitChange(r) \/ Reread(r) \/ Stamp(r)
             \/ CommitEntry(r) \/ EntryFails(r) \/ Crash(r)
Read(w) == \/ ListPlatform(w) \/ ListResource(w) \/ CountNext(w)
           \/ FetchPage(w) \/ Close(w)
Next == \/ \E r \in Requests : Handle(r)
        \/ \E w \in Readers : Read(w)
        \/ ChangeSilently
Spec == Init /\ [][Next]_vars

-----------------------------------------------------------------------------

\* Type invariant.  No two entries, committed or about to be, have one stamp.
TypeOK ==
    /\ value \in [Things -> Values] /\ value.invoice \in Statuses
    /\ trail \subseteq [thing : Things \cup {"login"}, before : Values, after : Values,
                     stamp : 1 .. clock]
    /\ clock \in 0 .. MaxEntries
    /\ pc \in [Requests -> {"idle", "loaded", "changed", "reread", "stamped"}]
    /\ job \in [Requests -> Changes \cup {FailedLogin}]
    /\ seen \in [Requests -> Values]
    /\ stamp \in [Requests -> 0 .. clock]
    /\ at \in [Readers -> {"off", "counted", "reading", "done"}]
    /\ view \in [Readers -> {"platform", "resource"}]
    /\ skip \in [Readers -> 0 .. MaxEntries] /\ total \in [Readers -> 0 .. MaxEntries]
    /\ owed \in [Readers -> SUBSET (1 .. clock)]
    /\ late \subseteq Readers /\ clash \subseteq Requests
    /\ gap \in [Things -> BOOLEAN] /\ since \in [Things -> 0 .. clock]
    /\ \A e \in trail : /\ \A f \in trail : e.stamp = f.stamp => e = f
                        /\ \A r \in Requests : pc[r] = "stamped" => e.stamp # stamp[r]

\* The entries about a thing since its last gap, and what the thing was before
\* and after them.
Story(t) == {e \in trail : e.thing = t /\ e.stamp >= since[t]}
Older(e) == {f \in Story(e.thing) : f.stamp < e.stamp}
LastOf(S) == CHOOSE e \in S : \A f \in S : f.stamp <= e.stamp

\* As the log lists them, the entries about the status of an invoice or about
\* is_active of a tenant tell one unbroken story up to the value it has now: each
\* begins where the one before it ended.  Four things break it: a change that was
\* not logged; a deletion of the tenant, whose entry gives no values; a reactivation
\* that found NULL and says FALSE; and two requests that changed the same thing at
\* once.  The next entry of a request that ran by itself and tells what it found
\* begins the story anew.
TrailIsHistory == \A t \in Things :
    ~gap[t] /\ (\A r \in Requests : About(r, t) => ~Unlogged(r)) =>
        /\ value[t] = IF Story(t) = {} THEN First[t] ELSE LastOf(Story(t)).after
        /\ \A e \in Story(t) :
               IF Older(e) # {} THEN e.before = LastOf(Older(e)).after
                                ELSE since[t] = 0 => e.before = First[t]

\* A client that goes on until has_next is false has received every entry that
\* was there when it began, however many were added in front meanwhile or, with
\* an older stamp, in between, unless one was added between the two queries
\* of the last page.
SkipHasCause == \A w \in Readers :
    at[w] = "done" /\ w \notin late => owed[w] = {}
=============================================================================
