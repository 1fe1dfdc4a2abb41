# A TLA+ model of the multi-tenant invoicing backend

The repository is a FastAPI service in which *tenants* (companies) keep users
and invoices. In production it runs as several `uvicorn` worker processes, each
with a pool of threads, over one PostgreSQL database (READ COMMITTED), with a
Celery worker and beat process over Redis, a Redis cache, and SendGrid for
e-mail (`deploy/multi-tenant-saas.service`, `app/core/celery_app.py`). A request
handler is an ordinary synchronous function with its own SQLAlchemy session;
handlers of different requests therefore interleave at every database
statement, and a process may die between any two of them.

Three properties of the sessions (`app/db/database.py`, `autoflush=False`,
`expire_on_commit=False`) shape every module here:

* an object that a session has loaded keeps its attribute values: a later query
  for the same row, `FOR UPDATE` or not, returns the same object unrefreshed;
* a commit writes `UPDATE ... WHERE id = ...` with only the columns that were
  assigned, so a condition checked on the object is not checked again, and
  columns written by two sessions merge;
* an UPDATE of a row that is gone raises `StaleDataError`; a DELETE of one only
  warns.

## 1. Inventory

| Component | State it keeps | Operations | Interacts with | What is hard | What makes it correct |
|---|---|---|---|---|---|
| Invoice creation and numbering (`invoices.py`, `models/tenant.py`, `models/invoice.py`) | the tenant's `invoice_number_sequence`, prefix and format; the invoices table with its unique constraint | create, generate number, change the settings, delete a draft | database row lock, cache invalidation | a value read before the lock it is protected by; the counter committed before the row; a worker dying with the lock | numbers differ, are not issued twice, answers agree with the table |
| Invoice lifecycle (`invoices.py`, `invoice_tasks.py`) | status, payment, amounts, item rows of an invoice | edit, change status, delete, send, hourly overdue sweep | e-mail queue, audit log, cache | check-then-act by every handler; one commit of the sweep for all tenants; mail before commit | no way back to DRAFT, payment and status agree, amounts have their items, late invoices get marked |
| E-mail delivery (`email_tasks.py`, `celery_app.py`, `email_provider.py`) | messages on the broker, attempts in execution | take, send, retry, give up | Redis broker, SendGrid | retries that raise inside their own `try`; early acknowledgement; lost answers | attempts end and are bounded, nothing given up early |
| Account links and passwords (`auth.py`, `security.py`, `models/user.py`) | token per kind of link, verified/active/must-change flags, password | verify, resend, forgot, reset, force change | e-mail queue, owner's `update_user` | tokens compared at read and not at commit; clearing by id | a link works once; a password comes from a credential; mail follows storage |
| Verification reminders (`email_tasks.py`) | none of its own | daily sweep that mails stored tokens again | account rows, queue | overlaps with verification and resend | a reminder carries a token that was stored |
| Analytics cache (`cache.py`, `analytics.py`) | Redis keys per tenant and report | report, store, invalidate, expire | every invoice handler, the sweep | set after invalidate; several statements per report; workers without Redis | staleness ends; without overlap a report is of one state |
| Tenant registry (`tenants.py`, `admin.py`, `models/tenant.py`) | tenants, identifiers, plan and status | register with owner, update, admin create/update/suspend | users, e-mail queue | identifier checked and written apart; registration queue with retries | identifiers unique, a tenant has its owner |
| User administration (`users.py`) | role, active and verified flags | create, update, soft-delete | tenants, sessions | a guard in one endpoint bypassed by another | a tenant keeps an owner, addresses differ |
| Login and its throttle (`auth.py`, `login_throttle.py`) | failure counter and cooldown in Redis | login, select tenant, refresh; count, delay, clear | Redis expiry, user and tenant rows | increment and expire apart, check and set apart; users and tenants read apart | failures fade, a success clears them, nobody inactive gets in |
| Access control (`deps.py`) | the user and tenant as read at the start | role, verified, tenant checks | all endpoints | read once, acted on later | who is admitted was active, in an active tenant, at one moment of the request |
| Tenant logo (`file_upload.py`, `tenants.py`) | file on disk and path in the row | upload, replace, delete | database, disk | two stores changed one after the other, files written by two at once | the row names the one whole file there is |
| Audit log (`audit_logger.py`, `audit_logs.py`) | append-only entries | log, query by pages | every handler | its own transaction, failures swallowed; count and rows of a page read apart | the entries tell one story; a client misses none |
| Amounts and dates (`invoices.py`, `invoice_tasks.py`, schemas) | none | totals, due-date parsing, number formatting | lifecycle, numbering | rounding, two date formats compared as text | total = subtotal - discount + tax; a late date is found late |
| Rate limiting, configuration, logging, metrics, PDF, e-mail texts, schemas, migrations | wiring, layout, declarations | - | - | - | left out (see section 8) |

## 2. Plan

The order puts first what a tenant would notice first: numbers and the life of
invoices, then what is mailed, then accounts, then the figures and the rest.

| Step | Modules | State |
|---|---|---|
| A | `InvoiceBook` (abstract), `InvoiceNumbering`, `InvoiceNumberingProofs` | done |
| B | `InvoiceContract` (abstract), `InvoiceLifecycle`, `InvoiceLifecycleProofs` | done |
| C | `AnalyticsCache`; proofs in `StaleReadsProofs` | done |
| D | `EmailDelivery`, `EmailDeliveryProofs` | done |
| E | `OneTimeLink` (abstract), `AccountLinks` with the daily reminder, `AccountLinksProofs` | done |
| F, G | `TenantRegistry` (tenants and user administration), `TenantRegistryProofs` | done |
| H | `Login` (the throttle, and what lets a request in), `LoginProofs` | done |
| I | `TenantLogo`, `TenantLogoProofs` | done |
| J | `AuditTrail` (how the log is written and read); proofs in `StaleReadsProofs` | done |
| K | overlap instead of its exclusion: what numbering, lifecycle and links promise is stated of the program as it is, but for steps that act on an outdated read (`DifferUnlessOvertaken`, `ContractUnlessOutdated`, `OneTimeUnlessOvertaken`) | done |
| L | `Amounts`, `DueDates`: pure operators against reference definitions | left |
| M | compositions of lifecycle with cache and with delivery | left |

The order of dependence is short: each abstract module is instantiated by the
detailed one next to it, each `...Proofs` module extends the detailed one, and
each `MC...` module extends it with values for TLC. `StaleReadsProofs` extends two,
`AuditTrail` and `AnalyticsCache`, the two where what a client is shown is read in
several statements; that is why the names of the latter do not repeat the former's
(`CacheInit`, `CacheNext`, `CacheSpec`, `CacheTypeOK`). The components share rows
of the database rather than calls, so what one module leaves to another is an
action of its environment there: `Configure` and `DeleteDraft` in
`InvoiceNumbering`, `OwnerSetsFlags` in `AccountLinks`, `Verify` and
`ChangePassword` in `TenantRegistry`, `Commit` in `AnalyticsCache`.

## 3. How the modules correspond to the code

Every detailed module treats a request the same way: a step `pc[r]`, what its
session has loaded (`seen`, `read`, `token`), and one action per database
statement or per stretch of code between two of them. A handler's checks are
the guards of the action that reads; its commit is an action of its own that
writes the assigned columns over whatever is stored by then. `Crash(r)` may
come between any two, and leaves what was committed or queued. The history
variables (`issued`, `spent`, `used`, `lost`, `retired`, `attempts`, ...)
are marked as such where they are declared and are read by properties only.

Above `Init`, each module has a few "slips": the way an action would look after
a plausible mistake. They are no part of `Next`; replacing the action by its
slip must break the property that is meant to notice.

**`InvoiceNumbering`** - `POST /invoices` for one tenant. `LoadTenant` is the
read at `invoices.py:243`; `LockTenant` the `SELECT ... FOR UPDATE` of
`generate_invoice_number`, which locks but does not refresh; `CommitSequence`
increments the *loaded* counter, formats the number and commits both, releasing
the lock; `InsertInvoice` and `RefuseDuplicate` are the INSERT against the
unique constraint; `AnswerCreated` the answer. `Configure` is the numbering part
of `update_tenant` and `DeleteDraft` that of `delete_invoice`; `Day` says on which
day each call is dated, in any order. `overtaken` remembers that some call counted
on from a counter that was no longer the stored one. A number is kept as what it is
formatted from (format, prefix, date, sequence), and everything that compares
numbers, the unique constraint first, compares their `Text`. What `str.format`
makes of them is left open: `Fields` and `Formatted` are any functions, so two
numbers of different parts may have one text, formatting may fail, and a format
that fails falls back to the default one as in the code. A client that posts again
after a 400 is a further request.

**`InvoiceLifecycle`** - `update_invoice`, `update_invoice_status`,
`delete_invoice`, `send_invoice` and the hourly `check_overdue_invoices`. `Begin`
reads the row and makes the handler's checks; `ReadItems`, `ClearItems` and
`CommitEdit` are the edit of the items (with the wait for item rows another
transaction is deleting); `QueueMail` and `CommitSent` the send, in that order;
`CommitStatus` and `Answer` the status endpoint, whose audit entry is
`AuditTrail`'s; `SweepPick`, `SweepCommit`, `SweepAbort` the sweep. `RowGone` is the
`StaleDataError` of a commit on a row that was deleted. What an invoice says is
a token naming who wrote it.

**`AnalyticsCache`** - the two reports of `analytics.py` over `cache.py`. The
invoices are a version number; a report is `[from, till]`, the versions at its
first statement and when it was stored. `Scan`, `Delete` and `Finish` are
`invalidate_tenant_cache`, `Abandon` any way it is not completed, `Expire` the
300 seconds.

**`EmailDelivery`** - the four sending tasks, which share one body. `waiting` and
`running` count messages and attempts per task and `request.retries`. `Refuse` is
an answer of the provider that is not acceptance (both `self.retry` calls
publish), `Raise` an exception before that (one does), `Succeed` acceptance,
`Drop` a missing provider or a dying process. An answer of the provider that is
lost is a `Refuse`: the e-mail may have been sent.

**`AccountLinks`** - one account row: `Begin...` actions are the reads and checks
of the five endpoints of `auth.py`, `Commit...`, `ClearReset` and `MailLink` their
later steps. `ReadReminder` and `QueueReminder` are the daily
`send_verification_reminders`, for this account, with `old` its cut-off of one
day. A token is named after the request that drew it: 32 random bytes do not
collide. Passwords are named after the request that set them.

**`TenantRegistry`** - the tables of tenants and users. `Send` picks a call of
`Calls`, `Authenticate` is `get_current_user` with the role check, `LoadTenant`
and `LoadUser` the handler's row, `CheckOwner`, `CheckDomain`, `CheckNumber`,
`CheckEmail` its queries, one at a time, and there is one commit per kind of
endpoint. `QueueVerification` is the registration's three attempts to queue the
e-mail. `UpdatedTenant` and `UpdatedUser` are what an UPDATE with only the
changed columns makes of the row; the columns that the schema lets be null
(`plan_type`, `is_active`, `is_verified`) may be set to it. `Refresh` is
`db.refresh` and the response model after a commit: the row is read as it is by then,
and one that shows a null where the model requires a text or a flag is answered
with a 500 (`failed`) although all is committed. A tenant begins with the plan that
its creator, who for a registration is anybody, puts in the body. A refused unique
constraint rolls back and answers an error. Rows are never removed (deletion of a user is
`is_active = False`).

**`Login`** - the user rows of one e-mail address. `BeginLogin` is the query of
the users with the password checks, `CheckTenant` the query of one tenant,
`Decide` the branch on what is left. `RecordFailedAttempt` is INCR, `SetExpiry` or
`SetNoExpiry` the EXPIRE that follows a first failure, `IsInCooldown`,
`DeleteCooldown`, `SetCooldown` and `Wake` the rest of `apply_delay`;
`ClearFailures`, `ClearCooldown` and `ClearNothing` the two deletions after a
success. `BeginSelect` and `FinishSelect` are `select_tenant`, `Refresh` is
`refresh_token`, `Admit` is `get_current_user`. `Administer` is a deactivation,
suspension or its reverse, at any moment. `during` is a history variable: which
accounts were active, which tenants open, and which both at once, at some moment
of the request. The slots of `Requests` are used again, so requests never run
out.

**`TenantLogo`** - one tenant's `logo_url` and the files under its name, one for
each allowed extension. `BeginUpload` and `BeginDelete` load the row, `Reject` and
`Accept` are `validate_file`, `Look` and `Unlink` the loop of `delete_logo`
(`exists`, then `unlink`), `UnlinkFails` the file gone in between, `Open`,
`CopyFirst` and `CopySecond` the `open(..., "wb")` and `copyfileobj` of `save_logo`,
`CommitLogo` and `CommitDelete` the commit of the row. A file is two chunks, each
marked with its writer; unlinking a path leaves a writer that has it open writing
into nothing (`linked`), opening it again truncates it.

**`AuditTrail`** - entries about an invoice's status, about `is_active` of a tenant,
and failed logins. A `Change` says what a handler finds, what it writes and what its
entry is to tell as the old value, since the handlers word their entries differently:
both updates tell what they loaded and what the body says; `suspend_tenant` and
`reactivate_tenant` literals, the latter FALSE also where it found NULL;
`delete_tenant` neither value; the status endpoint what it loaded and what it
reads again after the commit (`After`). `Asked` are the changes of an instance, any
subset. `Load`, `CommitChange`, `Reread`, `Stamp` and `CommitEntry` are
a handler from reading the row to the entry's own transaction; `EntryFails` is
the rollback in `create_audit_log`. `ChangeSilently` is `send_invoice` and the
overdue sweep, which log nothing. `ListPlatform` and
`ListResource` begin with the count of one of two lists, `CountNext` and `FetchPage`
are the further queries of a client that asks page after page until `has_next` is false. Two
entries never bear one stamp here: they would have to be made in the same
microsecond.

`InvoiceBook`, `InvoiceContract` and `OneTimeLink` say what numbering, the life of
an invoice and a mailed link promise, without sessions, locks or messages.

## 4. What is checked

| Run | Instance | States | What it shows |
|---|---|---|---|
| `NumberingSafety` | 3 creations on 2 days, the default format, one whose texts meet it, and an invalid one | 200 k | Two calls under the same settings get one text only if a call counted on from a tenant another had overtaken (`DifferUnlessOvertaken`), the table and the answers are right even then (`ImplementsBook`), and every started creation ends. |
| `NumberingDuplicate` | 2 creations | counterexample | A call is overtaken indeed (section 6). |
| `LifecycleRaces` | 2 requests of any kind, 2 invoices, sweep | 72 k | Whatever overlaps, amounts have item rows and there is no way back to DRAFT or from deletion; only a commit that acts on an outdated read departs from `InvoiceContract` or from the mailed PDF; late invoices get marked and requests end. |
| `LifecyclePaidReopened` | 2 requests, 1 invoice | counterexample | A PAID invoice does not stay PAID (section 6). |
| `CacheStaleness` | 2 handlers, 2 reader threads, both reports | 323 k | An entry that misses commits overlapped one, or each commit it misses has yet to invalidate it or lost its invalidation; and staleness ends. |
| `MailRetries` | 1 e-mail, 2 pool processes | 3.2 k | The doubled retries make 15 attempts at most, nothing is given up before the last retry, each task comes to an end. |
| `MailThreeRetries` | the same | counterexample | It is more than the documented three retries (section 6). |
| `LinksRaces` | 3 requests, reminder, owner, expiries | 392 k | A token that took effect is never stored again; the password comes from a credential; no mail carries a token that was never stored; both slots are one-time links (`OneTimeLink`) but for the commits of requests another has overtaken. |
| `RegistryRaces` | 3 requests out of 25 calls, tenant with owner and member, room for one more of each | 1.4 M | Identifiers and addresses differ, registered tenants keep an owner, who is active unless `update_user` ended that, a refusal changed nothing and a 500 after a commit needs a null in the row, a last identifier is lost only by overlapping updates, the plan of a tenant that exists is changed by superadmins only. |
| `LoginRaces` | 2 slots, a tenant's account and a superadmin's of one address, 3 failures, delay from the second | 726 k | Who is let in was active within the very request, whatever is deactivated meanwhile; a success nobody overlapped leaves neither failures nor a cooldown; failures fade unless their expiry was lost. |
| `TrailRaces` | 2 handlers, 1 reading client, pages of one entry, 3 entries, changes of each kind (`AskedChanges`) | 2.0 M | The entries about a thing tell one unbroken story up to its present value, but for changes that were unlogged or overlapped, deletions and reactivations from NULL, after which the next undisturbed entry begins anew; a client that pages to the end misses nothing that was there when it began, unless an entry comes between the two queries of its last page. |
| `LogoRaces` | 2 slots, 3 extensions | 184 k | Row and file disagree only after a request that broke off or overlapped another, and the next undisturbed one clears it up; a torn file is being written, or its writers overlapped or broke off. |

A property that a run does not repeat because a theorem of section 7 states it
for every instance: `AnswerMatchesTable`, `NeverReissued`, `PaymentMatchesStatus`,
`ConfirmationsBounded`, `LeakHasCause`. They are invariants of the same
specifications and hold in these instances too.

Bounds and why they are enough:

* *Requests*. A race of these handlers needs two requests that have read before
  either commits; a third is there so that a refused, crashed or finished one
  still matters to the two (a number freed by a deletion, a newer link taken away
  by an older request, an update admitted before two others). `LifecycleRaces` has
  two because the sweep is the third party there, and because liveness is
  checked without symmetry. In `Login`, `TenantLogo` and `AuditTrail` a slot is used
  again for the next request: two slots are any number of requests, two at a
  time.
* *Failures* (`MaxFailures = 3`, `Short = 2`): a count below the threshold, at it,
  and one beyond; the three delays of the code do the same but for their length.
* *Entries* (`MaxEntries = 3`): a story with a gap in the middle, and a page that
  is moved by an entry added in front while another is still owed. `Limit = 1` is
  the size at which every entry is on a page of its own.
* *Days*. One call is dated on another day than the rest, earlier or later.
* *Formats and prefixes*. The default format, one whose text for one sequence is
  the default's for the next (`MCInvoiceNumbering` asserts it), so that a
  settings change between two calls makes their texts collide and the unique
  constraint has something to refuse, and one the validation rejects. Each of them
  tells the sequence under unchanged settings, which `DifferUnlessOvertaken` needs
  (`TextTellsSequence`, section 7).
* *Changes of `TrailRaces`*. Sending and paying an invoice, suspension,
  deletion, reactivation from both values, and an update to NULL: the ones
  that begin, break and mend a story each way.
* *One tenant, one account, one e-mail.* Rows of different tenants, accounts and
  tasks share nothing but the table (`InvoiceNumbering`'s lock and counter are
  one tenant's) or the pool (`EmailDelivery`); the proofs cover any number of
  tasks. `LifecycleRaces` has two invoices because the sweep commits them
  together.
* *Calls of `RegistryRaces`* (`MCTenantRegistry`) are those where two requests can
  want the same identifier, address, user or plan; "Ada" and "ada" are one
  address in two spellings, as `register_tenant_with_owner` stores an owner's
  address as typed.
* *Retries*. `MaxRetries = 3` is the code's own number.
* Symmetry is used for requests (and invoices) in runs without liveness; values
  that the configuration names (`Original`, the first tenant and users) are no
  part of it. A step that stops the system (all requests finished) is final
  where `CHECK_DEADLOCK FALSE` stands: in `MailRetries` and `RegistryRaces`.

## 5. Fairness

* `InvoiceNumbering`, `InvoiceLifecycle`: weak fairness on the steps of a request
  that has *started*: a thread of the server runs its handler to the end, or the
  process dies, which is an action too. That a request is ever sent is not
  assumed, nor that the owner, the client or the clock does anything.
* `InvoiceLifecycle`: weak fairness on `SweepPick` (Celery beat runs it every
  hour) and strong fairness on `SweepCommit`: a sweep may be aborted by a row
  that is gone, a dying worker or the database, but not every hour for ever.
  Without the latter, `LateIsMarked` is false, and the code does not promise it.
* `AnalyticsCache`: threads finish what they began, and Redis expires its keys.
  That a report is asked for again is not assumed.
* `Login`: Redis expires a key that has an expiry, and an attempt that counted a
  failure comes to the next command, which may fail (its process may die
  instead). Nothing is assumed of anyone who logs in.
* `EmailDelivery`: the worker takes messages that are due and an attempt ends
  (the client of the provider has a timeout, the task a time limit).

## 6. Where code and documents disagree

Three runs end in a counterexample, each of one property that quotes the
repository:

* `NumberingDuplicate` - "Generate unique invoice number for tenant using atomic
  counter" (`invoices.py:126`). The row is locked after the tenant was loaded, and
  the session answers the locked SELECT with the object it has. Two overlapping
  creations get one number; the unique constraint then turns the second away
  with 400.
* `LifecyclePaidReopened` - "Cannot transition from PAID" (`invoices.py:655`). The
  status is checked when read and written by id: a request or sweep that read
  SENT overwrites a PAID committed meanwhile.
* `MailThreeRetries` - "Max Retries: 3 attempts" (`docs/features/EMAIL_VERIFICATION.md:161`).
  `raise self.retry(...)` stands inside the `try` whose `except Exception` catches
  Celery's `Retry` and retries again.

Met while modelling, and visible in the models, but with no run of their own:

* A tenant's settings decide whether its numbers differ. Prefix "A1" with
  sequence 1 and, after `update_tenant`, prefix "A" with sequence 11 are both "A11"
  under `{prefix}{sequence}`; the format `{sequence!s:.1}` passes the validation and
  prints the first digit only. The second creation is then answered with 400. So
  `DifferUnlessOvertaken` is about
  calls under the same settings, and the theorem about it has a hypothesis on
  formats; that the *table* holds no two equal texts needs neither.
* Two overlapping requests with one token both take effect (`auth.py:1017`;
  `docs/features/PASSWORD_RESET.md:75` says the token works once). What does hold,
  and is checked, is that no request *beginning later* can use it.
* An edit or a delete that read DRAFT commits after a send: the customer was
  mailed something else than what is stored. A send whose queueing failed still
  marks the invoice SENT and answers 200 (`invoices.py:957`).
* Two overlapping updates that each clear one identifier leave a tenant with
  none (`tenants.py:462`); `IdentifierLostByOverlap` says it takes just that.
* An owner's body with `plan_type: null` clears the plan, as only a plan that is
  given is compared (`tenants.py:394`); an update admitted before a suspension,
  with `is_active: true`, lifts it.
* Such a null is committed and then rejected by the response model
  (`schemas/tenant.py:49`): the caller is answered 500 for an update that took
  effect, and so is every later update of that tenant. The same goes for `is_active`
  of a tenant and for the flags of a user.
* "Tenant plan type (only super admin can modify)" is how the schema describes a field
  (`schemas/tenant.py:51`) that `create_tenant` and the open registration
  store as the caller sends it (`tenants.py:135`, `225`). What
  `PlanIsChangedBySuperadmins` states is therefore about tenants that exist.
* `update_user` may deactivate every owner of a tenant, which `delete_user`
  refuses; `RegisteredHaveOwner` therefore lets an owner be inactive who was
  deactivated in that way, at the wish of an owner of the same tenant (`retired`).
  `create_tenant` makes tenants without one (`bare`).
* With the default lifetime of 24 hours a registration's own token expires when
  the account becomes old enough for a reminder
  (`email_tasks.py:439`, `.env.example:35`): only accounts that asked for another
  link are reminded. `ReadReminder` leaves the lifetime open.
* A process that dies between INCR and EXPIRE, or an EXPIRE that fails, leaves a
  failure counter that never expires (`login_throttle.py:76`); the next success
  clears it.
* `login` reads users and tenants in separate queries: an account may be let in
  that was deactivated before its tenant was reactivated, so that the two were
  never active at once. `get_current_user` asks in one query, and what
  it admits was.
* A status that `send_invoice` or the sweep changed has no audit entry, so the next
  entry about that invoice begins where none ended.
* A deletion of a tenant is logged without the values it changed
  (`tenants.py:517`), and a reactivation says that `is_active` was false where it
  was NULL (`admin.py:221`): after either, the entries about that tenant do not
  fit together, though no two requests overlapped and nothing was refused. The next
  entry that tells what it found begins a new story.
* A client that pages through the log by `has_next` can miss the oldest entry when
  one is added between the count and the rows of its last page
  (`audit_logs.py:155`).
* A logo upload deletes the old file before it writes the new one
  (`file_upload.py:124`): a disk that refuses leaves a row naming no file.

## 7. What is proved

The proofs are for every value of the constants, from the assumptions below
only. Each theorem that names a property is `Spec => []P` (or `Spec => [][A]_v`),
by an inductive invariant: it holds initially, each action keeps it (one proof
step per action), and it implies the property.

| Module | Invariant | Why the property alone is not inductive | Theorems |
|---|---|---|---|
| `InvoiceNumberingProofs` | `NumberingInv`: types, the lock follows the transaction, every row ever stored bears the number its request holds, a refused request has a rival whose number has the same text | a refusal is justified by a row that may be deleted later, so the rival itself must be remembered, and that it keeps its number | `TypeCorrect`, `AnswersAgree`, `LockFollowsTransaction`, `NumberingImplementsBook`, and through it `TableHasNoDuplicate` |
| | also `CounterInv`: unless a call was overtaken, the counter values given out differ and none is ahead of the stored counter | they differ because the counter is above all of them | `CountsDiffer`, and where the formats tell the counter value (`TextTellsSequence`) `NumbersDiffer`, `NumbersAreNotReissued` |
| `InvoiceLifecycleProofs` | `LifecycleInv`: types, what a working request has read (`OperationsKnown`), payment, amounts | a commit relies on the check made at the read: a request never writes DRAFT | `LifecycleTypeCorrect`, `PaymentAlwaysMatches`, `AmountsAlwaysHaveItems`, `NeverBack`, `ContractHolds` |
| | also `MailInv`: amounts name the request that committed them, a queued e-mail shows what its request read | that the row equals the e-mail at the commit needs to know what the e-mail was made of | `MailShowsTheRow` |
| `StaleReadsProofs` (cache) | `CacheInv`: every commit since an entry was put is pending for its key or lost | `StaleHasACause` speaks of entries computed without overlap only | `CacheTypeCorrect`, `StaleAlwaysHasACause`, `FreshForGood` |
| `StaleReadsProofs` (audit log) | `TrailInv`: types, and `Stamps`: every request that has yet to stamp an entry has a stamp reserved for it | the bound on stamps needs those who are on their way to one | `TrailTypeCorrect` |
| | `History`: what a handler that nobody disturbs has read still holds (`Undisturbed`), the story is told up to the last entry even while handlers are on their way (`Told`), and a story begins with an entry that exists (`Anchored`) | `TrailIsHistory` is silent while a change is made and not logged; the entry to come must be known to fit | `TrailAlwaysHistory` |
| | `ReadInv`: an entry that a paging client is owed has at least `skip` newer ones before it (`Owing`) | that nothing is owed at the end says nothing of the pages in between | `SkipAlwaysHasCause`, `PagesAreApart` |
| `EmailDeliveryProofs` | `DeliveryInv`: a credit for each message and attempt (15, 7, 3, 1 attempts and 8, 4, 2, 1 confirmations by level) | the bound on attempts says nothing of messages that still wait | `DeliveryTypeCorrect`, `AttemptsAlwaysBounded`, `ConfirmationsAlwaysBounded`, `NeverGivesUpEarly` |
| | `Work(t)`, a variant: the steps a task may still make, 30 at first | a credit that only never grows says nothing of an end | `RetriesRunDown`, `ThirtyStepsAtMost` |
| `AccountLinksProofs` | `LinksInv`: a token is issued by its request's commit (`TokensAreFresh`), what is stored, read, spent, reminded of or mailed was issued (`TokensAreIssued`) | a token could otherwise be spent before it is drawn | `LinksTypeCorrect`, `SpentStaysDead`, `PasswordAlwaysFromLink`, `MailedAlwaysStored`, `LinksAreOneTime` |
| `TenantRegistryProofs` | `RegistryInv`: types, the tables' constraints, that an inactive owner was retired (`Retirement`), and `Sound(r)`: what request `r` found out and still relies on. Each step of another request changes the tables only as `TableStep` allows, and `Sound` survives any `TableStep` | a guard on a user read earlier is worth something only if the others cannot undo it | `RegistryTypeCorrect`, `IdentifiersAlwaysDiffer`, `EmailsAlwaysDiffer`, `RegisteredAlwaysHaveOwner`, `OnlyOverlapLosesIdentifier`, `OnlySuperadminsChangePlans` |
| | also `BlankRows`, `BlankAnswers`: a row that shows a null has had one from the start or from a request whose body has it, and a request that failed saw such a row | the row a 500 could not show may be repaired by the next update; who put the null there must be remembered | `AnswersAreTrue` |
| `LoginProofs` | `LoginInv`: types, the endpoint of each step, `WitnessInv` (what a request goes by was so at a moment of it), `QuietInv` (while an undisturbed success clears, nobody counts), the leak and its cause | a grant is earned step by step: what was read must be carried to the decision through any (de)activation | `LoginTypeCorrect`, `GrantsWereEarned`, `LeaksHaveCauses`, `SuccessHasForgotten` |
| `TenantLogoProofs` | `LogoInv`: types, `SlotsFit`, `WritersFit` (a file that is not spoilt has one writer at most), `MessInv` (how far a request that has the logo for itself has come) | tidiness at the end of a request says nothing of the loop, the chunks and the commit before it | `LogoTypeCorrect`, `UndisturbedIsTidy`, `TornAlwaysHasCause` |

Three theorems are refinements of an abstract module by the program as it is
coded: `NumberingImplementsBook` without exception, `ContractHolds` and
`LinksAreOneTime` but for the commits their property names (`Outdated`,
`Overtaken`).

Assumptions on constants, all evaluated by TLC in the runs as well:
`FreeIsNoRequest`, `CallsAreDated` (`InvoiceNumbering`);
`OriginalIsNoRequest` (`InvoiceLifecycle`); `NoReportIsNone`
(`AnalyticsCache`); `ConcurrencyIsPositive` (`EmailDelivery`); `NamesDiffer`
(`AccountLinks`); `CallsAreCalls`, `MarksDiffer`, `LowerIsLower` (lower case is
idempotent), `TablesAreSound` (the tables respect the
constraints when the model starts) (`TenantRegistry`); `SuperadminsAreAccounts`,
`ThresholdsCount` (`Login`); `NoneIsNothing` (`TenantLogo`); `PagesHaveEntries`,
`SlotsAreFinite` (`AuditTrail`: a server has finitely many threads, which its
count of waiting handlers needs), `AskedAreChanges` (an instance asks for changes
that the handlers make). `NumbersDiffer` and `NumbersAreNotReissued` have one
hypothesis more, `TextTellsSequence`: under unchanged settings the text tells the
counter value, which the validation does not ensure (section 6). The names that stand for
"none" differ from what they stand beside; nothing else is assumed of sizes.

Every safety property that a run checks is proved. Model-checked only: every
liveness property (`EveryCallEnds`, `LateIsMarked`, `EveryRequestEnds`,
`StaleFades`, `EveryTaskSettles`, `CounterFades`), since fairness is defined by
ENABLED, which the provers cannot reason about. Of two of them the part that
needs no fairness is proved. `RetriesRunDown` and `ThirtyStepsAtMost`: every step
of the worker uses up work of its own task and of no other, and a task without
work is settled, so `EveryTaskSettles` needs only that the worker goes on.
`FreshForGood`: a cache that is current once no commit is to come stays so, so
`StaleFades` needs only that what is stale or under way ends.

The log's stories and pages are defined by CHOOSE and by cardinalities. The proofs
reach them by two sets of lemmas: that what is told of a thing depends on the
entries since its last gap only, and that gap ended with one of them (`SameStory`,
`AnchorStays`), and that the rank of an entry, the number of
newer ones, is finite, differs between entries and only grows (`FewEntries`,
`RanksDiffer`, `RankGrows`), so that a page is a range of ranks (`PageByRank`).

## 8. What is not modelled, and why

* *Access control beyond the reads of `Admit` and of `TenantRegistry`*:
  `require_role`, `require_verified_email` and `check_invoice_access` decide on the
  row that was read and change nothing.
* *The length of a delay*: `apply_delay` sleeps for one of three times; only
  whether there is a cooldown matters to the others.
* *What a logo contains*: `validate_file` accepts or rejects; the checks of
  extension, size and type are of one request.
* *Amounts and dates*: totals are computed by one function of one request and
  stored with the items they are of; who computed them is modelled, the arithmetic
  is not yet. Due dates are late or not; the comparison of two date formats as
  text is on the list of hazards.
* *The other audit entries* (of users, exports, logins that succeed, tokens) go
  through the same function and transaction, but what they tell of old and new
  values is not modelled, nor whether it fits together. Of the entries about a
  tenant those on `is_active` are, of an invoice those on its status. Filters by
  tenant, user, action and date narrow a list as `ListResource` does.
* *Several currencies*: a report's key has the currency in it; a key is a key.
* *Tenants over each other's data*: queries filter by `tenant_id`; a row of another
  tenant is as if it were not there.
* *Superadmin accounts* have no row in `TenantRegistry` (`Root`); their addresses are
  checked by the application only (`auth.py:141`), since a NULL tenant escapes the
  unique constraint: two registrations at once may create two.
* *Rounding* of amounts to two decimals (`models/invoice.py:192`) is a function of
  one row.
* *Rate limiting* is done by a library that the code only configures;
  *configuration, logging, metrics, error handlers* keep no state of the program;
  *PDF and e-mail texts* are layout; *schemas and migrations* are declarations.

## 9. Running it

    tlc -config LifecycleRaces.cfg MCInvoiceLifecycle.tla
    tlapm InvoiceLifecycleProofs.tla

`PROJECT.json` lists the runs with their modules and configurations, the lines
of the source that each definition models, the mutated definitions that each
property must reject, the hazards and the theorems.
