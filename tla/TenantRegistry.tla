--------------------------- MODULE TenantRegistry ---------------------------
(***************************************************************************)
(* Tenants and their users: registration, the updates of a tenant by its   *)
(* owner or a superadmin, suspension, and the user administration of an    *)
(* owner (app/api/v1/endpoints/tenants.py, admin.py, users.py).            *)
(*                                                                         *)
(* A request runs the statements of its handler one at a time, and other   *)
(* requests run between them: who acts is read first (get_current_user),   *)
(* then the row, then one query for every key that must be free, and the   *)
(* commit comes last.  A commit writes the columns that were assigned a    *)
(* value other than the loaded one, and no other; the unique constraints   *)
(* of PostgreSQL are all that is checked again.  After the commit the row  *)
(* is read once more, and what the answer shows of it must not be null.    *)
(*                                                                         *)
(* Rows are never removed.  The superadmin Root is no row of the model.    *)
(***************************************************************************)
EXTENDS Naturals

CONSTANTS
    Tenants,        \* identities of tenant rows
    Users,          \* identities of user rows
    Requests,       \* requests, each sent once at most
    Domains,        \* values of tenants.domain
    Numbers,        \* values of tenants.business_registration_number
    Emails,         \* addresses as they are spelled
    Lower,          \* the spelling of an address in lower case
    Plans,          \* values of tenants.plan_type
    Calls,          \* the requests that are sent
    Root,           \* the superadmin
    None,           \* NULL, and a row that is not there
    Keep,           \* a field that the body of an update does not mention
    OldTenants,     \* the tables when the model starts
    OldUsers

VARIABLES
    tenants,        \* table tenants: a row or None for every identity
    users,          \* table users
    pc,             \* where a request is
    call,           \* what it asks for
    read,           \* the row its session has loaded last
    tries,          \* attempts to publish the verification e-mail
    wrote,          \* the row its transaction has written, or None
    bare,           \* tenants made by create_tenant, which makes no owner
    retired         \* history: owners whose deactivation an owner of their own
                    \* tenant asked update_user for

vars == <<tenants, users, pc, call, read, tries, wrote, bare, retired>>

Roles == {"OWNER", "STAFF"}

\* The flags of a row may be null, and a null is no yes.
Flags == BOOLEAN \cup {None}

TenantRow == [domain : Domains \cup {None}, number : Numbers \cup {None},
              plan : Plans \cup {None}, active : Flags]

UserRow == [tenant : Tenants, email : Emails, role : Roles,
            active : Flags, verified : Flags, mustChange : BOOLEAN]

TenantChanges == [domain : Domains \cup {None, Keep}, number : Numbers \cup {None, Keep},
                  plan : Plans \cup {None, Keep}, active : Flags \cup {Keep}]

UserChanges == [role : Roles \cup {Keep}, active : Flags \cup {Keep},
                verified : Flags \cup {Keep}]

RegisterCalls == [op : {"register"}, domain : Domains \cup {None},
                  number : Numbers \cup {None}, plan : Plans, email : Emails]
CreateTenantCalls == [op : {"createTenant"}, domain : Domains \cup {None},
                      number : Numbers \cup {None}, plan : Plans]
UpdateTenantCalls == [op : {"updateTenant"}, actor : Users \cup {Root},
                      tenant : Tenants, change : TenantChanges]
SetActiveCalls == [op : {"setActive"}, actor : {Root}, tenant : Tenants, active : BOOLEAN]
CreateUserCalls == [op : {"createUser"}, actor : Users, email : Emails, role : Roles]
UpdateUserCalls == [op : {"updateUser"}, actor : Users, user : Users, change : UserChanges]
DeleteUserCalls == [op : {"deleteUser"}, actor : Users, user : Users]

AllCalls == UNION {RegisterCalls, CreateTenantCalls, UpdateTenantCalls, SetActiveCalls,
                   CreateUserCalls, UpdateUserCalls, DeleteUserCalls}

MaxTries == 3

ASSUME CallsAreCalls == Calls \subseteq AllCalls

ASSUME MarksDiffer ==
    /\ None # Keep /\ None \notin BOOLEAN
    /\ None \notin TenantRow \cup UserRow
    /\ \A S \in {Domains, Numbers, Plans} : None \notin S /\ Keep \notin S
    /\ Keep \notin Roles /\ Keep \notin BOOLEAN
    /\ Root \notin Users /\ None \notin Tenants \cup Users

ASSUME LowerIsLower == /\ Lower \in [Emails -> Emails]
                       /\ \A e \in Emails : Lower[Lower[e]] = Lower[e]

-----------------------------------------------------------------------------

(***************************************************************************)
(* Slips a maintainer could make, each beside what it would replace; none   *)
(* is part of Next.                                                        *)
(***************************************************************************)

\* An UPDATE that writes every assigned column.
NetUncompared(assigned, loaded, stored) == IF assigned = Keep THEN stored ELSE assigned

\* No unique constraint.
FitsAlways(i, row) == TRUE

Stored(table) == {i \in DOMAIN table : table[i] # None}

\* The answers to create and update, by their response models, show no null where
\* the model requires a text or a flag.
ShowsTenant(row) == row.plan # None /\ row.active # None
ShowsUser(row) == row.active # None /\ row.verified # None

HasIdentifier(row) == row.domain # None \/ row.number # None

\* The unique constraints of the two tables, for a row to be stored at i (at
\* None when it is new).
TenantFits(i, row) ==
    \A t \in Stored(tenants) \ {i} :
        /\ row.domain # None => tenants[t].domain # row.domain
        /\ row.number # None => tenants[t].number # row.number

UserFits(row) ==
    \A u \in Stored(users) : users[u].tenant = row.tenant => users[u].email # row.email

\* What an UPDATE leaves in a column: a value assigned to the object is
\* written when it is not the value that was loaded.
Net(assigned, loaded, stored) == IF assigned \in {Keep, loaded} THEN stored ELSE assigned

Assigned(asked, loaded) == IF asked = Keep THEN loaded ELSE asked

UpdatedTenant(stored, loaded, change) ==
    [domain |-> Net(change.domain, loaded.domain, stored.domain),
     number |-> Net(change.number, loaded.number, stored.number),
     plan   |-> Net(change.plan, loaded.plan, stored.plan),
     active |-> Net(change.active, loaded.active, stored.active)]

UpdatedUser(stored, loaded, change) ==
    [stored EXCEPT !.role = Net(change.role, loaded.role, stored.role),
                   !.active = Net(change.active, loaded.active, stored.active),
                   !.verified = Net(change.verified, loaded.verified, stored.verified)]

TableInvariants(ts, us) ==
    /\ \A t, s \in Stored(ts) : t # s =>
            /\ ts[t].domain # None => ts[t].domain # ts[s].domain
            /\ ts[t].number # None => ts[t].number # ts[s].number
    /\ \A u, v \in Stored(us) : u # v /\ us[u].tenant = us[v].tenant =>
            Lower[us[u].email] # Lower[us[v].email]

\* The model may start from any tables that registrations and creations of
\* users have left: every tenant of them has an owner.
ASSUME TablesAreSound ==
    /\ OldTenants \in [Tenants -> TenantRow \cup {None}]
    /\ OldUsers \in [Users -> UserRow \cup {None}]
    /\ TableInvariants(OldTenants, OldUsers)
    /\ \A u \in Stored(OldUsers) : OldUsers[u].tenant \in Stored(OldTenants)
    /\ \A t \in Stored(OldTenants) :
           \E u \in Stored(OldUsers) : OldUsers[u].tenant = t /\ OldUsers[u].role = "OWNER"

-----------------------------------------------------------------------------

Init ==
    /\ tenants = OldTenants
    /\ users = OldUsers
    /\ pc = [r \in Requests |-> "unsent"]
    /\ call = [r \in Requests |-> None]
    /\ read = [r \in Requests |-> None]
    /\ tries = [r \in Requests |-> 0]
    /\ wrote = [r \in Requests |-> None]
    /\ bare = {}
    /\ retired = {u \in Stored(users) : users[u].role = "OWNER" /\ users[u].active # TRUE}

Goto(r, where) == pc' = [pc EXCEPT ![r] = where]

\* The next statement of a request that passes, and the error answer otherwise.
Continue(r, passes, where) == Goto(r, IF passes THEN where ELSE "refused")

\* The transaction of a request has written the row i.
Writes(r, i) == wrote' = [wrote EXCEPT ![r] = i]

Queries == <<tenants, users, call, tries, wrote, bare, retired>>

Updating(c) == c.op = "updateTenant"

(* More slips, of statements.                                              *)

\* The address is looked for as it is spelled.
CheckSpelling(r) ==
    LET c == call[r]
        taken == \E u \in Stored(users) :
            /\ users[u].email = c.email
            /\ c.op = "createUser" => users[u].tenant = read[r].tenant
    IN  /\ pc[r] = "email"
        /\ Continue(r, ~taken, "commit")
        /\ UNCHANGED <<Queries, read>>

\* Any role can be changed to any other but owner.
LoadAnyUser(r) ==
    LET c == call[r]
        row == IF c.user = c.actor THEN read[r] ELSE users[c.user]
    IN  /\ pc[r] = "load"
        /\ c.op \in {"updateUser", "deleteUser"}
        /\ Continue(r,
               /\ row # None
               /\ row.tenant = read[r].tenant
               /\ c.op = "updateUser" => c.change.role # "OWNER"
               /\ c.op = "deleteUser" => c.user # c.actor /\ row.role # "OWNER",
               "commit")
        /\ read' = [read EXCEPT ![r] = row]
        /\ UNCHANGED Queries

\* A broker that does not answer fails the registration.
QueueOrRefuse(r) ==
    /\ pc[r] = "queue"
    /\ \E published \in BOOLEAN :
           /\ tries' = [tries EXCEPT ![r] = @ + 1]
           /\ Goto(r, CASE published                -> "answered"
                        [] tries'[r] = MaxTries     -> "refused"
                        [] OTHER                    -> "queue")
    /\ UNCHANGED <<tenants, users, call, read, wrote, bare, retired>>

\* The attempts are counted before they are made.
QueueOnceMore(r) ==
    /\ pc[r] = "queue"
    /\ \E published \in BOOLEAN :
           /\ tries' = [tries EXCEPT ![r] = @ + 1]
           /\ Goto(r, IF published \/ tries[r] = MaxTries THEN "answered" ELSE "queue")
    /\ UNCHANGED <<tenants, users, call, read, wrote, bare, retired>>

\* Only the body of the update is looked at.
RemainsInBody(loaded, change) == change.domain # None \/ change.number # None

-----------------------------------------------------------------------------

\* A call arrives. Bodies without any identifier are refused at once.
Send(r, c) ==
    /\ pc[r] = "unsent"
    /\ call' = [call EXCEPT ![r] = c]
    /\ IF c.op \in {"register", "createTenant"}
       THEN Continue(r, HasIdentifier(c), "domain")
       ELSE Goto(r, "auth")
    /\ UNCHANGED <<tenants, users, read, tries, wrote, bare, retired>>

\* get_current_user: one query for the user and whether the tenant is active,
\* and the role the endpoint requires.
Authenticate(r) ==
    LET c == call[r]
        user == users[c.actor]
    IN  /\ pc[r] = "auth"
        /\ IF c.actor = Root
           THEN Goto(r, "load") /\ UNCHANGED read
           ELSE /\ Continue(r,
                       /\ user # None
                       /\ user.active = TRUE
                       /\ user.tenant \in Stored(tenants) /\ tenants[user.tenant].active = TRUE
                       /\ user.verified = TRUE
                       /\ ~user.mustChange
                       /\ Updating(c) \/ user.role = "OWNER",
                       IF c.op = "createUser" THEN "email" ELSE "load")
                /\ read' = [read EXCEPT ![r] = user]
        /\ UNCHANGED Queries

\* The tenant to change is loaded; suspending a suspended tenant is refused.
LoadTenant(r) ==
    LET c == call[r]
        row == tenants[c.tenant]
    IN  /\ pc[r] = "load"
        /\ c.op \in {"updateTenant", "setActive"}
        /\ Continue(r, row # None /\ (~Updating(c) => (row.active = TRUE) # c.active),
               IF ~Updating(c) THEN "commit"
               ELSE IF c.actor = Root THEN "domain" ELSE "owner")
        /\ read' = [read EXCEPT ![r] = row]
        /\ UNCHANGED Queries

\* An update by someone else than a superadmin: the owner is looked up in the
\* table as it is now, and the plan is compared with the loaded one.
CheckOwner(r) ==
    LET c == call[r]
        user == users[c.actor]
    IN  /\ pc[r] = "owner"
        /\ Continue(r, /\ user.tenant = c.tenant /\ user.role = "OWNER" /\ user.active = TRUE
                       /\ c.change.plan \in {Keep, None, read[r].plan},
                    "domain")
        /\ UNCHANGED <<Queries, read>>

\* The query that looks for the new domain in the other rows.
CheckDomain(r) ==
    LET c == call[r]
        taken == \E t \in Stored(tenants) :
            IF Updating(c)
            THEN /\ c.change.domain \notin {Keep, None, read[r].domain}
                 /\ t # c.tenant
                 /\ tenants[t].domain = c.change.domain
            ELSE c.domain # None /\ tenants[t].domain = c.domain
    IN  /\ pc[r] = "domain"
        /\ Continue(r, ~taken, "number")
        /\ UNCHANGED <<Queries, read>>

\* What the update leaves of the identifiers of the loaded row.
Remains(loaded, change) ==
    \/ Assigned(change.domain, loaded.domain) # None
    \/ Assigned(change.number, loaded.number) # None

\* The same for the registration number; an update then makes sure that the
\* tenant keeps an identifier.
CheckNumber(r) ==
    LET c == call[r]
        taken == \E t \in Stored(tenants) :
            IF Updating(c)
            THEN /\ c.change.number \notin {Keep, None, read[r].number}
                 /\ t # c.tenant
                 /\ tenants[t].number = c.change.number
            ELSE c.number # None /\ tenants[t].number = c.number
    IN  /\ pc[r] = "number"
        /\ Continue(r, ~taken /\ (Updating(c) => Remains(read[r], c.change)),
                    IF c.op = "register" THEN "email" ELSE "commit")
        /\ UNCHANGED <<Queries, read>>

\* An address is looked for without regard to case: a new owner's in all
\* tenants, a new user's in the tenant of who creates it.
CheckEmail(r) ==
    LET c == call[r]
        taken == \E u \in Stored(users) :
            /\ Lower[users[u].email] = Lower[c.email]
            /\ c.op = "createUser" => users[u].tenant = read[r].tenant
    IN  /\ pc[r] = "email"
        /\ Continue(r, ~taken, "commit")
        /\ UNCHANGED <<Queries, read>>

Rest == <<call, read, tries>>

\* The plan is the one the caller asks for, whoever it is.
NewTenant(c) == [domain |-> c.domain, number |-> c.number, plan |-> c.plan, active |-> TRUE]

\* The tenant and its owner are stored by one transaction, or neither is.
CommitRegistration(r) ==
    LET c == call[r]
        tenant == NewTenant(c)
    IN  /\ pc[r] = "commit" /\ c.op = "register"
        /\ IF TenantFits(None, tenant)
           THEN \E t \in Tenants \ Stored(tenants), u \in Users \ Stored(users) :
               /\ tenants' = [tenants EXCEPT ![t] = tenant]
               /\ users' = [users EXCEPT ![u] =
                      [tenant |-> t, email |-> c.email, role |-> "OWNER",
                       active |-> TRUE, verified |-> FALSE, mustChange |-> FALSE]]
               /\ Writes(r, t)
               /\ Goto(r, "refresh")
           ELSE Goto(r, "refused") /\ UNCHANGED <<tenants, users, wrote>>
        /\ UNCHANGED <<Rest, bare, retired>>

CommitTenant(r) ==
    LET tenant == NewTenant(call[r])
    IN  /\ pc[r] = "commit" /\ call[r].op = "createTenant"
        /\ IF TenantFits(None, tenant)
           THEN \E t \in Tenants \ Stored(tenants) :
               /\ tenants' = [tenants EXCEPT ![t] = tenant]
               /\ bare' = bare \cup {t}
               /\ Writes(r, t)
               /\ Goto(r, "refresh")
           ELSE Goto(r, "refused") /\ UNCHANGED <<tenants, bare, wrote>>
        /\ UNCHANGED <<Rest, users, retired>>

\* A violated constraint is no error the handler expects: the answer is 500.
CommitTenantUpdate(r) ==
    LET c == call[r]
        row == UpdatedTenant(tenants[c.tenant], read[r], c.change)
    IN  /\ pc[r] = "commit" /\ Updating(c)
        /\ IF TenantFits(c.tenant, row)
           THEN /\ tenants' = [tenants EXCEPT ![c.tenant] = row]
                /\ Writes(r, c.tenant)
                /\ Goto(r, "refresh")
           ELSE Goto(r, "refused") /\ UNCHANGED <<tenants, wrote>>
        /\ UNCHANGED <<Rest, users, bare, retired>>

\* suspend_tenant, delete_tenant and reactivate_tenant; their answers have no
\* response model.
CommitActive(r) ==
    /\ pc[r] = "commit" /\ call[r].op = "setActive"
    /\ tenants' = [tenants EXCEPT ![call[r].tenant].active = call[r].active]
    /\ Writes(r, call[r].tenant)
    /\ Goto(r, "answered")
    /\ UNCHANGED <<Rest, users, bare, retired>>

CommitUser(r) ==
    LET c == call[r]
        user == [tenant |-> read[r].tenant, email |-> Lower[c.email], role |-> c.role,
                 active |-> TRUE, verified |-> TRUE, mustChange |-> TRUE]
    IN  /\ pc[r] = "commit" /\ c.op = "createUser"
        /\ IF UserFits(user)
           THEN \E u \in Users \ Stored(users) :
               /\ users' = [users EXCEPT ![u] = user]
               /\ Writes(r, u)
               /\ Goto(r, "refresh")
           ELSE Goto(r, "refused") /\ UNCHANGED <<users, wrote>>
        /\ UNCHANGED <<Rest, tenants, bare, retired>>

\* The user is loaded (who acts is loaded already and is not read again) and
\* the conditions of update_user and delete_user on it are checked.
LoadUser(r) ==
    LET c == call[r]
        row == IF c.user = c.actor THEN read[r] ELSE users[c.user]
    IN  /\ pc[r] = "load"
        /\ c.op \in {"updateUser", "deleteUser"}
        /\ Continue(r,
               /\ row # None
               /\ row.tenant = read[r].tenant
               /\ c.op = "updateUser" /\ c.change.role # Keep =>
                      row.role # "OWNER" /\ c.change.role # "OWNER"
               /\ c.op = "deleteUser" => c.user # c.actor /\ row.role # "OWNER",
               "commit")
        /\ read' = [read EXCEPT ![r] = row]
        /\ UNCHANGED Queries

\* For the history only: the update makes an active owner inactive, at the wish
\* of an owner of its tenant.
Retires(c, row) ==
    /\ users[c.user].active = TRUE /\ row.active # TRUE
    /\ row.role = "OWNER" /\ c.change.active \in {FALSE, None}
    /\ users[c.actor].role = "OWNER" /\ users[c.actor].tenant = row.tenant

CommitUserUpdate(r) ==
    LET c == call[r]
        row == UpdatedUser(users[c.user], read[r], c.change)
    IN  /\ pc[r] = "commit" /\ c.op = "updateUser"
        /\ users' = [users EXCEPT ![c.user] = row]
        /\ retired' = IF Retires(c, row) THEN retired \cup {c.user}
                                         ELSE retired \ {u \in {c.user} : row.active = TRUE}
        /\ Writes(r, c.user)
        /\ Goto(r, "refresh")
        /\ UNCHANGED <<Rest, tenants, bare>>

\* A deletion only deactivates: is_active is assigned and written if it was set.
CommitDelete(r) ==
    LET c == call[r]
    IN  /\ pc[r] = "commit" /\ c.op = "deleteUser"
        /\ users' = [users EXCEPT ![c.user].active = Net(FALSE, read[r].active, @)]
        /\ Writes(r, c.user)
        /\ Goto(r, "answered")
        /\ UNCHANGED <<Rest, tenants, bare, retired>>

AboutUser(c) == c.op \in {"createUser", "updateUser"}

\* What the caller is told of the row in the session: the answer, or a 500 when
\* the response model rejects it.
Answer(c, row) ==
    IF (IF AboutUser(c) THEN ShowsUser(row) ELSE ShowsTenant(row))
    THEN "answered" ELSE "failed"

\* db.refresh() after the commit: the row is read as it is by now.  A registration
\* goes on to the verification e-mail (the owner it shows too is read with the tenant,
\* before anybody could log in as that owner), every other call is answered.
Refresh(r) ==
    LET c == call[r]
        row == IF AboutUser(c) THEN users[wrote[r]] ELSE tenants[wrote[r]]
    IN  /\ pc[r] = "refresh"
        /\ read' = [read EXCEPT ![r] = row]
        /\ Goto(r, IF c.op = "register" THEN "queue" ELSE Answer(c, row))
        /\ UNCHANGED Queries

\* One attempt to publish the verification e-mail. The tenant is answered when it
\* succeeds, and when the last attempt fails.
QueueVerification(r) ==
    /\ pc[r] = "queue"
    /\ \E published \in BOOLEAN :
           /\ tries' = [tries EXCEPT ![r] = @ + 1]
           /\ Goto(r, IF published \/ tries'[r] = MaxTries
                      THEN Answer(call[r], read[r]) ELSE "queue")
    /\ UNCHANGED <<tenants, users, call, read, wrote, bare, retired>>

\* The worker dies, or loses the database, the refresh after the commit included:
\* what is not committed is rolled back, and the caller told nothing or a 500.
Crash(r) ==
    /\ pc[r] \notin {"unsent", "answered", "failed", "refused", "dead"}
    /\ Goto(r, "dead")
    /\ UNCHANGED <<tenants, users, call, read, tries, wrote, bare, retired>>

\* A user follows the verification link (verify_email).
Verify(u) ==
    /\ u \in Stored(users) /\ users[u].verified # TRUE
    /\ users' = [users EXCEPT ![u].verified = TRUE]
    /\ UNCHANGED <<tenants, pc, call, read, tries, wrote, bare, retired>>

\* A user changes the password the owner gave (force_change_password).
ChangePassword(u) ==
    /\ u \in Stored(users) /\ users[u].active = TRUE /\ users[u].mustChange
    /\ users' = [users EXCEPT ![u].mustChange = FALSE]
    /\ UNCHANGED <<tenants, pc, call, read, tries, wrote, bare, retired>>

Step(r) ==
    \/ \E c \in Calls : Send(r, c)
    \/ Authenticate(r)
    \/ LoadTenant(r)
    \/ CheckOwner(r)
    \/ CheckDomain(r)
    \/ CheckNumber(r)
    \/ CheckEmail(r)
    \/ CommitRegistration(r)
    \/ QueueVerification(r)
    \/ CommitTenant(r)
    \/ CommitTenantUpdate(r)
    \/ CommitActive(r)
    \/ CommitUser(r)
    \/ LoadUser(r)
    \/ CommitUserUpdate(r)
    \/ CommitDelete(r)
    \/ Refresh(r)
    \/ Crash(r)

Next ==
    \/ \E r \in Requests : Step(r)
    \/ \E u \in Users : Verify(u) \/ ChangePassword(u)

Spec == Init /\ [][Next]_vars

-----------------------------------------------------------------------------

TypeOK ==
    /\ tenants \in [Tenants -> TenantRow \cup {None}]
    /\ users \in [Users -> UserRow \cup {None}]
    /\ pc \in [Requests -> {"unsent", "auth", "load", "owner", "domain", "number", "email",
                            "commit", "refresh", "queue",
                            "answered", "failed", "refused", "dead"}]
    /\ call \in [Requests -> Calls \cup {None}]
    /\ read \in [Requests -> TenantRow \cup UserRow \cup {None}]
    /\ tries \in [Requests -> 0 .. MaxTries]
    /\ wrote \in [Requests -> Tenants \cup Users \cup {None}]
    /\ bare \subseteq Tenants
    /\ retired \subseteq Users

\* No two tenants have the same domain or registration number, although every
\* handler looks for the value before it commits and not at the commit.
IdentifiersDiffer ==
    \A t, s \in Stored(tenants) : t # s =>
        /\ tenants[t].domain # None => tenants[t].domain # tenants[s].domain
        /\ tenants[t].number # None => tenants[t].number # tenants[s].number

\* No two users of a tenant have the same address, whatever its case: the
\* constraint compares spellings, and only create_user stores lower case.
EmailsDiffer ==
    \A u, v \in Stored(users) : u # v /\ users[u].tenant = users[v].tenant =>
        Lower[users[u].email] # Lower[users[v].email]

\* "No tenant exists without an owner" (register_tenant_with_owner), of all
\* tenants but those of create_tenant: neither an update nor a deletion that
\* read the user before other commits takes the last owner away, and one that
\* is no longer active was deactivated by update_user at the wish of an owner
\* of that tenant.  ("Cannot delete ... another owner", says delete_user.)
RegisteredHaveOwner == \A t \in Stored(tenants) \ bare :
    \E u \in Stored(users) : /\ users[u].tenant = t /\ users[u].role = "OWNER"
                             /\ users[u].active = TRUE \/ u \in retired

\* A request has put a null where answers show none.
Clears(c) ==
    \/ Updating(c) /\ (c.change.plan = None \/ c.change.active = None)
    \/ c.op = "updateUser" /\ (c.change.active = None \/ c.change.verified = None)

MayBeBlank(i) ==
    \/ i \in Stored(OldTenants) /\ ~ShowsTenant(OldTenants[i])
    \/ i \in Stored(OldUsers) /\ ~ShowsUser(OldUsers[i])
    \/ \E q \in Requests : wrote[q] = i /\ Clears(call[q])

\* What a request answers is what it did: an answer means that it has committed,
\* and an error that nothing was, even when the broker refuses the verification
\* e-mail.  A 500 after the commit has one cause but a lost database: a null, put
\* by the call or by another one into the row it is to show.
AnswerIsTrue == \A r \in Requests :
    /\ pc[r] = "answered" => wrote[r] # None
    /\ pc[r] = "refused" => wrote[r] = None
    /\ pc[r] = "failed" => wrote[r] # None /\ MayBeBlank(wrote[r])

CommitsBy(r) == wrote[r] = None /\ wrote'[r] # None

LosesIdentifier(t) == HasIdentifier(tenants[t]) /\ ~HasIdentifier(tenants'[t])

LosesOnlyByOverlap ==
    \A t \in Stored(tenants) : LosesIdentifier(t) =>
        \E r \in Requests :
            /\ CommitsBy(r) /\ Updating(call[r]) /\ call[r].tenant = t
            /\ \/ read[r].domain # tenants[t].domain
               \/ read[r].number # tenants[t].number

\* "Tenant must have at least one unique identifier": a tenant loses its last
\* one only by an update whose loaded identifiers are no longer the stored
\* ones, which is when two updates overlap.
IdentifierLostByOverlap == [][LosesOnlyByOverlap]_vars

GivesPlan(t) == tenants'[t].plan \notin {tenants[t].plan, None}

SuperadminGivesPlans ==
    \A t \in Stored(tenants) : GivesPlan(t) =>
        \E r \in Requests : CommitsBy(r) /\ Updating(call[r]) /\ call[r].actor = Root

\* "Only super admins can change the plan type", of a tenant that exists: another
\* plan is put in its row only by a superadmin's update, and an owner's update that
\* repeats the plan it read does not undo a change committed meanwhile.  The plan a
\* tenant begins with is the caller's own choice (NewTenant), although the field is
\* described as one that "only super admin can modify", and an owner can clear it,
\* since a null in the body is not compared.
PlanIsChangedBySuperadmins == [][SuperadminGivesPlans]_vars

=============================================================================
