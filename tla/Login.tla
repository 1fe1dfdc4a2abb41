-------------------------------- MODULE Login --------------------------------
(***************************************************************************)
(* Getting in: login, select_tenant and refresh_token                       *)
(* (app/api/v1/endpoints/auth.py), the progressive delay of failed logins   *)
(* (app/core/login_throttle.py), and the check every other request begins   *)
(* with (get_current_user, app/core/deps.py).                               *)
(*                                                                         *)
(* The accounts are the user rows of one e-mail address, each in a tenant   *)
(* of its own, but for superadmins, who have none.  Every query and every   *)
(* Redis command is a step: login is a coroutine, but four worker processes *)
(* run it side by side, and any of them may die between two steps.  A Redis *)
(* command that fails is logged and passed over.                            *)
(*                                                                         *)
(* A slot of Requests is used again for the next request, so that any       *)
(* number of them follow each other; MaxFailures bounds the counter.        *)
(***************************************************************************)
EXTENDS Naturals, FiniteSets

CONSTANTS Requests,      \* slots for requests that run at the same time
          Accounts,      \* the user rows of one e-mail address
          Superadmins,   \* those without a tenant
          Short,         \* LOGIN_DELAY_THRESHOLD_SHORT
          MaxFailures    \* bound: no failed login begins beyond this count

ASSUME SuperadminsAreAccounts == Superadmins \subseteq Accounts
ASSUME ThresholdsCount == Short \in Nat \ {0} /\ MaxFailures \in Nat

VARIABLES
    active, open,  \* the accounts whose is_active is set, and whose tenant's is
    failures,  \* login:failures:<email>: count, 0 when absent; fading: has an expiry
    cooldown,  \* login:cooldown:<email>: "none", "running", or "over" when its
               \* time has passed and the key is still there
    pc, kind,  \* per request: step, endpoint
    todo,      \* the authenticated accounts whose tenant login has yet to read
    live,      \* the accounts found good so far
    count,     \* the number a failed attempt was given
    during,    \* history: the accounts active, open, and both at once at some
               \* moment from the request's first read to its decision
    leaked,    \* history: an attempt ended between INCR and EXPIRE
    quiet      \* history: successful logins that no other has overlapped since
               \* they began to clear the counter

rowVars == <<active, open>>
redisVars == <<failures, cooldown, leaked, quiet>>
vars == <<rowVars, redisVars, pc, kind, todo, live, count, during>>

Absent == [count |-> 0, fading |-> FALSE]
NoMoment == [active |-> {}, open |-> {}, good |-> {}]
Throttling == {"failing", "counted", "cooling", "cleaning", "setting", "sleeping"}
Clearing == {"clearing", "forgetting"}
Steps == {"idle", "checking", "selecting", "granted", "admitted"}
             \cup Throttling \cup Clearing

\* Superadmins need no tenant.
Open == open \cup Superadmins

\* The moments a request has lived through, and one more, for the accounts who.
Witness(d, who, act, opn) ==
    [active |-> d.active \cup (who \cap act), open |-> d.open \cup (who \cap opn),
     good |-> d.good \cup (who \cap act \cap opn)]

\* get_delay_seconds: whether there is a delay at all.
Delayed(n) == n >= Short

\* A request about the accounts who begins.
Enter(r, step, what, who) ==
    /\ pc' = [pc EXCEPT ![r] = step]
    /\ kind' = [kind EXCEPT ![r] = what]
    /\ during' = [during EXCEPT ![r] = Witness(NoMoment, who, active, Open)]
Goto(r, step) == pc' = [pc EXCEPT ![r] = step]

\* The request of a slot is over.
Leave(r) == /\ Goto(r, "idle")
            /\ kind' = [kind EXCEPT ![r] = "none"]
            /\ todo' = [todo EXCEPT ![r] = {}]
            /\ live' = [live EXCEPT ![r] = {}]
            /\ count' = [count EXCEPT ![r] = 0]
            /\ during' = [during EXCEPT ![r] = NoMoment]
            /\ quiet' = quiet \ {r}

-----------------------------------------------------------------------------

(***************************************************************************)
(* Slips a maintainer could make, each named after the definition it would  *)
(* replace; they are no part of Next, and show that the properties would    *)
(* notice.                                                                  *)
(***************************************************************************)

\* The expiry is noted although the counter is gone by now.
SetExpiryBlind(r) ==
    /\ pc[r] = "counted"
    /\ failures' = [failures EXCEPT !.fading = TRUE]
    /\ Goto(r, "cooling")
    /\ UNCHANGED <<rowVars, cooldown, leaked, quiet, kind, todo, live,
                   count, during>>

\* The tenant of an account is not read when it is the only one.
CheckTenantOfMany(r) ==
    /\ pc[r] = "checking"
    /\ \E a \in todo[r] :
           /\ todo' = [todo EXCEPT ![r] = @ \ {a}]
           /\ live' = IF todo[r] = {a} \/ a \in Open
                      THEN [live EXCEPT ![r] = @ \cup {a}] ELSE live
    /\ UNCHANGED <<rowVars, redisVars, pc, kind, count, during>>

\* The expiry is set with the second failure.
StartsWindowLate(n) == n = 2

\* A successful login clears the cooldown only.
ClearNoFailures(r) ==
    /\ pc[r] = "clearing"
    /\ quiet' = IF \E s \in Requests \ {r} : kind[s] = "login" THEN quiet
                                                               ELSE quiet \cup {r}
    /\ Goto(r, "forgetting")
    /\ UNCHANGED <<rowVars, failures, cooldown, leaked, kind, todo, live,
                   count, during>>

-----------------------------------------------------------------------------

Init ==
    /\ active \in SUBSET Accounts /\ open \in SUBSET (Accounts \ Superadmins)
    /\ failures = Absent
    /\ cooldown = "none"
    /\ pc = [r \in Requests |-> "idle"]
    /\ kind = [r \in Requests |-> "none"]
    /\ todo = [r \in Requests |-> {}]
    /\ live = [r \in Requests |-> {}]
    /\ count = [r \in Requests |-> 0]
    /\ during = [r \in Requests |-> NoMoment]
    /\ leaked = FALSE
    /\ quiet = {}

\* login reads the users of the e-mail and keeps those the password is right
\* for (knows); the bound leaves room for every attempt under way to fail.
BeginLogin(r) ==
    /\ pc[r] = "idle"
    /\ failures.count + Cardinality({s \in Requests : kind[s] = "login"}) < MaxFailures
    /\ \E knows \in SUBSET Accounts :
           /\ todo' = [todo EXCEPT ![r] = knows \cap active]
           /\ Enter(r, IF knows = {} THEN "failing" ELSE "checking",
                    "login", knows \cap active)
    /\ quiet' = {}
    /\ UNCHANGED <<rowVars, failures, cooldown, leaked, live, count>>

\* For each active account, one query tells whether its tenant is active.
CheckTenant(r) ==
    /\ pc[r] = "checking"
    /\ \E a \in todo[r] :
           /\ todo' = [todo EXCEPT ![r] = @ \ {a}]
           /\ live' = IF a \in Open THEN [live EXCEPT ![r] = @ \cup {a}] ELSE live
    /\ UNCHANGED <<rowVars, redisVars, pc, kind, count, during>>

\* With no account left the attempt has failed, as with a wrong password.
Decide(r) ==
    /\ pc[r] = "checking" /\ todo[r] = {}
    /\ \/ live[r] # {} /\ Goto(r, "clearing") /\ UNCHANGED during
       \/ /\ live[r] = {} /\ Goto(r, "failing")
          /\ during' = [during EXCEPT ![r] = NoMoment]
    /\ UNCHANGED <<rowVars, redisVars, kind, todo, live, count>>

-----------------------------------------------------------------------------

(***************************************************************************)
(* The throttle.                                                            *)
(***************************************************************************)

\* The expiry is set with the first failure.
StartsWindow(n) == n = 1

\* record_failed_attempt, INCR; a Redis that fails counts 0.
RecordFailedAttempt(r) ==
    /\ pc[r] = "failing"
    /\ \/ LET n == failures.count + 1
          IN /\ failures' = [failures EXCEPT !.count = n]
             /\ count' = [count EXCEPT ![r] = n]
             /\ Goto(r, IF StartsWindow(n) THEN "counted" ELSE "cooling")
       \/ Goto(r, "cooling") /\ UNCHANGED <<failures, count>>
    /\ UNCHANGED <<rowVars, cooldown, leaked, quiet, kind, todo, live, during>>

\* record_failed_attempt, EXPIRE: no effect on a counter that is gone.
SetExpiry(r) ==
    /\ pc[r] = "counted"
    /\ failures' = [failures EXCEPT !.fading = failures.count > 0]
    /\ Goto(r, "cooling")
    /\ UNCHANGED <<rowVars, cooldown, leaked, quiet, kind, todo, live,
                   count, during>>

\* EXPIRE fails: the count is answered as 0, the counter keeps its value.
SetNoExpiry(r) ==
    /\ pc[r] = "counted"
    /\ leaked' = TRUE
    /\ count' = [count EXCEPT ![r] = 0]
    /\ Goto(r, "cooling")
    /\ UNCHANGED <<rowVars, failures, cooldown, quiet, kind, todo, live, during>>

\* is_in_cooldown: a running one answers 401 at once, as does a count below the
\* first threshold; one that is over is to be deleted.  A Redis that fails sees
\* none.
IsInCooldown(r) ==
    /\ pc[r] = "cooling"
    /\ \E shown \in {cooldown, "none"} :
           CASE shown = "running" -> Leave(r)
             [] shown = "over" -> /\ Goto(r, "cleaning")
                                  /\ UNCHANGED <<kind, todo, live, count, during, quiet>>
             [] OTHER -> IF Delayed(count[r])
                         THEN /\ Goto(r, "setting")
                              /\ UNCHANGED <<kind, todo, live, count, during, quiet>>
                         ELSE Leave(r)
    /\ UNCHANGED <<rowVars, failures, cooldown, leaked>>

\* The DELETE removes whatever cooldown is there by now.
DeleteCooldown(r) ==
    /\ pc[r] = "cleaning"
    /\ cooldown' \in {"none", cooldown}
    /\ IF Delayed(count[r])
       THEN /\ Goto(r, "setting")
            /\ UNCHANGED <<kind, todo, live, count, during, quiet>>
       ELSE Leave(r)
    /\ UNCHANGED <<rowVars, failures, leaked>>

\* set_cooldown, SETEX.
SetCooldown(r) ==
    /\ pc[r] = "setting"
    /\ cooldown' \in {"running", cooldown}
    /\ Goto(r, "sleeping")
    /\ UNCHANGED <<rowVars, failures, leaked, quiet, kind, todo, live,
                   count, during>>

\* apply_delay has slept, 401.
Wake(r) ==
    /\ pc[r] = "sleeping"
    /\ Leave(r)
    /\ UNCHANGED <<rowVars, failures, cooldown, leaked>>

\* clear_failed_attempts deletes the counter,
ClearFailures(r) ==
    /\ pc[r] = "clearing"
    /\ failures' = Absent
    /\ leaked' = FALSE
    /\ quiet' = IF \E s \in Requests \ {r} : kind[s] = "login" THEN quiet
                                                               ELSE quiet \cup {r}
    /\ Goto(r, "forgetting")
    /\ UNCHANGED <<rowVars, cooldown, kind, todo, live, count, during>>

\* then the cooldown, and login answers with tokens for the one account, or with
\* the list of tenants to select from.
ClearCooldown(r) ==
    /\ pc[r] = "forgetting"
    /\ cooldown' = "none"
    /\ Goto(r, "granted")
    /\ UNCHANGED <<rowVars, failures, leaked, quiet, kind, todo, live, count, during>>

\* Either DELETE fails: login goes on.
ClearNothing(r) ==
    /\ pc[r] \in Clearing
    /\ quiet' = quiet \ {r}
    /\ Goto(r, "granted")
    /\ UNCHANGED <<rowVars, failures, cooldown, leaked, kind, todo, live, count, during>>

FailuresExpire == /\ failures.fading
                  /\ failures' = Absent
                  /\ leaked' = FALSE
                  /\ UNCHANGED <<rowVars, cooldown, quiet, pc, kind, todo,
                                 live, count, during>>

CooldownEnds == /\ cooldown # "none"
                /\ cooldown' = IF cooldown = "running" THEN "over" ELSE "none"
                /\ UNCHANGED <<rowVars, failures, leaked, quiet, pc, kind,
                               todo, live, count, during>>

-----------------------------------------------------------------------------

\* select_tenant with the right password reads the user; a row that is missing or
\* inactive is refused, and in the end one that has to change its password.
BeginSelect(r) ==
    /\ pc[r] = "idle"
    /\ \E a \in active \ Superadmins :
           /\ live' = [live EXCEPT ![r] = {a}]
           /\ Enter(r, "selecting", "select", {a})
    /\ UNCHANGED <<rowVars, redisVars, todo, count>>

\* It reads the tenant, and issues tokens or refuses.
FinishSelect(r) ==
    /\ pc[r] = "selecting"
    /\ \/ live[r] \subseteq open /\ Goto(r, "granted")
          /\ UNCHANGED <<kind, todo, live, count, during, quiet>>
       \/ Leave(r)
    /\ UNCHANGED <<rowVars, failures, cooldown, leaked>>

\* refresh_token takes a token, issued whenever, and reads its user, not the tenant.
Refresh(r) ==
    /\ pc[r] = "idle"
    /\ \E a \in active :
           /\ live' = [live EXCEPT ![r] = {a}]
           /\ Enter(r, "granted", "refresh", {a})
    /\ UNCHANGED <<rowVars, redisVars, todo, count>>

\* get_current_user takes a token, reads its user and the tenant in one query and
\* lets the request in, or refuses it, the more so while the e-mail is unverified
\* or a password change is pending.
Admit(r) ==
    /\ pc[r] = "idle"
    /\ \E a \in active \cap Open :
           /\ live' = [live EXCEPT ![r] = {a}]
           /\ Enter(r, "admitted", "call", {a})
    /\ UNCHANGED <<rowVars, redisVars, todo, count>>

\* The answer is given, or the work of the endpoint is done.
Answer(r) ==
    /\ pc[r] \in {"granted", "admitted"}
    /\ Leave(r)
    /\ UNCHANGED <<rowVars, failures, cooldown, leaked>>

\* The worker process dies.
Crash(r) ==
    /\ pc[r] # "idle"
    /\ leaked' = (leaked \/ pc[r] = "counted")
    /\ Leave(r)
    /\ UNCHANGED <<rowVars, failures, cooldown>>

\* A user is (de)activated, or a tenant suspended or reactivated; a request that
\* has not decided yet lives through the change.
Toggle(S, a) == IF a \in S THEN S \ {a} ELSE S \cup {a}
Administer ==
    /\ \/ \E a \in Accounts : active' = Toggle(active, a) /\ UNCHANGED open
       \/ \E a \in Accounts \ Superadmins : open' = Toggle(open, a) /\ UNCHANGED active
    /\ during' = [r \in Requests |->
                     IF pc[r] \in {"checking", "selecting"}
                     THEN Witness(during[r], todo[r] \cup live[r], active', Open')
                     ELSE during[r]]
    /\ UNCHANGED <<redisVars, pc, kind, todo, live, count>>

Handle(r) ==
    \/ CheckTenant(r) \/ Decide(r)
    \/ RecordFailedAttempt(r) \/ SetExpiry(r) \/ SetNoExpiry(r)
    \/ IsInCooldown(r) \/ DeleteCooldown(r) \/ SetCooldown(r) \/ Wake(r)
    \/ ClearFailures(r) \/ ClearCooldown(r) \/ ClearNothing(r)
    \/ FinishSelect(r) \/ Answer(r)

Next == \/ \E r \in Requests : \/ BeginLogin(r) \/ BeginSelect(r) \/ Refresh(r)
                               \/ Admit(r) \/ Handle(r) \/ Crash(r)
        \/ FailuresExpire \/ CooldownEnds \/ Administer

Spec == Init /\ [][Next]_vars

\* A worker that has counted a failure comes to the next command or dies, and
\* Redis expires what has an expiry.
FairSpec == /\ Spec /\ WF_vars(FailuresExpire)
            /\ \A r \in Requests : WF_vars(SetExpiry(r) \/ SetNoExpiry(r))

-----------------------------------------------------------------------------

TypeOK ==
    /\ active \subseteq Accounts /\ open \subseteq Accounts \ Superadmins
    /\ failures \in [count : Nat, fading : BOOLEAN]
    /\ failures.fading => failures.count > 0
    /\ cooldown \in {"none", "running", "over"}
    /\ pc \in [Requests -> Steps]
    /\ kind \in [Requests -> {"none", "login", "select", "refresh", "call"}]
    /\ todo \in [Requests -> SUBSET Accounts]
    /\ live \in [Requests -> SUBSET Accounts]
    /\ count \in [Requests -> Nat]
    /\ during \in [Requests -> [active : SUBSET Accounts, open : SUBSET Accounts,
                                good : SUBSET Accounts]]
    /\ leaked \in BOOLEAN
    /\ quiet \subseteq Requests

\* Whoever is let in had a right to it within that very request, however old its
\* token and whatever is (de)activated meanwhile: every account login or
\* select_tenant names was active at one moment of the request and its tenant at
\* one, a refreshed account was active, and a request that get_current_user
\* admits was both at one and the same moment.
GrantsAreEarned ==
    \A r \in Requests :
        /\ pc[r] = "granted" =>
               /\ live[r] # {} /\ live[r] \subseteq during[r].active
               /\ kind[r] # "refresh" => live[r] \subseteq during[r].open
        /\ pc[r] = "admitted" => live[r] \subseteq during[r].good

\* A failure counter without expiry is that of an attempt just about to set one,
\* or of one that ended before it could: no other order of failures, successes
\* and expiries leaves an account counting for ever.
LeakHasCause ==
    failures.count > 0 /\ ~failures.fading =>
        leaked \/ \E r \in Requests : pc[r] = "counted"

\* A successful login that no other login overlapped while it cleared leaves
\* neither failures nor a cooldown to the next.
SuccessForgets ==
    \A r \in quiet : pc[r] = "granted" => failures = Absent /\ cooldown = "none"

\* The failures of an account are forgotten in the end, unless their expiry was
\* lost.
CounterFades == failures.count > 0 ~> failures.count = 0 \/ leaked
=============================================================================
