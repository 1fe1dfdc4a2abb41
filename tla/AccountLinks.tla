---------------------------- MODULE AccountLinks ----------------------------
(***************************************************************************)
(* The links mailed to one account: verify_email, resend_verification_email,*)
(* forgot_password, reset_password and force_change_password                *)
(* (app/api/v1/endpoints/auth.py), with the account's flags changed by an   *)
(* owner (app/api/v1/endpoints/users.py) and the daily reminder of an       *)
(* unverified account (send_verification_reminders, app/tasks/email_tasks.py).*)
(*                                                                         *)
(* The row holds one token per kind of link.  A request finds the row by    *)
(* the token or the address, checks what it read and commits later with     *)
(* UPDATE ... WHERE id = ...: the token is not compared again, and what is  *)
(* assigned overwrites whatever another request committed in between.       *)
(*                                                                         *)
(* Tokens are 32 random bytes, so a request's token is named after the      *)
(* request; Original names the token of the registration, and the password  *)
(* the account was created with.                                            *)
(***************************************************************************)
EXTENDS Naturals

CONSTANTS Requests, Original, NoToken

ASSUME NamesDiffer == /\ Original \notin Requests
                      /\ NoToken \notin Requests \cup {Original}

VARIABLES
    verified, active, mustChange,     \* the flags of the account row
    link,        \* the stored token of each kind of link, or NoToken
    password,    \* who set the stored password
    expired,     \* the tokens whose expiry has passed
    pc, op, token,    \* per request: step, operation, token presented or read
    old,         \* whether the account was registered more than a day ago
    reminder,    \* the token the daily sweep has read and not queued yet
    mailed,      \* the links put on the e-mail queue
    issued,      \* history: tokens ever stored, per kind
    spent,       \* history: tokens whose request committed, per kind
    used         \* history: the requests that took effect with a credential

row == <<verified, active, mustChange, link, password>>
history == <<issued, spent, used>>
sweep == <<old, reminder>>
vars == <<row, expired, pc, op, token, sweep, mailed, history>>

LinkKinds == {"verify", "reset"}
Tokens == Requests \cup {Original}
Operations == {"none", "verify", "resend", "forgot", "reset", "force"}
Steps == {"idle", "checked", "clearing", "committed", "ok", "refused", "crashed"}
Finished == {"idle", "ok", "refused", "crashed"}
Use == [by : Requests, kind : LinkKinds \cup {"force"}, token : Tokens]

\* The kind of link an operation issues or takes.
KindOf(o) == IF o \in {"verify", "resend"} THEN "verify" ELSE "reset"

Goto(r, step) == pc' = [pc EXCEPT ![r] = step]

-----------------------------------------------------------------------------

(***************************************************************************)
(* Slips a maintainer could make, each named after the definition it would  *)
(* replace; they are no part of Next.                                       *)
(***************************************************************************)

\* A link is stored and mailed without a token.
TokenForgotten(r, kind) == NoToken

\* The reset does not clear its token.
CommitResetKeeping(r) ==
    /\ pc[r] = "checked" /\ op[r] = "reset"
    /\ password' = r
    /\ spent' = [spent EXCEPT !["reset"] = @ \cup {token[r]}]
    /\ used' = used \cup {[by |-> r, kind |-> "reset", token |-> token[r]]}
    /\ Goto(r, "ok")
    /\ UNCHANGED <<verified, active, mustChange, link, expired, op, token,
                   mailed, issued>>

\* Verifying leaves the token in place.
CommitVerifyKeeping(r) ==
    /\ pc[r] = "checked" /\ op[r] = "verify"
    /\ verified' = TRUE
    /\ spent' = [spent EXCEPT !["verify"] = @ \cup {token[r]}]
    /\ used' = used \cup {[by |-> r, kind |-> "verify", token |-> token[r]]}
    /\ Goto(r, "ok")
    /\ UNCHANGED <<active, mustChange, link, password, expired, op, token,
                   mailed, issued>>

\* The link is mailed before its token is stored.
BeginForgotMailing(r) ==
    /\ active /\ verified /\ pc[r] = "idle"
    /\ op' = [op EXCEPT ![r] = "forgot"]
    /\ mailed' = mailed \cup {[kind |-> "reset", token |-> r]}
    /\ Goto(r, "checked")
    /\ UNCHANGED <<row, expired, token, history>>

\* A reset of an account that is not verified sets the password all the same.
ClearResetSetting(r) ==
    /\ pc[r] = "clearing"
    /\ link' = [link EXCEPT !["reset"] = NoToken]
    /\ password' = r
    /\ spent' = [spent EXCEPT !["reset"] = @ \cup {token[r]}]
    /\ Goto(r, "refused")
    /\ UNCHANGED <<verified, active, mustChange, expired, op, token, mailed,
                   issued, used>>

-----------------------------------------------------------------------------

\* A tenant's owner registers unverified with a link; a user an owner creates is
\* verified and has a temporary password.
Init ==
    /\ verified \in BOOLEAN
    /\ active = TRUE
    /\ mustChange = verified
    /\ link = [kind \in LinkKinds |->
                  IF kind = "verify" /\ ~verified THEN Original ELSE NoToken]
    /\ password = Original
    /\ expired = {}
    /\ pc = [r \in Requests |-> "idle"]
    /\ op = [r \in Requests |-> "none"]
    /\ token = [r \in Requests |-> NoToken]
    /\ old = FALSE /\ reminder = NoToken
    /\ mailed = IF verified THEN {} ELSE {[kind |-> "verify", token |-> Original]}
    /\ issued = [kind \in LinkKinds |-> {link[kind]} \ {NoToken}]
    /\ spent = [kind \in LinkKinds |-> {}]
    /\ used = {}

\* A request whose checks all passed goes on to its commit.
Admit(r, o, t, step) ==
    /\ pc[r] = "idle"
    /\ op' = [op EXCEPT ![r] = o]
    /\ token' = [token EXCEPT ![r] = t]
    /\ Goto(r, step)
    /\ UNCHANGED <<row, expired, mailed, history>>

\* verify_email finds the row by its token; it is unverified and the token fresh.
BeginVerify(r) ==
    /\ link["verify"] # NoToken
    /\ ~verified
    /\ link["verify"] \notin expired
    /\ Admit(r, "verify", link["verify"], "checked")

\* resend_verification_email finds an unverified account by its address.
BeginResend(r) ==
    /\ ~verified
    /\ Admit(r, "resend", NoToken, "checked")

\* forgot_password answers the same for every account, and goes on for one that
\* is active and verified.
BeginForgot(r) ==
    /\ active /\ verified
    /\ Admit(r, "forgot", NoToken, "checked")

\* reset_password finds the row by its token.  A token that is expired, or an
\* account that is not verified, has the token cleared; an inactive one does not.
BeginReset(r) ==
    LET t == link["reset"]
    IN /\ t # NoToken
       /\ \/ /\ t \in expired \/ (active /\ ~verified)
             /\ Admit(r, "reset", t, "clearing")
          \/ /\ t \notin expired /\ active /\ verified
             /\ Admit(r, "reset", t, "checked")

\* force_change_password: the account must change its password, is active, and
\* the request knows the current one.
BeginForce(r) ==
    /\ mustChange /\ active
    /\ Admit(r, "force", password, "checked")

\* Every other request is answered 400, 401, 403 or with the same 200.
Refuse(r) ==
    /\ pc[r] = "idle"
    /\ Goto(r, "refused")
    /\ UNCHANGED <<row, expired, op, token, mailed, history>>

\* verify_email commits and is answered with a session.
CommitVerify(r) ==
    /\ pc[r] = "checked" /\ op[r] = "verify"
    /\ verified' = TRUE
    /\ link' = [link EXCEPT !["verify"] = NoToken]
    /\ spent' = [spent EXCEPT !["verify"] = @ \cup {token[r]}]
    /\ used' = used \cup {[by |-> r, kind |-> "verify", token |-> token[r]]}
    /\ Goto(r, "ok")
    /\ UNCHANGED <<active, mustChange, password, expired, op, token, mailed, issued>>

\* The token a request stores is its own.
TokenOf(r, kind) == r

\* resend_verification_email or forgot_password commits a new token.
CommitIssue(r) ==
    LET kind == KindOf(op[r])
        t == TokenOf(r, kind)
    IN /\ pc[r] = "checked" /\ op[r] \in {"resend", "forgot"}
       /\ link' = [link EXCEPT ![kind] = t]
       /\ issued' = [issued EXCEPT ![kind] = @ \cup {t}]
       /\ token' = [token EXCEPT ![r] = t]
       /\ Goto(r, "committed")
       /\ UNCHANGED <<verified, active, mustChange, password, expired, op,
                      mailed, spent, used>>

\* The link is put on the queue; a queue that fails is logged and passed over.
MailLink(r) ==
    /\ pc[r] = "committed"
    /\ \/ mailed' = mailed \cup {[kind |-> KindOf(op[r]), token |-> token[r]]}
       \/ UNCHANGED mailed
    /\ Goto(r, "ok")
    /\ UNCHANGED <<row, expired, op, token, history>>

\* reset_password clears the token it read and answers 400.
ClearReset(r) ==
    /\ pc[r] = "clearing"
    /\ link' = [link EXCEPT !["reset"] = NoToken]
    /\ spent' = [spent EXCEPT !["reset"] = @ \cup {token[r]}]
    /\ Goto(r, "refused")
    /\ UNCHANGED <<verified, active, mustChange, password, expired, op, token,
                   mailed, issued, used>>

\* reset_password commits the new password and clears the token.
CommitReset(r) ==
    /\ pc[r] = "checked" /\ op[r] = "reset"
    /\ password' = r
    /\ link' = [link EXCEPT !["reset"] = NoToken]
    /\ spent' = [spent EXCEPT !["reset"] = @ \cup {token[r]}]
    /\ used' = used \cup {[by |-> r, kind |-> "reset", token |-> token[r]]}
    /\ Goto(r, "ok")
    /\ UNCHANGED <<verified, active, mustChange, expired, op, token, mailed, issued>>

\* force_change_password commits the new password.
CommitForce(r) ==
    /\ pc[r] = "checked" /\ op[r] = "force"
    /\ password' = r
    /\ mustChange' = FALSE
    /\ used' = used \cup {[by |-> r, kind |-> "force", token |-> token[r]]}
    /\ Goto(r, "ok")
    /\ UNCHANGED <<verified, active, link, expired, op, token, mailed, issued, spent>>

Crash(r) ==
    /\ pc[r] \notin Finished
    /\ Goto(r, "crashed")
    /\ UNCHANGED <<row, expired, op, token, mailed, history>>

\* update_user and delete_user set the flags; a flag that is as read is not
\* written, so each is one step.
OwnerSetsFlags ==
    /\ verified' \in BOOLEAN /\ active' \in BOOLEAN
    /\ UNCHANGED <<mustChange, link, password, expired, pc, op, token, sweep,
                   mailed, history>>

\* The expiry of a stored token passes.
Expire ==
    /\ \E kind \in LinkKinds : expired' = expired \cup ({link[kind]} \ {NoToken})
    /\ UNCHANGED <<row, pc, op, token, sweep, mailed, history>>

\* A day has passed since the registration.
DayPasses ==
    /\ ~old
    /\ old' = TRUE
    /\ UNCHANGED <<row, expired, pc, op, token, reminder, mailed, history>>

\* The daily sweep reads the accounts to remind.
ReadReminder ==
    /\ reminder = NoToken
    /\ old /\ active /\ ~verified
    /\ link["verify"] \notin expired \cup {NoToken}
    /\ reminder' = link["verify"]
    /\ UNCHANGED <<row, expired, pc, op, token, old, mailed, history>>

\* It mails the token it read, whatever became of the row since.  A queue that
\* fails is logged; so it is as if the sweep had died.
QueueReminder ==
    /\ reminder # NoToken
    /\ \/ mailed' = mailed \cup {[kind |-> "verify", token |-> reminder]}
       \/ UNCHANGED mailed
    /\ reminder' = NoToken
    /\ UNCHANGED <<row, expired, pc, op, token, old, history>>

Step(r) ==
    /\ \/ BeginVerify(r) \/ BeginResend(r) \/ BeginForgot(r) \/ BeginReset(r)
       \/ BeginForce(r) \/ Refuse(r)
       \/ CommitVerify(r) \/ CommitIssue(r) \/ MailLink(r)
       \/ ClearReset(r) \/ CommitReset(r) \/ CommitForce(r)
       \/ Crash(r)
    /\ UNCHANGED sweep

Next ==
    \/ \E r \in Requests : Step(r)
    \/ OwnerSetsFlags \/ Expire \/ DayPasses
    \/ ReadReminder \/ QueueReminder

Spec == Init /\ [][Next]_vars

-----------------------------------------------------------------------------

TypeOK ==
    /\ verified \in BOOLEAN /\ active \in BOOLEAN /\ mustChange \in BOOLEAN
    /\ link \in [LinkKinds -> Tokens \cup {NoToken}]
    /\ password \in Tokens
    /\ expired \subseteq Tokens
    /\ pc \in [Requests -> Steps]
    /\ op \in [Requests -> Operations]
    /\ token \in [Requests -> Tokens \cup {NoToken}]
    /\ old \in BOOLEAN /\ reminder \in Tokens \cup {NoToken}
    /\ mailed \subseteq [kind : LinkKinds, token : Tokens]
    /\ issued \in [LinkKinds -> SUBSET Tokens]
    /\ spent \in [LinkKinds -> SUBSET Tokens]
    /\ used \subseteq Use

\* A token that a request has presented and committed with is never the stored
\* one again, however requests race: no new request can begin with it.
SpentLinksAreDead == \A kind \in LinkKinds : link[kind] \notin spent[kind]

\* The stored password was set by a request that knew the one before, or that
\* presented a reset token this account was issued, and never by one that was
\* refused.
PasswordComesFromLink ==
    password # Original =>
        /\ pc[password] = "ok"
        /\ \E u \in used : /\ u.by = password
                           /\ \/ u.kind = "force"
                              \/ u.kind = "reset" /\ u.token \in issued["reset"]

\* No e-mail, reminders included, carries a link whose token was never stored,
\* wherever a worker dies.
MailedWasStored == \A m \in mailed : m.token \in issued[m.kind]

-----------------------------------------------------------------------------

\* A request that took a token commits after the stored one has changed.
Overtaken(kind) ==
    \E r \in Requests :
        /\ pc[r] \in {"checked", "clearing"} /\ pc'[r] \in {"ok", "refused"}
        /\ op[r] \in {"verify", "reset"} /\ KindOf(op[r]) = kind
        /\ token[r] # link[kind]

VerifyLink == INSTANCE OneTimeLink WITH
                  slot <- link["verify"], issued <- issued["verify"],
                  spent <- spent["verify"]
ResetLink == INSTANCE OneTimeLink WITH
                 slot <- link["reset"], issued <- issued["reset"],
                 spent <- spent["reset"]

\* Each slot of the account keeps the promise of a mailed link (it works once,
\* until a newer one takes its place), but for the commits of requests whose
\* token another request has spent or replaced since they read it.
OneTimeUnlessOvertaken ==
    /\ VerifyLink!Init /\ [][VerifyLink!Next \/ Overtaken("verify")]_(VerifyLink!vars)
    /\ ResetLink!Init /\ [][ResetLink!Next \/ Overtaken("reset")]_(ResetLink!vars)
=============================================================================
