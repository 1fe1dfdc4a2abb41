-------------------------- MODULE AccountLinksProofs --------------------------
(***************************************************************************)
(* What the links of an account keep to, however its requests race.         *)
(*                                                                         *)
(* The argument: a request's token enters issued only when that request     *)
(* commits it, so it cannot have been presented before (TokensAreFresh);    *)
(* what is stored, read, spent or mailed was issued (TokensAreIssued); and  *)
(* the stored token is therefore never one that was spent.                  *)
(***************************************************************************)
EXTENDS AccountLinks, TLAPS

\* A request's own token is issued by its commit.
TokensAreFresh ==
    \A r \in Requests, kind \in LinkKinds :
        r \in issued[kind] => pc[r] \in {"committed", "ok", "crashed"}

\* What is stored, spent, read to be taken, or to be mailed was issued.
TokensAreIssued ==
    /\ \A kind \in LinkKinds : /\ link[kind] \in issued[kind] \cup {NoToken}
                               /\ spent[kind] \subseteq issued[kind]
    /\ \A r \in Requests :
           /\ pc[r] \in {"checked", "clearing"} /\ op[r] \in {"verify", "reset"} =>
                  token[r] \in issued[KindOf(op[r])]
           /\ pc[r] = "checked" /\ op[r] = "force" => token[r] \in Tokens
           /\ pc[r] = "clearing" => op[r] = "reset"
           /\ pc[r] = "committed" => /\ op[r] \in {"resend", "forgot"}
                                     /\ token[r] \in issued[KindOf(op[r])]
    /\ reminder \in issued["verify"] \cup {NoToken}

LinksInv == /\ TypeOK
            /\ TokensAreFresh
            /\ TokensAreIssued
            /\ SpentLinksAreDead
            /\ PasswordComesFromLink
            /\ MailedWasStored

LEMMA LinksInit == Init => LinksInv
<1> SUFFICES ASSUME Init PROVE LinksInv
  OBVIOUS
<1>1. TypeOK
  <2>1. link \in [LinkKinds -> Tokens \cup {NoToken}]
    BY DEF Init, Tokens
  <2>2. mailed \subseteq [kind : LinkKinds, token : Tokens]
    BY DEF Init, Tokens, LinkKinds
  <2>3. issued \in [LinkKinds -> SUBSET Tokens] /\ spent \in [LinkKinds -> SUBSET Tokens]
    BY <2>1 DEF Init
  <2>4. QED
    BY <2>1, <2>2, <2>3 DEF Init, TypeOK, Tokens, Steps, Operations
<1>2. TokensAreFresh /\ TokensAreIssued
  BY NamesDiffer DEF Init, TokensAreFresh, TokensAreIssued, LinkKinds
<1>3. SpentLinksAreDead /\ PasswordComesFromLink /\ MailedWasStored
  BY NamesDiffer DEF Init, SpentLinksAreDead, PasswordComesFromLink, MailedWasStored,
                     LinkKinds
<1>4. QED
  BY <1>1, <1>2, <1>3 DEF LinksInv

\* A request that begins has read the row and changed nothing.
LEMMA AdmitStep ==
    ASSUME LinksInv, NEW r \in Requests, NEW o \in Operations,
           NEW t \in Tokens \cup {NoToken}, NEW step \in {"checked", "clearing"},
           Admit(r, o, t, step), UNCHANGED sweep,
           o \in {"verify", "reset"} => t \in issued[KindOf(o)],
           o = "force" => t \in Tokens,
           step = "clearing" => o = "reset"
    PROVE  LinksInv'
<1> USE DEF LinksInv, Admit, Goto, row, history, sweep
<1>1. TypeOK'
  BY DEF TypeOK, Steps
<1>2. TokensAreFresh'
  BY DEF TokensAreFresh, TypeOK
<1>3. TokensAreIssued'
  BY DEF TokensAreIssued, TypeOK, KindOf
<1>4. SpentLinksAreDead' /\ MailedWasStored'
  BY DEF SpentLinksAreDead, MailedWasStored
<1>5. PasswordComesFromLink'
  BY DEF PasswordComesFromLink, TypeOK, Tokens
<1>6. QED
  BY <1>1, <1>2, <1>3, <1>4, <1>5

LEMMA LinksStep == LinksInv /\ [Next]_vars => LinksInv'
<1> SUFFICES ASSUME LinksInv, [Next]_vars PROVE LinksInv'
  OBVIOUS
<1>0. /\ TypeOK /\ TokensAreFresh /\ TokensAreIssued
      /\ SpentLinksAreDead /\ PasswordComesFromLink /\ MailedWasStored
  BY DEF LinksInv
<1>1. ASSUME NEW r \in Requests,
             \/ BeginVerify(r) \/ BeginResend(r) \/ BeginForgot(r)
             \/ BeginReset(r) \/ BeginForce(r),
             UNCHANGED sweep
      PROVE  LinksInv'
  <2>1. /\ \A kind \in LinkKinds : link[kind] # NoToken => link[kind] \in issued[kind]
        /\ \A kind \in LinkKinds : link[kind] \in Tokens \cup {NoToken}
        /\ password \in Tokens /\ "verify" \in LinkKinds /\ "reset" \in LinkKinds
        /\ {"verify", "resend", "forgot", "reset", "force"} \subseteq Operations
    BY <1>0 DEF TypeOK, TokensAreIssued, LinkKinds, Operations
  <2>2. CASE BeginVerify(r)
    BY <1>1, <2>1, <2>2, AdmitStep DEF BeginVerify, KindOf
  <2>3. CASE BeginResend(r)
    BY <1>1, <2>1, <2>3, AdmitStep DEF BeginResend
  <2>4. CASE BeginForgot(r)
    BY <1>1, <2>1, <2>4, AdmitStep DEF BeginForgot
  <2>5. CASE BeginReset(r)
    BY <1>1, <2>1, <2>5, AdmitStep DEF BeginReset, KindOf
  <2>6. CASE BeginForce(r)
    BY <1>1, <2>1, <2>6, AdmitStep DEF BeginForce
  <2>7. QED
    BY <1>1, <2>2, <2>3, <2>4, <2>5, <2>6
<1>2. ASSUME NEW r \in Requests, Refuse(r) \/ Crash(r), UNCHANGED sweep PROVE LinksInv'
  <2>0. UNCHANGED <<old, reminder>>
    BY <1>2 DEF sweep
  <2>1. /\ UNCHANGED <<row, expired, op, token, mailed, history>>
        /\ \/ pc[r] = "idle" /\ pc' = [pc EXCEPT ![r] = "refused"]
           \/ pc[r] \notin Finished /\ pc' = [pc EXCEPT ![r] = "crashed"]
    BY <1>2 DEF Refuse, Crash, Goto
  <2>2. TypeOK'
    BY <1>0, <2>0, <2>1 DEF TypeOK, row, history, Steps
  <2>3. TokensAreFresh'
    BY <1>0, <2>1 DEF TokensAreFresh, TypeOK, row, history, Finished
  <2>4. TokensAreIssued'
    BY <1>0, <2>0, <2>1 DEF TokensAreIssued, TypeOK, row, history
  <2>5. SpentLinksAreDead' /\ MailedWasStored'
    BY <1>0, <2>1 DEF SpentLinksAreDead, MailedWasStored, row, history
  <2>6. PasswordComesFromLink'
    BY <1>0, <2>1 DEF PasswordComesFromLink, TypeOK, Tokens, row, history, Finished
  <2>7. QED
    BY <2>2, <2>3, <2>4, <2>5, <2>6 DEF LinksInv
<1>3. ASSUME NEW r \in Requests,
             CommitVerify(r) \/ ClearReset(r) \/ CommitReset(r),
             UNCHANGED sweep
      PROVE  LinksInv'
  <2>0. UNCHANGED <<old, reminder>>
    BY <1>3 DEF sweep
  <2> DEFINE kind == KindOf(op[r])
  <2>1. /\ kind \in LinkKinds /\ token[r] \in issued[kind]
        /\ pc[r] \in {"checked", "clearing"} /\ op[r] \in {"verify", "reset"}
        /\ token[r] \in Tokens
    BY <1>0, <1>3 DEF CommitVerify, ClearReset, CommitReset, TokensAreIssued, KindOf,
                      LinkKinds, TypeOK
  <2>2. /\ link' = [link EXCEPT ![kind] = NoToken]
        /\ spent' = [spent EXCEPT ![kind] = @ \cup {token[r]}]
        /\ pc' \in {[pc EXCEPT ![r] = "ok"], [pc EXCEPT ![r] = "refused"]}
        /\ UNCHANGED <<mustChange, active, expired, op, token, mailed, issued>>
    BY <1>0, <1>3 DEF CommitVerify, ClearReset, CommitReset, KindOf, Goto,
                      TokensAreIssued
  <2>3. /\ \/ password' = password
           \/ /\ password' = r /\ op[r] = "reset" /\ pc' = [pc EXCEPT ![r] = "ok"]
              /\ [by |-> r, kind |-> "reset", token |-> token[r]] \in used'
        /\ used \subseteq used' /\ used' \subseteq Use /\ verified' \in BOOLEAN
    <3>1. used \subseteq Use /\ verified \in BOOLEAN
      BY <1>0 DEF TypeOK
    <3>2. \A k \in LinkKinds : [by |-> r, kind |-> k, token |-> token[r]] \in Use
      BY <2>1 DEF Use
    <3>3. "verify" \in LinkKinds /\ "reset" \in LinkKinds
      BY DEF LinkKinds
    <3>4. CASE CommitVerify(r)
      <4> DEFINE use == [by |-> r, kind |-> "verify", token |-> token[r]]
      <4>1. /\ password' = password /\ verified' = TRUE
            /\ used' = used \cup {use}
        BY <3>4 DEF CommitVerify
      <4>2. use \in Use
        BY <3>2, <3>3
      <4> HIDE DEF use
      <4>3. QED
        BY <3>1, <4>1, <4>2
    <3>5. CASE ClearReset(r)
      BY <3>1, <3>5 DEF ClearReset
    <3>6. CASE CommitReset(r)
      <4> DEFINE use == [by |-> r, kind |-> "reset", token |-> token[r]]
      <4>1. /\ password' = r /\ op[r] = "reset" /\ verified' = verified
            /\ pc' = [pc EXCEPT ![r] = "ok"]
            /\ used' = used \cup {use}
        BY <3>6 DEF CommitReset, Goto
      <4>2. use \in Use
        BY <3>2, <3>3
      <4>3. used \subseteq used' /\ used' \subseteq Use /\ use \in used'
        BY <3>1, <4>1, <4>2
      <4>4. QED
        BY <3>1, <4>1, <4>3
    <3>7. QED
      BY <1>3, <3>4, <3>5, <3>6
  <2>4. TypeOK'
    <3>1. link' \in [LinkKinds -> Tokens \cup {NoToken}]
      BY <1>0, <2>2 DEF TypeOK
    <3>2. spent' \in [LinkKinds -> SUBSET Tokens]
      BY <1>0, <2>1, <2>2 DEF TypeOK
    <3>3. pc' \in [Requests -> Steps]
      BY <1>0, <2>2 DEF TypeOK, Steps
    <3>4. password' \in Tokens
      BY <1>0, <2>3 DEF TypeOK, Tokens
    <3>5. QED
      BY <1>0, <2>0, <2>2, <2>3, <3>1, <3>2, <3>3, <3>4 DEF TypeOK
  <2>5. TokensAreFresh'
    <3>1. \A q \in Requests : q # r => pc'[q] = pc[q]
      BY <1>0, <2>2 DEF TypeOK
    <3>2. \A k \in LinkKinds : r \notin issued[k]
      BY <1>0, <2>1 DEF TokensAreFresh
    <3>3. QED
      BY <1>0, <2>2, <3>1, <3>2 DEF TokensAreFresh
  <2>6. TokensAreIssued'
    <3>1. \A k \in LinkKinds : /\ link'[k] \in issued[k] \cup {NoToken}
                               /\ spent'[k] \subseteq issued[k]
      BY <1>0, <2>1, <2>2 DEF TokensAreIssued, TypeOK
    <3>2. \A q \in Requests : pc'[q] = pc[q] \/ pc'[q] \in {"ok", "refused"}
      BY <1>0, <2>2 DEF TypeOK
    <3>3. QED
      BY <1>0, <2>0, <2>2, <3>1, <3>2 DEF TokensAreIssued
  <2>7. SpentLinksAreDead'
    <3>1. NoToken \notin Tokens
      BY NamesDiffer DEF Tokens
    <3>2. link'[kind] = NoToken /\ spent'[kind] \subseteq Tokens
      BY <1>0, <2>1, <2>2, <2>4 DEF TypeOK
    <3>3. \A k \in LinkKinds \ {kind} : link'[k] = link[k] /\ spent'[k] = spent[k]
      BY <1>0, <2>2 DEF TypeOK
    <3>4. QED
      BY <1>0, <3>1, <3>2, <3>3 DEF SpentLinksAreDead
  <2>8. MailedWasStored'
    BY <1>0, <2>2 DEF MailedWasStored
  <2>9. PasswordComesFromLink'
    <3>1. CASE password' = password
      <4>1. password # Original => password \in Requests /\ password # r
        BY <1>0, <2>1 DEF PasswordComesFromLink, TypeOK, Tokens
      <4>2. password # Original => pc'[password] = pc[password]
        BY <1>0, <2>2, <4>1 DEF TypeOK
      <4>3. QED
        BY <1>0, <2>2, <2>3, <3>1, <4>2 DEF PasswordComesFromLink
    <3>2. CASE password' # password
      <4>1. /\ password' = r /\ pc'[r] = "ok" /\ kind = "reset"
            /\ [by |-> r, kind |-> "reset", token |-> token[r]] \in used'
        BY <1>0, <2>3, <3>2 DEF TypeOK, KindOf
      <4>2. token[r] \in issued'["reset"]
        BY <2>1, <2>2, <4>1
      <4>3. QED
        BY <4>1, <4>2 DEF PasswordComesFromLink
    <3>3. QED
      BY <3>1, <3>2
  <2>10. QED
    BY <2>4, <2>5, <2>6, <2>7, <2>8, <2>9 DEF LinksInv
<1>4. ASSUME NEW r \in Requests, CommitIssue(r), UNCHANGED sweep PROVE LinksInv'
  <2>0. UNCHANGED <<old, reminder>>
    BY <1>4 DEF sweep
  <2> DEFINE kind == KindOf(op[r])
  <2>1. /\ kind \in LinkKinds /\ pc[r] = "checked" /\ op[r] \in {"resend", "forgot"}
        /\ link' = [link EXCEPT ![kind] = r]
        /\ issued' = [issued EXCEPT ![kind] = @ \cup {r}]
        /\ token' = [token EXCEPT ![r] = r]
        /\ pc' = [pc EXCEPT ![r] = "committed"]
        /\ UNCHANGED <<verified, active, mustChange, password, expired, op, mailed,
                       spent, used>>
    BY <1>4 DEF CommitIssue, TokenOf, KindOf, LinkKinds, Goto
  <2>2. \A k \in LinkKinds : r \notin issued[k] /\ r \notin spent[k]
    BY <1>0, <2>1 DEF TokensAreFresh, TokensAreIssued
  <2>3. r \in Tokens /\ r # NoToken
    BY NamesDiffer DEF Tokens
  <2>4. TypeOK'
    BY <1>0, <2>0, <2>1, <2>3 DEF TypeOK, Steps
  <2>5. \A k \in LinkKinds : /\ issued[k] \subseteq issued'[k]
                             /\ issued'[k] \subseteq issued[k] \cup {r}
                             /\ link'[k] = IF k = kind THEN r ELSE link[k]
    BY <1>0, <2>1 DEF TypeOK
  <2>6. r \in issued'[kind]
    BY <1>0, <2>1 DEF TypeOK
  <2>7. \A q \in Requests : q # r => pc'[q] = pc[q] /\ token'[q] = token[q]
    BY <1>0, <2>1 DEF TypeOK
  <2>8. pc'[r] = "committed" /\ token'[r] = r
    BY <1>0, <2>1 DEF TypeOK
  <2>9. TokensAreFresh'
    BY <1>0, <2>5, <2>7, <2>8 DEF TokensAreFresh
  <2>10. TokensAreIssued'
    <3>1. \A k \in LinkKinds : /\ link'[k] \in issued'[k] \cup {NoToken}
                               /\ spent[k] \subseteq issued'[k]
      BY <1>0, <2>5, <2>6 DEF TokensAreIssued
    <3>2. \A q \in Requests : op[q] \in {"verify", "reset", "resend", "forgot"} =>
                                  KindOf(op[q]) \in LinkKinds
      BY DEF KindOf, LinkKinds
    <3>3. QED
      BY <1>0, <2>0, <2>1, <2>5, <2>6, <2>7, <2>8, <3>1, <3>2 DEF TokensAreIssued
  <2>11. SpentLinksAreDead'
    BY <1>0, <2>1, <2>2, <2>5 DEF SpentLinksAreDead
  <2>12. MailedWasStored'
    <3>1. \A m \in mailed : m.kind \in LinkKinds
      BY <1>0 DEF TypeOK
    <3>2. QED
      BY <1>0, <2>1, <2>5, <3>1 DEF MailedWasStored
  <2>13. PasswordComesFromLink'
    <3>1. password # Original => password \in Requests /\ password # r
      BY <1>0, <2>1 DEF PasswordComesFromLink, TypeOK, Tokens
    <3>2. "reset" \in LinkKinds
      BY DEF LinkKinds
    <3>3. QED
      BY <1>0, <2>1, <2>5, <2>7, <3>1, <3>2 DEF PasswordComesFromLink
  <2>14. QED
    BY <2>4, <2>9, <2>10, <2>11, <2>12, <2>13 DEF LinksInv
<1>5. ASSUME NEW r \in Requests, MailLink(r), UNCHANGED sweep PROVE LinksInv'
  <2>0. UNCHANGED <<old, reminder>>
    BY <1>5 DEF sweep
  <2>1. /\ pc[r] = "committed" /\ pc' = [pc EXCEPT ![r] = "ok"]
        /\ UNCHANGED <<row, expired, op, token, history>>
        /\ \/ mailed' = mailed \cup {[kind |-> KindOf(op[r]), token |-> token[r]]}
           \/ mailed' = mailed
    BY <1>5 DEF MailLink, Goto
  <2>2. token[r] \in issued[KindOf(op[r])] /\ KindOf(op[r]) \in LinkKinds
    BY <1>0, <2>1 DEF TokensAreIssued, KindOf, LinkKinds
  <2>3. TypeOK'
    <3>1. token[r] \in Tokens
      BY <1>0, <2>2 DEF TypeOK
    <3>2. QED
      BY <1>0, <2>0, <2>1, <2>2, <3>1 DEF TypeOK, row, history, Steps
  <2>4. TokensAreFresh'
    BY <1>0, <2>1 DEF TokensAreFresh, TypeOK, history
  <2>5. TokensAreIssued'
    BY <1>0, <2>0, <2>1 DEF TokensAreIssued, TypeOK, row, history
  <2>6. SpentLinksAreDead' /\ MailedWasStored'
    BY <1>0, <2>1, <2>2 DEF SpentLinksAreDead, MailedWasStored, row, history
  <2>7. PasswordComesFromLink'
    BY <1>0, <2>1 DEF PasswordComesFromLink, TypeOK, Tokens, row, history
  <2>8. QED
    BY <2>3, <2>4, <2>5, <2>6, <2>7 DEF LinksInv
<1>6. ASSUME NEW r \in Requests, CommitForce(r), UNCHANGED sweep PROVE LinksInv'
  <2>0. UNCHANGED <<old, reminder>>
    BY <1>6 DEF sweep
  <2> DEFINE use == [by |-> r, kind |-> "force", token |-> token[r]]
  <2>1. /\ pc[r] = "checked" /\ op[r] = "force" /\ password' = r /\ mustChange' = FALSE
        /\ used' = used \cup {use} /\ pc' = [pc EXCEPT ![r] = "ok"]
        /\ UNCHANGED <<verified, active, link, expired, op, token, mailed, issued,
                       spent>>
    BY <1>6 DEF CommitForce, Goto
  <2>2. token[r] \in Tokens /\ use \in Use
    BY <1>0, <2>1 DEF TokensAreIssued, Use
  <2>3. TypeOK'
    BY <1>0, <2>0, <2>1, <2>2 DEF TypeOK, Steps, Tokens
  <2>4. TokensAreFresh'
    BY <1>0, <2>1 DEF TokensAreFresh, TypeOK
  <2>5. TokensAreIssued'
    BY <1>0, <2>0, <2>1 DEF TokensAreIssued, TypeOK
  <2>6. SpentLinksAreDead' /\ MailedWasStored'
    BY <1>0, <2>1 DEF SpentLinksAreDead, MailedWasStored
  <2>7. PasswordComesFromLink'
    <3>1. use \in used' /\ use.by = password' /\ use.kind = "force"
      BY <2>1
    <3>2. pc'[password'] = "ok"
      BY <1>0, <2>1 DEF TypeOK
    <3>3. QED
      BY <3>1, <3>2 DEF PasswordComesFromLink
  <2>8. QED
    BY <2>3, <2>4, <2>5, <2>6, <2>7 DEF LinksInv
<1>7. CASE OwnerSetsFlags \/ UNCHANGED vars
  BY <1>0, <1>7 DEF OwnerSetsFlags, vars, row, history, sweep, LinksInv, TypeOK, TokensAreFresh,
          TokensAreIssued, SpentLinksAreDead, PasswordComesFromLink, MailedWasStored
<1>8. CASE Expire
  <2>1. /\ UNCHANGED <<row, pc, op, token, sweep, mailed, history>>
        /\ expired' \subseteq Tokens
    BY <1>0, <1>8 DEF Expire, TypeOK
  <2>2. QED
    BY <1>0, <2>1 DEF row, history, sweep, LinksInv, TypeOK, TokensAreFresh,
          TokensAreIssued, SpentLinksAreDead, PasswordComesFromLink, MailedWasStored
<1>9. CASE DayPasses \/ ReadReminder \/ QueueReminder
  <2>1. /\ UNCHANGED <<row, expired, pc, op, token, history>>
        /\ old' \in BOOLEAN
        /\ reminder' \in {reminder, link["verify"], NoToken}
        /\ \/ mailed' = mailed
           \/ /\ mailed' = mailed \cup {[kind |-> "verify", token |-> reminder]}
              /\ reminder \in issued["verify"]
    BY <1>0, <1>9 DEF DayPasses, ReadReminder, QueueReminder, TypeOK, TokensAreIssued
  <2>2. "verify" \in LinkKinds
    BY DEF LinkKinds
  <2>3. reminder' \in issued["verify"] \cup {NoToken}
    BY <1>0, <2>1, <2>2 DEF TokensAreIssued
  <2>4. TypeOK'
    <3>1. reminder' \in Tokens \cup {NoToken}
      BY <1>0, <2>2, <2>3 DEF TypeOK
    <3>2. mailed' \subseteq [kind : LinkKinds, token : Tokens]
      BY <1>0, <2>1, <2>2 DEF TypeOK
    <3>3. QED
      BY <1>0, <2>1, <3>1, <3>2 DEF TypeOK, row, history
  <2>5. TokensAreFresh' /\ TokensAreIssued'
    BY <1>0, <2>1, <2>3 DEF TokensAreFresh, TokensAreIssued, row, history
  <2>6. SpentLinksAreDead' /\ PasswordComesFromLink' /\ MailedWasStored'
    BY <1>0, <2>1 DEF SpentLinksAreDead, PasswordComesFromLink, MailedWasStored, row,
                      history
  <2>7. QED
    BY <2>4, <2>5, <2>6 DEF LinksInv
<1>10. QED
  BY <1>1, <1>2, <1>3, <1>4, <1>5, <1>6, <1>7, <1>8, <1>9 DEF Next, Step

LEMMA LinksInvariant == Spec => []LinksInv
  BY LinksInit, LinksStep, PTL DEF Spec

\* The type invariant of the account's links.
THEOREM LinksTypeCorrect == Spec => []TypeOK
<1>1. LinksInv => TypeOK
  BY DEF LinksInv
<1>2. QED
  BY <1>1, LinksInvariant, PTL

\* A token that took effect, or was cleared for the request that presented it, is
\* never stored again, for any number of racing requests.
THEOREM SpentStaysDead == Spec => []SpentLinksAreDead
<1>1. LinksInv => SpentLinksAreDead
  BY DEF LinksInv
<1>2. QED
  BY <1>1, LinksInvariant, PTL

\* The password comes from a request that presented an issued token or knew the
\* password before.
THEOREM PasswordAlwaysFromLink == Spec => []PasswordComesFromLink
<1>1. LinksInv => PasswordComesFromLink
  BY DEF LinksInv
<1>2. QED
  BY <1>1, LinksInvariant, PTL

\* No e-mail carries a link that was never stored.
THEOREM MailedAlwaysStored == Spec => []MailedWasStored
<1>1. LinksInv => MailedWasStored
  BY DEF LinksInv
<1>2. QED
  BY <1>1, LinksInvariant, PTL

-----------------------------------------------------------------------------

\* The stored token of a kind, with the history of the slot.
SlotOf(kind) == <<link[kind], issued[kind], spent[kind]>>

\* A step issues a new token of a kind, spends the stored one, comes from a
\* request that was overtaken, or leaves the slot alone.
LEMMA SlotStep ==
    ASSUME LinksInv, [Next]_vars, NEW kind \in LinkKinds
    PROVE  \/ UNCHANGED SlotOf(kind)
           \/ \E r \in Requests : /\ r \notin issued[kind] /\ link'[kind] = r
                                  /\ issued'[kind] = issued[kind] \cup {r}
                                  /\ spent'[kind] = spent[kind]
           \/ \E t \in Tokens : /\ link[kind] = t /\ link'[kind] = NoToken
                                /\ spent'[kind] = spent[kind] \cup {t}
                                /\ issued'[kind] = issued[kind]
           \/ Overtaken(kind)
<1>0. TypeOK /\ TokensAreFresh /\ TokensAreIssued
  BY DEF LinksInv
<1>1. ASSUME NEW r \in Requests, CommitVerify(r) \/ ClearReset(r) \/ CommitReset(r),
             KindOf(op[r]) = kind
      PROVE  \/ Overtaken(kind)
             \/ \E t \in Tokens : /\ link[kind] = t /\ link'[kind] = NoToken
                                  /\ spent'[kind] = spent[kind] \cup {t}
                                  /\ issued'[kind] = issued[kind]
  <2>1. /\ pc[r] \in {"checked", "clearing"} /\ op[r] \in {"verify", "reset"}
        /\ pc'[r] \in {"ok", "refused"} /\ token[r] \in Tokens
    BY <1>0, <1>1 DEF CommitVerify, ClearReset, CommitReset, TokensAreIssued, TypeOK,
                      Goto, KindOf, LinkKinds
  <2>2. /\ link'[kind] = NoToken /\ issued' = issued
        /\ spent'[kind] = spent[kind] \cup {token[r]}
    BY <1>0, <1>1 DEF CommitVerify, ClearReset, CommitReset, TokensAreIssued, TypeOK, KindOf
  <2>3. CASE token[r] = link[kind]
    BY <2>1, <2>2, <2>3
  <2>4. CASE token[r] # link[kind]
    BY <1>1, <2>1, <2>4 DEF Overtaken
  <2>5. QED
    BY <2>3, <2>4
<1>2. ASSUME NEW r \in Requests, CommitVerify(r) \/ ClearReset(r) \/ CommitReset(r),
             KindOf(op[r]) # kind
      PROVE  UNCHANGED SlotOf(kind)
  BY <1>0, <1>2 DEF CommitVerify, ClearReset, CommitReset, TokensAreIssued, TypeOK, KindOf,
                    SlotOf
<1>3. ASSUME NEW r \in Requests, CommitIssue(r), KindOf(op[r]) = kind
      PROVE  /\ r \notin issued[kind] /\ link'[kind] = r
             /\ issued'[kind] = issued[kind] \cup {r} /\ spent'[kind] = spent[kind]
  BY <1>0, <1>3 DEF CommitIssue, TokenOf, TokensAreFresh, TypeOK
<1>4. ASSUME NEW r \in Requests, CommitIssue(r), KindOf(op[r]) # kind
      PROVE  UNCHANGED SlotOf(kind)
  BY <1>0, <1>4 DEF CommitIssue, TypeOK, SlotOf
<1>5. CASE UNCHANGED <<link, issued, spent>>
  BY <1>5 DEF SlotOf
<1>6. QED
  BY <1>1, <1>2, <1>3, <1>4, <1>5
     DEF Next, Step, vars, row, history, BeginVerify, BeginResend, BeginForgot, BeginReset,
         BeginForce, Admit, Refuse, MailLink, CommitForce, Crash, OwnerSetsFlags, Expire,
         DayPasses, ReadReminder, QueueReminder

\* Each slot is a one-time link but for requests another one has overtaken, for
\* any number of racing requests.
THEOREM LinksAreOneTime == Spec => OneTimeUnlessOvertaken
<1>1. Init => VerifyLink!Init /\ ResetLink!Init
  BY DEF Init, VerifyLink!Init, ResetLink!Init, LinkKinds, Tokens
<1>2. Requests \subseteq Tokens /\ "verify" \in LinkKinds /\ "reset" \in LinkKinds
  BY DEF Tokens, LinkKinds
<1>3. LinksInv /\ [Next]_vars =>
          [VerifyLink!Next \/ Overtaken("verify")]_(VerifyLink!vars)
  BY <1>2, SlotStep
     DEF SlotOf, VerifyLink!Next, VerifyLink!Issue, VerifyLink!Spend, VerifyLink!vars
<1>4. LinksInv /\ [Next]_vars =>
          [ResetLink!Next \/ Overtaken("reset")]_(ResetLink!vars)
  BY <1>2, SlotStep
     DEF SlotOf, ResetLink!Next, ResetLink!Issue, ResetLink!Spend, ResetLink!vars
<1>5. QED
  BY <1>1, <1>3, <1>4, LinksInvariant, PTL DEF Spec, OneTimeUnlessOvertaken
=============================================================================
