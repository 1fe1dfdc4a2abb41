----------------------------- MODULE OneTimeLink -----------------------------
(***************************************************************************)
(* What a mailed link promises: it works once, the newest one works until   *)
(* it is spent, and an older one does not.  There is one slot per account   *)
(* and kind of link.                                                        *)
(***************************************************************************)
CONSTANTS Tokens, NoToken

VARIABLES slot,       \* the token whose link works, or NoToken
          issued,     \* the tokens that were ever given out
          spent       \* the tokens that were presented and taken

vars == <<slot, issued, spent>>

Init == /\ slot \in Tokens \cup {NoToken}
        /\ issued = {slot} \ {NoToken}
        /\ spent = {}

\* A token that is new takes the place of the one before.
Issue(t) ==
    /\ t \notin issued
    /\ slot' = t
    /\ issued' = issued \cup {t}
    /\ UNCHANGED spent

\* The working link is presented, and works no more.
Spend(t) ==
    /\ slot = t
    /\ slot' = NoToken
    /\ spent' = spent \cup {t}
    /\ UNCHANGED issued

Next == \E t \in Tokens : Issue(t) \/ Spend(t)

Spec == Init /\ [][Next]_vars
=============================================================================
