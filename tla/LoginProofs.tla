------------------------------ MODULE LoginProofs ------------------------------
(***************************************************************************)
(* Proofs about Login, for every set of request slots and accounts, every   *)
(* threshold and bound.                                                     *)
(***************************************************************************)
EXTENDS Login, TLAPS

\* The endpoints a request may be in, by its step.
KindsFit ==
    \A r \in Requests :
        /\ pc[r] \in Throttling \cup Clearing \cup {"checking"} => kind[r] = "login"
        /\ pc[r] = "selecting" => kind[r] = "select"

\* What a request goes by was so at some moment of it.
WitnessInv ==
    \A r \in Requests :
        /\ pc[r] \in {"checking", "selecting"} =>
               /\ todo[r] \cup live[r] \subseteq during[r].active
               /\ (todo[r] \cup live[r]) \cap Open \subseteq during[r].open
        /\ pc[r] \in {"idle"} \cup Throttling => live[r] = {} /\ todo[r] = {}
        /\ pc[r] = "selecting" => live[r] # {}
        /\ pc[r] = "checking" => live[r] \subseteq during[r].open
        /\ pc[r] \in Clearing =>
               /\ live[r] # {} /\ live[r] \subseteq during[r].active
               /\ live[r] \subseteq during[r].open

\* While a quiet success clears, nobody else counts.
QuietInv ==
    \A r \in quiet :
        /\ pc[r] \in {"forgetting", "granted"} /\ kind[r] = "login"
        /\ \A s \in Requests \ {r} : kind[s] # "login"
        /\ failures = Absent
        /\ pc[r] = "granted" => cooldown = "none"

LoginInv == /\ TypeOK /\ KindsFit /\ WitnessInv /\ QuietInv
            /\ GrantsAreEarned /\ LeakHasCause

-----------------------------------------------------------------------------

\* At the start no request is under way and Redis is empty.
LEMMA LoginInit == Init => LoginInv
<1> SUFFICES ASSUME Init PROVE LoginInv
  OBVIOUS
<1>1. /\ failures = Absent /\ pc = [r \in Requests |-> "idle"] /\ quiet = {}
      /\ todo = [r \in Requests |-> {}] /\ live = [r \in Requests |-> {}]
  BY DEF Init
<1>2. TypeOK
  BY SuperadminsAreAccounts DEF Init, TypeOK, Absent, NoMoment, Steps
<1>3. KindsFit /\ WitnessInv /\ QuietInv /\ GrantsAreEarned
  BY <1>1 DEF KindsFit, WitnessInv, QuietInv, GrantsAreEarned, Throttling, Clearing
<1>4. LeakHasCause
  BY <1>1 DEF LeakHasCause, Absent
<1>5. QED
  BY <1>2, <1>3, <1>4 DEF LoginInv

\* The type invariant in two parts: the tables and Redis, and the requests.
Moment == [active : SUBSET Accounts, open : SUBSET Accounts, good : SUBSET Accounts]
StoresOK ==
    /\ active \subseteq Accounts /\ open \subseteq Accounts \ Superadmins
    /\ failures \in [count : Nat, fading : BOOLEAN]
    /\ failures.fading => failures.count > 0
    /\ cooldown \in {"none", "running", "over"}
    /\ leaked \in BOOLEAN
    /\ quiet \subseteq Requests
SlotsOK ==
    /\ pc \in [Requests -> Steps]
    /\ kind \in [Requests -> {"none", "login", "select", "refresh", "call"}]
    /\ todo \in [Requests -> SUBSET Accounts]
    /\ live \in [Requests -> SUBSET Accounts]
    /\ count \in [Requests -> Nat]
    /\ during \in [Requests -> Moment]

\* An absent counter is a counter.
LEMMA AbsentType == Absent \in [count : Nat, fading : BOOLEAN] /\ ~Absent.fading
BY DEF Absent

\* Every step is the name of one.
LEMMA StepNames ==
    /\ {"idle", "checking", "selecting", "granted", "admitted", "failing", "counted",
        "cooling", "cleaning", "setting", "sleeping", "clearing", "forgetting"} = Steps
BY DEF Steps, Throttling, Clearing

\* What a request has lived through stays a triple of sets of accounts.
LEMMA WitnessType ==
    ASSUME NEW d \in Moment, NEW who \in SUBSET Accounts, NEW act \in SUBSET Accounts,
           NEW opn \in SUBSET Accounts
    PROVE  Witness(d, who, act, opn) \in Moment
BY DEF Witness, Moment

LEMMA NoMomentType == NoMoment \in Moment
BY DEF NoMoment, Moment

\* A request that leaves its slot leaves it well typed.
LEMMA LeaveType ==
    ASSUME SlotsOK, NEW r \in Requests, Leave(r), quiet \subseteq Requests
    PROVE  SlotsOK' /\ quiet' \subseteq Requests
BY NoMomentType, StepNames DEF SlotsOK, Leave, Goto

\* Every action keeps the types.
LEMMA TypeStep == TypeOK /\ [Next]_vars => TypeOK'
<1> SUFFICES ASSUME StoresOK, SlotsOK, [Next]_vars PROVE StoresOK' /\ SlotsOK'
  BY DEF TypeOK, StoresOK, SlotsOK, Moment
<1>a. StoresOK /\ active \in SUBSET Accounts /\ Open \in SUBSET Accounts
  BY SuperadminsAreAccounts DEF Open, StoresOK
<1>1. ASSUME NEW r \in Requests, BeginLogin(r) PROVE StoresOK' /\ SlotsOK'
  <2>1. PICK knows \in SUBSET Accounts :
            /\ todo' = [todo EXCEPT ![r] = knows \cap active]
            /\ Enter(r, IF knows = {} THEN "failing" ELSE "checking", "login",
                     knows \cap active)
    BY <1>1 DEF BeginLogin
  <2> DEFINE seen == Witness(NoMoment, knows \cap active, active, Open)
  <2>2. seen \in Moment
    BY <1>a, WitnessType, NoMomentType
  <2>3. during' = [during EXCEPT ![r] = seen]
    BY <2>1 DEF Enter
  <2> HIDE DEF seen
  <2>4. SlotsOK'
    BY <1>1, <2>1, <2>2, <2>3, <1>a, StepNames DEF BeginLogin, Enter, SlotsOK
  <2>5. StoresOK'
    BY <1>1 DEF BeginLogin, StoresOK, rowVars
  <2>6. QED
    BY <2>4, <2>5
<1>2. ASSUME NEW r \in Requests, BeginSelect(r) \/ Refresh(r) \/ Admit(r)
      PROVE  StoresOK' /\ SlotsOK'
  <2>1. PICK a \in active, step \in {"selecting", "granted", "admitted"},
             what \in {"select", "refresh", "call"} :
            live' = [live EXCEPT ![r] = {a}] /\ Enter(r, step, what, {a})
    BY <1>2 DEF BeginSelect, Refresh, Admit
  <2> DEFINE seen == Witness(NoMoment, {a}, active, Open)
  <2>2. seen \in Moment /\ {a} \in SUBSET Accounts
    BY <1>a, WitnessType, NoMomentType
  <2>3. during' = [during EXCEPT ![r] = seen]
    BY <2>1 DEF Enter
  <2> HIDE DEF seen
  <2>4. todo' = todo /\ count' = count
    BY <1>2 DEF BeginSelect, Refresh, Admit
  <2>5. SlotsOK'
    BY <2>1, <2>2, <2>3, <2>4, StepNames DEF Enter, SlotsOK
  <2>6. StoresOK'
    BY <1>2 DEF BeginSelect, Refresh, Admit, StoresOK, rowVars, redisVars
  <2>7. QED
    BY <2>5, <2>6
<1>3. ASSUME NEW r \in Requests, CheckTenant(r) \/ Decide(r) PROVE StoresOK' /\ SlotsOK'
  <2>1. StoresOK'
    BY <1>3 DEF CheckTenant, Decide, StoresOK, rowVars, redisVars
  <2>2. SlotsOK'
    BY <1>3, NoMomentType, StepNames DEF CheckTenant, Decide, SlotsOK, Goto
  <2>3. QED
    BY <2>1, <2>2
<1>4. ASSUME NEW r \in Requests, RecordFailedAttempt(r) PROVE StoresOK' /\ SlotsOK'
  <2>1. failures.count + 1 \in Nat
    BY DEF StoresOK
  <2>2. StoresOK'
    BY <1>4, <2>1 DEF RecordFailedAttempt, StoresOK, rowVars
  <2>3. SlotsOK'
    BY <1>4, <2>1, StepNames DEF RecordFailedAttempt, SlotsOK, Goto
  <2>4. QED
    BY <2>2, <2>3
<1>5. ASSUME NEW r \in Requests, SetExpiry(r) \/ SetNoExpiry(r) PROVE StoresOK' /\ SlotsOK'
  <2>1. (failures.count > 0) \in BOOLEAN
    OBVIOUS
  <2>2. StoresOK'
    BY <1>5, <2>1 DEF SetExpiry, SetNoExpiry, StoresOK, rowVars
  <2>3. SlotsOK'
    BY <1>5, StepNames DEF SetExpiry, SetNoExpiry, SlotsOK, Goto
  <2>4. QED
    BY <2>2, <2>3
<1>6. ASSUME NEW r \in Requests, IsInCooldown(r) \/ DeleteCooldown(r)
      PROVE  StoresOK' /\ SlotsOK'
  <2>1. \/ Leave(r)
        \/ /\ Goto(r, "cleaning") \/ Goto(r, "setting")
           /\ UNCHANGED <<kind, todo, live, count, during, quiet>>
    BY <1>6 DEF IsInCooldown, DeleteCooldown
  <2>2. SlotsOK' /\ quiet' \subseteq Requests
    BY <1>a, <2>1, LeaveType, StepNames DEF SlotsOK, Goto, StoresOK
  <2>3. /\ cooldown' \in {"none", cooldown}
        /\ UNCHANGED <<active, open, failures, leaked>>
    BY <1>6 DEF IsInCooldown, DeleteCooldown, rowVars
  <2>4. QED
    BY <2>2, <2>3 DEF StoresOK
<1>7. ASSUME NEW r \in Requests, SetCooldown(r) PROVE StoresOK' /\ SlotsOK'
  BY <1>7, StepNames DEF SetCooldown, SlotsOK, StoresOK, Goto, rowVars
<1>8. ASSUME NEW r \in Requests, ClearFailures(r) \/ ClearCooldown(r) \/ ClearNothing(r)
      PROVE  StoresOK' /\ SlotsOK'
  <2>1. SlotsOK'
    BY <1>8, StepNames DEF ClearFailures, ClearCooldown, ClearNothing, SlotsOK, Goto
  <2>2. StoresOK'
    BY <1>8, AbsentType
       DEF ClearFailures, ClearCooldown, ClearNothing, StoresOK, rowVars
  <2>3. QED
    BY <2>1, <2>2
<1>9. ASSUME NEW r \in Requests, FinishSelect(r) \/ Wake(r) \/ Answer(r) \/ Crash(r)
      PROVE  StoresOK' /\ SlotsOK'
  <2>1. \/ Leave(r)
        \/ Goto(r, "granted") /\ UNCHANGED <<kind, todo, live, count, during, quiet>>
    BY <1>9 DEF FinishSelect, Wake, Answer, Crash
  <2>2. SlotsOK' /\ quiet' \subseteq Requests
    BY <1>a, <2>1, LeaveType, StepNames DEF SlotsOK, Goto, StoresOK
  <2>3. leaked' \in BOOLEAN /\ UNCHANGED <<active, open, failures, cooldown>>
    BY <1>9 DEF FinishSelect, Wake, Answer, Crash, rowVars, StoresOK
  <2>4. QED
    BY <2>2, <2>3 DEF StoresOK
<1>10. CASE FailuresExpire \/ CooldownEnds
  <2>1. SlotsOK'
    BY <1>10 DEF FailuresExpire, CooldownEnds, SlotsOK
  <2>2. StoresOK'
    BY <1>10, AbsentType DEF FailuresExpire, CooldownEnds, StoresOK, rowVars
  <2>3. QED
    BY <2>1, <2>2
<1>11. CASE Administer
  <2>1. active' \in SUBSET Accounts /\ open' \in SUBSET (Accounts \ Superadmins)
    BY <1>11 DEF Administer, Toggle, StoresOK
  <2>2. Open' \in SUBSET Accounts
    BY <2>1, SuperadminsAreAccounts DEF Open
  <2>3. during' \in [Requests -> Moment]
    <3>1. ASSUME NEW r \in Requests
          PROVE  Witness(during[r], todo[r] \cup live[r], active', Open') \in Moment
      BY WitnessType, <2>1, <2>2 DEF SlotsOK
    <3>2. QED
      BY <1>11, <3>1 DEF Administer, SlotsOK
  <2>4. QED
    BY <1>11, <2>1, <2>3 DEF Administer, redisVars, StoresOK, SlotsOK
<1>12. CASE UNCHANGED vars
  BY <1>12 DEF vars, redisVars, rowVars, StoresOK, SlotsOK
<1>13. QED
  BY <1>1, <1>2, <1>3, <1>4, <1>5, <1>6, <1>7, <1>8, <1>9, <1>10, <1>11, <1>12
     DEF Next, Handle

\* A request that is under way is of the endpoint its step belongs to.
LEMMA KindsStep == TypeOK /\ KindsFit /\ [Next]_vars => KindsFit'
<1> SUFFICES ASSUME TypeOK, KindsFit, [Next]_vars PROVE KindsFit'
  OBVIOUS
<1> USE DEF TypeOK, KindsFit, Throttling, Clearing
<1>1. ASSUME NEW s \in Requests, BeginLogin(s) PROVE KindsFit'
  BY <1>1 DEF BeginLogin, Enter
<1>2. ASSUME NEW s \in Requests, BeginSelect(s) PROVE KindsFit'
  BY <1>2 DEF BeginSelect, Enter
<1>3. ASSUME NEW s \in Requests, Refresh(s) \/ Admit(s) PROVE KindsFit'
  BY <1>3 DEF Refresh, Admit, Enter
<1>4. ASSUME NEW s \in Requests, Leave(s) PROVE KindsFit'
  BY <1>4 DEF Leave, Goto
<1>5. ASSUME NEW s \in Requests, NEW step, Goto(s, step), kind' = kind,
             step = "granted" \/ (step # "selecting" /\ kind[s] = "login")
      PROVE  KindsFit'
  BY <1>5 DEF Goto
<1>6. CASE UNCHANGED <<pc, kind>>
  BY <1>6
<1>7. ASSUME NEW s \in Requests, CheckTenant(s) \/ FinishSelect(s) \/ Wake(s)
                                \/ Answer(s) \/ Crash(s)
      PROVE  KindsFit'
  BY <1>4, <1>5, <1>6, <1>7 DEF CheckTenant, FinishSelect, Wake, Answer, Crash
<1>8. ASSUME NEW s \in Requests, Decide(s) \/ RecordFailedAttempt(s) \/ SetExpiry(s)
                                \/ SetNoExpiry(s)
      PROVE  KindsFit'
  BY <1>5, <1>8 DEF Decide, RecordFailedAttempt, SetExpiry, SetNoExpiry
<1>9. ASSUME NEW s \in Requests, IsInCooldown(s) \/ DeleteCooldown(s) PROVE KindsFit'
  BY <1>4, <1>5, <1>9 DEF IsInCooldown, DeleteCooldown
<1>10. ASSUME NEW s \in Requests, SetCooldown(s) \/ ClearFailures(s) \/ ClearCooldown(s)
                                 \/ ClearNothing(s)
       PROVE  KindsFit'
  BY <1>5, <1>10 DEF SetCooldown, ClearFailures, ClearCooldown, ClearNothing
<1>11. CASE FailuresExpire \/ CooldownEnds \/ Administer \/ UNCHANGED vars
  BY <1>6, <1>11 DEF FailuresExpire, CooldownEnds, Administer, vars
<1> HIDE DEF TypeOK, KindsFit, Throttling, Clearing
<1>12. QED
  BY <1>1, <1>2, <1>3, <1>7, <1>8, <1>9, <1>10, <1>11 DEF Next, Handle

\* The failure counter has an expiry, or somebody owes it one.
LEMMA LeakStep == TypeOK /\ LeakHasCause /\ [Next]_vars => LeakHasCause'
<1> SUFFICES ASSUME TypeOK, LeakHasCause, [Next]_vars PROVE LeakHasCause'
  OBVIOUS
<1> USE DEF LeakHasCause
<1>1. ASSUME NEW r \in Requests, RecordFailedAttempt(r) PROVE LeakHasCause'
  <2>1. CASE failures.count = 0 /\ failures' # failures
    BY <1>1, <2>1 DEF RecordFailedAttempt, StartsWindow, Goto, TypeOK
  <2>2. CASE failures.count > 0 \/ failures' = failures
    <3>1. /\ failures'.fading = failures.fading /\ leaked' = leaked
          /\ failures' = failures \/ failures.count > 0
          /\ pc[r] = "failing" /\ \A s \in Requests \ {r} : pc'[s] = pc[s]
      BY <1>1, <2>2 DEF RecordFailedAttempt, Goto, TypeOK
    <3>2. QED
      BY <3>1
  <2>3. QED
    BY <2>1, <2>2 DEF TypeOK
<1>2. ASSUME NEW r \in Requests, SetExpiry(r) PROVE LeakHasCause'
  BY <1>2 DEF SetExpiry, TypeOK
<1>3. CASE leaked'
  BY <1>3
<1>4. CASE failures' = Absent
  BY <1>4 DEF Absent
<1>5. ASSUME NEW r \in Requests, pc[r] # "counted", UNCHANGED <<failures, leaked>>,
             \A s \in Requests \ {r} : pc'[s] = pc[s]
      PROVE  LeakHasCause'
  BY <1>5
<1>6. CASE UNCHANGED <<failures, leaked, pc>>
  BY <1>6
<1>7. ASSUME NEW r \in Requests, BeginLogin(r) \/ BeginSelect(r) \/ Refresh(r) \/ Admit(r)
      PROVE  LeakHasCause'
  BY <1>5, <1>7 DEF BeginLogin, BeginSelect, Refresh, Admit, Enter, redisVars, TypeOK
<1>8. ASSUME NEW r \in Requests, Decide(r) \/ IsInCooldown(r) \/ DeleteCooldown(r)
                                \/ SetCooldown(r) \/ Wake(r)
      PROVE  LeakHasCause'
  BY <1>5, <1>8 DEF Decide, IsInCooldown, DeleteCooldown, SetCooldown, Wake, Goto,
                    Leave, redisVars, TypeOK
<1>9. ASSUME NEW r \in Requests, ClearCooldown(r) \/ ClearNothing(r) \/ FinishSelect(r)
                                \/ Answer(r) \/ Crash(r)
      PROVE  LeakHasCause'
  <2>1. CASE leaked'
    BY <2>1
  <2>2. CASE ~leaked'
    BY <1>5, <1>9, <2>2 DEF ClearCooldown, ClearNothing, FinishSelect, Answer, Crash, Goto,
                       Leave, Clearing, TypeOK
  <2>3. QED
    BY <2>1, <2>2
<1>10. QED
  BY <1>1, <1>2, <1>3, <1>4, <1>6, <1>7, <1>8, <1>9
     DEF Next, Handle, CheckTenant, SetNoExpiry, ClearFailures, FailuresExpire,
         CooldownEnds, Administer, redisVars, vars

\* What a request goes by was so, step by step.
LEMMA WitnessStep ==
    TypeOK /\ KindsFit /\ WitnessInv /\ GrantsAreEarned /\ [Next]_vars =>
        WitnessInv' /\ GrantsAreEarned'
<1> SUFFICES ASSUME TypeOK, KindsFit, WitnessInv, GrantsAreEarned, [Next]_vars,
                    NEW r \in Requests
             PROVE  /\ pc'[r] \in {"checking", "selecting"} =>
                          /\ todo'[r] \cup live'[r] \subseteq during'[r].active
                          /\ (todo'[r] \cup live'[r]) \cap Open' \subseteq during'[r].open
                    /\ pc'[r] \in {"idle"} \cup Throttling => live'[r] = {} /\ todo'[r] = {}
                    /\ pc'[r] = "selecting" => live'[r] # {}
                    /\ pc'[r] = "checking" => live'[r] \subseteq during'[r].open
                    /\ pc'[r] \in Clearing =>
                          /\ live'[r] # {} /\ live'[r] \subseteq during'[r].active
                          /\ live'[r] \subseteq during'[r].open
                    /\ pc'[r] = "granted" =>
                          /\ live'[r] # {} /\ live'[r] \subseteq during'[r].active
                          /\ kind'[r] # "refresh" => live'[r] \subseteq during'[r].open
                    /\ pc'[r] = "admitted" => live'[r] \subseteq during'[r].good
  BY DEF WitnessInv, GrantsAreEarned
<1> DEFINE Fine == /\ pc'[r] \in {"checking", "selecting"} =>
                          /\ todo'[r] \cup live'[r] \subseteq during'[r].active
                          /\ (todo'[r] \cup live'[r]) \cap Open' \subseteq during'[r].open
                   /\ pc'[r] \in {"idle"} \cup Throttling => live'[r] = {} /\ todo'[r] = {}
                   /\ pc'[r] = "selecting" => live'[r] # {}
                   /\ pc'[r] = "checking" => live'[r] \subseteq during'[r].open
                   /\ pc'[r] \in Clearing =>
                          /\ live'[r] # {} /\ live'[r] \subseteq during'[r].active
                          /\ live'[r] \subseteq during'[r].open
                   /\ pc'[r] = "granted" =>
                          /\ live'[r] # {} /\ live'[r] \subseteq during'[r].active
                          /\ kind'[r] # "refresh" => live'[r] \subseteq during'[r].open
                   /\ pc'[r] = "admitted" => live'[r] \subseteq during'[r].good
<1>0. /\ pc[r] \in {"checking", "selecting"} =>
             /\ todo[r] \cup live[r] \subseteq during[r].active
             /\ (todo[r] \cup live[r]) \cap Open \subseteq during[r].open
      /\ pc[r] \in {"idle"} \cup Throttling => live[r] = {} /\ todo[r] = {}
      /\ pc[r] = "selecting" => live[r] # {}
      /\ pc[r] = "checking" => live[r] \subseteq during[r].open
      /\ pc[r] \in Clearing =>
             /\ live[r] # {} /\ live[r] \subseteq during[r].active
             /\ live[r] \subseteq during[r].open
      /\ pc[r] = "granted" =>
             /\ live[r] # {} /\ live[r] \subseteq during[r].active
             /\ kind[r] # "refresh" => live[r] \subseteq during[r].open
      /\ pc[r] = "admitted" => live[r] \subseteq during[r].good
  BY DEF WitnessInv, GrantsAreEarned
<1> SUFFICES Fine
  OBVIOUS
\* A step of another request, or of Redis, changes nothing of this one.
<1>1. CASE /\ pc'[r] = pc[r] /\ kind'[r] = kind[r] /\ todo'[r] = todo[r]
           /\ live'[r] = live[r] /\ during'[r] = during[r] /\ UNCHANGED rowVars
  BY <1>0, <1>1 DEF rowVars, Open
<1>2. ASSUME NEW s \in Requests \ {r},
             \/ BeginLogin(s) \/ BeginSelect(s) \/ Refresh(s) \/ Admit(s)
             \/ Handle(s) \/ Crash(s)
      PROVE  Fine
  <2>1. UNCHANGED rowVars
    BY <1>2 DEF BeginLogin, BeginSelect, Refresh, Admit, Handle, Crash, CheckTenant, Decide,
                RecordFailedAttempt, SetExpiry, SetNoExpiry, IsInCooldown, DeleteCooldown,
                SetCooldown, Wake, ClearFailures, ClearCooldown, ClearNothing, FinishSelect,
                Answer
  <2>2. CASE BeginLogin(s) \/ BeginSelect(s) \/ Refresh(s) \/ Admit(s)
    BY <1>1, <2>1, <2>2 DEF BeginLogin, BeginSelect, Refresh, Admit, Enter, TypeOK
  <2>3. CASE Leave(s)
    BY <1>1, <2>1, <2>3 DEF Leave, Goto, TypeOK
  <2>4. CASE Handle(s) /\ ~Leave(s)
    BY <1>1, <2>1, <2>4
       DEF Handle, Goto, TypeOK, CheckTenant, Decide,
           RecordFailedAttempt, SetExpiry, SetNoExpiry, IsInCooldown, DeleteCooldown,
           SetCooldown, Wake, ClearFailures, ClearCooldown, ClearNothing, FinishSelect,
           Answer
  <2>5. CASE Crash(s)
    BY <2>3, <2>5 DEF Crash
  <2>6. QED
    BY <1>2, <2>2, <2>3, <2>4, <2>5
<1>3. CASE BeginLogin(r)
  <2>1. PICK who \in SUBSET Accounts, step \in {"failing", "checking"} :
            /\ todo' = [todo EXCEPT ![r] = who] /\ who \subseteq active
            /\ step = "failing" => who = {}
            /\ Enter(r, step, "login", who)
    BY <1>3 DEF BeginLogin, TypeOK
  <2>2. live'[r] = {} 
    BY <1>0, <1>3 DEF BeginLogin
  <2>3. QED
    BY <1>3, <2>1, <2>2
       DEF BeginLogin, Enter, Witness, NoMoment, TypeOK, rowVars, Open, Clearing, Throttling
<1>4. CASE BeginSelect(r) \/ Refresh(r) \/ Admit(r)
  <2>1. PICK a \in active : /\ live' = [live EXCEPT ![r] = {a}]
                            /\ \/ Enter(r, "selecting", "select", {a})
                               \/ Enter(r, "granted", "refresh", {a})
                               \/ a \in Open /\ Enter(r, "admitted", "call", {a})
    BY <1>4 DEF BeginSelect, Refresh, Admit
  <2>2. /\ todo'[r] = {} /\ live'[r] = {a} /\ Open' = Open
        /\ during'[r] = Witness(NoMoment, {a}, active, Open)
    BY <1>0, <1>4, <2>1 DEF BeginSelect, Refresh, Admit, Enter, TypeOK, rowVars, Open
  <2>3. /\ during'[r].active = {a} /\ {a} \cap Open \subseteq during'[r].open
        /\ a \in Open => during'[r].good = {a}
    BY <2>2 DEF Witness, NoMoment
  <2>4. \/ pc'[r] = "selecting" /\ kind'[r] = "select"
        \/ pc'[r] = "granted" /\ kind'[r] = "refresh"
        \/ pc'[r] = "admitted" /\ a \in Open
    BY <2>1 DEF Enter, TypeOK
  <2>5. QED
    BY <2>2, <2>3, <2>4 DEF Clearing, Throttling
<1>5. CASE Leave(r)
  BY <1>5 DEF Leave, Goto, TypeOK, Clearing, Throttling
<1>6. CASE CheckTenant(r)
  BY <1>0, <1>6 DEF CheckTenant, TypeOK, rowVars, Open, Clearing, Throttling
<1>7. CASE Decide(r)
  BY <1>0, <1>7 DEF Decide, TypeOK, Goto, Clearing, Throttling
<1>8. ASSUME NEW step \in Throttling, Goto(r, step), pc[r] \in Throttling,
             UNCHANGED <<todo, live>>
      PROVE  Fine
  BY <1>0, <1>8 DEF Goto, Throttling, Clearing, TypeOK
<1>9. CASE \/ RecordFailedAttempt(r) \/ SetExpiry(r) \/ SetNoExpiry(r)
           \/ IsInCooldown(r) \/ DeleteCooldown(r) \/ SetCooldown(r)
  BY <1>5, <1>8, <1>9
     DEF RecordFailedAttempt, SetExpiry, SetNoExpiry, IsInCooldown, DeleteCooldown,
         SetCooldown, Throttling
<1>10. CASE ClearFailures(r) \/ ClearCooldown(r) \/ ClearNothing(r)
  BY <1>0, <1>10 DEF ClearFailures, ClearCooldown, ClearNothing, Goto, TypeOK, Clearing,
                     Throttling
<1>11. CASE FinishSelect(r)
  BY <1>0, <1>5, <1>11 DEF FinishSelect, Goto, TypeOK, Clearing, Throttling, Open
<1>12. CASE Wake(r) \/ Answer(r) \/ Crash(r)
  BY <1>5, <1>12 DEF Wake, Answer, Crash
<1>13. CASE Administer
  BY <1>0, <1>13 DEF Administer, Witness, TypeOK, Clearing, Throttling
<1>14. CASE FailuresExpire \/ CooldownEnds \/ UNCHANGED vars
  BY <1>1, <1>14 DEF FailuresExpire, CooldownEnds, vars
<1>15. QED
  BY <1>2, <1>3, <1>4, <1>6, <1>7, <1>9, <1>10, <1>11, <1>12, <1>13, <1>14
     DEF Next, Handle

\* No login overlaps a quiet one.
LEMMA QuietStep == TypeOK /\ KindsFit /\ QuietInv /\ [Next]_vars => QuietInv'
<1> SUFFICES ASSUME TypeOK, KindsFit, QuietInv, [Next]_vars, NEW r \in quiet'
             PROVE  /\ pc'[r] \in {"forgetting", "granted"} /\ kind'[r] = "login"
                    /\ \A s \in Requests \ {r} : kind'[s] # "login"
                    /\ failures' = Absent
                    /\ pc'[r] = "granted" => cooldown' = "none"
  BY DEF QuietInv
<1> DEFINE Calm == /\ pc'[r] \in {"forgetting", "granted"} /\ kind'[r] = "login"
                   /\ \A s \in Requests \ {r} : kind'[s] # "login"
                   /\ failures' = Absent
                   /\ pc'[r] = "granted" => cooldown' = "none"
<1> SUFFICES Calm
  OBVIOUS
<1>0. r \in quiet =>
          /\ r \in Requests
          /\ pc[r] \in {"forgetting", "granted"} /\ kind[r] = "login"
          /\ \A s \in Requests \ {r} :
                 /\ kind[s] # "login"
                 /\ pc[s] \notin Throttling \cup Clearing \cup {"checking"}
          /\ failures = Absent
          /\ pc[r] = "granted" => cooldown = "none"
  BY DEF QuietInv, KindsFit, TypeOK
<1>1. CASE UNCHANGED <<quiet, pc, kind, failures, cooldown>>
  BY <1>0, <1>1
<1>2. ASSUME NEW s \in Requests, BeginLogin(s) PROVE FALSE
  BY <1>2 DEF BeginLogin
<1>3. ASSUME NEW s \in Requests, BeginSelect(s) \/ Refresh(s) \/ Admit(s) PROVE Calm
  <2>1. /\ UNCHANGED redisVars /\ pc[s] = "idle"
        /\ \A q \in Requests \ {s} : pc'[q] = pc[q] /\ kind'[q] = kind[q]
        /\ kind'[s] # "login"
    BY <1>3 DEF BeginSelect, Refresh, Admit, Enter, TypeOK
  <2>2. QED
    BY <1>0, <2>1 DEF redisVars
<1>4. ASSUME NEW s \in Requests, Leave(s), UNCHANGED failures,
             cooldown' = cooldown \/ pc[s] \in Throttling
      PROVE  Calm
  <2>1. /\ quiet' = quiet \ {s} /\ kind'[s] = "none"
        /\ \A q \in Requests \ {s} : pc'[q] = pc[q] /\ kind'[q] = kind[q]
    BY <1>4 DEF Leave, Goto, TypeOK
  <2>2. QED
    BY <1>0, <1>4, <2>1
\* Steps of the throttle and of another login's decision are not taken now.
<1>5. ASSUME NEW s \in Requests, pc[s] \in Throttling \cup {"checking"},
             quiet' = quiet \/ Leave(s)
      PROVE  FALSE
  <2>1. r \in quiet /\ s # r
    BY <1>0, <1>5 DEF Leave, Throttling
  <2>2. QED
    BY <1>0, <1>5, <2>1
<1>6. ASSUME NEW s \in Requests, \/ CheckTenant(s) \/ Decide(s) \/ RecordFailedAttempt(s)
                                \/ SetExpiry(s) \/ SetNoExpiry(s) \/ IsInCooldown(s)
                                \/ DeleteCooldown(s) \/ SetCooldown(s)
      PROVE  FALSE
  BY <1>5, <1>6 DEF CheckTenant, Decide, RecordFailedAttempt, SetExpiry, SetNoExpiry,
                    IsInCooldown, DeleteCooldown, SetCooldown, Throttling, redisVars
<1>7. ASSUME NEW s \in Requests, ClearFailures(s) PROVE Calm
  <2>1. CASE r = s
    <3>1. \A q \in Requests \ {s} : kind[q] # "login"
      BY <1>0, <1>7, <2>1 DEF ClearFailures
    <3>2. QED
      BY <1>7, <2>1, <3>1 DEF ClearFailures, Goto, TypeOK, KindsFit, Clearing
  <2>2. CASE r # s
    BY <1>0, <1>7, <2>2 DEF ClearFailures, Clearing
  <2>3. QED
    BY <2>1, <2>2
<1>8. ASSUME NEW s \in Requests, ClearCooldown(s) \/ ClearNothing(s) PROVE Calm
  BY <1>0, <1>8 DEF ClearCooldown, ClearNothing, Goto, TypeOK, Clearing
<1>9. ASSUME NEW s \in Requests, FinishSelect(s) PROVE Calm
  <2>1. CASE Leave(s)
    BY <1>4, <1>9, <2>1 DEF FinishSelect
  <2>2. CASE ~Leave(s)
    BY <1>0, <1>9, <2>2 DEF FinishSelect, Goto, TypeOK
  <2>3. QED
    BY <2>1, <2>2
<1>10. ASSUME NEW s \in Requests, Wake(s) \/ Answer(s) \/ Crash(s) PROVE Calm
  BY <1>4, <1>10 DEF Wake, Answer, Crash
<1>11. CASE FailuresExpire \/ CooldownEnds
  BY <1>0, <1>11 DEF FailuresExpire, CooldownEnds
<1>12. QED
  BY <1>1, <1>2, <1>3, <1>6, <1>7, <1>8, <1>9, <1>10, <1>11
     DEF Next, Handle, Administer, redisVars, vars

\* The whole invariant holds throughout.
LEMMA LoginInvariant == Spec => []LoginInv
<1>1. LoginInv /\ [Next]_vars => LoginInv'
  BY TypeStep, KindsStep, WitnessStep, QuietStep, LeakStep DEF LoginInv
<1>2. QED
  BY LoginInit, <1>1, PTL DEF Spec

\* Every reachable state is well typed.
THEOREM LoginTypeCorrect == Spec => []TypeOK
BY LoginInvariant, PTL DEF LoginInv

\* Nobody is let in by login, select_tenant, refresh_token or get_current_user who
\* had not a right to it within that request.
THEOREM GrantsWereEarned == Spec => []GrantsAreEarned
BY LoginInvariant, PTL DEF LoginInv

\* The failure counter stays without expiry only where an attempt was cut off
\* between the two commands.
THEOREM LeaksHaveCauses == Spec => []LeakHasCause
BY LoginInvariant, PTL DEF LoginInv

\* A successful login that no other overlapped leaves nothing of the throttle.
THEOREM SuccessHasForgotten == Spec => []SuccessForgets
<1>1. LoginInv => SuccessForgets
  BY DEF LoginInv, QuietInv, SuccessForgets
<1>2. QED
  BY LoginInvariant, <1>1, PTL
=============================================================================
