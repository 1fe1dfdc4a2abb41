------------------------- MODULE EmailDeliveryProofs -------------------------
(***************************************************************************)
(* The bounds of EmailDelivery hold for any number of tasks and any pool.   *)
(*                                                                         *)
(* The argument is one of credit.  A message with n retries behind it may   *)
(* grow into a tree of attempts with 15, 7, 3, 1 nodes (n = 0, 1, 2, 3) and *)
(* 8, 4, 2, 1 leaves; a running attempt has spent one node of its tree.     *)
(* What a task has done and what its messages may still become never        *)
(* exceeds the tree of its first message.                                   *)
(***************************************************************************)
EXTENDS EmailDelivery, TLAPS

AttemptCredit(t) ==
    /\ attempts[t] + 15 * waiting[t][0] + 7 * waiting[t][1] + 3 * waiting[t][2]
         + waiting[t][3] + 14 * running[t][0] + 6 * running[t][1]
         + 2 * running[t][2] <= 15

SendCredit(t) ==
    /\ confirmed[t] + 8 * (waiting[t][0] + running[t][0])
         + 4 * (waiting[t][1] + running[t][1]) + 2 * (waiting[t][2] + running[t][2])
         + waiting[t][3] + running[t][3] <= 8

DeliveryInv == /\ TypeOK
               /\ \A t \in Tasks : AttemptCredit(t) /\ SendCredit(t)
               /\ GivesUpOnlyAfterRetries

LEMMA LevelsAre == Levels = {0, 1, 2, 3}
  BY DEF Levels, MaxRetries

Counters == [Tasks -> [Levels -> Nat]]

\* What the counters are after Put and after Take.
LEMMA PutCounts ==
    ASSUME NEW f \in Counters, NEW t \in Tasks, NEW n \in Levels, NEW k \in Nat
    PROVE  /\ Put(f, t, n, k) \in Counters
           /\ \A u \in Tasks, m \in Levels :
                  Put(f, t, n, k)[u][m] =
                      IF u = t /\ m = n THEN f[u][m] + k ELSE f[u][m]
  BY DEF Put, Counters

LEMMA TakeCounts ==
    ASSUME NEW f \in Counters, NEW t \in Tasks, NEW n \in Levels, f[t][n] > 0
    PROVE  /\ Take(f, t, n) \in Counters
           /\ \A u \in Tasks, m \in Levels :
                  Take(f, t, n)[u][m] =
                      IF u = t /\ m = n THEN f[u][m] - 1 ELSE f[u][m]
  BY DEF Take, Counters

LEMMA DeliveryInit == Init => DeliveryInv
<1> SUFFICES ASSUME Init PROVE DeliveryInv
  OBVIOUS
<1>1. TypeOK
  BY ConcurrencyIsPositive DEF Init, TypeOK
<1>2. ASSUME NEW t \in Tasks PROVE AttemptCredit(t) /\ SendCredit(t)
  <2>1. /\ waiting[t][0] = 1 /\ waiting[t][1] = 0 /\ waiting[t][2] = 0
        /\ waiting[t][3] = 0 /\ attempts[t] = 0 /\ confirmed[t] = 0
    BY LevelsAre DEF Init
  <2>2. /\ running[t][0] = 0 /\ running[t][1] = 0 /\ running[t][2] = 0
        /\ running[t][3] = 0
    BY LevelsAre DEF Init
  <2>3. QED
    BY <2>1, <2>2 DEF AttemptCredit, SendCredit
<1>3. GivesUpOnlyAfterRetries
  BY LevelsAre DEF Init, GivesUpOnlyAfterRetries, Settled
<1>4. QED
  BY <1>1, <1>2, <1>3 DEF DeliveryInv

\* One attempt of t ends having published some messages for the next level:
\* none, one or two, and none after the last level.
LEMMA AttemptEnds ==
    ASSUME DeliveryInv, NEW t \in Tasks, NEW n \in Levels, NEW published \in 0..2,
           NEW sent \in 0..1,
           End(t, n),
           IF n < MaxRetries THEN waiting' = Put(waiting, t, n + 1, published)
                             ELSE waiting' = waiting,
           attempts' = attempts,
           confirmed' = [confirmed EXCEPT ![t] = @ + sent],
           sent = 1 => waiting' = waiting,
           exhausted \subseteq exhausted', exhausted' \subseteq Tasks,
           harmed \subseteq harmed', harmed' \subseteq Tasks,
           \/ sent = 1
           \/ n < MaxRetries /\ published > 0
           \/ t \in exhausted' \cup harmed'
    PROVE  DeliveryInv'
<1>0. /\ TypeOK /\ waiting \in Counters /\ running \in Counters
      /\ running[t][n] > 0
      /\ \A u \in Tasks : AttemptCredit(u) /\ SendCredit(u)
      /\ GivesUpOnlyAfterRetries
  BY DEF DeliveryInv, TypeOK, Counters, End
<1>1. n < 3 => n + 1 \in Levels
  BY DEF Levels, MaxRetries
<1>2. /\ running' \in Counters
      /\ \A u \in Tasks, m \in Levels :
             running'[u][m] = IF u = t /\ m = n THEN running[u][m] - 1
                                               ELSE running[u][m]
  <2>1. running' = Take(running, t, n)
    BY DEF End
  <2>2. QED
    BY ONLY <1>0, <2>1, TakeCounts, t \in Tasks, n \in Levels
<1>3. /\ waiting' \in Counters
      /\ \A u \in Tasks, m \in Levels :
             waiting'[u][m] = IF u = t /\ m = n + 1 /\ n < 3 /\ sent = 0
                              THEN waiting[u][m] + published ELSE waiting[u][m]
  <2>1. CASE n < 3 /\ sent = 0
    <3>1. waiting' = Put(waiting, t, n + 1, published) /\ published \in Nat
      BY <2>1 DEF MaxRetries
    <3>2. /\ Put(waiting, t, n + 1, published) \in Counters
          /\ \A u \in Tasks, m \in Levels :
                 Put(waiting, t, n + 1, published)[u][m] =
                     IF u = t /\ m = n + 1 THEN waiting[u][m] + published
                                           ELSE waiting[u][m]
      <4> DEFINE next == n + 1
      <4>1. next \in Levels
        BY <1>1, <2>1
      <4> HIDE DEF next
      <4>2. /\ Put(waiting, t, next, published) \in Counters
            /\ \A u \in Tasks, m \in Levels :
                   Put(waiting, t, next, published)[u][m] =
                       IF u = t /\ m = next THEN waiting[u][m] + published
                                            ELSE waiting[u][m]
        BY ONLY <1>0, <3>1, <4>1, PutCounts, t \in Tasks
      <4>3. QED
        BY <4>2 DEF next
    <3>3. QED
      BY ONLY <2>1, <3>1, <3>2
  <2>2. CASE ~(n < 3 /\ sent = 0)
    <3>1. waiting' = waiting
      BY <2>2 DEF MaxRetries
    <3>2. QED
      BY ONLY <1>0, <2>2, <3>1
  <2>3. QED
    BY ONLY <2>1, <2>2
<1>4. TypeOK'
  <2>1. free' \in Nat /\ attempts' \in [Tasks -> Nat] /\ confirmed' \in [Tasks -> Nat]
    BY <1>0 DEF TypeOK, End
  <2>2. QED
    BY <1>2, <1>3, <2>1 DEF TypeOK, Counters
<1>5. ASSUME NEW u \in Tasks PROVE AttemptCredit(u)' /\ SendCredit(u)'
  <2>1. /\ \A m \in Levels : waiting[u][m] \in Nat /\ running[u][m] \in Nat
        /\ attempts[u] \in Nat /\ confirmed[u] \in Nat
        /\ attempts'[u] = attempts[u]
        /\ confirmed'[u] = IF u = t THEN confirmed[u] + sent ELSE confirmed[u]
        /\ AttemptCredit(u) /\ SendCredit(u)
    BY <1>0 DEF TypeOK
  <2>2. CASE u # t
    BY ONLY <2>1, <2>2, <1>2, <1>3, <1>5, LevelsAre DEF AttemptCredit, SendCredit
  <2>3. CASE u = t
    <3>1. CASE n = 0
      <4> DEFINE more == IF sent = 0 THEN published ELSE 0
      <4>1. /\ waiting'[u][0] = waiting[u][0] /\ waiting'[u][1] = waiting[u][1] + more
            /\ waiting'[u][2] = waiting[u][2] /\ waiting'[u][3] = waiting[u][3]
            /\ running'[u][0] = running[u][0] - 1 /\ running'[u][1] = running[u][1]
            /\ running'[u][2] = running[u][2] /\ running'[u][3] = running[u][3]
        BY ONLY <3>1, <2>1, <2>3, <1>2, <1>3, <1>5, LevelsAre, published \in 0..2
      <4>2. more \in 0..2 /\ (sent = 1 => more = 0) /\ sent \in 0..1
        OBVIOUS
      <4> HIDE DEF more
      <4>3. QED
        BY ONLY <4>1, <4>2, <2>1, <2>3, LevelsAre DEF AttemptCredit, SendCredit
    <3>2. CASE n = 1
      BY ONLY <3>2, <2>1, <2>3, <1>0, <1>2, <1>3, <1>5, LevelsAre, published \in 0..2,
              sent \in 0..1
         DEF AttemptCredit, SendCredit
    <3>3. CASE n = 2
      BY ONLY <3>3, <2>1, <2>3, <1>0, <1>2, <1>3, <1>5, LevelsAre, published \in 0..2,
              sent \in 0..1
         DEF AttemptCredit, SendCredit
    <3>4. CASE n = 3
      BY ONLY <3>4, <2>1, <2>3, <1>0, <1>2, <1>3, <1>5, LevelsAre, published \in 0..2,
              sent \in 0..1
         DEF AttemptCredit, SendCredit
    <3>5. QED
      BY <3>1, <3>2, <3>3, <3>4, LevelsAre
  <2>4. QED
    BY <2>2, <2>3
<1>6. GivesUpOnlyAfterRetries'
  <2> SUFFICES ASSUME NEW u \in Tasks, Settled(u)', confirmed'[u] = 0,
                      u \notin harmed'
               PROVE  u \in exhausted'
    BY DEF GivesUpOnlyAfterRetries
  <2>1. CASE u # t
    <3>1. Settled(u)
      BY <2>1, <1>2, <1>3 DEF Settled
    <3>2. confirmed[u] = 0
      BY <2>1, <1>0 DEF TypeOK
    <3>3. QED
      BY <1>0, <3>1, <3>2 DEF GivesUpOnlyAfterRetries
  <2>2. CASE u = t
    <3>1. sent = 0
      BY <2>2, <1>0 DEF TypeOK
    <3>2. ASSUME n < 3, published > 0 PROVE FALSE
      <4>1. waiting'[t][n + 1] = waiting[t][n + 1] + published
        BY <3>1, <3>2, <1>1, <1>3
      <4>2. waiting[t][n + 1] \in Nat
        BY <3>2, <1>0, <1>1 DEF Counters
      <4>3. waiting'[t][n + 1] = 0
        BY <2>2, <3>2, <1>1 DEF Settled
      <4>4. QED
        BY <3>2, <4>1, <4>2, <4>3
    <3>3. QED
      BY <2>2, <3>1, <3>2 DEF MaxRetries
  <2>3. QED
    BY <2>1, <2>2
<1>7. QED
  BY <1>4, <1>5, <1>6 DEF DeliveryInv

\* A pool process takes a message of t: one node of its tree is spent.
LEMMA AttemptStarts ==
    ASSUME DeliveryInv, NEW t \in Tasks, NEW n \in Levels, Start(t, n)
    PROVE  DeliveryInv'
<1>0. /\ TypeOK /\ waiting \in Counters /\ running \in Counters
      /\ waiting[t][n] > 0 /\ free > 0
      /\ \A u \in Tasks : AttemptCredit(u) /\ SendCredit(u)
      /\ GivesUpOnlyAfterRetries
  BY DEF DeliveryInv, TypeOK, Counters, Start
<1>1. /\ waiting' \in Counters
      /\ \A u \in Tasks, m \in Levels :
             waiting'[u][m] = IF u = t /\ m = n THEN waiting[u][m] - 1
                                               ELSE waiting[u][m]
  <2>1. waiting' = Take(waiting, t, n)
    BY DEF Start
  <2>2. QED
    BY ONLY <1>0, <2>1, TakeCounts, t \in Tasks, n \in Levels
<1>2. /\ running' \in Counters
      /\ \A u \in Tasks, m \in Levels :
             running'[u][m] = IF u = t /\ m = n THEN running[u][m] + 1
                                               ELSE running[u][m]
  <2>1. running' = Put(running, t, n, 1) /\ 1 \in Nat
    BY DEF Start
  <2>2. QED
    BY ONLY <1>0, <2>1, PutCounts, t \in Tasks, n \in Levels
<1>3. TypeOK'
  <2>1. free' \in Nat /\ attempts' \in [Tasks -> Nat]
        /\ UNCHANGED <<confirmed, exhausted, harmed>>
    BY <1>0 DEF TypeOK, Start
  <2>2. QED
    BY <1>0, <1>1, <1>2, <2>1 DEF TypeOK, Counters
<1>4. ASSUME NEW u \in Tasks PROVE AttemptCredit(u)' /\ SendCredit(u)'
  <2>1. /\ \A m \in Levels : waiting[u][m] \in Nat /\ running[u][m] \in Nat
        /\ attempts[u] \in Nat /\ confirmed[u] \in Nat
        /\ attempts'[u] = IF u = t THEN attempts[u] + 1 ELSE attempts[u]
        /\ confirmed'[u] = confirmed[u]
        /\ AttemptCredit(u) /\ SendCredit(u)
    BY <1>0 DEF TypeOK, Start
  <2>2. CASE u # t
    BY ONLY <2>1, <2>2, <1>1, <1>2, <1>4, LevelsAre DEF AttemptCredit, SendCredit
  <2>3. CASE u = t
    <3>1. CASE n = 0
      BY ONLY <3>1, <2>1, <2>3, <1>1, <1>2, <1>4, LevelsAre
         DEF AttemptCredit, SendCredit
    <3>2. CASE n = 1
      BY ONLY <3>2, <2>1, <2>3, <1>1, <1>2, <1>4, LevelsAre
         DEF AttemptCredit, SendCredit
    <3>3. CASE n = 2
      BY ONLY <3>3, <2>1, <2>3, <1>1, <1>2, <1>4, LevelsAre
         DEF AttemptCredit, SendCredit
    <3>4. CASE n = 3
      BY ONLY <3>4, <2>1, <2>3, <1>1, <1>2, <1>4, LevelsAre
         DEF AttemptCredit, SendCredit
    <3>5. QED
      BY <3>1, <3>2, <3>3, <3>4, LevelsAre
  <2>4. QED
    BY <2>2, <2>3
<1>5. GivesUpOnlyAfterRetries'
  <2> SUFFICES ASSUME NEW u \in Tasks, Settled(u)', confirmed'[u] = 0,
                      u \notin harmed'
               PROVE  u \in exhausted'
    BY DEF GivesUpOnlyAfterRetries
  <2>1. u # t
    <3>1. running'[t][n] = running[t][n] + 1 /\ running[t][n] \in Nat
      BY <1>0, <1>2 DEF Counters
    <3>2. QED
      BY <3>1 DEF Settled
  <2>2. Settled(u)
    BY <2>1, <1>1, <1>2 DEF Settled
  <2>3. QED
    BY <1>0, <2>2 DEF Start, GivesUpOnlyAfterRetries
<1>6. QED
  BY <1>3, <1>4, <1>5 DEF DeliveryInv

LEMMA DeliveryStep == DeliveryInv /\ [Next]_vars => DeliveryInv'
<1> SUFFICES ASSUME DeliveryInv, [Next]_vars PROVE DeliveryInv'
  OBVIOUS
<1>0. TypeOK
  BY DEF DeliveryInv
<1>1. ASSUME NEW t \in Tasks, NEW n \in Levels, Succeed(t, n) PROVE DeliveryInv'
  <2>1. /\ End(t, n) /\ UNCHANGED <<waiting, attempts, exhausted, harmed>>
        /\ confirmed' = [confirmed EXCEPT ![t] = @ + 1]
    BY <1>1 DEF Succeed
  <2>2. n < MaxRetries => waiting' = Put(waiting, t, n + 1, 0)
    <3>1. n < MaxRetries => n + 1 \in Levels
      BY DEF Levels, MaxRetries
    <3>2. n < MaxRetries => Put(waiting, t, n + 1, 0) = waiting
      BY <1>0, <3>1 DEF Put, TypeOK
    <3>3. QED
      BY <2>1, <3>2
  <2>3. 0 \in 0..2 /\ 1 \in 0..1 /\ exhausted \subseteq Tasks /\ harmed \subseteq Tasks
    BY <1>0 DEF TypeOK
  <2>4. QED
    BY <2>1, <2>2, <2>3, AttemptEnds
<1>2. ASSUME NEW t \in Tasks, NEW n \in Levels, Refuse(t, n) \/ Raise(t, n)
      PROVE  DeliveryInv'
  <2>1. /\ End(t, n) /\ attempts' = attempts /\ confirmed' = confirmed
        /\ IF n < MaxRetries
           THEN \E published \in 0..2 :
                    /\ waiting' = Put(waiting, t, n + 1, published)
                    /\ harmed' = IF published = 0 THEN harmed \cup {t} ELSE harmed
                    /\ UNCHANGED exhausted
           ELSE exhausted' = exhausted \cup {t} /\ UNCHANGED <<waiting, harmed>>
    <3>1. CASE Refuse(t, n)
      BY <3>1 DEF Refuse, NextRetry
    <3>2. CASE Raise(t, n)
      <4>1. \A k \in 0..1 : k \in 0..2
        OBVIOUS
      <4>2. QED
        BY <3>2, <4>1 DEF Raise, NextRetry
    <3>3. QED
      BY <1>2, <3>1, <3>2
  <2>2. PICK published \in 0..2 :
            /\ IF n < MaxRetries THEN waiting' = Put(waiting, t, n + 1, published)
                                 ELSE waiting' = waiting
            /\ exhausted \subseteq exhausted' /\ exhausted' \subseteq Tasks
            /\ harmed \subseteq harmed' /\ harmed' \subseteq Tasks
            /\ (n < MaxRetries /\ published > 0) \/ t \in exhausted' \cup harmed'
    BY <2>1, <1>0 DEF TypeOK
  <2>3. PICK sent \in 0..1 :
            /\ confirmed' = [confirmed EXCEPT ![t] = @ + sent]
            /\ sent = 1 => waiting' = waiting
    <3>1. 0 \in 0..1 /\ confirmed' = [confirmed EXCEPT ![t] = @ + 0]
      BY <2>1, <1>0 DEF TypeOK
    <3>2. QED
      BY <3>1
  <2>4. QED
    BY <2>1, <2>2, <2>3, AttemptEnds
<1>3. ASSUME NEW t \in Tasks, NEW n \in Levels, Drop(t, n) PROVE DeliveryInv'
  <2>1. /\ End(t, n) /\ waiting' = waiting /\ attempts' = attempts
        /\ confirmed' = confirmed /\ exhausted' = exhausted
        /\ harmed' = harmed \cup {t}
    BY <1>3 DEF Drop
  <2>2. n < MaxRetries => waiting' = Put(waiting, t, n + 1, 0)
    <3>1. n < MaxRetries => n + 1 \in Levels
      BY DEF Levels, MaxRetries
    <3>2. n < MaxRetries => Put(waiting, t, n + 1, 0) = waiting
      BY <1>0, <3>1 DEF Put, TypeOK
    <3>3. QED
      BY <2>1, <3>2
  <2>3. PICK published \in 0..2 :
            /\ IF n < MaxRetries THEN waiting' = Put(waiting, t, n + 1, published)
                                 ELSE waiting' = waiting
            /\ exhausted \subseteq exhausted' /\ exhausted' \subseteq Tasks
            /\ harmed \subseteq harmed' /\ harmed' \subseteq Tasks
            /\ (n < MaxRetries /\ published > 0) \/ t \in exhausted' \cup harmed'
    <3>1. 0 \in 0..2
      OBVIOUS
    <3>2. QED
      BY <2>1, <2>2, <3>1, <1>0 DEF TypeOK
  <2>4. PICK sent \in 0..1 :
            /\ confirmed' = [confirmed EXCEPT ![t] = @ + sent]
            /\ sent = 1 => waiting' = waiting
    <3>1. 0 \in 0..1 /\ confirmed' = [confirmed EXCEPT ![t] = @ + 0]
      BY <2>1, <1>0 DEF TypeOK
    <3>2. QED
      BY <3>1
  <2>5. End(t, n) /\ attempts' = attempts
    BY <2>1
  <2>6. QED
    BY ONLY DeliveryInv, t \in Tasks, n \in Levels, <2>3, <2>4, <2>5, AttemptEnds
<1>4. CASE UNCHANGED vars
  BY <1>4 DEF vars, DeliveryInv, TypeOK, AttemptCredit, SendCredit,
              GivesUpOnlyAfterRetries, Settled
<1>5. QED
  BY <1>1, <1>2, <1>3, <1>4, AttemptStarts DEF Next, Attempt

LEMMA DeliveryInvariant == Spec => []DeliveryInv
  BY DeliveryInit, DeliveryStep, PTL DEF Spec

\* The type invariant, of the tasks' retries for any tasks and any pool.
THEOREM DeliveryTypeCorrect == Spec => []TypeOK
<1>1. DeliveryInv => TypeOK
  BY DEF DeliveryInv
<1>2. QED
  BY <1>1, DeliveryInvariant, PTL

\* A task is attempted 15 times at most, though both its handlers ask for retries.
THEOREM AttemptsAlwaysBounded == Spec => []AttemptsBounded
<1>1. DeliveryInv => AttemptsBounded
  <2> SUFFICES ASSUME DeliveryInv, NEW t \in Tasks
               PROVE  attempts[t] <= 15
    BY DEF AttemptsBounded
  <2>1. /\ \A m \in Levels : waiting[t][m] \in Nat /\ running[t][m] \in Nat
        /\ attempts[t] \in Nat /\ AttemptCredit(t)
    BY DEF DeliveryInv, TypeOK
  <2>2. QED
    BY ONLY <2>1, LevelsAre DEF AttemptCredit
<1>2. QED
  BY <1>1, DeliveryInvariant, PTL

\* The provider confirms 8 e-mails of a task at most.
THEOREM ConfirmationsAlwaysBounded == Spec => []ConfirmationsBounded
<1>1. DeliveryInv => ConfirmationsBounded
  <2> SUFFICES ASSUME DeliveryInv, NEW t \in Tasks
               PROVE  confirmed[t] <= 8
    BY DEF ConfirmationsBounded
  <2>1. /\ \A m \in Levels : waiting[t][m] \in Nat /\ running[t][m] \in Nat
        /\ confirmed[t] \in Nat /\ SendCredit(t)
    BY DEF DeliveryInv, TypeOK
  <2>2. QED
    BY ONLY <2>1, LevelsAre DEF SendCredit
<1>2. QED
  BY <1>1, DeliveryInvariant, PTL

\* A task that lost no message and had a provider gives up after its last retry
\* only.
THEOREM NeverGivesUpEarly == Spec => []GivesUpOnlyAfterRetries
<1>1. DeliveryInv => GivesUpOnlyAfterRetries
  BY DEF DeliveryInv
<1>2. QED
  BY <1>1, DeliveryInvariant, PTL
-----------------------------------------------------------------------------

(***************************************************************************)
(* Retries do not breed retries for ever.  The steps a message may still    *)
(* cause are those of its tree: 30, 14, 6, 2 by its retries, one less once  *)
(* its attempt runs.  That a worker goes on is fairness and left to TLC;    *)
(* that nothing else keeps a task from its end is proved here.              *)
(***************************************************************************)

Weight(w, r) == 30 * w[0] + 14 * w[1] + 6 * w[2] + 2 * w[3]
                  + 29 * r[0] + 13 * r[1] + 5 * r[2] + r[3]
Work(t) == Weight(waiting[t], running[t])

LEMMA WeightCounts ==
    ASSUME NEW w, NEW r, \A n \in Levels : w[n] \in Nat /\ r[n] \in Nat
    PROVE  /\ Weight(w, r) \in Nat
           /\ Weight(w, r) = 0 <=> \A n \in Levels : w[n] = 0 /\ r[n] = 0
<1>1. /\ w[0] \in Nat /\ w[1] \in Nat /\ w[2] \in Nat /\ w[3] \in Nat
      /\ r[0] \in Nat /\ r[1] \in Nat /\ r[2] \in Nat /\ r[3] \in Nat
  BY LevelsAre
<1>2. Weight(w, r) \in Nat
  BY ONLY <1>1 DEF Weight
<1>3. Weight(w, r) = 0 <=> /\ w[0] = 0 /\ w[1] = 0 /\ w[2] = 0 /\ w[3] = 0
                           /\ r[0] = 0 /\ r[1] = 0 /\ r[2] = 0 /\ r[3] = 0
  <2>1. ASSUME NEW a \in Nat, NEW b \in Nat, NEW c \in Nat, NEW d \in Nat,
               NEW e \in Nat, NEW f \in Nat, NEW g \in Nat, NEW h \in Nat
        PROVE  30 * a + 14 * b + 6 * c + 2 * d + 29 * e + 13 * f + 5 * g + h = 0
                   <=> /\ a = 0 /\ b = 0 /\ c = 0 /\ d = 0
                       /\ e = 0 /\ f = 0 /\ g = 0 /\ h = 0
    BY ONLY <2>1
  <2> DEFINE a == w[0]
             b == w[1]
             c == w[2]
             d == w[3]
             e == r[0]
             f == r[1]
             g == r[2]
             h == r[3]
  <2>2. Weight(w, r) = 30 * a + 14 * b + 6 * c + 2 * d + 29 * e + 13 * f + 5 * g + h
    BY DEF Weight
  <2>3. /\ a \in Nat /\ b \in Nat /\ c \in Nat /\ d \in Nat
        /\ e \in Nat /\ f \in Nat /\ g \in Nat /\ h \in Nat
    BY <1>1
  <2>4. Weight(w, r) = 0 <=> /\ a = 0 /\ b = 0 /\ c = 0 /\ d = 0
                             /\ e = 0 /\ f = 0 /\ g = 0 /\ h = 0
    <3> HIDE DEF a, b, c, d, e, f, g, h
    <3>1. QED
      BY ONLY <2>1, <2>2, <2>3
  <2>5. QED
    BY <2>4
<1>4. QED
  BY <1>2, <1>3, LevelsAre

\* What a step does to the weight of its task: with begun = 1 it takes a message
\* of n retries, with begun = 0 it ends such an attempt and puts more messages.
LEMMA WeightFalls ==
    ASSUME NEW w, NEW r, \A n \in Levels : w[n] \in Nat /\ r[n] \in Nat,
           NEW v, NEW q, NEW n \in Levels, NEW more \in 0..2, NEW begun \in {0, 1},
           begun = 1 => more = 0, n = 3 => more = 0,
           \A m \in Levels :
               /\ v[m] = IF m = n /\ begun = 1 THEN w[m] - 1
                         ELSE IF m = n + 1 /\ more > 0 THEN w[m] + more ELSE w[m]
               /\ q[m] = IF m = n THEN IF begun = 1 THEN r[m] + 1 ELSE r[m] - 1
                                  ELSE r[m]
    PROVE  Weight(v, q) < Weight(w, r)
<1>1. /\ w[0] \in Nat /\ w[1] \in Nat /\ w[2] \in Nat /\ w[3] \in Nat
      /\ r[0] \in Nat /\ r[1] \in Nat /\ r[2] \in Nat /\ r[3] \in Nat
  BY LevelsAre
<1>2. CASE n = 0
  <2>1. /\ v[0] = w[0] - begun /\ v[1] = w[1] + more /\ v[2] = w[2] /\ v[3] = w[3]
        /\ q[0] = r[0] + (2 * begun - 1) /\ q[1] = r[1]
        /\ q[2] = r[2] /\ q[3] = r[3]
    BY <1>1, <1>2, LevelsAre
  <2>2. more \in 0..2 /\ begun \in 0..1 /\ (begun = 1 => more = 0)
    OBVIOUS
  <2>3. Weight(v, q) = Weight(w, r) + 14 * more - begun - 29 * (1 - begun)
    BY ONLY <1>1, <2>1, <2>2 DEF Weight
  <2>4. Weight(w, r) \in Nat
    BY ONLY <1>1 DEF Weight
  <2>5. QED
    BY ONLY <2>2, <2>3, <2>4
<1>3. CASE n = 1
  <2>1. /\ v[0] = w[0] /\ v[1] = w[1] - begun /\ v[2] = w[2] + more /\ v[3] = w[3]
        /\ q[0] = r[0] /\ q[1] = r[1] + (2 * begun - 1)
        /\ q[2] = r[2] /\ q[3] = r[3]
    BY <1>1, <1>3, LevelsAre
  <2>2. more \in 0..2 /\ begun \in 0..1 /\ (begun = 1 => more = 0)
    OBVIOUS
  <2>3. QED
    BY ONLY <1>1, <2>1, <2>2 DEF Weight
<1>4. CASE n = 2
  <2>1. /\ v[0] = w[0] /\ v[1] = w[1] /\ v[2] = w[2] - begun /\ v[3] = w[3] + more
        /\ q[0] = r[0] /\ q[1] = r[1]
        /\ q[2] = r[2] + (2 * begun - 1) /\ q[3] = r[3]
    BY <1>1, <1>4, LevelsAre
  <2>2. more \in 0..2 /\ begun \in 0..1 /\ (begun = 1 => more = 0)
    OBVIOUS
  <2>3. QED
    BY ONLY <1>1, <2>1, <2>2 DEF Weight
<1>5. CASE n = 3
  <2>1. /\ v[0] = w[0] /\ v[1] = w[1] /\ v[2] = w[2] /\ v[3] = w[3] - begun
        /\ q[0] = r[0] /\ q[1] = r[1]
        /\ q[2] = r[2] /\ q[3] = r[3] + (2 * begun - 1) /\ more = 0
    BY <1>1, <1>5, LevelsAre
  <2>2. more \in 0..2 /\ begun \in 0..1 /\ (begun = 1 => more = 0)
    OBVIOUS
  <2>3. QED
    BY ONLY <1>1, <2>1, <2>2 DEF Weight
<1>6. QED
  BY <1>2, <1>3, <1>4, <1>5, LevelsAre

\* A step of the worker uses up work of its task and touches no other.
StepOf(t) == \E n \in Levels : Start(t, n) \/ Attempt(t, n)
RunsDown == \A t \in Tasks : StepOf(t) => /\ Work(t)' < Work(t)
                                          /\ \A u \in Tasks \ {t} : Work(u)' = Work(u)

\* The counters after a step, as far as the work of the tasks depends on them.
LEMMA StepCounts ==
    ASSUME TypeOK, NEW t \in Tasks, NEW n \in Levels, Start(t, n) \/ Attempt(t, n)
    PROVE  \E more \in 0..2, begun \in {0, 1} :
               /\ begun = 1 => more = 0
               /\ n = 3 => more = 0
               /\ \A u \in Tasks, m \in Levels :
                      /\ waiting'[u][m] =
                             IF u = t /\ m = n /\ begun = 1 THEN waiting[u][m] - 1
                             ELSE IF u = t /\ m = n + 1 /\ more > 0
                                  THEN waiting[u][m] + more ELSE waiting[u][m]
                      /\ running'[u][m] =
                             IF u = t /\ m = n
                             THEN IF begun = 1 THEN running[u][m] + 1
                                               ELSE running[u][m] - 1
                             ELSE running[u][m]
<1>0. waiting \in Counters /\ running \in Counters /\ 0 \in 0..2 /\ 1 \in Nat
  BY DEF TypeOK, Counters
<1>1. CASE Start(t, n)
  <2>1. /\ waiting' = Take(waiting, t, n) /\ waiting[t][n] > 0
        /\ running' = Put(running, t, n, 1)
    BY <1>1 DEF Start
  <2>2. \A u \in Tasks, m \in Levels :
            /\ waiting'[u][m] = IF u = t /\ m = n THEN waiting[u][m] - 1
                                                  ELSE waiting[u][m]
            /\ running'[u][m] = IF u = t /\ m = n THEN running[u][m] + 1
                                                  ELSE running[u][m]
    BY <1>0, <2>1, PutCounts, TakeCounts
  <2>3. QED
    BY <1>0, <2>2
<1>2. CASE Attempt(t, n)
  <2>1. running' = Take(running, t, n) /\ running[t][n] > 0
    BY <1>2 DEF Attempt, Succeed, Refuse, Raise, Drop, End
  <2>2. \A u \in Tasks, m \in Levels :
            running'[u][m] = IF u = t /\ m = n THEN running[u][m] - 1
                                               ELSE running[u][m]
    BY <1>0, <2>1, TakeCounts
  <2>3. \/ waiting' = waiting
        \/ /\ n < MaxRetries
           /\ \E more \in 0..2 : waiting' = Put(waiting, t, n + 1, more)
    <3>1. \A k \in 0..1 : k \in 0..2
      OBVIOUS
    <3>2. QED
      BY <1>2, <3>1 DEF Attempt, Succeed, Refuse, Raise, Drop, NextRetry
  <2>4. CASE waiting' = waiting
    BY <1>0, <2>2, <2>4
  <2>5. ASSUME n < MaxRetries, NEW more \in 0..2, waiting' = Put(waiting, t, n + 1, more)
        PROVE  \A u \in Tasks, m \in Levels :
                   waiting'[u][m] = IF u = t /\ m = n + 1 THEN waiting[u][m] + more
                                                          ELSE waiting[u][m]
    <3> DEFINE next == n + 1
    <3>1. next \in Levels /\ more \in Nat
      BY <2>5 DEF Levels, MaxRetries
    <3> HIDE DEF next
    <3>2. \A u \in Tasks, m \in Levels :
              Put(waiting, t, next, more)[u][m] =
                  IF u = t /\ m = next THEN waiting[u][m] + more ELSE waiting[u][m]
      BY ONLY <1>0, <3>1, PutCounts, t \in Tasks
    <3>3. \A u \in Tasks, m \in Levels :
              Put(waiting, t, n + 1, more)[u][m] =
                  IF u = t /\ m = n + 1 THEN waiting[u][m] + more ELSE waiting[u][m]
      BY <3>2 DEF next
    <3>4. QED
      BY ONLY <2>5, <3>3
  <2>6. ASSUME n < MaxRetries, NEW more \in 0..2, waiting' = Put(waiting, t, n + 1, more)
        PROVE  \A u \in Tasks, m \in Levels :
                   waiting'[u][m] = IF u = t /\ m = n + 1 /\ more > 0
                                    THEN waiting[u][m] + more ELSE waiting[u][m]
    BY <1>0, <2>5, <2>6 DEF Counters
  <2>7. n < MaxRetries => n # 3
    BY DEF MaxRetries, Levels
  <2>8. QED
    BY <2>2, <2>3, <2>4, <2>6, <2>7
<1>3. QED
  BY <1>1, <1>2

LEMMA StepRunsDown == TypeOK => RunsDown
<1> SUFFICES ASSUME TypeOK, NEW t \in Tasks, NEW n \in Levels, Start(t, n) \/ Attempt(t, n)
             PROVE  /\ Work(t)' < Work(t)
                    /\ \A u \in Tasks \ {t} : Work(u)' = Work(u)
  BY DEF RunsDown, StepOf
<1>1. PICK more \in 0..2, begun \in {0, 1} :
        /\ begun = 1 => more = 0
        /\ n = 3 => more = 0
        /\ \A u \in Tasks, m \in Levels :
               /\ waiting'[u][m] =
                      IF u = t /\ m = n /\ begun = 1 THEN waiting[u][m] - 1
                      ELSE IF u = t /\ m = n + 1 /\ more > 0
                           THEN waiting[u][m] + more ELSE waiting[u][m]
               /\ running'[u][m] =
                      IF u = t /\ m = n
                      THEN IF begun = 1 THEN running[u][m] + 1 ELSE running[u][m] - 1
                      ELSE running[u][m]
  BY StepCounts
<1>2. \A u \in Tasks, m \in Levels : waiting[u][m] \in Nat /\ running[u][m] \in Nat
  BY DEF TypeOK
<1>3. ASSUME NEW u \in Tasks \ {t} PROVE Work(u)' = Work(u)
  BY ONLY <1>1, <1>3, LevelsAre DEF Work, Weight
<1>4. Work(t)' < Work(t)
  <2> DEFINE w == waiting[t]
             r == running[t]
             v == waiting'[t]
             q == running'[t]
  <2>1. \A m \in Levels : w[m] \in Nat /\ r[m] \in Nat
    BY <1>2
  <2>2. \A m \in Levels :
            /\ v[m] = IF m = n /\ begun = 1 THEN w[m] - 1
                      ELSE IF m = n + 1 /\ more > 0 THEN w[m] + more ELSE w[m]
            /\ q[m] = IF m = n THEN IF begun = 1 THEN r[m] + 1 ELSE r[m] - 1
                               ELSE r[m]
    BY <1>1
  <2>3. Weight(v, q) < Weight(w, r)
    <3> HIDE DEF w, r, v, q
    <3>1. QED
      BY ONLY <1>1, <2>1, <2>2, WeightFalls, n \in Levels, more \in 0..2, begun \in {0, 1}
  <2>4. QED
    BY <2>3 DEF Work
<1>5. QED
  BY <1>3, <1>4

\* Every step of the worker brings its task nearer to its end, however attempts
\* overlap and whichever of them publish two retries.
THEOREM RetriesRunDown == Spec => [][RunsDown]_vars
<1>1. DeliveryInv /\ [Next]_vars => [RunsDown]_vars
  BY StepRunsDown DEF DeliveryInv
<1>2. QED
  BY <1>1, DeliveryInvariant, PTL DEF Spec

\* A task starts with 30 steps to make at most, and it is settled exactly when it
\* has none left: each one ends after 30 steps of its own, and is never taken up
\* again.
THEOREM ThirtyStepsAtMost ==
    Spec => [](\A t \in Tasks : Work(t) \in 0..30 /\ (Work(t) = 0 <=> Settled(t)))
<1> DEFINE Bounded == \A t \in Tasks : Work(t) <= 30
<1>1. TypeOK => \A t \in Tasks : Work(t) \in Nat /\ (Work(t) = 0 <=> Settled(t))
  <2> SUFFICES ASSUME TypeOK, NEW t \in Tasks
               PROVE  Work(t) \in Nat /\ (Work(t) = 0 <=> Settled(t))
    OBVIOUS
  <2>1. \A n \in Levels : waiting[t][n] \in Nat /\ running[t][n] \in Nat
    BY DEF TypeOK
  <2>2. QED
    BY <2>1, WeightCounts DEF Work, Settled
<1>2. Init => Bounded
  <2> SUFFICES ASSUME Init, NEW t \in Tasks PROVE Work(t) <= 30
    OBVIOUS
  <2>1. /\ waiting[t][0] = 1 /\ waiting[t][1] = 0 /\ waiting[t][2] = 0
        /\ waiting[t][3] = 0
    BY LevelsAre DEF Init
  <2>2. /\ running[t][0] = 0 /\ running[t][1] = 0 /\ running[t][2] = 0
        /\ running[t][3] = 0
    BY LevelsAre DEF Init
  <2>3. QED
    BY <2>1, <2>2 DEF Work, Weight
<1>3. TypeOK /\ TypeOK' /\ Bounded /\ [Next]_vars => Bounded'
  <2> SUFFICES ASSUME TypeOK, TypeOK', Bounded, [Next]_vars, NEW u \in Tasks
               PROVE  Work(u)' <= 30
    OBVIOUS
  <2>1. Work(u) \in Nat /\ Work(u)' \in Nat /\ Work(u) <= 30
    <3>1. \A n \in Levels : /\ waiting[u][n] \in Nat /\ running[u][n] \in Nat
                             /\ waiting'[u][n] \in Nat /\ running'[u][n] \in Nat
      BY DEF TypeOK
    <3>2. QED
      BY <3>1, WeightCounts DEF Work
  <2>2. CASE UNCHANGED vars
    BY <2>1, <2>2 DEF vars, Work
  <2>3. ASSUME NEW t \in Tasks, StepOf(t) PROVE Work(u)' <= Work(u)
    BY <2>1, <2>3, StepRunsDown DEF RunsDown
  <2>4. QED
    BY <2>1, <2>2, <2>3 DEF Next, StepOf
<1>4. TypeOK /\ Bounded =>
          \A t \in Tasks : Work(t) \in 0..30 /\ (Work(t) = 0 <=> Settled(t))
  <2> SUFFICES ASSUME TypeOK, Bounded, NEW t \in Tasks
               PROVE  Work(t) \in 0..30 /\ (Work(t) = 0 <=> Settled(t))
    OBVIOUS
  <2>1. Work(t) \in Nat /\ Work(t) <= 30 /\ (Work(t) = 0 <=> Settled(t))
    BY <1>1
  <2>2. QED
    BY ONLY <2>1
<1> HIDE DEF Bounded
<1>5. QED
  BY <1>2, <1>3, <1>4, DeliveryTypeCorrect, PTL DEF Spec
=============================================================================
