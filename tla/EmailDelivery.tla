---------------------------- MODULE EmailDelivery ----------------------------
(***************************************************************************)
(* The four e-mail tasks of app/tasks/email_tasks.py on the Celery worker.  *)
(* They share one body: make the e-mail, give it to the provider, and on    *)
(* anything but acceptance ask Celery to run the task again, three times at *)
(* most, as messages of their own with request.retries one higher.          *)
(*                                                                         *)
(* self.retry publishes that message and then RAISES Retry.  The tasks call *)
(* it inside a try whose "except Exception" catches Retry as well and calls *)
(* self.retry once more, so an attempt the provider refuses publishes two   *)
(* messages; an attempt that raised by itself publishes one.                *)
(*                                                                         *)
(* Messages are acknowledged before the task runs (Celery's default), so an *)
(* attempt whose worker dies is gone.  Messages with the same retries count *)
(* are alike: waiting and running count them.                               *)
(***************************************************************************)
EXTENDS Naturals

CONSTANTS Tasks,          \* the e-mails that were put on the queue
          Concurrency     \* pool processes of the Celery worker

ASSUME ConcurrencyIsPositive == Concurrency \in Nat \ {0}

MaxRetries == 3
Levels == 0..MaxRetries       \* values of self.request.retries

VARIABLES
    waiting,     \* messages on the broker, per task and retries
    running,     \* attempts in execution, per task and retries
    free,        \* pool processes that execute nothing
    attempts,    \* history: attempts that were started
    confirmed,   \* history: attempts the provider accepted, as the task knows
    exhausted,   \* history: tasks one of whose attempts gave up after MaxRetries
    harmed       \* history: tasks that lost a message or had no provider

vars == <<waiting, running, free, attempts, confirmed, exhausted, harmed>>

-----------------------------------------------------------------------------

Put(f, t, n, k) == [f EXCEPT ![t][n] = @ + k]
Take(f, t, n) == [f EXCEPT ![t][n] = @ - 1]

Settled(t) == \A n \in Levels : waiting[t][n] = 0 /\ running[t][n] = 0

\* An attempt ends and its process is free, or replaced by a new one.
End(t, n) ==
    /\ running[t][n] > 0
    /\ running' = Take(running, t, n)
    /\ free' = free + 1

\* A slip that asks for the retry under the number of the attempt itself.
SameRetry(n) == n

\* The retries count self.retry gives to the next message.
NextRetry(n) == n + 1

-----------------------------------------------------------------------------

(***************************************************************************)
(* Slips a maintainer could make, each named after the definition it would  *)
(* replace; they are no part of Next.                                       *)
(***************************************************************************)

\* A message is delivered again after it was taken.
StartUnguarded(t, n) ==
    /\ free > 0
    /\ waiting' = Take(waiting, t, n)
    /\ running' = Put(running, t, n, 1)
    /\ free' = free - 1
    /\ attempts' = [attempts EXCEPT ![t] = @ + 1]
    /\ UNCHANGED <<confirmed, exhausted, harmed>>

\* Only first attempts are consumed: the retries sit in a queue nobody reads.
StartFirstOnly(t, n) ==
    /\ n = 0 /\ waiting[t][n] > 0 /\ free > 0
    /\ waiting' = Take(waiting, t, n)
    /\ running' = Put(running, t, n, 1)
    /\ free' = free - 1
    /\ attempts' = [attempts EXCEPT ![t] = @ + 1]
    /\ UNCHANGED <<confirmed, exhausted, harmed>>

\* The last retry after an exception is not asked for.
RaiseGivingUpEarly(t, n) ==
    /\ End(t, n)
    /\ waiting' = IF n < MaxRetries - 1 THEN Put(waiting, t, n + 1, 1) ELSE waiting
    /\ exhausted' = IF n = MaxRetries THEN exhausted \cup {t} ELSE exhausted
    /\ UNCHANGED <<attempts, confirmed, harmed>>

-----------------------------------------------------------------------------

\* Each task was published once, by .delay.
Init ==
    /\ waiting = [t \in Tasks |-> [n \in Levels |-> IF n = 0 THEN 1 ELSE 0]]
    /\ running = [t \in Tasks |-> [n \in Levels |-> 0]]
    /\ free = Concurrency
    /\ attempts = [t \in Tasks |-> 0]
    /\ confirmed = [t \in Tasks |-> 0]
    /\ exhausted = {}
    /\ harmed = {}

\* A pool process takes a message that is due, and with that acknowledges it.
Start(t, n) ==
    /\ waiting[t][n] > 0
    /\ free > 0
    /\ waiting' = Take(waiting, t, n)
    /\ running' = Put(running, t, n, 1)
    /\ free' = free - 1
    /\ attempts' = [attempts EXCEPT ![t] = @ + 1]
    /\ UNCHANGED <<confirmed, exhausted, harmed>>

\* send_email returned True.
Succeed(t, n) ==
    /\ End(t, n)
    /\ confirmed' = [confirmed EXCEPT ![t] = @ + 1]
    /\ UNCHANGED <<waiting, attempts, exhausted, harmed>>

\* send_email returned False: both calls of self.retry publish, unless the broker
\* fails one of them or both.  After MaxRetries the first raises the error, which
\* is logged and returned.
Refuse(t, n) ==
    /\ End(t, n)
    /\ IF n < MaxRetries
       THEN \E published \in 0..2 :
                /\ waiting' = Put(waiting, t, NextRetry(n), published)
                /\ harmed' = IF published = 0 THEN harmed \cup {t} ELSE harmed
                /\ UNCHANGED exhausted
       ELSE /\ exhausted' = exhausted \cup {t}
            /\ UNCHANGED <<waiting, harmed>>
    /\ UNCHANGED <<attempts, confirmed>>

\* Making the e-mail raised: only the handler's self.retry publishes.
Raise(t, n) ==
    /\ End(t, n)
    /\ IF n < MaxRetries
       THEN \E published \in 0..1 :
                /\ waiting' = Put(waiting, t, NextRetry(n), published)
                /\ harmed' = IF published = 0 THEN harmed \cup {t} ELSE harmed
                /\ UNCHANGED exhausted
       ELSE /\ exhausted' = exhausted \cup {t}
            /\ UNCHANGED <<waiting, harmed>>
    /\ UNCHANGED <<attempts, confirmed>>

\* The attempt ends for good: no provider is configured, which is an error that
\* is not retried, or the process dies.
Drop(t, n) ==
    /\ End(t, n)
    /\ harmed' = harmed \cup {t}
    /\ UNCHANGED <<waiting, attempts, confirmed, exhausted>>

Attempt(t, n) == Succeed(t, n) \/ Refuse(t, n) \/ Raise(t, n) \/ Drop(t, n)

Next == \E t \in Tasks, n \in Levels : Start(t, n) \/ Attempt(t, n)

Spec == Init /\ [][Next]_vars

\* The worker takes what is due and an attempt ends: the provider's client has a
\* timeout of 10 s, the task one of 30 min.
FairSpec == Spec /\ \A t \in Tasks, n \in Levels : /\ WF_vars(Start(t, n))
                                                   /\ WF_vars(Attempt(t, n))

-----------------------------------------------------------------------------

TypeOK ==
    /\ waiting \in [Tasks -> [Levels -> Nat]]
    /\ running \in [Tasks -> [Levels -> Nat]]
    /\ free \in Nat
    /\ attempts \in [Tasks -> Nat]
    /\ confirmed \in [Tasks -> Nat]
    /\ exhausted \subseteq Tasks
    /\ harmed \subseteq Tasks

\* "Max Retries: 3 attempts" (docs/features/EMAIL_VERIFICATION.md): after its
\* first attempt a task is tried three times more at most.
ThreeRetriesAtMost == \A t \in Tasks : attempts[t] <= 1 + MaxRetries

\* What the doubled retries come to: the attempts of a task are a binary tree
\* of four levels at most.
AttemptsBounded == \A t \in Tasks : attempts[t] <= 15

\* And the e-mails the provider confirms are at most the leaves of that tree.
ConfirmationsBounded == \A t \in Tasks : confirmed[t] <= 8

\* The worker does not give a task up early: one that ends with nothing sent,
\* though no message was lost and a provider was there, had an attempt fail
\* after its third retry.
GivesUpOnlyAfterRetries ==
    \A t \in Tasks : Settled(t) /\ confirmed[t] = 0 /\ t \notin harmed => t \in exhausted

\* Every task comes to an end: retries do not breed retries for ever.
EveryTaskSettles == \A t \in Tasks : <>[]Settled(t)
=============================================================================
