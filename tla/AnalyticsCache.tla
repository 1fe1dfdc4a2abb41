---------------------------- MODULE AnalyticsCache ----------------------------
(***************************************************************************)
(* The analytics reports of one tenant, cached in Redis: get_invoice_summary *)
(* and get_revenue_by_status (app/api/v1/endpoints/analytics.py) over       *)
(* app/core/cache.py, while the handlers of invoices and the hourly sweep   *)
(* commit and then call invalidate_tenant_cache.                            *)
(*                                                                         *)
(* The invoices are a version, the number of commits so far.  A report is   *)
(* computed by up to eight statements, each of which sees what is committed *)
(* when it runs: it holds every commit up to its first statement (from) and *)
(* perhaps later ones.  A hit returns the entry and changes nothing; a      *)
(* Redis error, or a process without a client, reads as a miss, stores      *)
(* nothing and invalidates nothing.                                         *)
(***************************************************************************)
EXTENDS Naturals

CONSTANTS Writers,     \* handler calls and sweeps that change invoices
          Threads,     \* threads that serve reports, one after another
          Keys,        \* the tenant's report keys: report and currency
          NoReport     \* the key is not in Redis

Report == [from : Nat, till : Nat]

ASSUME NoReportIsNone == NoReport \notin Report

VARIABLES
    version,     \* commits of invoices so far
    cache,       \* per key the entry in Redis; till: the version when it was put
    step,        \* per writer: idle, committed, scanning, done
    wrote,       \* per writer: the version its commit made
    todo,        \* per writer: the keys its SCAN has yet to return
    lost,        \* history: commits whose invalidation was not completed
    computing,   \* per thread: the key it computes, or NoReport
    from         \* per thread: the version at its first statement

writing == <<step, wrote, todo, lost>>
reading == <<computing, from>>
cacheVars == <<version, cache, writing, reading>>

-----------------------------------------------------------------------------

(***************************************************************************)
(* Slips a maintainer could make, each named after the definition it would  *)
(* replace; they are no part of CacheNext.                                  *)
(***************************************************************************)

\* The invalidation stops before the last key.
FinishEarly(w) ==
    /\ step[w] = "scanning"
    /\ step' = [step EXCEPT ![w] = "done"]
    /\ UNCHANGED <<version, cache, wrote, todo, lost, reading>>

\* A failed invalidation rolls the commit back.
AbandonUndoing(w) ==
    /\ step[w] \in {"committed", "scanning"}
    /\ step' = [step EXCEPT ![w] = "done"]
    /\ version' = version - 1
    /\ UNCHANGED <<cache, wrote, todo, lost, reading>>

\* What a hit returns is put again, as a renewal of its time to live.
BeginFromCache(r, k) ==
    /\ computing[r] = NoReport
    /\ computing' = [computing EXCEPT ![r] = k]
    /\ from' = [from EXCEPT ![r] = IF cache[k] = NoReport THEN version
                                                         ELSE cache[k].from]
    /\ UNCHANGED <<version, cache, writing>>

-----------------------------------------------------------------------------

CacheInit ==
    /\ version = 0
    /\ cache = [k \in Keys |-> NoReport]
    /\ step = [w \in Writers |-> "idle"]
    /\ wrote = [w \in Writers |-> 0]
    /\ todo = [w \in Writers |-> {}]
    /\ lost = {}
    /\ computing = [r \in Threads |-> NoReport]
    /\ from = [r \in Threads |-> 0]

\* A handler, or the sweep, commits its change of the invoices.
Commit(w) ==
    /\ step[w] = "idle"
    /\ version' = version + 1
    /\ wrote' = [wrote EXCEPT ![w] = version + 1]
    /\ step' = [step EXCEPT ![w] = "committed"]
    /\ UNCHANGED <<cache, todo, lost, reading>>

\* invalidate_tenant_cache: SCAN returns every key that is there all along.
Scan(w) ==
    /\ step[w] = "committed"
    /\ todo' = [todo EXCEPT ![w] = {k \in Keys : cache[k] # NoReport}]
    /\ step' = [step EXCEPT ![w] = "scanning"]
    /\ UNCHANGED <<version, cache, wrote, lost, reading>>

\* A key that SCAN returned is deleted; it may be one that was put meanwhile.
Delete(w, k) ==
    /\ step[w] = "scanning"
    /\ cache' = [cache EXCEPT ![k] = NoReport]
    /\ todo' = [todo EXCEPT ![w] = @ \ {k}]
    /\ UNCHANGED <<version, step, wrote, lost, reading>>

Finish(w) ==
    /\ step[w] = "scanning"
    /\ todo[w] = {}
    /\ step' = [step EXCEPT ![w] = "done"]
    /\ UNCHANGED <<version, cache, wrote, todo, lost, reading>>

\* The worker dies, has no client, or Redis fails, which is logged only.
Abandon(w) ==
    /\ step[w] \in {"committed", "scanning"}
    /\ lost' = lost \cup {wrote[w]}
    /\ step' = [step EXCEPT ![w] = "done"]
    /\ UNCHANGED <<version, cache, wrote, todo, reading>>

\* A report is not found in the cache and its first statement runs.
Begin(r, k) ==
    /\ computing[r] = NoReport
    /\ computing' = [computing EXCEPT ![r] = k]
    /\ from' = [from EXCEPT ![r] = version]
    /\ UNCHANGED <<version, cache, writing>>

\* set_cache puts the report, whatever was invalidated since.
Store(r) ==
    /\ computing[r] # NoReport
    /\ cache' = [cache EXCEPT ![computing[r]] = [from |-> from[r], till |-> version]]
    /\ computing' = [computing EXCEPT ![r] = NoReport]
    /\ UNCHANGED <<version, writing, from>>

\* Or it is returned and not cached, or its worker dies.
Discard(r) ==
    /\ computing[r] # NoReport
    /\ computing' = [computing EXCEPT ![r] = NoReport]
    /\ UNCHANGED <<version, cache, writing, from>>

\* The 300 seconds of an entry are over.
Expire(k) ==
    /\ cache[k] # NoReport
    /\ cache' = [cache EXCEPT ![k] = NoReport]
    /\ UNCHANGED <<version, writing, reading>>

Invalidate(w) == Scan(w) \/ (\E k \in todo[w] : Delete(w, k)) \/ Finish(w) \/ Abandon(w)

CacheNext ==
    \/ \E w \in Writers : \/ Commit(w) \/ Scan(w) \/ Finish(w) \/ Abandon(w)
                          \/ \E k \in Keys : Delete(w, k)
    \/ \E r \in Threads : \/ Store(r) \/ Discard(r)
                          \/ \E k \in Keys : Begin(r, k)
    \/ \E k \in Keys : Expire(k)

CacheSpec == CacheInit /\ [][CacheNext]_cacheVars

\* Threads run what they began to its end, and Redis expires its keys.  That
\* anybody asks for a report again is not assumed.
FairSpec == /\ CacheSpec
            /\ \A w \in Writers : WF_cacheVars(Invalidate(w))
            /\ \A r \in Threads : WF_cacheVars(Store(r) \/ Discard(r))
            /\ \A k \in Keys : WF_cacheVars(Expire(k))

-----------------------------------------------------------------------------

CacheTypeOK ==
    /\ version \in Nat
    /\ cache \in [Keys -> Report \cup {NoReport}]
    /\ step \in [Writers -> {"idle", "committed", "scanning", "done"}]
    /\ wrote \in [Writers -> 0..version]
    /\ todo \in [Writers -> SUBSET Keys]
    /\ lost \subseteq 0..version
    /\ computing \in [Threads -> Keys \cup {NoReport}]
    /\ from \in [Threads -> 0..version]

\* Commit v has yet to take the entry of key k away.
Pending(k, v) ==
    \E w \in Writers : /\ wrote[w] = v
                       /\ \/ step[w] = "committed"
                          \/ step[w] = "scanning" /\ k \in todo[w]

\* A cached report that misses commits was computed while one of them happened,
\* or each of the commits it misses is of a handler that has yet to delete it or
\* never completed its invalidation: no other interleaving leaves a stale figure.
StaleHasACause ==
    \A k \in Keys :
        LET e == cache[k]
        IN e # NoReport /\ e.from = e.till =>
               \A v \in (e.from + 1)..version : Pending(k, v) \/ v \in lost

\* Once invoices stop changing, what the cache holds becomes and stays current,
\* whatever was lost, torn or put late, however often reports are asked for.
StaleFades ==
    <>[](\A k \in Keys : cache[k] # NoReport => cache[k].from = version)
=============================================================================
