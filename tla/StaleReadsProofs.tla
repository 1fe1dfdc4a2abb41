--------------------------- MODULE StaleReadsProofs ---------------------------
(***************************************************************************)
(* What a client is given by reads that take longer than one statement:     *)
(* the audit log, written after the change it tells of and read page by     *)
(* page (AuditTrail), and the cached reports, computed while invoices       *)
(* change (AnalyticsCache).  For any number of handlers, clients, threads   *)
(* and keys, any limit of a page and any length of the log.                 *)
(***************************************************************************)
EXTENDS AuditTrail, AnalyticsCache, FunctionTheorems, FiniteSetTheorems, TLAPS

-----------------------------------------------------------------------------

(***************************************************************************)
(* The audit log.  Stamps are kept apart by the clock they are drawn from,  *)
(* and the clock by the room that was left when a handler began.            *)
(***************************************************************************)

\* Handlers that will draw a stamp if they get that far.
Waiting == {s \in Requests : pc[s] \in {"loaded", "changed", "reread"}}

Stamps ==
    /\ clock + Cardinality(Waiting) <= MaxEntries
    /\ \A r \in Requests :
        /\ pc[r] \in {"loaded", "changed"} => job[r] \in Changes
        /\ pc[r] = "stamped" =>
             /\ stamp[r] \in 1 .. clock
             /\ \A s \in Requests : pc[s] = "stamped" /\ stamp[s] = stamp[r] => s = r

TrailInv == TypeOK /\ Stamps

\* A change takes a thing from one of its values to another.
LEMMA ChangeShape ==
    ASSUME NEW c \in Changes
    PROVE  /\ c.thing \in Things /\ c.told \in Values /\ c.to \in Values
           /\ c.from \in Values \ {"none"}
           /\ c.thing = "invoice" => c.to \in Statuses
<1>1. CASE c \in InvoiceChanges
  BY <1>1 DEF InvoiceChanges, Change, Things, Values, Statuses
<1>2. CASE c \in TenantUpdates
  BY <1>2 DEF TenantUpdates, Change, Things, Values, Flags
<1>3. CASE c \in Suspensions \cup Reactivations \cup Deletions
  BY <1>3 DEF Suspensions, Reactivations, Deletions, Change, Things, Values, Flags
<1>4. QED
  BY <1>1, <1>2, <1>3 DEF Changes

\* Entries that are told apart by their stamps are at most as many as stamps.
LEMMA FewStamps ==
    ASSUME NEW S, NEW n \in Nat, \A e \in S : e.stamp \in 1 .. n,
           \A e, g \in S : e.stamp = g.stamp => e = g
    PROVE  IsFiniteSet(S) /\ Cardinality(S) \in Nat /\ Cardinality(S) <= n
<1> DEFINE f == [e \in S |-> e.stamp]
<1>1. f \in Injection(S, 1 .. n)
  BY Zenon DEF Injection, IsInjective
<1>2. IsFiniteSet(1 .. n) /\ Cardinality(1 .. n) = n
  BY FS_Interval
<1>3. QED
  BY <1>1, <1>2, FS_Injection, FS_CardinalityType

LEMMA FewEntries ==
    ASSUME TypeOK, NEW S \in SUBSET trail
    PROVE  IsFiniteSet(S) /\ Cardinality(S) \in Nat /\ Cardinality(S) <= clock
<1>1. clock \in Nat
  BY PagesHaveEntries DEF TypeOK
<1>2. \A e \in S : e \in trail /\ e.stamp \in 1 .. clock
  BY DEF TypeOK
<1>3. \A e, g \in S : e.stamp = g.stamp => e = g
  BY <1>2 DEF TypeOK
<1>4. QED
  BY <1>1, <1>2, <1>3, FewStamps

\* Who waits for a stamp is one of finitely many.
LEMMA WaitingIsFinite == IsFiniteSet(Waiting) /\ Cardinality(Waiting) \in Nat
  BY SlotsAreFinite, FS_Subset, FS_CardinalityType DEF Waiting

LEMMA TrailInit == Init => TrailInv
<1> SUFFICES ASSUME Init PROVE TrailInv
  OBVIOUS
<1>1. TypeOK
  BY PagesHaveEntries DEF Init, TypeOK, First, Things, Values, Statuses, Flags
<1>2. Waiting = {}
  BY DEF Init, Waiting
<1>3. Stamps
  BY <1>2, PagesHaveEntries, FS_EmptySet DEF Init, Stamps
<1>4. QED
  BY <1>1, <1>3 DEF TrailInv

\* A handler begins only where there is room for one more entry.
LEMMA RoomLeft ==
    ASSUME TrailInv, NEW r \in Requests, Room, clock' = clock,
           Waiting' = Waiting \cup {r}
    PROVE  clock' + Cardinality(Waiting)' <= MaxEntries
<1>1. Cardinality(Waiting') <= Cardinality(Waiting) + 1
  BY WaitingIsFinite, FS_AddElement
<1>2. clock \in Nat /\ clock + Cardinality(Waiting) < MaxEntries
  BY PagesHaveEntries DEF Room, Waiting, TrailInv, TypeOK
<1>3. IsFiniteSet(Waiting') /\ Cardinality(Waiting') \in Nat
  BY WaitingIsFinite, FS_AddElement, FS_CardinalityType
<1>4. QED
  BY <1>1, <1>2, <1>3, WaitingIsFinite, PagesHaveEntries

\* An entry that is made uses up the room of its handler, and one that leaves
\* gives it back.
LEMMA LessWaiting ==
    ASSUME TrailInv, NEW r \in Requests, Waiting' = Waiting \ {r},
           clock' = clock \/ (r \in Waiting /\ clock' = clock + 1)
    PROVE  clock' + Cardinality(Waiting)' <= MaxEntries
<1>1. Cardinality(Waiting') = IF r \in Waiting THEN Cardinality(Waiting) - 1
                                               ELSE Cardinality(Waiting)
  BY WaitingIsFinite, FS_RemoveElement
<1>2. clock \in Nat /\ clock + Cardinality(Waiting) <= MaxEntries
  BY PagesHaveEntries DEF TrailInv, TypeOK, Stamps
<1>4. QED
  BY <1>1, <1>2, WaitingIsFinite, PagesHaveEntries

\* What a request does until it has made its entry.
LEMMA WorkKeepsTypes ==
    ASSUME TrailInv, NEW r \in Requests,
           Load(r) \/ FailLogin(r) \/ CommitChange(r) \/ Reread(r) \/ Stamp(r)
    PROVE  TrailInv'
<1>0. TypeOK /\ Stamps /\ clock \in Nat
  BY PagesHaveEntries DEF TrailInv, TypeOK
<1>1. CASE Load(r) \/ FailLogin(r)
  <2>1. /\ pc[r] = "idle" /\ Room
        /\ job' \in [Requests -> Changes \cup {FailedLogin}]
        /\ \/ job'[r] \in Changes /\ pc' = [pc EXCEPT ![r] = "loaded"]
           \/ pc' = [pc EXCEPT ![r] = "reread"]
        /\ \A s \in Requests \ {r} : job'[s] = job[s]
        /\ clash' \subseteq Requests
        /\ UNCHANGED <<seen, stamp, readerVars, tableVars>>
    BY <1>0, <1>1, AskedAreChanges DEF Load, FailLogin, Goto, TypeOK
  <2>2. TypeOK'
    BY <1>0, <2>1 DEF TypeOK, readerVars, tableVars
  <2>3. Waiting' = Waiting \cup {r}
    BY <1>0, <2>1 DEF Waiting, TypeOK
  <2>4. clock' + Cardinality(Waiting)' <= MaxEntries
    BY <2>1, <2>3, RoomLeft DEF tableVars
  <2>5. Stamps'
    BY <1>0, <2>1, <2>4 DEF Stamps, TypeOK, tableVars
  <2>6. QED
    BY <2>2, <2>5 DEF TrailInv
<1>2. CASE CommitChange(r)
  <2>1. /\ pc[r] = "loaded" /\ pc' = [pc EXCEPT ![r] = "changed"]
        /\ job[r] \in Changes
        /\ value' = [value EXCEPT ![job[r].thing] = job[r].to]
        /\ clash' \subseteq Requests
        /\ UNCHANGED <<job, seen, stamp, readerVars, trail, clock, gap, since>>
    BY <1>0, <1>2 DEF CommitChange, Goto, TypeOK, Stamps
  <2>2. /\ job[r].thing \in Things /\ job[r].to \in Values
        /\ job[r].thing = "invoice" => job[r].to \in Statuses
    BY <2>1, ChangeShape
  <2>3. value' \in [Things -> Values] /\ value'.invoice \in Statuses
    BY <1>0, <2>1, <2>2 DEF TypeOK, Things
  <2>4. TypeOK'
    BY <1>0, <2>1, <2>3 DEF TypeOK, readerVars
  <2>5. Waiting' = Waiting
    BY <1>0, <2>1 DEF Waiting, TypeOK
  <2>6. Stamps'
    BY <1>0, <2>1, <2>5 DEF Stamps, TypeOK
  <2>7. QED
    BY <2>4, <2>6 DEF TrailInv
<1>3. CASE Reread(r)
  <2>1. /\ pc[r] = "changed" /\ pc' = [pc EXCEPT ![r] = "reread"]
        /\ job[r] \in Changes
        /\ seen' = [seen EXCEPT ![r] = IF job[r].thing = "invoice" THEN value.invoice ELSE @]
        /\ UNCHANGED <<job, stamp, clash, readerVars, tableVars>>
    BY <1>0, <1>3 DEF Reread, Goto, Stamps
  <2>2. value.invoice \in Values /\ seen[r] \in Values
    BY <1>0 DEF TypeOK, Things
  <2>3. TypeOK'
    BY <1>0, <2>1, <2>2 DEF TypeOK, readerVars, tableVars
  <2>4. Waiting' = Waiting
    BY <1>0, <2>1 DEF Waiting, TypeOK
  <2>5. Stamps'
    BY <1>0, <2>1, <2>4 DEF Stamps, TypeOK, tableVars
  <2>6. QED
    BY <2>3, <2>5 DEF TrailInv
<1>4. CASE Stamp(r)
  <2>1. /\ pc[r] = "reread" /\ pc' = [pc EXCEPT ![r] = "stamped"]
        /\ clock' = clock + 1 /\ stamp' = [stamp EXCEPT ![r] = clock + 1]
        /\ UNCHANGED <<job, seen, clash, readerVars, value, trail, gap, since>>
    BY <1>4 DEF Stamp, Goto
  <2>2. Waiting' = Waiting \ {r} /\ r \in Waiting
    BY <1>0, <2>1 DEF Waiting, TypeOK
  <2>3. clock' + Cardinality(Waiting)' <= MaxEntries
    BY <2>1, <2>2, LessWaiting
  <2>4. clock' \in 0 .. MaxEntries /\ 0 .. clock \subseteq 0 .. clock'
        /\ 1 .. clock \subseteq 1 .. clock' /\ clock' \notin 0 .. clock
    <3>1. Cardinality(Waiting') \in Nat
      BY <2>2, WaitingIsFinite, FS_RemoveElement, FS_CardinalityType
    <3>2. QED
      BY <1>0, <2>1, <2>3, <3>1, PagesHaveEntries
  <2>5. /\ stamp' \in [Requests -> 0 .. clock'] /\ since' \in [Things -> 0 .. clock']
        /\ owed' \in [Readers -> SUBSET (1 .. clock')]
    BY <1>0, <2>1, <2>4 DEF TypeOK, readerVars
  <2>6. trail' \subseteq [thing : Things \cup {"login"}, before : Values,
                          after : Values, stamp : 1 .. clock']
    BY <1>0, <2>1, <2>4 DEF TypeOK
  <2>7. \A e \in trail' :
            /\ \A f \in trail' : e.stamp = f.stamp => e = f
            /\ \A s \in Requests : pc'[s] = "stamped" => e.stamp # stamp'[s]
    BY <1>0, <2>1, <2>4 DEF TypeOK
  <2>8. TypeOK'
    BY <1>0, <2>1, <2>4, <2>5, <2>6, <2>7 DEF TypeOK, readerVars
  <2>9. Stamps'
    BY <1>0, <2>1, <2>3, <2>4 DEF Stamps, TypeOK
  <2>10. QED
    BY <2>8, <2>9 DEF TrailInv
<1>5. QED
  BY <1>1, <1>2, <1>3, <1>4

\* What ends a request, with or without its entry.
LEMMA EndKeepsTypes ==
    ASSUME TrailInv, NEW r \in Requests, CommitEntry(r) \/ EntryFails(r) \/ Crash(r)
    PROVE  TrailInv'
<1>0. TypeOK /\ Stamps /\ clock \in Nat
  BY PagesHaveEntries DEF TrailInv, TypeOK
<1>1. /\ Leave(r) /\ UNCHANGED <<value, clock, readerVars>>
      /\ \/ trail' = trail /\ since' = since
         \/ /\ pc[r] = "stamped" /\ trail' = trail \cup {Entry(r)}
            /\ since' \in [Things -> 0 .. clock]
      /\ gap' \in [Things -> BOOLEAN]
  <2>1. CASE CommitEntry(r)
    <3>1. stamp[r] \in 0 .. clock
      BY <1>0 DEF TypeOK
    <3>2. since' \in [Things -> 0 .. clock]
      BY <1>0, <2>1, <3>1 DEF CommitEntry, TypeOK
    <3>3. ASSUME NEW t \in Things
          PROVE  (IF t = job[r].thing THEN ~Proper(r) ELSE gap[t]) \in BOOLEAN
      <4>1. gap[t] \in BOOLEAN /\ (~Proper(r)) \in BOOLEAN
        BY <1>0 DEF TypeOK
      <4>2. QED
        BY <4>1, Zenon
    <3>4. gap' \in [Things -> BOOLEAN]
      BY <2>1, <3>3 DEF CommitEntry
    <3>5. QED
      BY <2>1, <3>2, <3>4 DEF CommitEntry
  <2>2. CASE EntryFails(r) \/ Crash(r)
    BY <1>0, <2>2 DEF EntryFails, Crash, TypeOK
  <2>3. QED
    BY <2>1, <2>2
<1>2. /\ pc' = [pc EXCEPT ![r] = "idle"] /\ job' = [job EXCEPT ![r] = FailedLogin]
      /\ seen' = [seen EXCEPT ![r] = "none"] /\ stamp' = [stamp EXCEPT ![r] = 0]
      /\ clash' = clash \ {r}
  BY <1>1 DEF Leave, Goto
<1>3. pc[r] = "stamped" =>
          /\ Entry(r) \in [thing : Things \cup {"login"}, before : Values,
                           after : Values, stamp : 1 .. clock]
          /\ Entry(r).stamp = stamp[r]
          /\ \A e \in trail : e.stamp # stamp[r]
          /\ \A s \in Requests \ {r} : pc[s] = "stamped" => stamp[s] # stamp[r]
  <2> SUFFICES ASSUME pc[r] = "stamped" PROVE <1>3!2
    OBVIOUS
  <2>1. job[r].thing \in Things \cup {"login"} /\ job[r].told \in Values /\ job[r].to \in Values
    <3>1. job[r] \in Changes \cup {FailedLogin}
      BY <1>0 DEF TypeOK
    <3>2. QED
      BY <3>1, ChangeShape DEF FailedLogin, Change, Values
  <2>2. seen[r] \in Values /\ stamp[r] \in 1 .. clock
    BY <1>0 DEF TypeOK, Stamps
  <2>3. QED
    BY <1>0, <2>1, <2>2 DEF Entry, After, TypeOK, Stamps, Values
<1>4. trail' \subseteq [thing : Things \cup {"login"}, before : Values,
                        after : Values, stamp : 1 .. clock]
  BY <1>0, <1>1, <1>3 DEF TypeOK
<1>5. \A e \in trail' :
          /\ \A f \in trail' : e.stamp = f.stamp => e = f
          /\ \A s \in Requests : pc'[s] = "stamped" => e.stamp # stamp'[s]
  BY <1>0, <1>1, <1>2, <1>3 DEF TypeOK
<1>6. TypeOK'
  BY <1>0, <1>1, <1>2, <1>4, <1>5 DEF TypeOK, readerVars, Values
<1>7. Waiting' = Waiting \ {r}
  BY <1>0, <1>2 DEF Waiting, TypeOK
<1>8. clock' + Cardinality(Waiting)' <= MaxEntries
  <2>1. clock' = clock
    BY <1>1
  <2>2. QED
    BY <1>7, <2>1, LessWaiting
<1>9. Stamps'
  BY <1>0, <1>1, <1>2, <1>8 DEF Stamps, TypeOK
<1>10. QED
  BY <1>6, <1>9 DEF TrailInv

LEMMA SilenceKeepsTypes == TrailInv /\ ChangeSilently => TrailInv'
<1> SUFFICES ASSUME TrailInv, ChangeSilently PROVE TrailInv'
  OBVIOUS
<1>0. TypeOK /\ Stamps
  BY DEF TrailInv
<1>1. /\ value' \in [Things -> Values] /\ value'.invoice \in Statuses
      /\ gap' \in [Things -> BOOLEAN] /\ clash' \subseteq Requests
      /\ UNCHANGED <<pc, job, seen, stamp, readerVars, trail, clock, since>>
  <2>1. SilentChanges \subseteq Changes /\ \A c \in SilentChanges : c.thing = "invoice"
    BY DEF SilentChanges, Changes, InvoiceChanges, Change
  <2>2. \A c \in SilentChanges : c.thing = "invoice" /\ c.to \in Values /\ c.to \in Statuses
    BY <2>1, ChangeShape
  <2>3. QED
    BY <1>0, <2>2 DEF ChangeSilently, Things, TypeOK
<1>2. TypeOK'
  BY <1>0, <1>1 DEF TypeOK, readerVars
<1>3. Waiting' = Waiting
  BY <1>1 DEF Waiting
<1>4. Stamps'
  BY <1>0, <1>1, <1>3 DEF Stamps
<1>5. QED
  BY <1>2, <1>4 DEF TrailInv

\* A client's queries change nothing but its own place in the list.
LEMMA ReadKeepsTypes ==
    ASSUME TrailInv, NEW w \in Readers, Read(w)
    PROVE  TrailInv'
<1>0. TypeOK /\ Stamps /\ clock \in Nat /\ clock <= MaxEntries
  BY PagesHaveEntries DEF TrailInv, TypeOK
<1>1. \A v \in {"platform", "resource"} :
          /\ Cardinality(Listed(v)) \in 0 .. MaxEntries
          /\ {e.stamp : e \in Listed(v)} \in SUBSET (1 .. clock)
  <2> SUFFICES ASSUME NEW v \in {"platform", "resource"} PROVE <1>1!(v)
    OBVIOUS
  <2>1. Listed(v) \in SUBSET trail
    BY DEF Listed
  <2>2. \A e \in trail : e.stamp \in 1 .. clock
    BY <1>0 DEF TypeOK
  <2>3. QED
    BY <1>0, <2>1, <2>2, FewEntries, PagesHaveEntries
<1>2. /\ at' \in [Readers -> {"off", "counted", "reading", "done"}]
      /\ view' \in [Readers -> {"platform", "resource"}]
      /\ skip' \in [Readers -> 0 .. MaxEntries] /\ total' \in [Readers -> 0 .. MaxEntries]
      /\ owed' \in [Readers -> SUBSET (1 .. clock)]
      /\ late' \subseteq Readers
  <2>1. CASE ListPlatform(w) \/ ListResource(w)
    <3>1. PICK v \in {"platform", "resource"} : CountFirst(w, v)
      BY <2>1 DEF ListPlatform, ListResource
    <3>2. QED
      BY <1>0, <1>1, <3>1, PagesHaveEntries DEF CountFirst, TypeOK
  <2>2. CASE CountNext(w)
    <3>1. Cardinality(Listed(view[w])) \in 0 .. MaxEntries
      BY <1>0, <1>1 DEF TypeOK
    <3>2. QED
      BY <1>0, <2>2, <3>1 DEF CountNext, TypeOK
  <2>3. CASE FetchPage(w)
    <3>1. /\ skip[w] \in Nat /\ skip[w] <= MaxEntries /\ Limit \in Nat
          /\ total[w] \in Nat /\ total[w] <= MaxEntries /\ MaxEntries \in Nat
      BY <1>0, PagesHaveEntries DEF TypeOK
    <3>2. HasNext(skip[w], total[w]) => skip[w] + Limit \in 0 .. MaxEntries
      BY <3>1 DEF HasNext
    <3>3. owed' \in [Readers -> SUBSET (1 .. clock)]
      BY <1>0, <2>3 DEF FetchPage, TypeOK
    <3>4. total' \in [Readers -> 0 .. MaxEntries] /\ late' \subseteq Readers
      BY <1>0, <2>3, <3>1 DEF FetchPage, TypeOK
    <3>5. skip' \in [Readers -> 0 .. MaxEntries]
      BY <1>0, <2>3, <3>1, <3>2 DEF FetchPage, TypeOK
    <3>6. /\ at' \in [Readers -> {"off", "counted", "reading", "done"}]
          /\ view' \in [Readers -> {"platform", "resource"}]
      BY <1>0, <2>3 DEF FetchPage, TypeOK
    <3>7. QED
      BY <3>3, <3>4, <3>5, <3>6
  <2>4. CASE Close(w)
    BY <1>0, <2>4 DEF Close, TypeOK
  <2>5. QED
    BY <2>1, <2>2, <2>3, <2>4 DEF Read
<1>3. UNCHANGED <<requestVars, tableVars>>
  BY DEF Read, ListPlatform, ListResource, CountFirst, CountNext, FetchPage, Close
<1>4. TypeOK'
  BY <1>0, <1>2, <1>3 DEF TypeOK, requestVars, tableVars
<1>5. Waiting' = Waiting
  BY <1>3 DEF Waiting, requestVars
<1>6. Stamps'
  BY <1>0, <1>3, <1>5 DEF Stamps, requestVars, tableVars
<1>7. QED
  BY <1>4, <1>6 DEF TrailInv

LEMMA TrailStep == TrailInv /\ [Next]_vars => TrailInv'
<1> SUFFICES ASSUME TrailInv, [Next]_vars PROVE TrailInv'
  OBVIOUS
<1>1. CASE \E r \in Requests : Handle(r)
  BY <1>1, WorkKeepsTypes, EndKeepsTypes DEF Handle
<1>2. CASE \E w \in Readers : Read(w)
  BY <1>2, ReadKeepsTypes
<1>3. CASE ChangeSilently
  BY <1>3, SilenceKeepsTypes
<1>4. CASE UNCHANGED vars
  <2>1. Waiting' = Waiting
    BY <1>4 DEF Waiting, vars, requestVars
  <2>2. QED
    BY <1>4, <2>1 DEF TrailInv, TypeOK, Stamps, vars, requestVars, readerVars, tableVars
<1>5. QED
  BY <1>1, <1>2, <1>3, <1>4 DEF Next

\* The type invariant of the log, its writers and its readers: among others, the
\* entries of a log are never more than the handlers that were let begin, and no
\* two have one stamp.
THEOREM TrailTypeCorrect == Spec => []TypeOK
<1>1. TrailInv => TypeOK
  BY DEF TrailInv
<1>2. QED
  BY <1>1, TrailInit, TrailStep, PTL DEF Spec

-----------------------------------------------------------------------------

(***************************************************************************)
(* What the log tells.  A request that has not clashed is the only one with *)
(* an unlogged change of its thing, and began where the story stands.       *)
(***************************************************************************)

Quiet(t) == \A r \in Requests : About(r, t) => ~Unlogged(r)
LastValue(t) == IF Story(t) = {} THEN First[t] ELSE LastOf(Story(t)).after
Chained(t) == \A e \in Story(t) :
    IF Older(e) # {} THEN e.before = LastOf(Older(e)).after
                     ELSE since[t] = 0 => e.before = First[t]

\* A request by itself that has yet to commit, and one that has committed.
Ahead(r, t) == pc[r] = "loaded" => Quiet(t) /\ value[t] = job[r].from
Behind(r, t) == Unlogged(r) =>
    /\ \A q \in Requests : About(q, t) /\ Unlogged(q) => q = r
    /\ value[t] = job[r].to
    /\ pc[r] # "changed" /\ t = "invoice" => seen[r] = value[t]
    /\ pc[r] = "stamped" => \A e \in trail : e.thing = t => e.stamp < stamp[r]
    /\ ~gap[t] => job[r].from = LastValue(t)

Undisturbed(t) == \A r \in Requests :
    About(r, t) /\ r \notin clash => Ahead(r, t) /\ Behind(r, t)
Told(t) == ~gap[t] => Chained(t) /\ (Quiet(t) => value[t] = LastValue(t))

\* What ended the last gap of a thing is an entry about it.
Anchored(t) == since[t] = 0 \/ \E e \in trail : e.thing = t /\ e.stamp = since[t]

History == \A t \in Things : Undisturbed(t) /\ Told(t) /\ Anchored(t)

LEMMA HistoryInit == Init => History
<1> SUFFICES ASSUME Init, NEW t \in Things
             PROVE  Undisturbed(t) /\ Told(t) /\ Anchored(t)
  BY DEF History
<1>1. Undisturbed(t)
  BY DEF Init, Undisturbed, About
<1>2. Story(t) = {} /\ value = First
  BY DEF Init, Story
<1>3. Told(t)
  BY <1>2 DEF Told, Chained, LastValue
<1>4. Anchored(t)
  BY DEF Init, Anchored
<1>5. QED
  BY <1>1, <1>3, <1>4

\* What is told of a thing depends on the entries since its last gap only.
LEMMA SameStory ==
    ASSUME NEW t \in Things, Story(t)' = Story(t), since'[t] = since[t]
    PROVE  LastValue(t)' = LastValue(t) /\ (Chained(t)' <=> Chained(t))
<1>1. \A e \in Story(t) : e.thing = t
  BY DEF Story
<1>2. \A e \in Story(t) : Older(e)' = Older(e)
  BY <1>1 DEF Older
<1>3. QED
  BY <1>2 DEF LastValue, Chained

\* A step that concerns neither a thing nor a request about it.
LEMMA Unconcerned ==
    ASSUME NEW t \in Things, Undisturbed(t), Told(t),
           {e \in trail : e.thing = t}' = {e \in trail : e.thing = t},
           value'[t] = value[t], gap'[t] = gap[t], since'[t] = since[t],
           \A q \in Requests :
               /\ About(q, t)' <=> About(q, t)
               /\ About(q, t) =>
                     /\ pc'[q] = pc[q] /\ job'[q] = job[q] /\ seen'[q] = seen[q]
                     /\ stamp'[q] = stamp[q] /\ (q \in clash' <=> q \in clash)
    PROVE  Undisturbed(t)' /\ Told(t)'
<1>1. Story(t)' = Story(t)
  BY DEF Story
<1>2. LastValue(t)' = LastValue(t) /\ (Chained(t)' <=> Chained(t))
  BY <1>1, SameStory
<1>3. Quiet(t)' <=> Quiet(t)
  BY DEF Quiet, Unlogged
<1>4. Told(t)'
  BY <1>2, <1>3 DEF Told
<1>5. ASSUME NEW r \in Requests, About(r, t)', r \notin clash'
      PROVE  Ahead(r, t)' /\ Behind(r, t)'
  <2>1. About(r, t) /\ Ahead(r, t) /\ Behind(r, t)
    BY <1>5 DEF Undisturbed
  <2>2. Ahead(r, t)'
    BY <1>3, <2>1 DEF Ahead
  <2>3. Behind(r, t)'
    BY <1>2, <2>1 DEF Behind, Unlogged
  <2>4. QED
    BY <2>2, <2>3
<1>6. QED
  BY <1>4, <1>5 DEF Undisturbed

\* Reading and admitting a change, and a failed login.
LEMMA BeginKeepsHistory ==
    ASSUME TrailInv, History, NEW r \in Requests, Load(r) \/ FailLogin(r),
           NEW t \in Things
    PROVE  Undisturbed(t)' /\ Told(t)'
<1>0. TypeOK /\ Undisturbed(t) /\ Told(t)
  BY DEF TrailInv, History
<1>1. /\ pc[r] = "idle" /\ pc'[r] # "idle"
      /\ \A q \in Requests \ {r} : pc'[q] = pc[q] /\ job'[q] = job[q]
                                   /\ (q \in clash' <=> q \in clash)
      /\ UNCHANGED <<value, trail, gap, since, seen, stamp>>
  BY <1>0 DEF Load, FailLogin, Goto, TypeOK, tableVars
<1>2. CASE job'[r].thing # t
  <2>1. \A q \in Requests :
            /\ About(q, t)' <=> About(q, t)
            /\ About(q, t) => /\ pc'[q] = pc[q] /\ job'[q] = job[q]
                              /\ (q \in clash' <=> q \in clash)
    BY <1>1, <1>2 DEF About
  <2>2. QED
    BY <1>0, <1>1, <2>1, Unconcerned
<1>3. CASE job'[r].thing = t
  <2>1. PICK c \in Changes : /\ value[t] = c.from /\ job'[r] = c /\ pc'[r] = "loaded"
                             /\ c.thing = t
                             /\ (\E s \in Requests : About(s, t) /\ Unlogged(s))
                                    => r \in clash'
    <3>1. Load(r)
      <4>1. FailedLogin.thing \notin Things
        BY DEF FailedLogin, Change, Things
      <4>2. FailLogin(r) => job'[r] = FailedLogin
        BY <1>0 DEF FailLogin, TypeOK
      <4>3. QED
        BY <1>3, <4>1, <4>2
    <3>2. QED
      BY <1>0, <1>3, <3>1, AskedAreChanges DEF Load, Goto, TypeOK
  <2>2. Quiet(t)' <=> Quiet(t)
    BY <1>1, <2>1 DEF Quiet, About, Unlogged
  <2>3. LastValue(t)' = LastValue(t) /\ (Chained(t)' <=> Chained(t))
    BY <1>1, SameStory DEF Story
  <2>4. Told(t)'
    BY <1>0, <1>1, <2>2, <2>3 DEF Told
  <2>5. ASSUME NEW q \in Requests, About(q, t)', q \notin clash'
        PROVE  Ahead(q, t)' /\ Behind(q, t)'
    <3>1. CASE q = r
      <4>1. Quiet(t)
        BY <2>1, <2>5, <3>1 DEF Quiet
      <4>2. QED
        BY <1>1, <2>1, <2>2, <3>1, <4>1 DEF Ahead, Behind, Unlogged
    <3>2. CASE q # r
      <4>1. Ahead(q, t) /\ Behind(q, t)
        BY <1>0, <1>1, <2>5, <3>2 DEF Undisturbed, About
      <4>2. Ahead(q, t)'
        BY <1>1, <2>2, <3>2, <4>1 DEF Ahead
      <4>3. \A s \in Requests : Unlogged(s)' <=> Unlogged(s) /\ s # r
        BY <1>1, <2>1 DEF Unlogged
      <4>4. Behind(q, t)'
        BY <1>1, <2>1, <2>3, <3>2, <4>1, <4>3 DEF Behind, About
      <4>5. QED
        BY <4>2, <4>4
    <3>3. QED
      BY <3>1, <3>2
  <2>6. QED
    BY <2>4, <2>5 DEF Undisturbed
<1>4. QED
  BY <1>2, <1>3

\* The commit of a change disturbs everyone else who is about the thing.
LEMMA CommitKeepsHistory ==
    ASSUME TrailInv, History, NEW r \in Requests, CommitChange(r), NEW t \in Things
    PROVE  Undisturbed(t)' /\ Told(t)'
<1>0. TypeOK /\ Undisturbed(t) /\ Told(t)
  BY DEF TrailInv, History
<1>1. /\ pc[r] = "loaded" /\ pc' = [pc EXCEPT ![r] = "changed"]
      /\ value' = [value EXCEPT ![job[r].thing] = job[r].to]
      /\ UNCHANGED <<job, seen, stamp, trail, gap, since>>
      /\ clash' = clash \cup {s \in Requests \ {r} : About(s, job[r].thing)}
                        \cup {s \in {r} : \E q \in Requests : About(q, job[r].thing)
                                                             /\ Unlogged(q)}
  BY DEF CommitChange, Goto
<1>2. \A q \in Requests : About(q, t)' <=> About(q, t)
  BY <1>0, <1>1 DEF About, TypeOK
<1>3. CASE job[r].thing # t
  <2>1. \A q \in Requests :
            About(q, t) => pc'[q] = pc[q] /\ (q \in clash' <=> q \in clash)
    BY <1>0, <1>1, <1>3 DEF About, TypeOK
  <2>2. value'[t] = value[t]
    BY <1>0, <1>1, <1>3 DEF TypeOK
  <2>3. QED
    BY <1>0, <1>1, <1>2, <2>1, <2>2, Unconcerned
<1>4. CASE job[r].thing = t
  <2>1. LastValue(t)' = LastValue(t) /\ (Chained(t)' <=> Chained(t))
    BY <1>1, SameStory DEF Story
  <2>2. About(r, t)' /\ Unlogged(r)'
    BY <1>0, <1>1, <1>4 DEF About, Unlogged, TypeOK
  <2>3. Told(t)'
    BY <1>0, <1>1, <2>1, <2>2 DEF Told, Quiet
  <2>4. ASSUME NEW q \in Requests, About(q, t)', q \notin clash'
        PROVE  Ahead(q, t)' /\ Behind(q, t)'
    <3>1. q = r /\ r \notin clash /\ Quiet(t)
      BY <1>1, <1>2, <1>4, <2>4 DEF Quiet
    <3>2. value[t] = job[r].from
      BY <1>0, <1>1, <1>2, <2>4, <3>1 DEF Undisturbed, Ahead
    <3>3. \A s \in Requests : About(s, t)' /\ Unlogged(s)' => s = r
      BY <1>0, <1>1, <1>2, <3>1 DEF Quiet, Unlogged, TypeOK
    <3>4. ~gap[t] => job[r].from = LastValue(t)
      BY <1>0, <3>1, <3>2 DEF Told
    <3>5. pc'[r] = "changed" /\ value'[t] = job'[r].to
      BY <1>0, <1>1, <1>4 DEF TypeOK
    <3>6. QED
      BY <1>1, <2>1, <3>1, <3>3, <3>4, <3>5 DEF Ahead, Behind
  <2>5. QED
    BY <2>3, <2>4 DEF Undisturbed
<1>5. QED
  BY <1>3, <1>4

\* Reading the row again, and making the entry, concern the request alone.
LEMMA MakingKeepsHistory ==
    ASSUME TrailInv, History, NEW r \in Requests, Reread(r) \/ Stamp(r), NEW t \in Things
    PROVE  Undisturbed(t)' /\ Told(t)'
<1>0. TypeOK /\ Undisturbed(t) /\ Told(t) /\ clock \in Nat
  BY PagesHaveEntries DEF TrailInv, History, TypeOK
<1>1. /\ UNCHANGED <<job, clash, value, trail, gap, since>>
      /\ \A q \in Requests \ {r} : pc'[q] = pc[q] /\ seen'[q] = seen[q]
                                   /\ stamp'[q] = stamp[q]
      /\ \/ /\ pc[r] = "changed" /\ pc'[r] = "reread"
            /\ job[r].thing = "invoice" => seen'[r] = value[job[r].thing]
         \/ /\ pc[r] = "reread" /\ pc'[r] = "stamped" /\ stamp'[r] = clock + 1
            /\ seen'[r] = seen[r]
  BY <1>0 DEF Reread, Stamp, Goto, TypeOK, tableVars
<1>2. \A q \in Requests : /\ About(q, t)' <=> About(q, t)
                          /\ Unlogged(q)' <=> Unlogged(q)
  BY <1>1 DEF About, Unlogged
<1>3. LastValue(t)' = LastValue(t) /\ (Chained(t)' <=> Chained(t))
  BY <1>1, SameStory DEF Story
<1>4. Quiet(t)' <=> Quiet(t)
  BY <1>2 DEF Quiet
<1>5. Told(t)'
  BY <1>0, <1>1, <1>3, <1>4 DEF Told
<1>6. \A e \in trail : e.stamp < clock + 1
  BY <1>0 DEF TypeOK
<1>7. ASSUME NEW q \in Requests, About(q, t)', q \notin clash'
      PROVE  Ahead(q, t)' /\ Behind(q, t)'
  <2>1. About(q, t) /\ Ahead(q, t) /\ Behind(q, t)
    BY <1>0, <1>1, <1>2, <1>7 DEF Undisturbed
  <2>2. Ahead(q, t)'
    BY <1>1, <1>4, <2>1 DEF Ahead
  <2>3. ASSUME Unlogged(q)
        PROVE  /\ \A s \in Requests : About(s, t)' /\ Unlogged(s)' => s = q
               /\ value[t] = job[q].to
               /\ pc'[q] # "changed" /\ t = "invoice" => seen'[q] = value[t]
               /\ pc'[q] = "stamped" => \A e \in trail : e.thing = t => e.stamp < stamp'[q]
               /\ ~gap[t] => job[q].from = LastValue(t)
    <3>1. /\ \A s \in Requests : About(s, t) /\ Unlogged(s) => s = q
          /\ value[t] = job[q].to
          /\ pc[q] # "changed" /\ t = "invoice" => seen[q] = value[t]
          /\ pc[q] = "stamped" => \A e \in trail : e.thing = t => e.stamp < stamp[q]
          /\ ~gap[t] => job[q].from = LastValue(t)
      BY <2>1, <2>3 DEF Behind
    <3>2. job[q].thing = t
      BY <2>1 DEF About
    <3>3. CASE q = r
      BY <1>1, <1>2, <1>6, <3>1, <3>2, <3>3
    <3>4. CASE q # r
      BY <1>1, <1>2, <3>1, <3>4
    <3>5. QED
      BY <3>3, <3>4
  <2>4. Behind(q, t)'
    BY <1>1, <1>2, <1>3, <2>3 DEF Behind
  <2>5. QED
    BY <2>2, <2>4
<1>8. QED
  BY <1>5, <1>7 DEF Undisturbed

\* While a request has an unlogged change of a thing, nobody else that is about
\* the thing is undisturbed.
LEMMA NobodyElse ==
    ASSUME NEW t \in Things, Undisturbed(t),
           NEW r \in Requests, About(r, t), Unlogged(r),
           NEW q \in Requests \ {r}, About(q, t), pc[q] = "loaded" \/ Unlogged(q)
    PROVE  q \in clash
<1> SUFFICES ASSUME q \notin clash PROVE FALSE
  OBVIOUS
<1>1. Ahead(q, t) /\ Behind(q, t)
  BY DEF Undisturbed
<1>2. ~(pc[q] = "loaded")
  BY <1>1 DEF Ahead, Quiet
<1>3. ~Unlogged(q)
  BY <1>1 DEF Behind
<1>4. QED
  BY <1>2, <1>3

\* The end of a request concerns its own thing only, and leaves there a gap, or
\* an entry by which the story goes on.
LEMMA EndKeepsHistory ==
    ASSUME TrailInv, History, NEW r \in Requests,
           CommitEntry(r) \/ EntryFails(r) \/ Crash(r), NEW t \in Things
    PROVE  Undisturbed(t)' /\ Told(t)'
<1>0. TypeOK /\ Stamps /\ Undisturbed(t) /\ Told(t) /\ Anchored(t)
  BY DEF TrailInv, History
<1>1. /\ pc' = [pc EXCEPT ![r] = "idle"] /\ job' = [job EXCEPT ![r] = FailedLogin]
      /\ seen' = [seen EXCEPT ![r] = "none"] /\ stamp' = [stamp EXCEPT ![r] = 0]
      /\ clash' = clash \ {r} /\ UNCHANGED value
  BY DEF CommitEntry, EntryFails, Crash, Leave, Goto
<1>2. /\ pc'[r] = "idle" /\ pc[r] # "idle"
      /\ \A q \in Requests \ {r} :
             /\ pc'[q] = pc[q] /\ job'[q] = job[q] /\ seen'[q] = seen[q]
             /\ stamp'[q] = stamp[q] /\ (q \in clash' <=> q \in clash)
  <2>1. pc[r] # "idle"
    BY DEF CommitEntry, EntryFails, Crash
  <2>2. QED
    BY <1>0, <1>1, <2>1 DEF TypeOK
<1>3. ~About(r, t)' /\ \A q \in Requests \ {r} : /\ About(q, t)' <=> About(q, t)
                                                 /\ Unlogged(q)' <=> Unlogged(q)
  BY <1>2 DEF About, Unlogged
<1>4. CASE job[r].thing # t \/ pc[r] = "loaded"
  <2>1. /\ since'[t] = since[t]
        /\ {e \in trail : e.thing = t}' = {e \in trail : e.thing = t}
    <3>1. CASE CommitEntry(r)
      BY <1>4, <3>1 DEF CommitEntry, Entry
    <3>2. CASE EntryFails(r) \/ Crash(r)
      BY <3>2 DEF EntryFails, Crash
    <3>3. QED
      BY <3>1, <3>2
  <2>2. gap'[t] = gap[t]
    <3>1. gap[t] \in BOOLEAN
      BY <1>0 DEF TypeOK
    <3>2. CASE CommitEntry(r)
      BY <1>4, <3>2 DEF CommitEntry
    <3>3. CASE EntryFails(r)
      BY <1>4, <3>1, <3>3 DEF EntryFails
    <3>4. CASE Crash(r)
      BY <1>4, <3>1, <3>4 DEF Crash, Unlogged
    <3>5. QED
      BY <3>2, <3>3, <3>4
  <2>3. CASE job[r].thing # t
    <3>1. ~About(r, t)
      BY <2>3 DEF About
    <3>2. QED
      BY <1>0, <1>1, <1>2, <1>3, <2>1, <2>2, <3>1, Unconcerned
  <2>4. CASE pc[r] = "loaded"
    <3>1. LastValue(t)' = LastValue(t) /\ (Chained(t)' <=> Chained(t))
      BY <2>1, SameStory DEF Story
    <3>2. Quiet(t)' <=> Quiet(t)
      BY <1>3, <2>4 DEF Quiet, Unlogged
    <3>3. Told(t)'
      BY <1>0, <1>1, <2>2, <3>1, <3>2 DEF Told
    <3>4. ASSUME NEW q \in Requests, About(q, t)', q \notin clash'
          PROVE  Ahead(q, t)' /\ Behind(q, t)'
      <4>1. q # r /\ About(q, t) /\ Ahead(q, t) /\ Behind(q, t)
        BY <1>0, <1>2, <1>3, <3>4 DEF Undisturbed
      <4>2. Ahead(q, t)'
        BY <1>1, <1>2, <3>2, <4>1 DEF Ahead
      <4>3. Behind(q, t)'
        BY <1>1, <1>2, <1>3, <2>1, <2>2, <3>1, <4>1 DEF Behind
      <4>4. QED
        BY <4>2, <4>3
    <3>5. QED
      BY <3>3, <3>4 DEF Undisturbed
  <2>5. QED
    BY <1>4, <2>3, <2>4
<1>5. CASE job[r].thing = t /\ pc[r] # "loaded"
  <2>1. About(r, t) /\ Unlogged(r)
    BY <1>0, <1>2, <1>5 DEF About, Unlogged, TypeOK
  <2>2. \A q \in Requests \ {r} : About(q, t) => q \in clash
    BY <1>0, <2>1, NobodyElse DEF TypeOK, Unlogged, About
  <2>3. Undisturbed(t)'
    BY <1>2, <1>3, <2>2 DEF Undisturbed
  <2>4. CASE gap'[t]
    BY <2>3, <2>4 DEF Told
  <2>5. CASE ~gap'[t]
    <3>1. CommitEntry(r)
      <4>1. EntryFails(r) => gap'[t]
        BY <1>5 DEF EntryFails
      <4>2. Crash(r) => gap'[t]
        BY <1>5, <2>1 DEF Crash
      <4>3. QED
        BY <2>5, <4>1, <4>2
    <3>2. r \notin clash /\ pc[r] = "stamped" /\ job[r].told = job[r].from
      BY <1>5, <2>5, <3>1 DEF CommitEntry, Proper
    <3>3. /\ After(r) = value[t]
          /\ \A e \in trail : e.thing = t => e.stamp < stamp[r]
          /\ ~gap[t] => job[r].from = LastValue(t)
      <4>1. /\ value[t] = job[r].to
            /\ t = "invoice" => seen[r] = value[t]
            /\ \A e \in trail : e.thing = t => e.stamp < stamp[r]
            /\ ~gap[t] => job[r].from = LastValue(t)
        BY <1>0, <2>1, <3>2 DEF Undisturbed, Behind
      <4>2. job[r].told # "none"
        <5>1. job[r] \in Changes
          BY <1>0, <1>5 DEF TypeOK, FailedLogin, Change, Things
        <5>2. QED
          BY <3>2, <5>1, ChangeShape
      <4>3. QED
        BY <1>5, <4>1, <4>2 DEF After
    <3>4. PICK new : new = Entry(r)
      OBVIOUS
    <3>5. /\ trail' = trail \cup {new}
          /\ since'[t] = IF gap[t] THEN stamp[r] ELSE since[t]
      BY <1>5, <3>1, <3>2, <3>4 DEF CommitEntry, Proper
    <3>6. /\ new.thing = t /\ new.before = job[r].from
          /\ new.after = value'[t] /\ new.stamp = stamp[r]
      BY <1>1, <1>5, <3>2, <3>3, <3>4 DEF Entry
    <3>7. /\ stamp[r] \in Nat \ {0} /\ since[t] \in Nat /\ since[t] <= clock
          /\ stamp[r] <= clock /\ \A e \in trail : e.stamp \in Nat
      BY <1>0, <3>2, PagesHaveEntries DEF TypeOK, Stamps
    <3>8. CASE gap[t]
      <4>1. Story(t)' = {new}
        BY <3>3, <3>5, <3>6, <3>7, <3>8 DEF Story
      <4>2. LastOf(Story(t)') = new
        BY <3>6, <3>7, <4>1 DEF LastOf
      <4>3. LastValue(t)' = value'[t]
        BY <3>6, <4>1, <4>2 DEF LastValue
      <4>4. Older(new)' = {}
        BY <3>6, <3>7, <4>1 DEF Older
      <4>5. Chained(t)'
        BY <3>5, <3>7, <3>8, <4>1, <4>4 DEF Chained
      <4>6. QED
        BY <2>3, <4>3, <4>5 DEF Told
    <3>9. CASE ~gap[t]
      <4>1. Chained(t) /\ job[r].from = LastValue(t)
        BY <1>0, <3>3, <3>9 DEF Told
      <4>2. \A e \in Story(t) : e \in trail /\ e.thing = t /\ e.stamp \in Nat
                               /\ e.stamp < new.stamp
        BY <3>3, <3>6, <3>7 DEF Story
      <4>3. new.stamp >= since[t]
        BY <1>0, <3>3, <3>6, <3>7 DEF Anchored
      <4>4. Story(t)' = Story(t) \cup {new}
        BY <3>5, <3>6, <3>9, <4>3 DEF Story
      <4>5. LastOf(Story(t)') = new
        BY <3>6, <3>7, <4>2, <4>4 DEF LastOf
      <4>6. LastValue(t)' = value'[t]
        BY <3>6, <4>4, <4>5 DEF LastValue
      <4>7. Older(new)' = Story(t)
        BY <3>6, <3>7, <4>2, <4>4 DEF Older
      <4>8. \A e \in Story(t) : Older(e)' = Older(e)
        BY <3>6, <3>7, <4>2, <4>4 DEF Older
      <4>9. ASSUME NEW e \in Story(t)'
            PROVE  IF Older(e)' # {} THEN e.before = LastOf(Older(e)').after
                                     ELSE since'[t] = 0 => e.before = First[t]
        <5>1. CASE e \in Story(t)
          BY <3>5, <3>9, <4>1, <4>8, <5>1 DEF Chained
        <5>2. CASE e = new
          BY <3>6, <4>1, <4>7, <5>2 DEF LastValue
        <5>3. QED
          BY <4>4, <5>1, <5>2
      <4>10. Chained(t)'
        BY <4>9 DEF Chained, LastOf
      <4>11. QED
        BY <2>3, <4>6, <4>10 DEF Told
    <3>10. QED
      BY <3>8, <3>9
  <2>6. QED
    BY <2>4, <2>5
<1>6. QED
  BY <1>4, <1>5

\* A change that is not logged disturbs everyone who is about the thing.
LEMMA SilenceKeepsHistory ==
    ASSUME TrailInv, History, ChangeSilently, NEW t \in Things
    PROVE  Undisturbed(t)' /\ Told(t)'
<1>0. TypeOK /\ Undisturbed(t) /\ Told(t)
  BY DEF TrailInv, History
<1>1. PICK c \in SilentChanges :
          /\ value' = [value EXCEPT ![c.thing] = c.to]
          /\ gap' = [gap EXCEPT ![c.thing] = TRUE]
          /\ clash' = clash \cup {s \in Requests : About(s, c.thing)}
          /\ UNCHANGED <<pc, job, seen, stamp, trail, clock, since>>
  BY DEF ChangeSilently
<1>2. \A q \in Requests : About(q, t)' <=> About(q, t)
  BY <1>1 DEF About
<1>3. CASE c.thing = t
  <2>1. gap'[t] = TRUE
    BY <1>0, <1>1, <1>3 DEF TypeOK
  <2>2. QED
    BY <1>1, <1>2, <1>3, <2>1 DEF Undisturbed, Told
<1>4. CASE c.thing # t
  <2>1. value'[t] = value[t] /\ gap'[t] = gap[t]
    BY <1>0, <1>1, <1>4 DEF TypeOK
  <2>2. \A q \in Requests : About(q, t) => (q \in clash' <=> q \in clash)
    BY <1>1, <1>4 DEF About
  <2>3. QED
    BY <1>0, <1>1, <1>2, <2>1, <2>2, Unconcerned
<1>5. QED
  BY <1>3, <1>4

\* Entries are never removed, and a gap ends with one.
LEMMA AnchorStays ==
    ASSUME History, [Next]_vars, NEW t \in Things
    PROVE  Anchored(t)'
<1>0. Anchored(t)
  BY DEF History
<1>1. ASSUME NEW r \in Requests, CommitEntry(r) PROVE Anchored(t)'
  <2>1. /\ trail' = trail \cup {Entry(r)}
        /\ \/ since'[t] = since[t]
           \/ job[r].thing = t /\ since'[t] = stamp[r]
    BY <1>1 DEF CommitEntry
  <2>2. Entry(r).thing = job[r].thing /\ Entry(r).stamp = stamp[r]
    BY DEF Entry
  <2>3. QED
    BY <1>0, <2>1, <2>2 DEF Anchored
<1>2. CASE \/ \E r \in Requests : Handle(r) /\ ~CommitEntry(r)
           \/ \E w \in Readers : Read(w)
           \/ ChangeSilently \/ UNCHANGED vars
  <2>1. UNCHANGED <<trail, since>>
    BY <1>2 DEF Handle, Load, FailLogin, CommitChange, Reread, Stamp, EntryFails, Crash,
                Read, ListPlatform, ListResource, CountFirst, CountNext, FetchPage, Close,
                ChangeSilently, vars, tableVars
  <2>2. QED
    BY <1>0, <2>1 DEF Anchored
<1>3. QED
  BY <1>1, <1>2 DEF Next, Handle

LEMMA HistoryStep == TrailInv /\ History /\ [Next]_vars => History'
<1> SUFFICES ASSUME TrailInv, History, [Next]_vars, NEW t \in Things
             PROVE  Undisturbed(t)' /\ Told(t)' /\ Anchored(t)'
  BY DEF History
<1>1. Anchored(t)'
  BY AnchorStays
<1>2. CASE \E r \in Requests : Handle(r)
   BY <1>1, <1>2, BeginKeepsHistory, CommitKeepsHistory, MakingKeepsHistory,
      EndKeepsHistory
     DEF Handle
<1>3. CASE ChangeSilently
  BY <1>1, <1>3, SilenceKeepsHistory
<1>4. CASE \/ \E w \in Readers : Read(w)
           \/ UNCHANGED vars
  <2>1. UNCHANGED <<requestVars, tableVars>>
    BY <1>4 DEF Read, ListPlatform, ListResource, CountFirst, CountNext, FetchPage, Close,
                vars
  <2>2. \A q \in Requests : About(q, t)' <=> About(q, t)
    BY <2>1 DEF About, requestVars
  <2>3. Undisturbed(t)' /\ Told(t)'
    BY <2>1, <2>2, Unconcerned DEF History, requestVars, tableVars
  <2>4. QED
    BY <1>1, <2>3
<1>5. QED
  BY <1>2, <1>3, <1>4 DEF Next

LEMMA HistoryInvariant == Spec => [](TrailInv /\ History)
  BY TrailInit, TrailStep, HistoryInit, HistoryStep, PTL DEF Spec

\* The entries about the status of an invoice or is_active of a tenant tell one
\* unbroken story up to the present value, since the last change that was not logged,
\* was logged without its values or with another old one than was found, or was made
\* by requests at the same time, for any number of requests at once.
THEOREM TrailAlwaysHistory == Spec => []TrailIsHistory
<1>1. History => TrailIsHistory
  BY DEF History, Told, Chained, Quiet, LastValue, TrailIsHistory
<1>2. QED
  BY <1>1, HistoryInvariant, PTL

-----------------------------------------------------------------------------

(***************************************************************************)
(* Reading the log.  Entries are only added, so what is owed to a client    *)
(* moves away from the head of the list, never back before its offset.      *)
(***************************************************************************)

\* How many entries the list shows before those of stamp s.
Rank(v, s) == Cardinality({f \in Listed(v) : f.stamp > s})

Owing == \A w \in Readers : at[w] \in {"counted", "reading"} =>
    \A s \in owed[w] : /\ \E e \in Listed(view[w]) : e.stamp = s
                       /\ Rank(view[w], s) >= skip[w]

ReadInv == Owing /\ SkipHasCause

\* A page holds the entries whose rank is not below its offset and less than a
\* page beyond it.
LEMMA PageByRank ==
    ASSUME TypeOK, NEW v, NEW k \in Nat, NEW e \in Listed(v)
    PROVE  /\ Rank(v, e.stamp) \in Nat
           /\ Rank(v, e.stamp) < Cardinality(Listed(v))
           /\ e \in Page(v, k) <=> k <= Rank(v, e.stamp) /\ Rank(v, e.stamp) < k + Limit
<1> DEFINE Newer == {f \in Listed(v) : f.stamp > e.stamp}
<1>1. Listed(v) \in SUBSET trail /\ Newer \in SUBSET Listed(v)
  BY DEF Listed
<1>2. IsFiniteSet(Listed(v)) /\ Cardinality(Listed(v)) \in Nat /\ Cardinality(Newer) \in Nat
  BY <1>1, FewEntries
<1>3. e \notin Newer
  <2>1. e.stamp \in Nat
    BY <1>1, PagesHaveEntries DEF TypeOK
  <2>2. QED
    BY <2>1
<1>4. Cardinality(Newer) <= Cardinality(Listed(v))
      /\ Cardinality(Newer) # Cardinality(Listed(v))
  BY <1>1, <1>2, <1>3, FS_Subset
<1>5. Rank(v, e.stamp) = Cardinality(Newer)
  BY DEF Rank
<1>6. e \in Page(v, k) <=> Cardinality(Newer) \in k .. k + Limit - 1
  BY DEF Page
<1>7. QED
  BY <1>2, <1>4, <1>5, <1>6, PagesHaveEntries

\* The rank of an entry never falls.
LEMMA RankGrows ==
    ASSUME TypeOK', trail \subseteq trail', NEW v, NEW s
    PROVE  /\ Listed(v) \subseteq Listed(v)'
           /\ Rank(v, s) \in Nat /\ Rank(v, s)' \in Nat /\ Rank(v, s) <= Rank(v, s)'
<1> DEFINE Newer == {f \in Listed(v) : f.stamp > s}
<1>1. Listed(v) \subseteq Listed(v)' /\ Newer \in SUBSET (Newer') /\ Newer' \in SUBSET trail'
  BY DEF Listed
<1>2. IsFiniteSet(Newer')
  <2>1. clock' \in Nat
    BY PagesHaveEntries DEF TypeOK
  <2>2. \A e \in Newer' : e \in trail' /\ e.stamp \in 1 .. clock'
    BY <1>1 DEF TypeOK
  <2>3. \A e, g \in Newer' : e.stamp = g.stamp => e = g
    BY <2>2 DEF TypeOK
  <2>4. QED
    BY <2>1, <2>2, <2>3, FewStamps
<1>3. QED
  BY <1>1, <1>2, FS_Subset, FS_CardinalityType DEF Rank

LEMMA ReadInit == Init => ReadInv
  BY DEF Init, ReadInv, Owing, SkipHasCause

\* What writers do to the list.
LEMMA WritingKeepsReaders ==
    ASSUME TypeOK', ReadInv, trail \subseteq trail', UNCHANGED readerVars
    PROVE  ReadInv'
<1>1. SkipHasCause'
  BY DEF ReadInv, SkipHasCause, readerVars
<1>2. ASSUME NEW w \in Readers, at'[w] \in {"counted", "reading"}, NEW s \in owed'[w]
      PROVE  /\ \E e \in Listed(view[w])' : e.stamp = s
             /\ Rank(view[w], s)' >= skip'[w]
  <2>1. /\ \E e \in Listed(view[w]) : e.stamp = s
        /\ Rank(view[w], s) >= skip[w]
    BY <1>2 DEF ReadInv, Owing, readerVars
  <2>2. /\ Listed(view[w]) \subseteq Listed(view[w])'
        /\ Rank(view[w], s) \in Nat /\ Rank(view[w], s)' \in Nat
        /\ Rank(view[w], s) <= Rank(view[w], s)' /\ skip[w] \in Nat
    <3>1. PICK v : v = view[w] /\ v = view'[w]
      BY DEF readerVars
    <3>2. skip[w] \in Nat
      BY PagesHaveEntries DEF TypeOK, readerVars
    <3>3. QED
      BY <3>1, <3>2, RankGrows
  <2>3. QED
    BY <2>1, <2>2 DEF readerVars
<1>3. QED
  BY <1>1, <1>2 DEF ReadInv, Owing

\* A reader's own step, for itself; the others' places are as they were.
LEMMA ReadingKeepsReaders ==
    ASSUME TypeOK, ReadInv, NEW w \in Readers, Read(w)
    PROVE  ReadInv'
<1>1. /\ UNCHANGED trail
      /\ \A x \in Readers \ {w} : /\ at'[x] = at[x] /\ owed'[x] = owed[x]
                                  /\ view'[x] = view[x] /\ skip'[x] = skip[x]
                                  /\ (x \in late' <=> x \in late)
  <2>1. CASE ListPlatform(w) \/ ListResource(w)
    BY <2>1 DEF ListPlatform, ListResource, CountFirst, TypeOK, tableVars
  <2>2. CASE CountNext(w)
    BY <2>2 DEF CountNext, TypeOK, tableVars
  <2>3. CASE FetchPage(w)
    BY <2>3 DEF FetchPage, TypeOK, tableVars
  <2>4. CASE Close(w)
    BY <2>4 DEF Close, TypeOK, tableVars
  <2>5. QED
    BY <2>1, <2>2, <2>3, <2>4 DEF Read
<1>2. \A v : Listed(v)' = Listed(v) /\ \A s : Rank(v, s)' = Rank(v, s)
  BY <1>1 DEF Listed, Rank
<1>3. ASSUME NEW x \in Readers \ {w}
      PROVE  /\ at'[x] \in {"counted", "reading"} =>
                    \A s \in owed'[x] : /\ \E e \in Listed(view'[x]) : e.stamp = s
                                        /\ Rank(view'[x], s) >= skip'[x]
             /\ at'[x] = "done" /\ x \notin late' => owed'[x] = {}
  BY <1>1, <1>3 DEF ReadInv, Owing, SkipHasCause
<1>4. ASSUME at'[w] \in {"counted", "reading"}, NEW s \in owed'[w]
      PROVE  /\ \E e \in Listed(view'[w]) : e.stamp = s
             /\ Rank(view'[w], s) >= skip'[w]
  <2>1. CASE ListPlatform(w) \/ ListResource(w)
    <3>1. PICK v : CountFirst(w, v)
      BY <2>1 DEF ListPlatform, ListResource
    <3>2. /\ view'[w] = v /\ skip'[w] = 0
          /\ owed'[w] = {e.stamp : e \in Listed(v)}
      BY <3>1 DEF CountFirst, TypeOK
    <3>3. PICK e \in Listed(v) : e.stamp = s
      BY <1>4, <3>2
    <3>4. Rank(v, e.stamp) \in Nat
      BY PageByRank
    <3>5. QED
      BY <3>2, <3>3, <3>4
  <2>2. CASE CountNext(w)
    BY <1>4, <2>2 DEF CountNext, TypeOK, ReadInv, Owing
  <2>3. CASE FetchPage(w)
    <3>1. /\ at[w] = "counted" /\ skip'[w] = skip[w] + Limit /\ view'[w] = view[w]
          /\ s \in owed[w] /\ s \notin {e.stamp : e \in Page(view[w], skip[w])}
      BY <1>4, <2>3 DEF FetchPage, TypeOK
    <3>2. /\ \E e \in Listed(view[w]) : e.stamp = s
          /\ Rank(view[w], s) >= skip[w]
      BY <3>1 DEF ReadInv, Owing
    <3>3. PICK e \in Listed(view[w]) : e.stamp = s
      BY <3>2
    <3>4. skip[w] \in Nat
      BY PagesHaveEntries DEF TypeOK
    <3>5. e \notin Page(view[w], skip[w])
      BY <3>1, <3>3
    <3>6. Rank(view[w], s) >= skip[w] + Limit
      BY <3>2, <3>3, <3>4, <3>5, PageByRank, PagesHaveEntries
    <3>7. QED
      BY <3>1, <3>2, <3>6
  <2>4. CASE Close(w)
    BY <1>4, <2>4 DEF Close, TypeOK
  <2>5. QED
    BY <2>1, <2>2, <2>3, <2>4 DEF Read
<1>5. ASSUME at'[w] = "done", w \notin late' PROVE owed'[w] = {}
  <2>1. FetchPage(w)
    BY <1>5 DEF Read, ListPlatform, ListResource, CountFirst, CountNext, Close, TypeOK
  <2>2. /\ at[w] = "counted" /\ ~HasNext(skip[w], total[w])
        /\ total[w] = Cardinality(Listed(view[w]))
        /\ owed'[w] = owed[w] \ {e.stamp : e \in Page(view[w], skip[w])}
    BY <1>5, <2>1 DEF FetchPage, TypeOK
  <2>3. ASSUME NEW s \in owed[w] PROVE s \in {e.stamp : e \in Page(view[w], skip[w])}
    <3>1. /\ \E e \in Listed(view[w]) : e.stamp = s
          /\ Rank(view[w], s) >= skip[w]
      BY <2>2, <2>3 DEF ReadInv, Owing
    <3>2. PICK e \in Listed(view[w]) : e.stamp = s
      BY <3>1
    <3>3. skip[w] \in Nat /\ total[w] \in Nat
      BY PagesHaveEntries DEF TypeOK
    <3>4. Rank(view[w], s) \in Nat /\ Rank(view[w], s) < total[w]
      BY <2>2, <3>2, <3>3, PageByRank
    <3>5. Rank(view[w], s) < skip[w] + Limit
      BY <2>2, <3>3, <3>4, PagesHaveEntries DEF HasNext
    <3>6. e \in Page(view[w], skip[w])
      BY <3>1, <3>2, <3>3, <3>5, PageByRank
    <3>7. QED
      BY <3>2, <3>6
  <2>4. QED
    BY <2>2, <2>3
<1>6. Owing'
  <2>1. ASSUME NEW x \in Readers, at'[x] \in {"counted", "reading"}, NEW s \in owed'[x]
        PROVE  /\ \E e \in Listed(view[x])' : e.stamp = s
               /\ Rank(view[x], s)' >= skip'[x]
    <3>1. PICK v : v = view'[x]
      OBVIOUS
    <3>2. (\E e \in Listed(v) : e.stamp = s) /\ Rank(v, s) >= skip'[x]
      BY <1>3, <1>4, <2>1, <3>1
    <3>3. Listed(v)' = Listed(v) /\ Rank(v, s)' = Rank(v, s)
      BY <1>2
    <3>4. QED
      BY <3>1, <3>2, <3>3
  <2>2. QED
    BY <2>1 DEF Owing
<1>7. SkipHasCause'
  BY <1>3, <1>5 DEF SkipHasCause
<1>8. QED
  BY <1>6, <1>7 DEF ReadInv

LEMMA ReadStep == TypeOK /\ TypeOK' /\ ReadInv /\ [Next]_vars => ReadInv'
<1> SUFFICES ASSUME TypeOK, TypeOK', ReadInv, [Next]_vars PROVE ReadInv'
  OBVIOUS
<1>1. CASE \E w \in Readers : Read(w)
  BY <1>1, ReadingKeepsReaders
<1>2. CASE (\E r \in Requests : Handle(r)) \/ ChangeSilently \/ UNCHANGED vars
  <2>1. trail \subseteq trail' /\ UNCHANGED readerVars
    BY <1>2 DEF Handle, Load, FailLogin, CommitChange, Reread, Stamp, CommitEntry, EntryFails,
                Crash, ChangeSilently, vars, tableVars
  <2>2. QED
    BY <2>1, WritingKeepsReaders
<1>3. QED
  BY <1>1, <1>2 DEF Next

\* A client that goes on until has_next is false misses no entry that was there
\* when it began, unless one was added between the two queries of its last page,
\* for any number of writers and readers and pages of any size.
THEOREM SkipAlwaysHasCause == Spec => []SkipHasCause
<1>1. TrailInv => TypeOK
  BY DEF TrailInv
<1>2. ReadInv => SkipHasCause
  BY DEF ReadInv
<1>3. Spec => [](TrailInv /\ ReadInv)
  BY <1>1, TrailInit, TrailStep, ReadInit, ReadStep, PTL DEF Spec
<1>4. QED
  BY <1>2, <1>3, PTL

\* Of two entries of a list, the newer one has the lower rank.
LEMMA RanksDiffer ==
    ASSUME TypeOK, NEW v, NEW e \in Listed(v), NEW f \in Listed(v), e.stamp < f.stamp
    PROVE  Rank(v, f.stamp) < Rank(v, e.stamp)
<1> DEFINE Newer(s) == {g \in Listed(v) : g.stamp > s}
<1>1. Listed(v) \in SUBSET trail
  BY DEF Listed
<1>2. \A g \in Listed(v) : g.stamp \in Nat
  BY <1>1, PagesHaveEntries DEF TypeOK
<1>3. Newer(f.stamp) \in SUBSET Newer(e.stamp) /\ f \in Newer(e.stamp)
      /\ f \notin Newer(f.stamp)
  BY <1>2
<1>4. IsFiniteSet(Newer(e.stamp)) /\ Cardinality(Newer(e.stamp)) \in Nat
      /\ Cardinality(Newer(f.stamp)) \in Nat
  BY <1>1, FewEntries
<1>5. Cardinality(Newer(f.stamp)) <= Cardinality(Newer(e.stamp))
      /\ Cardinality(Newer(f.stamp)) # Cardinality(Newer(e.stamp))
  BY <1>3, <1>4, FS_Subset
<1>6. QED
  BY <1>4, <1>5 DEF Rank

\* No page that is fetched has more entries than the limit, and none of them is on
\* a page a limit or more further on: in a log that stands still, pages
\* do not overlap.
THEOREM PagesAreApart ==
    Spec => []\A v \in {"platform", "resource"}, k \in Nat :
                /\ Cardinality(Page(v, k)) <= Limit
                /\ \A j \in Nat : j >= k + Limit => Page(v, k) \cap Page(v, j) = {}
<1>1. ASSUME TypeOK, NEW v, NEW k \in Nat
      PROVE  /\ Cardinality(Page(v, k)) <= Limit
             /\ \A j \in Nat : j >= k + Limit => Page(v, k) \cap Page(v, j) = {}
  <2> DEFINE rank == [e \in Page(v, k) |-> Rank(v, e.stamp)]
  <2>1. \A j \in Nat : \A e \in Page(v, j) :
            /\ e \in Listed(v) /\ Rank(v, e.stamp) \in Nat
            /\ j <= Rank(v, e.stamp) /\ Rank(v, e.stamp) < j + Limit
    <3>1. \A j \in Nat : \A e \in Page(v, j) : e \in Listed(v)
      BY DEF Page
    <3>2. QED
      BY <1>1, <3>1, PageByRank
  <2>2. \A e, f \in Page(v, k) : rank[e] = rank[f] => e = f
    <3> SUFFICES ASSUME NEW e \in Page(v, k), NEW f \in Page(v, k), rank[e] = rank[f]
                 PROVE  e = f
      OBVIOUS
    <3>1. e \in Listed(v) /\ f \in Listed(v) /\ Rank(v, e.stamp) \in Nat
          /\ Rank(v, e.stamp) = Rank(v, f.stamp)
      BY <2>1
    <3>2. e \in trail /\ f \in trail
      BY <3>1 DEF Listed
    <3>3. e.stamp \in Nat /\ f.stamp \in Nat /\ (e.stamp = f.stamp => e = f)
      BY <1>1, <3>2, PagesHaveEntries DEF TypeOK
    <3>4. ~(e.stamp < f.stamp) /\ ~(f.stamp < e.stamp)
      BY <1>1, <3>1, RanksDiffer
    <3>5. QED
      BY <3>3, <3>4
  <2>3. \A e \in Page(v, k) : rank[e] \in k .. k + Limit - 1
    BY <2>1, PagesHaveEntries
  <2>4. rank \in Injection(Page(v, k), k .. k + Limit - 1)
    BY <2>2, <2>3, Zenon DEF Injection, IsInjective
  <2>5. IsFiniteSet(k .. k + Limit - 1) /\ Cardinality(k .. k + Limit - 1) = Limit
    BY FS_Interval, PagesHaveEntries
  <2>6. Cardinality(Page(v, k)) <= Limit
    BY <2>4, <2>5, FS_Injection
  <2>7. ASSUME NEW j \in Nat, j >= k + Limit PROVE Page(v, k) \cap Page(v, j) = {}
    BY <2>1, <2>7, PagesHaveEntries
  <2>8. QED
    BY <2>6, <2>7
<1>2. TypeOK => \A v \in {"platform", "resource"}, k \in Nat :
                /\ Cardinality(Page(v, k)) <= Limit
                /\ \A j \in Nat : j >= k + Limit => Page(v, k) \cap Page(v, j) = {}
  BY <1>1
<1>3. QED
  BY <1>2, TrailTypeCorrect, PTL

-----------------------------------------------------------------------------

(***************************************************************************)
(* The cached reports.  The invariant that is inductive is stronger than    *)
(* StaleHasACause: whenever an entry was put, each commit made since is     *)
(* pending for its key or lost (Accounted), and no thread is ahead of the   *)
(* invoices.                                                                *)
(***************************************************************************)

\* Every commit after an entry was put has yet to delete it, or was lost.
Accounted ==
    \A k \in Keys : cache[k] # NoReport =>
        \A v \in Nat : cache[k].till < v /\ v <= version => Pending(k, v) \/ v \in lost

CacheInv == CacheTypeOK /\ Accounted

LEMMA AccountedInit == CacheInit => CacheInv
  BY DEF CacheInit, CacheInv, CacheTypeOK, Accounted

\* A commit that is pending stays so while its writer's progress, and the keys it
\* has yet to visit, are as they were.
LEMMA StillPending ==
    ASSUME NEW k \in Keys, NEW v \in Nat, Pending(k, v),
           \A u \in Writers : wrote'[u] = wrote[u] /\ step'[u] = step[u]
                              /\ (k \in todo[u] => k \in todo'[u])
    PROVE  Pending(k, v)'
  BY DEF Pending

\* A step of one writer keeps the commits pending that are not its own.
LEMMA OthersPending ==
    ASSUME NEW w \in Writers, NEW k \in Keys, NEW v \in Nat, Pending(k, v),
           wrote[w] # v \/ step[w] \in {"idle", "done"},
           \A u \in Writers \ {w} : wrote'[u] = wrote[u] /\ step'[u] = step[u]
                                    /\ todo'[u] = todo[u]
    PROVE  Pending(k, v)'
  BY DEF Pending

LEMMA AccountedStep == CacheInv /\ [CacheNext]_cacheVars => CacheInv'
<1> SUFFICES ASSUME CacheInv, [CacheNext]_cacheVars PROVE CacheInv'
  OBVIOUS
<1>0. CacheTypeOK /\ Accounted
  BY DEF CacheInv
<1>1. ASSUME NEW w \in Writers, Commit(w) PROVE CacheInv'
  <2>1. /\ step[w] = "idle" /\ version' = version + 1
        /\ wrote' = [wrote EXCEPT ![w] = version + 1]
        /\ step' = [step EXCEPT ![w] = "committed"]
        /\ UNCHANGED <<cache, todo, lost, reading>>
    BY <1>1 DEF Commit
  <2>2. CacheTypeOK'
    BY <1>0, <2>1 DEF CacheTypeOK, reading
  <2>3. ASSUME NEW k \in Keys, cache'[k] # NoReport,
               NEW v \in Nat, cache'[k].till < v, v <= version'
        PROVE  Pending(k, v)' \/ v \in lost'
    <3>1. CASE v = version + 1
      <4>1. wrote'[w] = v /\ step'[w] = "committed"
        BY <1>0, <2>1, <3>1 DEF CacheTypeOK
      <4>2. QED
        BY <4>1 DEF Pending
    <3>2. CASE v # version + 1
      <4>1. v <= version
        BY <1>0, <2>1, <2>3, <3>2 DEF CacheTypeOK
      <4>2. Pending(k, v) \/ v \in lost
        BY <1>0, <2>1, <2>3, <4>1 DEF Accounted
      <4>3. \A u \in Writers \ {w} : wrote'[u] = wrote[u] /\ step'[u] = step[u]
                                     /\ todo'[u] = todo[u]
        BY <1>0, <2>1 DEF CacheTypeOK
      <4>4. QED
        BY <2>1, <4>2, <4>3, OthersPending
    <3>3. QED
      BY <3>1, <3>2
  <2>4. QED
    BY <2>2, <2>3 DEF CacheInv, Accounted
<1>2. ASSUME NEW w \in Writers, Scan(w) PROVE CacheInv'
  <2>1. /\ step[w] = "committed"
        /\ todo' = [todo EXCEPT ![w] = {k \in Keys : cache[k] # NoReport}]
        /\ step' = [step EXCEPT ![w] = "scanning"]
        /\ UNCHANGED <<version, cache, wrote, lost, reading>>
    BY <1>2 DEF Scan
  <2>2. CacheTypeOK'
    BY <1>0, <2>1 DEF CacheTypeOK, reading
  <2>3. ASSUME NEW k \in Keys, cache'[k] # NoReport,
               NEW v \in Nat, cache'[k].till < v, v <= version'
        PROVE  Pending(k, v)' \/ v \in lost'
    <3>1. Pending(k, v) \/ v \in lost
      BY <1>0, <2>1, <2>3 DEF Accounted
    <3>2. k \in todo'[w] /\ step'[w] = "scanning" /\ wrote'[w] = wrote[w]
      BY <1>0, <2>1, <2>3 DEF CacheTypeOK
    <3>3. \A u \in Writers \ {w} : wrote'[u] = wrote[u] /\ step'[u] = step[u]
                                   /\ todo'[u] = todo[u]
      BY <1>0, <2>1 DEF CacheTypeOK
    <3>4. CASE wrote[w] = v
      BY <3>2, <3>4 DEF Pending
    <3>5. CASE wrote[w] # v
      BY <2>1, <3>1, <3>3, <3>5, OthersPending
    <3>6. QED
      BY <3>4, <3>5
  <2>4. QED
    BY <2>2, <2>3 DEF CacheInv, Accounted
<1>3. ASSUME NEW w \in Writers, NEW d \in Keys, Delete(w, d) PROVE CacheInv'
  <2>1. /\ cache' = [cache EXCEPT ![d] = NoReport]
        /\ todo' = [todo EXCEPT ![w] = @ \ {d}]
        /\ UNCHANGED <<version, step, wrote, lost, reading>>
    BY <1>3 DEF Delete
  <2>2. CacheTypeOK'
    BY <1>0, <2>1 DEF CacheTypeOK, reading
  <2>3. ASSUME NEW k \in Keys, cache'[k] # NoReport,
               NEW v \in Nat, cache'[k].till < v, v <= version'
        PROVE  Pending(k, v)' \/ v \in lost'
    <3>1. k # d /\ cache'[k] = cache[k]
      BY <1>0, <2>1, <2>3 DEF CacheTypeOK
    <3>2. Pending(k, v) \/ v \in lost
      BY <1>0, <2>1, <2>3, <3>1 DEF Accounted
    <3>3. \A u \in Writers : wrote'[u] = wrote[u] /\ step'[u] = step[u]
                             /\ (k \in todo[u] => k \in todo'[u])
      BY <1>0, <2>1, <3>1 DEF CacheTypeOK
    <3>4. QED
      BY <2>1, <3>2, <3>3, StillPending
  <2>4. QED
    BY <2>2, <2>3 DEF CacheInv, Accounted
<1>4. ASSUME NEW w \in Writers, Finish(w) \/ Abandon(w) PROVE CacheInv'
  <2>1. /\ step' = [step EXCEPT ![w] = "done"]
        /\ \/ step[w] = "scanning" /\ todo[w] = {} /\ lost' = lost
           \/ lost' = lost \cup {wrote[w]}
        /\ UNCHANGED <<version, cache, wrote, todo, reading>>
    BY <1>4 DEF Finish, Abandon
  <2>2. CacheTypeOK'
    BY <1>0, <2>1 DEF CacheTypeOK, reading
  <2>3. ASSUME NEW k \in Keys, cache'[k] # NoReport,
               NEW v \in Nat, cache'[k].till < v, v <= version'
        PROVE  Pending(k, v)' \/ v \in lost'
    <3>1. Pending(k, v) \/ v \in lost
      BY <1>0, <2>1, <2>3 DEF Accounted
    <3>2. \A u \in Writers \ {w} : wrote'[u] = wrote[u] /\ step'[u] = step[u]
                                   /\ todo'[u] = todo[u]
      BY <1>0, <2>1 DEF CacheTypeOK
    <3>3. CASE wrote[w] # v \/ v \in lost'
      BY <2>1, <3>1, <3>2, <3>3, OthersPending
    <3>4. CASE wrote[w] = v /\ v \notin lost'
      <4>1. step[w] = "scanning" /\ todo[w] = {} /\ Pending(k, v)
        BY <2>1, <3>1, <3>4
      <4>2. PICK u \in Writers \ {w} :
                /\ wrote[u] = v
                /\ \/ step[u] = "committed"
                   \/ step[u] = "scanning" /\ k \in todo[u]
        BY <4>1 DEF Pending
      <4>3. QED
        BY <3>2, <4>2 DEF Pending
    <3>5. QED
      BY <3>3, <3>4
  <2>4. QED
    BY <2>2, <2>3 DEF CacheInv, Accounted
<1>5. ASSUME NEW r \in Threads,
             Store(r) \/ Discard(r) \/ \E k \in Keys : Begin(r, k)
      PROVE  CacheInv'
  <2>1. /\ \/ cache' = cache
           \/ /\ computing[r] \in Keys
              /\ cache' = [cache EXCEPT ![computing[r]] =
                               [from |-> from[r], till |-> version]]
        /\ UNCHANGED <<version, writing>>
        /\ computing' \in [Threads -> Keys \cup {NoReport}]
        /\ from' \in [Threads -> 0..version]
    BY <1>0, <1>5 DEF Store, Discard, Begin, CacheTypeOK
  <2>2. CacheTypeOK'
    <3>1. [from |-> from[r], till |-> version] \in Report
      BY <1>0 DEF CacheTypeOK, Report
    <3>2. QED
      BY <1>0, <2>1, <3>1 DEF CacheTypeOK, writing
  <2>3. ASSUME NEW k \in Keys, cache'[k] # NoReport,
               NEW v \in Nat, cache'[k].till < v, v <= version'
        PROVE  Pending(k, v)' \/ v \in lost'
    <3>1. cache'[k] = cache[k] \/ cache'[k].till = version
      BY <1>0, <2>1 DEF CacheTypeOK
    <3>2. cache'[k] = cache[k]
      BY <1>0, <2>1, <2>3, <3>1 DEF CacheTypeOK
    <3>3. Pending(k, v) \/ v \in lost
      BY <1>0, <2>1, <2>3, <3>2 DEF Accounted
    <3>4. QED
      BY <2>1, <3>3, StillPending DEF writing
  <2>4. QED
    BY <2>2, <2>3 DEF CacheInv, Accounted
<1>6. ASSUME NEW d \in Keys, Expire(d) PROVE CacheInv'
  <2>1. /\ cache' = [cache EXCEPT ![d] = NoReport]
        /\ UNCHANGED <<version, writing, reading>>
    BY <1>6 DEF Expire
  <2>2. CacheTypeOK'
    BY <1>0, <2>1 DEF CacheTypeOK, reading, writing
  <2>3. ASSUME NEW k \in Keys, cache'[k] # NoReport,
               NEW v \in Nat, cache'[k].till < v, v <= version'
        PROVE  Pending(k, v)' \/ v \in lost'
    <3>1. cache'[k] = cache[k]
      BY <1>0, <2>1, <2>3 DEF CacheTypeOK
    <3>2. Pending(k, v) \/ v \in lost
      BY <1>0, <2>1, <2>3, <3>1 DEF Accounted
    <3>3. QED
      BY <2>1, <3>2, StillPending DEF writing
  <2>4. QED
    BY <2>2, <2>3 DEF CacheInv, Accounted
<1>7. CASE UNCHANGED cacheVars
  BY <1>0, <1>7 DEF CacheInv, CacheTypeOK, Accounted, Pending, cacheVars, writing, reading
<1>8. QED
  BY <1>1, <1>2, <1>3, <1>4, <1>5, <1>6, <1>7 DEF CacheNext

LEMMA AccountedAlways == CacheSpec => []CacheInv
  BY AccountedInit, AccountedStep, PTL DEF CacheSpec

\* The type invariant of the cache and of those who read and invalidate it.
THEOREM CacheTypeCorrect == CacheSpec => []CacheTypeOK
<1>1. CacheInv => CacheTypeOK
  BY DEF CacheInv
<1>2. QED
  BY <1>1, AccountedAlways, PTL

\* A cached report that misses a commit overlapped one, or the commits it misses
\* are all pending or lost, for any number of handlers, readers and reports.
THEOREM StaleAlwaysHasACause == CacheSpec => []StaleHasACause
<1>1. CacheInv => StaleHasACause
  <2> SUFFICES ASSUME CacheInv, NEW k \in Keys, cache[k] # NoReport,
                      cache[k].from = cache[k].till,
                      NEW v \in (cache[k].from + 1)..version
               PROVE  Pending(k, v) \/ v \in lost
    BY DEF StaleHasACause
  <2>1. CacheTypeOK /\ Accounted
    BY DEF CacheInv
  <2>2. cache[k].till \in Nat /\ version \in Nat
    BY <2>1 DEF CacheTypeOK, Report
  <2>3. v \in Nat /\ cache[k].till < v /\ v <= version
    BY <2>2
  <2>4. QED
    BY <2>1, <2>3 DEF Accounted
<1>2. QED
  BY <1>1, AccountedAlways, PTL

\* What the cache holds, and what is being computed for it, is current, and no
\* writer has still to commit.
Fresh ==
    /\ \A w \in Writers : step[w] # "idle"
    /\ \A k \in Keys : cache[k] # NoReport => cache[k].from = version
    /\ \A r \in Threads : computing[r] # NoReport => from[r] = version

\* Once the cache is current and no commit is to come, nothing makes it stale
\* again: no late put, no deletion of another writer, no writer that dies.
THEOREM FreshForGood == CacheSpec => [][Fresh => Fresh']_cacheVars
<1>1. CacheInv /\ [CacheNext]_cacheVars => [Fresh => Fresh']_cacheVars
  <2> SUFFICES ASSUME CacheInv, CacheNext, Fresh PROVE Fresh'
    OBVIOUS
  <2>0. CacheTypeOK
    BY DEF CacheInv
  <2>1. ASSUME NEW w \in Writers, Commit(w) PROVE Fresh'
    BY <2>1 DEF Commit, Fresh
  <2>2. ASSUME NEW w \in Writers, Scan(w) \/ Finish(w) \/ Abandon(w) PROVE Fresh'
    <3>1. /\ UNCHANGED <<version, cache, computing, from>>
          /\ \A x \in Writers : step'[x] = step[x] \/ step'[x] \in {"scanning", "done"}
      BY <2>0, <2>2 DEF Scan, Finish, Abandon, CacheTypeOK, reading
    <3>2. QED
      BY <3>1 DEF Fresh
  <2>3. ASSUME NEW w \in Writers, NEW d \in Keys, Delete(w, d) PROVE Fresh'
    <3>1. /\ UNCHANGED <<version, step, computing, from>>
          /\ \A k \in Keys : cache'[k] \in {cache[k], NoReport}
      BY <2>0, <2>3 DEF Delete, CacheTypeOK, reading
    <3>2. QED
      BY <3>1 DEF Fresh
  <2>4. ASSUME NEW r \in Threads, Store(r) PROVE Fresh'
    <3>1. /\ UNCHANGED <<version, step, from>>
          /\ computing[r] \in Keys /\ from[r] = version
          /\ \A k \in Keys : cache'[k] = IF k = computing[r]
                                         THEN [from |-> from[r], till |-> version]
                                         ELSE cache[k]
          /\ \A u \in Threads : computing'[u] \in {computing[u], NoReport}
      BY <2>0, <2>4 DEF Store, CacheTypeOK, writing, Fresh
    <3>2. QED
      BY <3>1 DEF Fresh
  <2>5. ASSUME NEW r \in Threads, Discard(r) PROVE Fresh'
    <3>1. /\ UNCHANGED <<version, cache, step, from>>
          /\ \A u \in Threads : computing'[u] \in {computing[u], NoReport}
      BY <2>0, <2>5 DEF Discard, CacheTypeOK, writing
    <3>2. QED
      BY <3>1 DEF Fresh
  <2>6. ASSUME NEW r \in Threads, NEW d \in Keys, Begin(r, d) PROVE Fresh'
    <3>1. /\ UNCHANGED <<version, cache, step>>
          /\ from'[r] = version
          /\ \A u \in Threads \ {r} : computing'[u] = computing[u] /\ from'[u] = from[u]
      BY <2>0, <2>6 DEF Begin, CacheTypeOK, writing
    <3>2. QED
      BY <3>1 DEF Fresh
  <2>7. ASSUME NEW d \in Keys, Expire(d) PROVE Fresh'
    <3>1. /\ UNCHANGED <<version, step, computing, from>>
          /\ \A k \in Keys : cache'[k] \in {cache[k], NoReport}
      BY <2>0, <2>7 DEF Expire, CacheTypeOK, reading, writing
    <3>2. QED
      BY <3>1 DEF Fresh
  <2>8. QED
    BY <2>1, <2>2, <2>3, <2>4, <2>5, <2>6, <2>7 DEF CacheNext
<1>2. QED
  BY <1>1, AccountedAlways, PTL DEF CacheSpec
=============================================================================
