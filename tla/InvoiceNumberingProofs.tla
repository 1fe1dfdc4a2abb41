------------------------ MODULE InvoiceNumberingProofs ------------------------
(***************************************************************************)
(* Proofs about InvoiceNumbering, for every set of requests, prefixes and   *)
(* formats, every dating of the calls and whatever the formatting returns.  *)
(***************************************************************************)
EXTENDS InvoiceNumbering, TLAPS

\* The number a request holds is well formed, whichever format was in force.
LEMMA NumberForType ==
    ASSUME NEW t \in TenantRow, NEW day \in Nat, NEW n \in Nat
    PROVE  NumberFor(t, day, n) \in Number /\ NumberFor(t, day, n).sequence = n
BY DEF NumberFor, TenantRow, Number

\* A request that is counting has read the tenant: what it counts from is the
\* row it was shown, or nothing yet, and a natural number either way.
LEMMA SeenType ==
    ASSUME TypeOK, NEW r \in Requests
    PROVE  seen[r].sequence \in Nat /\ tenant.sequence \in Nat
<1>1. seen[r] \in TenantRow \cup {Unread} /\ tenant \in TenantRow
  BY DEF TypeOK
<1>2. Unread.sequence = 0
  BY DEF Unread
<1>3. \A t \in TenantRow : t.sequence \in Nat
  BY DEF TenantRow
<1>4. QED
  BY <1>1, <1>2, <1>3

\* And what it numbers from it is well formed.
LEMMA NumberedType ==
    ASSUME TypeOK, NEW r \in Requests, NEW n \in Nat
    PROVE  /\ NumberFor(seen[r], Day[r], n) \in Number
           /\ NumberFor(seen[r], Day[r], n).sequence = n
<1>1. Day[r] \in Nat
  BY CallsAreDated
<1>2. CASE seen[r] \in TenantRow
  BY <1>1, <1>2, NumberForType
<1>3. CASE seen[r] = Unread
  <2>1. Unread.prefix = "" /\ Unread.format = DefaultFormat
    BY DEF Unread
  <2>2. NumberFor(Unread, Day[r], n) =
            [format |-> DefaultFormat, prefix |-> INV, date |-> Day[r], sequence |-> n]
    BY <2>1 DEF NumberFor
  <2>3. QED
    BY <1>1, <1>3, <2>2 DEF Number
<1>4. QED
  BY <1>2, <1>3 DEF TypeOK

\* Initial states are well typed.
LEMMA TypeInit == Init => TypeOK
<1> SUFFICES ASSUME Init PROVE TypeOK
  OBVIOUS
<1>1. tenant \in TenantRow
  BY DEF Init, TenantRow
<1>2. NoNumber \in Number
  BY DEF NoNumber, Number
<1>4. tenantLock \in Requests \cup {Free} /\ overtaken \in BOOLEAN
  BY DEF Init
<1>5. pc \in [Requests -> Steps] /\ seen \in [Requests -> TenantRow \cup {Unread}]
  BY DEF Init, Steps
<1>6. number \in [Requests -> Number]
  BY <1>2 DEF Init
<1>7. invoices \subseteq InvoiceRow /\ issued \subseteq InvoiceRow
  BY DEF Init
<1>8. QED
  BY <1>1, <1>4, <1>5, <1>6, <1>7 DEF TypeOK

\* Every action, with the counter and the number it writes, keeps the types.
LEMMA TypeStep == TypeOK /\ [Next]_vars => TypeOK'
<1> SUFFICES ASSUME TypeOK, [Next]_vars PROVE TypeOK'
  OBVIOUS
<1> USE DEF TypeOK
<1>1. ASSUME NEW r \in Requests, LoadTenant(r) PROVE TypeOK'
  BY <1>1 DEF LoadTenant, Steps
<1>2. ASSUME NEW r \in Requests, LockTenant(r) PROVE TypeOK'
  BY <1>2 DEF LockTenant, Steps
<1>3. ASSUME NEW r \in Requests, CommitSequence(r) PROVE TypeOK'
  <2> DEFINE next == seen[r].sequence + 1
  <2>1. next \in Nat
    BY SeenType
  <2>2. NumberFor(seen[r], Day[r], next) \in Number
    BY <2>1, NumberedType
  <2>3. tenant' \in TenantRow
    BY <1>3, <2>1 DEF CommitSequence, NextSequence, TenantRow
  <2>4. seen' \in [Requests -> TenantRow \cup {Unread}]
    BY <1>3 DEF CommitSequence
  <2>5. number' \in [Requests -> Number]
    BY <1>3, <2>2 DEF CommitSequence, NextSequence
  <2>6. overtaken' \in BOOLEAN
    BY <1>3 DEF CommitSequence
  <2>7. QED
    BY <1>3, <2>3, <2>4, <2>5, <2>6 DEF CommitSequence, NextSequence, Steps
<1>4. ASSUME NEW r \in Requests, InsertInvoice(r) PROVE TypeOK'
  BY <1>4 DEF InsertInvoice, Steps, InvoiceRow
<1>5. ASSUME NEW r \in Requests, RefuseDuplicate(r) PROVE TypeOK'
  BY <1>5 DEF RefuseDuplicate, Steps
<1>6. ASSUME NEW r \in Requests, AnswerCreated(r) PROVE TypeOK'
  BY <1>6 DEF AnswerCreated, Steps
<1>7. ASSUME NEW r \in Requests, Crash(r) PROVE TypeOK'
  BY <1>7 DEF Crash, Steps
<1>8. CASE Configure
  BY <1>8 DEF Configure, TenantRow
<1>9. CASE DeleteDraft
  BY <1>9 DEF DeleteDraft
<1>10. CASE UNCHANGED vars
  BY <1>10 DEF vars
<1>11. QED
  BY <1>1, <1>2, <1>3, <1>4, <1>5, <1>6, <1>7, <1>8, <1>9, <1>10
     DEF Next, Creation

\* Every reachable state is well typed.
THEOREM TypeCorrect == Spec => []TypeOK
BY TypeInit, TypeStep, PTL DEF Spec

-----------------------------------------------------------------------------

(***************************************************************************)
(* The inductive invariant behind the answers: a request that has generated *)
(* no number holds none, what was ever stored bears the number its request  *)
(* holds, and what is stored was once issued.                               *)
(***************************************************************************)
Before == {"idle", "loaded", "locked"}

\* The row lock is held by the one request between its SELECT ... FOR UPDATE
\* and its commit, and by nobody when that request has died.
LockIsHeldWhileLocked ==
    \A r \in Requests : tenantLock = r <=> pc[r] = "locked"

IssuedByHolders ==
    /\ \A i \in issued : /\ i.number = number[i.by]
                         /\ pc[i.by] \in {"stored", "created", "crashed"}
    /\ \A r \in Requests :
           pc[r] \in {"stored", "created"} => \E i \in issued : i.by = r
    /\ invoices \subseteq issued

RefusedHasRival ==
    \A r \in Requests :
        pc[r] = "refused" =>
            \E i \in issued : i.by # r /\ Text(i.number) = Text(number[r])

NumberingInv ==
    TypeOK /\ LockIsHeldWhileLocked /\ IssuedByHolders /\ RefusedHasRival

\* The invariant holds at the start, no request having done anything.
LEMMA NumberingInvInit == Init => NumberingInv
<1> SUFFICES ASSUME Init PROVE NumberingInv
  OBVIOUS
<1>1. TypeOK
  BY TypeInit
<1>2. LockIsHeldWhileLocked
  BY FreeIsNoRequest DEF Init, LockIsHeldWhileLocked
<1>3. IssuedByHolders /\ RefusedHasRival
  BY DEF Init, IssuedByHolders, RefusedHasRival
<1>4. QED
  BY <1>1, <1>2, <1>3 DEF NumberingInv

\* Every action keeps it.
LEMMA NumberingInvStep == NumberingInv /\ [Next]_vars => NumberingInv'
<1> SUFFICES ASSUME NumberingInv, [Next]_vars PROVE NumberingInv'
  OBVIOUS
<1>t. TypeOK'
  BY TypeStep DEF NumberingInv
<1> USE <1>t DEF NumberingInv
<1>1. ASSUME NEW r \in Requests, LoadTenant(r) PROVE NumberingInv'
  BY <1>1 DEF LoadTenant, TypeOK, LockIsHeldWhileLocked, IssuedByHolders,
              RefusedHasRival, Before, InvoiceRow
<1>2. ASSUME NEW r \in Requests, LockTenant(r) PROVE NumberingInv'
  BY <1>2, FreeIsNoRequest
     DEF LockTenant, TypeOK, LockIsHeldWhileLocked, IssuedByHolders,
         RefusedHasRival, Before, InvoiceRow
<1>3. ASSUME NEW r \in Requests, CommitSequence(r) PROVE NumberingInv'
  <2>1. LockIsHeldWhileLocked'
    BY <1>3, FreeIsNoRequest DEF CommitSequence, NextSequence, TypeOK, LockIsHeldWhileLocked
  <2>2. \A s \in Requests \ {r} : number'[s] = number[s] /\ pc'[s] = pc[s]
    BY <1>3 DEF CommitSequence, NextSequence, TypeOK
  <2>3. /\ pc[r] = "locked" /\ pc'[r] = "numbered"
        /\ issued' = issued /\ invoices' = invoices
    BY <1>3 DEF CommitSequence, NextSequence, TypeOK
  <2>4. \A i \in issued : i.by \in Requests \ {r}
    BY <2>3 DEF TypeOK, InvoiceRow, IssuedByHolders
  <2>5. IssuedByHolders'
    BY <2>2, <2>3, <2>4 DEF IssuedByHolders
  <2>6. RefusedHasRival'
    BY <2>2, <2>3 DEF RefusedHasRival
  <2>7. QED
    BY <2>1, <2>5, <2>6
<1>4. ASSUME NEW r \in Requests, InsertInvoice(r) PROVE NumberingInv'
  <2> DEFINE row == [by |-> r, number |-> number[r]]
  <2>1. /\ issued' = issued \cup {row} /\ invoices' = invoices \cup {row}
        /\ row.by = r /\ row.number = number[r] /\ number' = number
        /\ pc[r] = "numbered" /\ pc'[r] = "stored"
        /\ \A s \in Requests \ {r} : pc'[s] = pc[s]
    BY <1>4 DEF InsertInvoice, TypeOK
  <2> HIDE DEF row
  <2>2. \A i \in issued : i.by \in Requests \ {r}
    BY <2>1 DEF TypeOK, InvoiceRow, IssuedByHolders
  <2>3. IssuedByHolders'
    BY <2>1, <2>2 DEF IssuedByHolders
  <2>4. LockIsHeldWhileLocked' /\ RefusedHasRival'
    BY <1>4 DEF InsertInvoice, TypeOK, LockIsHeldWhileLocked, RefusedHasRival
  <2>5. QED
    BY <2>3, <2>4
<1>5. ASSUME NEW r \in Requests, RefuseDuplicate(r) PROVE NumberingInv'
  <2>1. PICK i \in invoices : Text(i.number) = Text(number[r])
    BY <1>5 DEF RefuseDuplicate, Taken
  <2>2. /\ i \in issued
        /\ i.by \in Requests
        /\ pc[i.by] \in {"stored", "created", "crashed"}
    BY <2>1 DEF IssuedByHolders, TypeOK, InvoiceRow
  <2>3. i.by # r
    BY <1>5, <2>2 DEF RefuseDuplicate
  <2>4. RefusedHasRival'
    BY <1>5, <2>1, <2>2, <2>3 DEF RefuseDuplicate, RefusedHasRival, TypeOK
  <2>5. LockIsHeldWhileLocked' /\ IssuedByHolders'
    BY <1>5 DEF RefuseDuplicate, LockIsHeldWhileLocked, IssuedByHolders, TypeOK,
                InvoiceRow
  <2>6. QED
    BY <2>4, <2>5
<1>6. ASSUME NEW r \in Requests, AnswerCreated(r) PROVE NumberingInv'
  BY <1>6 DEF AnswerCreated, TypeOK, LockIsHeldWhileLocked, IssuedByHolders,
              RefusedHasRival, Before, InvoiceRow
<1>7. ASSUME NEW r \in Requests, Crash(r) PROVE NumberingInv'
  BY <1>7, FreeIsNoRequest
     DEF Crash, Answered, TypeOK, LockIsHeldWhileLocked, IssuedByHolders,
         RefusedHasRival, Before, InvoiceRow
<1>8. CASE Configure
  BY <1>8 DEF Configure, LockIsHeldWhileLocked, IssuedByHolders, RefusedHasRival
<1>9. CASE DeleteDraft
  BY <1>9 DEF DeleteDraft, LockIsHeldWhileLocked, IssuedByHolders, RefusedHasRival
<1>10. CASE UNCHANGED vars
  BY <1>10 DEF vars, LockIsHeldWhileLocked, IssuedByHolders, RefusedHasRival
<1>11. QED
  BY <1>1, <1>2, <1>3, <1>4, <1>5, <1>6, <1>7, <1>8, <1>9, <1>10
     DEF Next, Creation

\* The invariant holds throughout.
LEMMA NumberingInvariant == Spec => []NumberingInv
BY NumberingInvInit, NumberingInvStep, PTL DEF Spec

\* A caller is told 201 only when its invoice was stored under the number it
\* generated, and 400 only when it never was and another call's invoice bore the
\* text of its number.
THEOREM AnswersAgree == Spec => []AnswerMatchesTable
<1>1. NumberingInv => AnswerMatchesTable
  BY DEF NumberingInv, TypeOK, IssuedByHolders, RefusedHasRival,
         AnswerMatchesTable, InvoiceRow
<1>2. QED
  BY <1>1, NumberingInvariant, PTL

\* The row lock follows the transaction that took it, through crashes too.
THEOREM LockFollowsTransaction == Spec => []LockIsHeldWhileLocked
BY NumberingInvariant, PTL DEF NumberingInv

-----------------------------------------------------------------------------

\* An invoice stored is an entry printed, and what leaves the table as it is leaves
\* the printed book as it is.
Entry(i) == [by |-> i.by, number |-> Text(i.number)]

LEMMA PrintedStep ==
    /\ Printed = {Entry(i) : i \in invoices}
    /\ Printed' = {Entry(i) : i \in invoices'}
    /\ \A i : Entry(i).by = i.by /\ Entry(i).number = Text(i.number)
BY DEF Printed, Entry, Text

\* Each step of a creation, seen through Outcome and Printed, is a step of the
\* book of invoices or leaves it as it is.
LEMMA BookStep == NumberingInv /\ [Next]_vars => [Book!Next]_(Book!vars)
<1> SUFFICES ASSUME NumberingInv, [Next]_vars PROVE [Book!Next]_(Book!vars)
  OBVIOUS
<1> USE DEF NumberingInv, Book!Next, Book!vars
<1>0. invoices' = invoices => Printed' = Printed
  BY PrintedStep
<1>1. ASSUME NEW r \in Requests, LoadTenant(r) PROVE UNCHANGED Book!vars
  BY <1>0, <1>1 DEF LoadTenant, TypeOK, Outcome
<1>2. ASSUME NEW r \in Requests, LockTenant(r) PROVE UNCHANGED Book!vars
  BY <1>0, <1>2 DEF LockTenant, TypeOK, Outcome
<1>3. ASSUME NEW r \in Requests, CommitSequence(r) PROVE UNCHANGED Book!vars
  BY <1>0, <1>3 DEF CommitSequence, NextSequence, TypeOK, Outcome
<1>4. ASSUME NEW r \in Requests, InsertInvoice(r) PROVE Book!Enter(r)
  <2> DEFINE row == [by |-> r, number |-> number[r]]
             e == Entry(row)
  <2>1. invoices' = invoices \cup {row} /\ row.by = r /\ row.number = number[r]
    BY <1>4 DEF InsertInvoice
  <2> HIDE DEF row
  <2>2. Printed' = Printed \cup {e} /\ e.by = r /\ e.number = Text(number[r])
    BY <2>1, PrintedStep
  <2>3. \A d \in Printed : d.number # e.number
    BY <1>4, <2>2, PrintedStep DEF InsertInvoice, Taken
  <2>4. Outcome[r] = "pending" /\ Outcome' = [Outcome EXCEPT ![r] = "entered"]
    BY <1>4 DEF InsertInvoice, TypeOK, Outcome
  <2> HIDE DEF e
  <2>5. e \in Printed' \ Printed
    BY <2>2, <2>3
  <2>6. QED
    BY <2>2, <2>3, <2>4, <2>5 DEF Book!Enter
<1>5. ASSUME NEW r \in Requests, RefuseDuplicate(r) PROVE Book!Refuse(r)
  <2>1. PICK i \in invoices : Text(i.number) = Text(number[r])
    BY <1>5 DEF RefuseDuplicate, Taken
  <2>2. i.by # r
    BY <1>5, <2>1 DEF RefuseDuplicate, IssuedByHolders
  <2>3. Outcome[r] = "pending" /\ Outcome' = [Outcome EXCEPT ![r] = "refused"]
    BY <1>5 DEF RefuseDuplicate, TypeOK, Outcome
  <2>4. Entry(i) \in Printed /\ Entry(i).by # r
    BY <2>1, <2>2, PrintedStep
  <2>5. UNCHANGED Printed
    BY <1>0, <1>5 DEF RefuseDuplicate
  <2>6. QED
    BY <2>3, <2>4, <2>5 DEF Book!Refuse
<1>6. ASSUME NEW r \in Requests, AnswerCreated(r) PROVE Book!Confirm(r)
  BY <1>0, <1>6 DEF AnswerCreated, TypeOK, Outcome, Book!Confirm
<1>7. ASSUME NEW r \in Requests, Crash(r) PROVE Book!Lose(r)
  <2>1. Outcome' = [Outcome EXCEPT ![r] = "lost"]
    BY <1>7 DEF Crash, TypeOK, Outcome
  <2>2. Outcome[r] \in {"pending", "entered"}
    BY <1>7 DEF Crash, Answered, TypeOK, Outcome
  <2>3. QED
    BY <1>0, <1>7, <2>1, <2>2 DEF Crash, Book!Lose
<1>8. CASE Configure
  BY <1>0, <1>8 DEF Configure, Outcome
<1>9. ASSUME DeleteDraft PROVE \E e \in Printed : Book!Void(e)
  <2>1. PICK i \in invoices : invoices' = invoices \ {i}
    BY <1>9 DEF DeleteDraft
  <2>2. \A j \in invoices : Entry(j) = Entry(i) => j = i
    <3>1. \A j \in invoices : j \in InvoiceRow /\ j.number = number[j.by]
      BY DEF TypeOK, IssuedByHolders
    <3>2. \A j \in invoices : Entry(j) = Entry(i) => j.by = i.by
      BY PrintedStep
    <3>3. QED
      BY <2>1, <3>1, <3>2 DEF InvoiceRow
  <2>3. Entry(i) \in Printed /\ Printed' = Printed \ {Entry(i)}
    BY <2>1, <2>2, PrintedStep
  <2>4. UNCHANGED Outcome
    BY <1>9 DEF DeleteDraft, Outcome
  <2>5. QED
    BY <2>3, <2>4 DEF Book!Void
<1>10. CASE UNCHANGED vars
  BY <1>0, <1>10 DEF vars, Outcome
<1>11. QED
  BY <1>1, <1>2, <1>3, <1>4, <1>5, <1>6, <1>7, <1>8, <1>9, <1>10
     DEF Next, Creation

\* Numbering implements the book of invoices: no two entries with one number,
\* and answers that agree with the entries.
THEOREM NumberingImplementsBook == Spec => ImplementsBook
<1>1. Init => Book!Init
  BY DEF Init, Book!Init, Outcome, Printed
<1>2. QED
  BY <1>1, BookStep, NumberingInvariant, PTL DEF Spec, ImplementsBook, Book!Spec

-----------------------------------------------------------------------------

(***************************************************************************)
(* As long as every commit of the counter was counted from the row's        *)
(* present value, no number is ahead of the counter and no two are equal.   *)
(***************************************************************************)
CountedOnce ==
    /\ \A r \in Requests : number[r].sequence <= tenant.sequence
    /\ \A r, s \in Requests :
           number[r].sequence = number[s].sequence /\ number[r] # NoNumber => r = s

CounterInv ==
    /\ \A r \in Requests : pc[r] \in Before => number[r] = NoNumber
    /\ \A r \in Requests : number[r] # NoNumber => number[r].sequence > 0
    /\ \A r \in Requests : pc[r] = "numbered" => number[r] # NoNumber
    /\ \A i \in issued : i.number # NoNumber
    /\ overtaken \/ CountedOnce

\* At the start no number exists.
LEMMA CounterInvInit == Init => CounterInv
BY DEF Init, CounterInv, CountedOnce, NoNumber

\* Only CommitSequence moves the counter or a number: from a value that is not
\* overtaken it moves both past all others.
LEMMA CounterInvStep == NumberingInv /\ CounterInv /\ [Next]_vars => CounterInv'
<1> SUFFICES ASSUME NumberingInv, CounterInv, [Next]_vars PROVE CounterInv'
  OBVIOUS
<1> TypeOK /\ TypeOK'
  BY NumberingInvStep DEF NumberingInv
<1>1. ASSUME NEW r \in Requests, LoadTenant(r) PROVE CounterInv'
  BY <1>1 DEF LoadTenant, TypeOK, CounterInv, CountedOnce, Before
<1>2. ASSUME NEW r \in Requests, LockTenant(r) PROVE CounterInv'
  BY <1>2 DEF LockTenant, TypeOK, CounterInv, CountedOnce, Before
<1>3. ASSUME NEW r \in Requests, CommitSequence(r) PROVE CounterInv'
  <2> DEFINE next == seen[r].sequence + 1
  <2>1. /\ pc[r] = "locked" /\ pc'[r] = "numbered"
        /\ tenant'.sequence = next /\ issued' = issued
        /\ number'[r] = NumberFor(seen[r], Day[r], next)
        /\ overtaken' = (overtaken \/ seen[r].sequence # tenant.sequence)
        /\ \A s \in Requests \ {r} : number'[s] = number[s] /\ pc'[s] = pc[s]
    BY <1>3 DEF CommitSequence, NextSequence, TypeOK, TenantRow
  <2>2. /\ tenant.sequence \in Nat /\ next \in Nat /\ next > 0
        /\ \A s \in Requests : number[s].sequence \in Nat
    BY SeenType DEF TypeOK, Number
  <2>3. number'[r].sequence = next
    BY <2>1, <2>2, NumberedType
  <2>4. number'[r] # NoNumber
    BY <2>2, <2>3 DEF NoNumber
  <2>5. ASSUME ~overtaken' PROVE CountedOnce'
    <3>1. ~overtaken /\ next = tenant.sequence + 1
      BY <2>1, <2>5
    <3>2. \A s \in Requests \ {r} : number'[s].sequence < next
      BY <2>1, <2>2, <3>1 DEF CounterInv, CountedOnce
    <3> HIDE DEF next
    <3>3. QED
      BY <2>1, <2>2, <2>3, <2>4, <3>1, <3>2 DEF CounterInv, CountedOnce
  <2> HIDE DEF next
  <2>6. QED
    BY <2>1, <2>2, <2>3, <2>4, <2>5 DEF CounterInv, Before
<1>4. ASSUME NEW r \in Requests, InsertInvoice(r) PROVE CounterInv'
  BY <1>4 DEF InsertInvoice, TypeOK, CounterInv, CountedOnce, Before
<1>5. ASSUME NEW r \in Requests, RefuseDuplicate(r) PROVE CounterInv'
  BY <1>5 DEF RefuseDuplicate, TypeOK, CounterInv, CountedOnce, Before
<1>6. ASSUME NEW r \in Requests, AnswerCreated(r) PROVE CounterInv'
  BY <1>6 DEF AnswerCreated, TypeOK, CounterInv, CountedOnce, Before
<1>7. ASSUME NEW r \in Requests, Crash(r) PROVE CounterInv'
  BY <1>7 DEF Crash, TypeOK, CounterInv, CountedOnce, Before
<1>8. CASE Configure
  BY <1>8 DEF Configure, TypeOK, TenantRow, CounterInv, CountedOnce
<1>9. CASE DeleteDraft
  BY <1>9 DEF DeleteDraft, CounterInv, CountedOnce
<1>10. CASE UNCHANGED vars
  BY <1>10 DEF vars, CounterInv, CountedOnce
<1>11. QED
  BY <1>1, <1>2, <1>3, <1>4, <1>5, <1>6, <1>7, <1>8, <1>9, <1>10
     DEF Next, Creation

\* Both invariants hold throughout.
LEMMA CounterInvariant == Spec => [](NumberingInv /\ CounterInv)
BY CounterInvInit, CounterInvStep, NumberingInvInit, NumberingInvStep, PTL DEF Spec

\* Two calls of generate_invoice_number count on to the same value only after some
\* call has counted on from an overtaken tenant object, whatever the settings and
\* the formatting are.
THEOREM CountsDiffer ==
    Spec => [](overtaken \/ \A r, s \in Generated :
                   number[r].sequence = number[s].sequence => r = s)
<1>1. CounterInv => (overtaken \/ \A r, s \in Generated :
                         number[r].sequence = number[s].sequence => r = s)
  BY DEF CounterInv, CountedOnce, Generated
<1>2. QED
  BY <1>1, CounterInvariant, PTL

\* Where the tenant's formats tell the counter values, two calls return one text
\* only then, or under settings that differ.
THEOREM NumbersDiffer == TextTellsSequence => (Spec => []DifferUnlessOvertaken)
<1> SUFFICES ASSUME TextTellsSequence PROVE Spec => []DifferUnlessOvertaken
  OBVIOUS
<1>1. NumberingInv /\ CounterInv => DifferUnlessOvertaken
  BY DEF NumberingInv, TypeOK, CounterInv, CountedOnce, DifferUnlessOvertaken,
         Generated, TextTellsSequence
<1>2. QED
  BY <1>1, CounterInvariant, PTL

\* And only then is a text printed on two invoices, whatever drafts are deleted.
THEOREM NumbersAreNotReissued == TextTellsSequence => (Spec => []NeverReissued)
<1> SUFFICES ASSUME TextTellsSequence PROVE Spec => []NeverReissued
  OBVIOUS
<1>1. NumberingInv /\ CounterInv => NeverReissued
  <2> SUFFICES ASSUME NumberingInv, CounterInv, ~overtaken,
                      NEW i \in issued, NEW j \in issued,
                      SettingsOf(i.number) = SettingsOf(j.number),
                      Text(i.number) = Text(j.number)
               PROVE  i = j
    BY DEF NeverReissued
  <2>1. /\ i \in InvoiceRow /\ j \in InvoiceRow
        /\ number[i.by] = i.number /\ number[j.by] = j.number
    BY DEF NumberingInv, IssuedByHolders, TypeOK
  <2>2. i.number # NoNumber
    BY DEF CounterInv
  <2>3. i.number.sequence = j.number.sequence
    BY <2>1 DEF TextTellsSequence, InvoiceRow
  <2>4. i.by = j.by
    BY <2>1, <2>2, <2>3 DEF CounterInv, CountedOnce, InvoiceRow
  <2>5. QED
    BY <2>1, <2>4 DEF InvoiceRow
<1>2. QED
  BY <1>1, CounterInvariant, PTL

\* No two invoices of the tenant's table ever bear the same text, whatever the
\* counter, the settings and the formatting do and whichever calls overtake, retry
\* or die: the book promises it, and the table implements the book.
THEOREM TableHasNoDuplicate ==
    Spec => [](\A d, e \in Printed : d.number = e.number => d = e)
<1> DEFINE Unique == \A d, e \in Printed : d.number = e.number => d = e
<1>1. Book!Init => Unique
  BY DEF Book!Init
<1>2. Unique /\ [Book!Next]_(Book!vars) => Unique'
  <2> SUFFICES ASSUME Unique, [Book!Next]_(Book!vars) PROVE Unique'
    OBVIOUS
  <2>1. CASE Printed' \subseteq Printed
    BY <2>1
  <2>2. ASSUME NEW r \in Requests, Book!Enter(r) PROVE Unique'
    BY <2>2 DEF Book!Enter
  <2>3. QED
    BY <2>1, <2>2 DEF Book!Next, Book!Confirm, Book!Refuse, Book!Lose, Book!Void, Book!vars
<1>3. Unique => \A d, e \in Printed : d.number = e.number => d = e
  OBVIOUS
<1> HIDE DEF Unique
<1>4. QED
  BY <1>1, <1>2, <1>3, NumberingImplementsBook, PTL DEF ImplementsBook, Book!Spec
=============================================================================
