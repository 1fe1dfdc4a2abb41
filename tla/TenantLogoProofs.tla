-------------------------- MODULE TenantLogoProofs --------------------------
(***************************************************************************)
(* Proofs about TenantLogo, for every set of request slots and extensions.  *)
(***************************************************************************)
EXTENDS TenantLogo, TLAPS

\* What a request knows, by its step.
SlotsFit ==
    \A r \in Requests :
        /\ pc[r] \in {"first", "second", "committing"} => ext[r] \in Extensions
        /\ pc[r] # "idle" /\ kind[r] = "upload" => ext[r] \in Extensions
        /\ pc[r] = "unlinking" => at[r] \in todo[r]
        /\ linked[r] => pc[r] \in {"first", "second"}
        /\ linked[r] => files[ext[r]] # None

\* A file that is not spoilt has one writer at most, who has written what it
\* has copied, and is whole when it has none.
WritersFit ==
    \A e \in Extensions \ spoilt :
        /\ \A r, s \in Requests :
               linked[r] /\ linked[s] /\ ext[r] = e /\ ext[s] = e => r = s
        /\ \A r \in Requests :
               linked[r] /\ ext[r] = e /\ pc[r] = "second" => files[e][1] = r
        /\ files[e] # None /\ (\A r \in Requests : linked[r] => ext[r] # e)
               => Whole(files[e])

\* A request under way that may have changed something.
Running == {"looking", "unlinking", "first", "second", "committing"}

\* How far a request that has the logo for itself has come.
Progress(r) ==
    /\ \A s \in Requests : s # r => pc[s] = "idle"
    /\ row = loaded[r]
    /\ pc[r] \in {"validating", "looking", "unlinking"} =>
           \A e \in Extensions : e \notin todo[r] => files[e] = None
    /\ pc[r] \in {"first", "second", "committing"} =>
           \A e \in Extensions : e # ext[r] => files[e] = None
    /\ pc[r] \in {"first", "second"} => linked[r] /\ files[ext[r]] # None
    /\ pc[r] = "second" => files[ext[r]][1] = r
    /\ pc[r] = "committing" => files[ext[r]] # None /\ Whole(files[ext[r]])

\* An undisturbed request makes progress; without a mess, and with nothing
\* running, all is tidy.
MessInv == /\ \A r \in Requests : alone[r] => pc[r] # "idle" /\ Progress(r)
           /\ mess \/ Tidy \/ \E r \in Requests : pc[r] \in Running

LogoInv == TypeOK /\ SlotsFit /\ WritersFit /\ MessInv

-----------------------------------------------------------------------------

\* At the start there is no logo and no request.
LEMMA LogoInit == Init => LogoInv
<1> SUFFICES ASSUME Init PROVE LogoInv
  OBVIOUS
<1> USE NoneIsNothing
<1>1. TypeOK
  BY DEF Init, TypeOK, Steps
<1>2. SlotsFit /\ WritersFit
  BY DEF Init, SlotsFit, WritersFit
<1>3. MessInv
  BY DEF Init, MessInv, Tidy
<1>4. QED
  BY <1>1, <1>2, <1>3 DEF LogoInv

\* Every step is that of a request; all the ways to break off change the same.
Begin(r) == \/ \E e \in Extensions : Enter(r, "validating", "upload", e)
            \/ row # None /\ Enter(r, "looking", "delete", None)
LEMMA StepNames ==
    ASSUME TypeOK, Next
    PROVE  \E r \in Requests :
               \/ Begin(r) \/ Reject(r) \/ Accept(r) \/ Look(r) \/ Unlink(r)
               \/ Open(r) \/ CopyFirst(r) \/ CopySecond(r)
               \/ CommitLogo(r) \/ CommitDelete(r)
               \/ pc[r] \in Running /\ BreakOff(r)
<1>1. PICK r \in Requests : Handle(r)
  BY DEF Next
<1>2. ASSUME UnlinkFails(r) \/ DiskFails(r) \/ CommitFails(r) \/ Crash(r)
      PROVE  pc[r] \in Running /\ BreakOff(r)
  BY <1>2 DEF UnlinkFails, DiskFails, CommitFails, Crash, Running, TypeOK, Steps
<1>3. QED
  BY <1>1, <1>2 DEF Handle, BeginUpload, BeginDelete, Begin

\* Every action keeps the types.
LEMMA TypeStep == TypeOK /\ SlotsFit /\ [Next]_vars => TypeOK'
<1> SUFFICES ASSUME TypeOK, SlotsFit, [Next]_vars PROVE TypeOK'
  OBVIOUS
<1>1. CASE UNCHANGED vars
  BY <1>1 DEF TypeOK, vars, requestVars
<1>2. ASSUME NEW r \in Requests, Begin(r) PROVE TypeOK'
  <2>1. alone' \in [Requests -> BOOLEAN]
    <3>1. alone' = [s \in Requests |-> s = r /\ \A q \in Requests : pc[q] = "idle"]
      BY <1>2 DEF Begin, Enter
    <3>2. QED
      BY <3>1, Zenon
  <2>2. QED
    BY <1>2, <2>1 DEF Begin, Enter, Goto, TypeOK, Steps
<1>3. ASSUME NEW r \in Requests, Reject(r) \/ CommitLogo(r) \/ CommitDelete(r) PROVE TypeOK'
  <2>1. Leave(r) /\ files' = files /\ spoilt' = spoilt /\ mess' \in BOOLEAN
    BY <1>3 DEF Reject, CommitLogo, CommitDelete, TypeOK
  <2>2. row' \in Extensions \cup {None}
    BY <1>3 DEF Reject, CommitLogo, CommitDelete, Named, TypeOK, SlotsFit
  <2>3. QED
    BY <2>1, <2>2 DEF Leave, Goto, TypeOK, Steps
<1>4. ASSUME NEW r \in Requests, Accept(r) PROVE TypeOK'
  BY <1>4 DEF Accept, Goto, TypeOK, Steps
<1>5. ASSUME NEW r \in Requests, Look(r) PROVE TypeOK'
  BY <1>5 DEF Look, Goto, TypeOK, Steps
<1>6. ASSUME NEW r \in Requests, Unlink(r) PROVE TypeOK'
  BY <1>6 DEF Unlink, Goto, TypeOK, Steps
<1>7. ASSUME NEW r \in Requests, Open(r) PROVE TypeOK'
  <2>1. ext[r] \in Extensions /\ Empty \in File
    BY <1>7 DEF Open, SlotsFit, Empty, File
  <2>2. QED
    BY <1>7, <2>1 DEF Open, Goto, TypeOK, Steps
<1>8. ASSUME NEW r \in Requests, NEW c \in Chunks, Write(r, c) PROVE files' \in [Extensions -> File \cup {None}]
  <2>1. CASE linked[r]
    <3>1. ext[r] \in Extensions /\ files[ext[r]] \in File
      BY <2>1 DEF SlotsFit, TypeOK
    <3>2. [files[ext[r]] EXCEPT ![c] = r] \in File
      BY <3>1 DEF File
    <3>3. QED
      BY <1>8, <2>1, <3>2 DEF Write, TypeOK
  <2>2. QED
    BY <1>8, <2>1 DEF Write, TypeOK
<1>9. ASSUME NEW r \in Requests, CopyFirst(r) PROVE TypeOK'
  BY <1>9, <1>8 DEF CopyFirst, Goto, TypeOK, Steps, Chunks
<1>10. ASSUME NEW r \in Requests, CopySecond(r) PROVE TypeOK'
  BY <1>10, <1>8 DEF CopySecond, Goto, TypeOK, Steps, Chunks
<1>11. ASSUME NEW r \in Requests, BreakOff(r) PROVE TypeOK'
  BY <1>11 DEF BreakOff, Leave, Goto, TypeOK, Steps, SlotsFit
<1>12. QED
  BY <1>1, <1>2, <1>3, <1>4, <1>5, <1>6, <1>7, <1>9, <1>10, <1>11, StepNames

\* Every action keeps what the requests know.
LEMMA FitStep == TypeOK /\ SlotsFit /\ [Next]_vars => SlotsFit'
<1> SUFFICES ASSUME TypeOK, SlotsFit, [Next]_vars PROVE SlotsFit'
  OBVIOUS
<1>1. CASE UNCHANGED vars
  BY <1>1 DEF SlotsFit, vars, requestVars
<1>2. ASSUME NEW r \in Requests, Begin(r) PROVE SlotsFit'
  BY <1>2 DEF Begin, Enter, Goto, TypeOK, SlotsFit
<1>3. ASSUME NEW r \in Requests, Leave(r), files' = files PROVE SlotsFit'
  BY <1>3 DEF Leave, Goto, TypeOK, SlotsFit
<1>4. ASSUME NEW r \in Requests, Accept(r) PROVE SlotsFit'
  BY <1>4 DEF Accept, Goto, TypeOK, SlotsFit
<1>5. ASSUME NEW r \in Requests, Look(r) PROVE SlotsFit'
  BY <1>5 DEF Look, Goto, TypeOK, SlotsFit
<1>6. ASSUME NEW r \in Requests, Unlink(r) PROVE SlotsFit'
  BY <1>6 DEF Unlink, Goto, TypeOK, SlotsFit
<1>7. ASSUME NEW r \in Requests, Open(r) PROVE SlotsFit'
  <2>1. ext[r] \in Extensions /\ Empty # None
    BY <1>7, NoneIsNothing DEF Open, SlotsFit, Empty, File
  <2>2. QED
    BY <1>7, <2>1 DEF Open, Goto, TypeOK, SlotsFit
<1>8. ASSUME NEW r \in Requests, NEW c \in Chunks, Write(r, c), NEW e \in Extensions,
             files[e] # None
      PROVE  files'[e] # None
  <2>1. CASE linked[r] /\ e = ext[r]
    <3>1. [files[e] EXCEPT ![c] = r] \in File
      BY <1>8 DEF File, TypeOK
    <3>2. files'[e] = [files[e] EXCEPT ![c] = r]
      BY <1>8, <2>1 DEF Write, TypeOK
    <3>3. QED
      BY <3>1, <3>2, NoneIsNothing
  <2>2. QED
    BY <1>8, <2>1 DEF Write, TypeOK
<1>9. ASSUME NEW r \in Requests, CopyFirst(r) PROVE SlotsFit'
  BY <1>9, <1>8 DEF CopyFirst, Goto, TypeOK, SlotsFit, Chunks
<1>10. ASSUME NEW r \in Requests, CopySecond(r) PROVE SlotsFit'
  BY <1>10, <1>8 DEF CopySecond, Goto, TypeOK, SlotsFit, Chunks
<1>11. ASSUME NEW r \in Requests,
              Reject(r) \/ CommitLogo(r) \/ CommitDelete(r) \/ BreakOff(r)
       PROVE  SlotsFit'
  BY <1>11, <1>3 DEF Reject, CommitLogo, CommitDelete, BreakOff
<1>12. QED
  BY <1>1, <1>2, <1>4, <1>5, <1>6, <1>7, <1>9, <1>10, <1>11, StepNames

\* A chunk is written into the writer's file and into no other.
LEMMA WriteFile ==
    ASSUME TypeOK, SlotsFit, NEW r \in Requests, NEW c \in Chunks, Write(r, c),
           NEW e \in Extensions
    PROVE  /\ ~linked[r] \/ ext[r] # e => files'[e] = files[e]
           /\ linked[r] /\ ext[r] = e =>
                  /\ files[e] \in File /\ files'[e] \in File /\ files'[e] # None
                  /\ files'[e][c] = r
                  /\ \A d \in Chunks : d # c => files'[e][d] = files[e][d]
<1>1. CASE linked[r] /\ ext[r] = e
  <2>1. files[e] \in File
    BY <1>1 DEF SlotsFit, TypeOK
  <2>2. files'[e] = [files[e] EXCEPT ![c] = r]
    BY <1>1 DEF Write, TypeOK
  <2>3. QED
    BY <1>1, <2>1, <2>2, NoneIsNothing DEF File
<1>2. CASE ~(linked[r] /\ ext[r] = e)
  BY <1>2 DEF Write, TypeOK
<1>3. QED
  BY <1>1, <1>2

\* Every action keeps what the files owe to their writers.
LEMMA WritersStep == TypeOK /\ SlotsFit /\ WritersFit /\ [Next]_vars => WritersFit'
<1> SUFFICES ASSUME TypeOK, SlotsFit, WritersFit, [Next]_vars PROVE WritersFit'
  OBVIOUS
<1>1. CASE UNCHANGED vars
  BY <1>1 DEF WritersFit, Whole, vars, requestVars
<1>2. ASSUME NEW r \in Requests, Begin(r) \/ Accept(r) \/ Look(r) PROVE WritersFit'
  <2>1. /\ UNCHANGED <<files, spoilt, linked>>
        /\ ~linked[r] /\ \A s \in Requests \ {r} : ext'[s] = ext[s] /\ pc'[s] = pc[s]
    BY <1>2 DEF Begin, Enter, Accept, Look, Goto, TypeOK, SlotsFit
  <2>2. QED
    BY <2>1 DEF WritersFit, Whole
<1>3. ASSUME NEW r \in Requests, Leave(r), files' = files,
             IF linked[r] THEN spoilt' = spoilt \cup {ext[r]} ELSE spoilt' = spoilt
      PROVE  WritersFit'
  <2>1. /\ linked' = [linked EXCEPT ![r] = FALSE]
        /\ \A s \in Requests \ {r} : ext'[s] = ext[s] /\ pc'[s] = pc[s]
    BY <1>3 DEF Leave, Goto, TypeOK
  <2>2. QED
    BY <1>3, <2>1 DEF WritersFit, Whole, TypeOK
<1>4. ASSUME NEW r \in Requests, Reject(r) \/ CommitLogo(r) \/ CommitDelete(r) \/ BreakOff(r)
      PROVE  WritersFit'
  BY <1>4, <1>3 DEF Reject, CommitLogo, CommitDelete, BreakOff, SlotsFit
<1>5. ASSUME NEW r \in Requests, Unlink(r) PROVE WritersFit'
  <2>1. /\ files' = [files EXCEPT ![at[r]] = None]
        /\ \A s \in Requests : linked'[s] <=> linked[s] /\ ext[s] # at[r]
        /\ \A s \in Requests : linked'[s] => pc'[s] = pc[s]
        /\ spoilt' = spoilt \ {at[r]} /\ ext' = ext
    BY <1>5 DEF Unlink, Goto, TypeOK, SlotsFit
  <2>2. QED
    BY <2>1 DEF WritersFit, Whole, TypeOK
<1>6. ASSUME NEW r \in Requests, Open(r) PROVE WritersFit'
  <2>1. /\ files' = [files EXCEPT ![ext[r]] = Empty]
        /\ linked' = [linked EXCEPT ![r] = TRUE] /\ ~linked[r]
        /\ pc' = [pc EXCEPT ![r] = "first"] /\ ext' = ext
        /\ spoilt \subseteq spoilt'
        /\ ext[r] \notin spoilt' => \A s \in Requests : linked[s] => ext[s] # ext[r]
    BY <1>6 DEF Open, Goto, SlotsFit, TypeOK
  <2>2. QED
    BY <2>1 DEF WritersFit, Whole, TypeOK
<1>7. ASSUME NEW r \in Requests, CopyFirst(r) PROVE WritersFit'
  <2>1. /\ pc' = [pc EXCEPT ![r] = "second"]
        /\ UNCHANGED <<linked, ext, spoilt>> /\ Write(r, 1) /\ 1 \in Chunks
    BY <1>7 DEF CopyFirst, Goto, Chunks
  <2>2. \A e \in Extensions : \/ files'[e] = files[e] /\ (~linked[r] \/ ext[r] # e)
                              \/ linked[r] /\ ext[r] = e /\ files'[e][1] = r
    BY <2>1, WriteFile
  <2>3. QED
    BY <2>1, <2>2 DEF WritersFit, Whole, TypeOK
<1>8. ASSUME NEW r \in Requests, CopySecond(r) PROVE WritersFit'
  <2>1. /\ pc' = [pc EXCEPT ![r] = "committing"] /\ pc[r] = "second"
        /\ linked' = [linked EXCEPT ![r] = FALSE]
        /\ UNCHANGED <<ext, spoilt>> /\ Write(r, 2) /\ 2 \in Chunks
    BY <1>8 DEF CopySecond, Goto, Chunks
  <2>2. \A e \in Extensions :
            \/ files'[e] = files[e] /\ (~linked[r] \/ ext[r] # e)
            \/ linked[r] /\ ext[r] = e /\ files'[e][2] = r /\ files'[e][1] = files[e][1]
    BY <2>1, WriteFile DEF Chunks
  <2>3. ASSUME NEW e \in Extensions, e \notin spoilt, linked[r], ext[r] = e
        PROVE  Whole(files'[e]) /\ \A s \in Requests : linked'[s] => ext[s] # e
    BY <2>1, <2>2, <2>3 DEF WritersFit, Whole, Chunks, TypeOK
  <2>4. QED
    BY <2>1, <2>2, <2>3 DEF WritersFit, Whole, TypeOK
<1>9. QED
  BY <1>1, <1>2, <1>4, <1>5, <1>6, <1>7, <1>8, StepNames

\* While a request runs, no other one has the logo for itself.
LEMMA OthersDisturbed ==
    ASSUME MessInv, NEW r \in Requests, pc[r] # "idle", NEW s \in Requests, alone[s]
    PROVE  s = r
BY DEF MessInv, Progress

\* Every action keeps the progress of the request that is alone.
LEMMA MessStep == TypeOK /\ SlotsFit /\ MessInv /\ [Next]_vars => MessInv'
<1> SUFFICES ASSUME TypeOK, SlotsFit, MessInv, [Next]_vars PROVE MessInv'
  OBVIOUS
<1>1. CASE UNCHANGED vars
  BY <1>1 DEF MessInv, Progress, Tidy, Whole, vars, requestVars
<1>2. ASSUME NEW r \in Requests, Begin(r) PROVE MessInv'
  <2>1. /\ UNCHANGED <<row, files, mess>>
        /\ pc' \in {[pc EXCEPT ![r] = "validating"], [pc EXCEPT ![r] = "looking"]}
        /\ todo'[r] = Extensions /\ loaded'[r] = row /\ pc[r] = "idle"
        /\ \A s \in Requests : alone'[s] => s = r /\ \A q \in Requests : pc[q] = "idle"
    BY <1>2 DEF Begin, Enter, Goto, TypeOK
  <2>2. ASSUME NEW s \in Requests, alone'[s] PROVE pc'[s] # "idle" /\ Progress(s)'
    BY <2>1, <2>2 DEF Progress, TypeOK
  <2>3. mess' \/ Tidy' \/ \E s \in Requests : pc'[s] \in Running
    BY <2>1 DEF MessInv, Tidy, Whole, Running, TypeOK
  <2>4. QED
    BY <2>2, <2>3 DEF MessInv
<1>3. ASSUME NEW r \in Requests, Leave(r), NEW s \in Requests, pc[r] # "idle"
      PROVE  ~alone'[s]
  BY <1>3, OthersDisturbed DEF Leave, TypeOK
<1>4. ASSUME NEW r \in Requests, BreakOff(r), pc[r] \in Running PROVE MessInv'
  BY <1>4, <1>3 DEF BreakOff, MessInv, Running
<1>5. ASSUME NEW r \in Requests, Reject(r) PROVE MessInv'
  <2>1. /\ UNCHANGED <<row, files, mess>> /\ pc[r] = "validating"
        /\ pc' = [pc EXCEPT ![r] = "idle"] /\ Leave(r)
    BY <1>5 DEF Reject, Leave, Goto
  <2>2. mess' \/ Tidy' \/ \E s \in Requests : pc'[s] \in Running
    BY <2>1 DEF MessInv, Tidy, Whole, Running, TypeOK
  <2>3. QED
    BY <2>1, <2>2, <1>3 DEF MessInv
<1>6. ASSUME NEW r \in Requests, CommitLogo(r) PROVE MessInv'
  <2>1. pc[r] = "committing" /\ Leave(r) /\ files' = files /\ mess' = ~alone[r]
    BY <1>6 DEF CommitLogo
  <2>2. ASSUME alone[r] PROVE Tidy'
    <3>1. /\ files[ext[r]] # None /\ Whole(files[ext[r]]) /\ ext[r] \in Extensions
          /\ \A e \in Extensions : e # ext[r] => files[e] = None
          /\ row = loaded[r]
      BY <2>1, <2>2 DEF MessInv, Progress, SlotsFit
    <3>2. row' = ext[r]
      BY <1>6, <3>1 DEF CommitLogo, Named
    <3>3. QED
      BY <2>1, <3>1, <3>2, NoneIsNothing DEF Tidy, Whole
  <2>3. QED
    BY <2>1, <2>2, <1>3 DEF MessInv
<1>7. ASSUME NEW r \in Requests, CommitDelete(r) PROVE MessInv'
  <2>1. /\ pc[r] = "looking" /\ todo[r] = {} /\ Leave(r) /\ files' = files
        /\ mess' = ~alone[r]
    BY <1>7 DEF CommitDelete
  <2>2. ASSUME alone[r] PROVE Tidy'
    <3>1. (\A e \in Extensions : files[e] = None) /\ row = loaded[r]
      BY <2>1, <2>2 DEF MessInv, Progress
    <3>2. row' = None
      BY <1>7, <3>1 DEF CommitDelete, Named
    <3>3. QED
      BY <2>1, <3>1, <3>2, NoneIsNothing DEF Tidy
  <2>3. QED
    BY <2>1, <2>2, <1>3 DEF MessInv
<1>8. ASSUME NEW r \in Requests, pc[r] # "idle", pc'[r] \in Running,
             alone' = alone, alone[r] => Progress(r)'
      PROVE  MessInv'
  <2>1. \A s \in Requests : alone'[s] => s = r
    BY <1>8, OthersDisturbed
  <2>2. QED
    BY <1>8, <2>1 DEF MessInv, Running
<1>9. ASSUME NEW r \in Requests, Accept(r) PROVE MessInv'
  <2>1. /\ pc' = [pc EXCEPT ![r] = "looking"] /\ pc[r] = "validating"
        /\ UNCHANGED <<row, files, ext, loaded, todo, alone>>
    BY <1>9 DEF Accept, Goto
  <2>2. QED
    BY <2>1, <1>8 DEF MessInv, Progress, Running, TypeOK
<1>10. ASSUME NEW r \in Requests, Look(r) PROVE MessInv'
  <2>1. PICK e \in todo[r] :
            /\ \/ files[e] = None /\ todo' = [todo EXCEPT ![r] = @ \ {e}] /\ pc' = pc
               \/ pc' = [pc EXCEPT ![r] = "unlinking"] /\ todo' = todo
            /\ UNCHANGED <<row, files, ext, loaded, alone>> /\ pc[r] = "looking"
    BY <1>10 DEF Look, Goto
  <2>2. QED
    BY <2>1, <1>8 DEF MessInv, Progress, Running, TypeOK
<1>11. ASSUME NEW r \in Requests, Unlink(r) PROVE MessInv'
  <2>1. /\ pc' = [pc EXCEPT ![r] = "looking"] /\ pc[r] = "unlinking"
        /\ files' = [files EXCEPT ![at[r]] = None]
        /\ todo' = [todo EXCEPT ![r] = @ \ {at[r]}]
        /\ UNCHANGED <<row, ext, loaded, alone>>
    BY <1>11 DEF Unlink, Goto
  <2>2. QED
    BY <2>1, <1>8 DEF MessInv, Progress, Running, TypeOK
<1>12. ASSUME NEW r \in Requests, Open(r) PROVE MessInv'
  <2>1. /\ pc' = [pc EXCEPT ![r] = "first"] /\ pc[r] = "looking" /\ todo[r] = {}
        /\ files' = [files EXCEPT ![ext[r]] = Empty] /\ ext[r] \in Extensions
        /\ linked' = [linked EXCEPT ![r] = TRUE] /\ Empty # None
        /\ UNCHANGED <<row, ext, loaded, alone>>
    BY <1>12, NoneIsNothing DEF Open, Goto, SlotsFit, Empty, File
  <2>2. QED
    BY <2>1, <1>8 DEF MessInv, Progress, Running, TypeOK
<1>13. ASSUME NEW r \in Requests, CopyFirst(r) PROVE MessInv'
  <2>1. /\ pc' = [pc EXCEPT ![r] = "second"] /\ pc[r] = "first"
        /\ UNCHANGED <<row, ext, loaded, linked, alone>>
        /\ Write(r, 1) /\ 1 \in Chunks /\ ext[r] \in Extensions
    BY <1>13 DEF CopyFirst, Goto, Chunks, SlotsFit
  <2>2. /\ \A e \in Extensions : ext[r] # e => files'[e] = files[e]
        /\ linked[r] => files'[ext[r]] # None /\ files'[ext[r]][1] = r
    BY <2>1, WriteFile
  <2>3. QED
    BY <2>1, <2>2, <1>8 DEF MessInv, Progress, Running, TypeOK
<1>14. ASSUME NEW r \in Requests, CopySecond(r) PROVE MessInv'
  <2>1. /\ pc' = [pc EXCEPT ![r] = "committing"] /\ pc[r] = "second"
        /\ UNCHANGED <<row, ext, loaded, alone>>
        /\ Write(r, 2) /\ 2 \in Chunks /\ ext[r] \in Extensions
    BY <1>14 DEF CopySecond, Goto, Chunks, SlotsFit
  <2>2. /\ \A e \in Extensions : ext[r] # e => files'[e] = files[e]
        /\ linked[r] => /\ files'[ext[r]] # None /\ files'[ext[r]][2] = r
                        /\ files'[ext[r]][1] = files[ext[r]][1]
    BY <2>1, WriteFile DEF Chunks
  <2>3. alone[r] => Whole(files'[ext[r]])
    BY <2>1, <2>2 DEF MessInv, Progress, Whole, Chunks
  <2>4. QED
    BY <2>1, <2>2, <2>3, <1>8 DEF MessInv, Progress, Running, TypeOK
<1>15. QED
  BY <1>1, <1>2, <1>4, <1>5, <1>6, <1>7, <1>9, <1>10, <1>11, <1>12, <1>13, <1>14, StepNames

-----------------------------------------------------------------------------

\* Every step keeps the invariant.
LEMMA LogoStep == LogoInv /\ [Next]_vars => LogoInv'
BY TypeStep, FitStep, WritersStep, MessStep DEF LogoInv

\* The invariant holds in every reachable state.
LEMMA LogoAlways == Spec => []LogoInv
BY LogoInit, LogoStep, PTL DEF Spec

\* The types of the row, the files and the requests, for any number of requests
\* racing on a logo.
THEOREM LogoTypeCorrect == Spec => []TypeOK
<1>1. LogoInv => TypeOK
  BY DEF LogoInv
<1>2. QED
  BY <1>1, LogoAlways, PTL

\* A quiet system whose row and file disagree has had a request break off or
\* overlap another since the last one that had the logo for itself.
THEOREM UndisturbedIsTidy == Spec => []MessHasCause
<1>1. LogoInv => MessHasCause
  BY DEF LogoInv, MessInv, MessHasCause, Running
<1>2. QED
  BY <1>1, LogoAlways, PTL

\* A torn file is being written, was opened twice, or its writer broke off.
THEOREM TornAlwaysHasCause == Spec => []TornHasCause
<1>1. LogoInv => TornHasCause
  BY DEF LogoInv, WritersFit, TornHasCause
<1>2. QED
  BY <1>1, LogoAlways, PTL
=============================================================================
