---------------------------- MODULE HostedProofs ----------------------------
(***************************************************************************)
(* The hosted process: its slot, its launch limit and its answers, for any  *)
(* number of requests, runs and restarts, any limit and any cooldown, and   *)
(* whether or not the worker's thread can always be started.                *)
(***************************************************************************)
EXTENDS HostedRuns, FiniteSetTheorems, TLAPS

\* The runs this process launched, those it refused after they were queued too.
Launched == {r \in RunIds : jobs[r] # NoRun} \cup refused

\* Every run that is known, queued, executing or recorded drew its own id, and
\* is queued or executing once.
Drawn ==
  /\ queue \cup refused \subseteq issued
  /\ \A r \in RunIds :
       /\ jobs[r] # NoRun \/ rows[r] # NoRun \/ Running(r) => r \in issued
       /\ Running(r) => r \notin queue
  /\ active \notin refused

\* The process still reports the run as in progress, or refused it and knows
\* nothing of it.
Open(r) == jobs[r] \in InProgress \/ (r \in refused /\ jobs[r] = NoRun)

\* A run the worker has not ended is open, has no row until its capture commits
\* one, and has one if its capture reported success.
Unfinished ==
  /\ \A r \in queue : Open(r) /\ rows[r] = NoRun
  /\ work.pc \in {"run", "report"} => Open(work.run)
  /\ work.pc = "run" => rows[work.run] = NoRun
  /\ work.pc = "report" =>
       /\ work.persisted => rows[work.run] \in Rows
       /\ work.persisted /\ work.error = "none" => rows[work.run] \in FinishedRows
       /\ ~ work.persisted => rows[work.run] = NoRun

Counted == Cardinality(Launched) <= accepted /\ accepted <= MaxRuns

IInv == HostedTypeOK /\ SlotCoversWork /\ Drawn /\ Unfinished /\ Counted
          /\ CompletedIsPersisted

-----------------------------------------------------------------------------
(* The statuses. *)

\* Published rows and failures are terminal statuses of the contract.
LEMMA PublicTerminal == \A row \in Rows : Public(row) \in Terminals
  BY DEF Public, Rows, FinishedRows, FailedRows, Terminals, Status

LEMMA FailureTerminal ==
  \A e \in Errors : Failure(e) \in Terminals /\ FailureRow(e) \in Rows
                      /\ Failure(e) # Status("COMPLETED", "NONE")
  BY DEF Failure, FailureRow, Errors, Terminals, Status, Rows, FinishedRows, FailedRows

LEMMA PublicCompleted ==
  \A row \in Rows : Public(row) = Status("COMPLETED", "NONE") =>
    row \in FinishedRows /\ row[1] = "COMPLETED"
  BY DEF Public, Rows, FinishedRows, FailedRows, Status

LEMMA StatusesDisjoint ==
  /\ InProgress \cap Terminals = {}
  /\ Status("COMPLETED", "NONE") \notin InProgress
  /\ PersistenceFailed \in Terminals /\ PersistenceFailed # Status("COMPLETED", "NONE")
  /\ \A s \in {"STARTING", "RESEARCHING", "EVALUATING"} : Status(s, "NONE") \in InProgress
  /\ NoRun \notin InProgress /\ NoRun \notin Terminals /\ NoRun \notin Rows
  BY HostedAssumption DEF InProgress, Terminals, Status, PersistenceFailed, Statuses

LEMMA FinishedAreRows ==
  FinishedRows \subseteq Rows /\ <<"FAILED", "PROVIDER_DISCONNECTED">> \in Rows
  BY DEF Rows, FailedRows

-----------------------------------------------------------------------------
(* The inductive invariant. *)

LEMMA InitIInv == HostedInit => IInv
<1> SUFFICES ASSUME HostedInit PROVE IInv
  OBVIOUS
<1>1. Launched = {}
  BY DEF HostedInit, Launched
<1>2. Counted
  BY <1>1, FS_EmptySet, HostedAssumption DEF HostedInit, Counted
<1>3. HostedTypeOK
  <2>1. 0 \in 0..MaxClock /\ -1 \in -1..MaxClock
    BY HostedAssumption
  <2>2. work \in Work
    BY DEF HostedInit, Work
  <2> QED
    BY <2>1, <2>2 DEF HostedInit, HostedTypeOK
<1>4. SlotCoversWork /\ Drawn /\ Unfinished
  BY DEF HostedInit, SlotCoversWork, Drawn, Unfinished, Running, Free
<1>5. CompletedIsPersisted
  BY HostedAssumption DEF HostedInit, CompletedIsPersisted, Statuses, Terminals
<1> QED
  BY <1>2, <1>3, <1>4, <1>5 DEF IInv

\* Launching is the one step that adds a run to the process.
LEMMA LaunchPreserves ==
  ASSUME IInv, NEW r \in RunIds, HasCapacity, Launch(r), admitting' \in SUBSET Requests
  PROVE  IInv'
<1> DEFINE started == Status("STARTING", "NONE")
<1>1. /\ r \notin issued /\ issued' = issued \cup {r} /\ accepted' = accepted + 1
      /\ queue' = queue \cup {r} /\ work' = work
      /\ UNCHANGED <<up, clock, closed, lastFinished, rows, told>>
      /\ \/ jobs' = [jobs EXCEPT ![r] = started] /\ active' = r /\ pool' = TRUE
            /\ refused' = refused
         \/ jobs' = jobs /\ active' = active /\ pool' = pool /\ refused' = refused \cup {r}
  BY DEF Launch, Submit, SubmitFails
<1>2. active = NoRun /\ accepted < MaxRuns
  BY DEF HasCapacity
<1>3. refused = {} => queue = {} /\ work = Free
  <2>1. refused = {} => \A x \in queue : x \in RunIds /\ active = x
    BY DEF IInv, SlotCoversWork, HostedTypeOK
  <2>2. refused = {} /\ work # Free => work.run \in RunIds /\ active = work.run
    BY DEF IInv, SlotCoversWork, HostedTypeOK, Running, Work, Free
  <2> QED
    BY <1>2, <2>1, <2>2, HostedAssumption
<1>4. /\ jobs \in [RunIds -> Statuses \cup {NoRun}] /\ started \in InProgress
      /\ queue \in SUBSET RunIds /\ refused \in SUBSET RunIds /\ issued \in SUBSET RunIds
      /\ work \in Work
  BY StatusesDisjoint DEF IInv, HostedTypeOK
<1>5. jobs[r] = NoRun /\ rows[r] = NoRun /\ ~ Running(r) /\ r \notin queue /\ r \notin refused
  BY <1>1 DEF IInv, Drawn
<1>6. /\ \A x \in RunIds : x # r => jobs'[x] = jobs[x]
      /\ \/ jobs'[r] = started /\ active' = r /\ refused' = refused
         \/ jobs'[r] = NoRun /\ active' = NoRun /\ refused' = refused \cup {r}
  BY <1>1, <1>2, <1>4, <1>5
<1>7. HostedTypeOK'
  <2>1. /\ accepted' \in Nat /\ queue' \in SUBSET RunIds /\ refused' \in SUBSET RunIds
        /\ issued' \in SUBSET RunIds /\ work' \in Work
    BY <1>1, <1>4 DEF IInv, HostedTypeOK
  <2>2. jobs' \in [RunIds -> Statuses \cup {NoRun}]
    BY <1>1, <1>4 DEF Statuses
  <2>3. active' \in RunIds \cup {NoRun} /\ pool' \in BOOLEAN
    BY <1>1 DEF IInv, HostedTypeOK
  <2> QED
    BY <1>1, <2>1, <2>2, <2>3 DEF IInv, HostedTypeOK
<1>8. SlotCoversWork'
  BY <1>1, <1>3, <1>6 DEF SlotCoversWork, Running, Free
<1>9. Drawn'
  <2>1. ASSUME NEW x \in RunIds
        PROVE  /\ Running(x)' <=> Running(x)
               /\ Running(x) => x # r
    BY <1>1, <1>5 DEF Running
  <2>2. NoRun \notin refused \cup {r}
    BY <1>4, HostedAssumption
  <2> QED
    BY <1>1, <1>4, <1>5, <1>6, <2>1, <2>2 DEF IInv, Drawn
<1>10. Unfinished'
  <2>1. Open(r)' /\ \A x \in RunIds : Open(x) => Open(x)'
    BY <1>4, <1>5, <1>6, StatusesDisjoint DEF Open
  <2>2. work.pc \in {"run", "report"} => work.run \in RunIds
    BY <1>4 DEF Work, Free
  <2> QED
    BY <1>1, <1>4, <1>5, <2>1, <2>2 DEF IInv, Unfinished
<1>11. Counted'
  <2>1. Launched' = Launched \cup {r}
    BY <1>4, <1>5, <1>6, StatusesDisjoint DEF Launched
  <2>2. IsFiniteSet(Launched)
    BY <1>4, FS_Subset, HostedAssumption DEF Launched
  <2>3. /\ Cardinality(Launched \cup {r}) <= Cardinality(Launched) + 1
        /\ Cardinality(Launched) \in Nat /\ Cardinality(Launched \cup {r}) \in Nat
    <3>1. /\ IsFiniteSet(Launched \cup {r})
          /\ Cardinality(Launched \cup {r}) = IF r \in Launched THEN Cardinality(Launched)
                                             ELSE Cardinality(Launched) + 1
      BY <2>2, FS_AddElement
    <3>2. Cardinality(Launched) \in Nat /\ Cardinality(Launched \cup {r}) \in Nat
      BY <2>2, <3>1, FS_CardinalityType
    <3> QED
      BY <3>1, <3>2
  <2> QED
    BY <1>1, <1>2, <2>1, <2>3, HostedAssumption DEF IInv, Counted, HostedTypeOK
<1>12. CompletedIsPersisted'
  BY <1>1, <1>4, <1>6, HostedAssumption, StatusesDisjoint
  DEF IInv, CompletedIsPersisted, Statuses, Terminals
<1> QED
  BY <1>7, <1>8, <1>9, <1>10, <1>11, <1>12 DEF IInv

\* A step that makes no job known but that of a refused run keeps the count.
LEMMA CountKept ==
  ASSUME IInv, accepted' = accepted, refused' = refused,
         \A r \in RunIds : jobs'[r] # NoRun <=> jobs[r] # NoRun \/ (r \in refused /\ jobs'[r] # NoRun)
  PROVE  Counted'
<1>1. Launched' = Launched
  BY DEF Launched
<1> QED
  BY <1>1 DEF IInv, Counted

LEMMA BeginPreserves ==
  ASSUME IInv, NEW r \in RunIds, Begin(r) PROVE IInv'
<1> USE DEF IInv
<1> DEFINE failed == Failure("internal")
<1>1. /\ work = Free /\ r \in queue /\ queue' = queue \ {r}
      /\ UNCHANGED <<up, clock, closed, active, accepted, lastFinished, admitting,
                     pool, rows, refused, issued, told>>
  BY DEF Begin
<1>2. /\ refused = {} => queue' = {} /\ active = r
      /\ r \in issued /\ Open(r) /\ rows[r] = NoRun
  BY <1>1 DEF SlotCoversWork, Drawn, Unfinished
<1>3. failed \in Terminals /\ failed # Status("COMPLETED", "NONE")
  BY FailureTerminal DEF Errors
<1>4. /\ work' = [pc |-> "run", run |-> r] \/ work' = [pc |-> "release", run |-> r]
      /\ jobs' = jobs \/ (jobs[r] # NoRun /\ jobs' = [jobs EXCEPT ![r] = failed])
      /\ work'.pc = "run" => jobs' = jobs
  BY DEF Begin, Report
<1>5. work' \in Work /\ work' # Free /\ work'.run = r
  BY <1>4 DEF Work, Free
<1>6. jobs \in [RunIds -> Statuses \cup {NoRun}]
  BY DEF HostedTypeOK
<1>7. /\ jobs' \in [RunIds -> Statuses \cup {NoRun}]
      /\ \A x \in RunIds : (x # r => jobs'[x] = jobs[x])
      /\ jobs'[r] = jobs[r] \/ (jobs[r] # NoRun /\ jobs'[r] = failed)
  BY <1>3, <1>4, <1>6 DEF Statuses
<1>8. HostedTypeOK'
  BY <1>1, <1>2, <1>5, <1>7 DEF HostedTypeOK
<1>9. SlotCoversWork' /\ Drawn'
  BY <1>1, <1>2, <1>5, <1>7 DEF SlotCoversWork, Drawn, Running
<1>10. Unfinished'
  <2>1. \A x \in RunIds : (x # r \/ work'.pc = "run") /\ Open(x) => Open(x)'
    BY <1>1, <1>4, <1>7 DEF Open
  <2>2. queue' \subseteq RunIds \ {r}
    BY <1>1 DEF HostedTypeOK
  <2> QED
    BY <1>1, <1>2, <1>4, <2>1, <2>2 DEF Unfinished
<1>11. Counted'
  BY <1>1, <1>3, <1>7, StatusesDisjoint, CountKept
<1>12. CompletedIsPersisted'
  BY <1>1, <1>3, <1>7 DEF CompletedIsPersisted
<1> QED
  BY <1>8, <1>9, <1>10, <1>11, <1>12

LEMMA ProgressPreserves ==
  ASSUME IInv, NEW s \in {"RESEARCHING", "EVALUATING"}, Progress(s) PROVE IInv'
<1> USE DEF IInv
<1> DEFINE r == work.run
<1> DEFINE status == Status(s, "NONE")
<1>1. /\ work.pc = "run" /\ active = r /\ jobs' = [jobs EXCEPT ![r] = status]
      /\ UNCHANGED <<up, clock, closed, active, accepted, lastFinished, admitting,
                     pool, queue, work, rows, refused, issued, told>>
  BY DEF Progress, worker
<1>2. work # Free /\ r \in RunIds
  BY <1>1 DEF HostedTypeOK, Work, Free
<1>3. status \in InProgress
  BY StatusesDisjoint
<1>4. Running(r) /\ jobs[r] \in InProgress /\ r \notin queue /\ r \in issued
  BY <1>1, <1>2 DEF Running, Unfinished, Open, Drawn
<1>5. jobs \in [RunIds -> Statuses \cup {NoRun}]
  BY DEF HostedTypeOK
<1>6. /\ jobs' \in [RunIds -> Statuses \cup {NoRun}] /\ jobs'[r] = status
      /\ \A x \in RunIds : x # r => jobs'[x] = jobs[x]
  BY <1>1, <1>2, <1>3, <1>5 DEF Statuses
<1>7. HostedTypeOK'
  BY <1>1, <1>6 DEF HostedTypeOK
<1>8. SlotCoversWork' /\ Drawn'
  BY <1>1, <1>4, <1>6 DEF SlotCoversWork, Drawn, Running
<1>9. Unfinished'
  <2>1. \A x \in RunIds : Open(x) => Open(x)'
    BY <1>1, <1>3, <1>6 DEF Open
  <2>2. queue \subseteq RunIds
    BY DEF HostedTypeOK
  <2> QED
    BY <1>1, <1>2, <2>1, <2>2 DEF Unfinished
<1>10. Counted'
  BY <1>1, <1>3, <1>4, <1>6, StatusesDisjoint, CountKept
<1>11. CompletedIsPersisted'
  BY <1>1, <1>3, <1>6, StatusesDisjoint DEF CompletedIsPersisted
<1> QED
  BY <1>7, <1>8, <1>9, <1>10, <1>11

\* The runner ended, and the capture kept row or its failure to do so.
LEMMA CapturePreserves ==
  ASSUME IInv, work.pc = "run",
         NEW row \in Rows, NEW error \in Errors \cup {"none"},
         error = "none" => row \in FinishedRows, Capture(row, error),
         UNCHANGED <<up, clock, coordinator, admitting, pool, queue, refused, issued, told>>
  PROVE  IInv'
<1> USE DEF IInv
<1> DEFINE r == work.run
<1>1. /\ UNCHANGED <<up, clock, closed, active, accepted, lastFinished, jobs,
                     admitting, pool, queue, refused, issued, told>>
  BY DEF coordinator
<1>2. PICK ok \in BOOLEAN :
        /\ rows' = IF ok THEN [rows EXCEPT ![r] = row] ELSE rows
        /\ work' = [pc |-> "report", run |-> r, error |-> error, persisted |-> ok]
  BY DEF Capture
<1>3. work # Free /\ r \in RunIds /\ work' # Free /\ work'.run = r
  BY <1>2 DEF HostedTypeOK, Work, Free
<1>4. /\ Running(r) /\ r \notin queue /\ Open(r) /\ r \in issued /\ rows[r] = NoRun
      /\ refused = {} => queue = {} /\ active = r
  BY <1>3 DEF SlotCoversWork, Running, Unfinished, Drawn
<1>5. rows \in [RunIds -> Rows \cup {NoRun}]
  BY DEF HostedTypeOK
<1>6. /\ rows' \in [RunIds -> Rows \cup {NoRun}]
      /\ \A x \in RunIds : x # r => rows'[x] = rows[x]
      /\ rows'[r] = IF ok THEN row ELSE NoRun
  BY <1>2, <1>3, <1>4, <1>5
<1>7. work' \in Work
  BY <1>2, <1>3 DEF Work
<1>8. HostedTypeOK'
  BY <1>1, <1>6, <1>7 DEF HostedTypeOK
<1>9. SlotCoversWork' /\ Drawn'
  BY <1>1, <1>3, <1>4, <1>6 DEF SlotCoversWork, Drawn, Running
<1>10. Unfinished'
  <2>1. \A x \in RunIds : Open(x) => Open(x)'
    BY <1>1 DEF Open
  <2>2. queue \subseteq RunIds
    BY DEF HostedTypeOK
  <2> QED
    BY <1>1, <1>2, <1>3, <1>4, <1>6, <2>1, <2>2 DEF Unfinished
<1>11. Counted'
  BY <1>1, CountKept
<1>12. CompletedIsPersisted'
  <2>1. jobs[r] # Status("COMPLETED", "NONE")
    BY <1>4, StatusesDisjoint, HostedAssumption DEF Open, Statuses, Terminals
  <2> QED
    BY <1>1, <1>6, <2>1 DEF CompletedIsPersisted
<1> QED
  BY <1>8, <1>9, <1>10, <1>11, <1>12

\* A report changes at most the job of its run, and makes none known.
LEMMA ReportedStatus ==
  ASSUME jobs \in [RunIds -> Statuses \cup {NoRun}], NEW r \in RunIds,
         NEW failure \in Terminals, failure # NoRun, failure # Status("COMPLETED", "NONE"),
         Report(r, failure)
  PROVE  \E status \in Terminals \cup {NoRun} :
           /\ jobs' = [jobs EXCEPT ![r] = status]
           /\ status = NoRun => jobs[r] = NoRun
           /\ status # Status("COMPLETED", "NONE")
<1>1. CASE jobs[r] = NoRun
  <2>1. jobs' = [jobs EXCEPT ![r] = NoRun]
    BY <1>1 DEF Report
  <2>2. NoRun # Status("COMPLETED", "NONE")
    BY HostedAssumption DEF Statuses, Terminals
  <2> QED
    BY <1>1, <2>1, <2>2
<1>2. CASE jobs[r] # NoRun
  BY <1>2 DEF Report
<1> QED
  BY <1>1, <1>2

LEMMA PublishPreserves ==
  ASSUME IInv, Publish PROVE IInv'
<1> USE DEF IInv
<1> DEFINE r == work.run
<1>1. /\ work.pc = "report" /\ work' = [pc |-> "release", run |-> r]
      /\ UNCHANGED <<up, clock, closed, active, accepted, lastFinished, admitting,
                     pool, queue, rows, refused, issued, told>>
  BY DEF Publish
<1>2. /\ work # Free /\ r \in RunIds /\ work' # Free /\ work'.run = r /\ work' \in Work
      /\ work.error \in Errors \cup {"none"}
  BY <1>1 DEF HostedTypeOK, Work, Free
<1>3. /\ Running(r) /\ r \notin queue /\ Open(r) /\ r \in issued
      /\ refused = {} => queue = {} /\ active = r
  BY <1>1, <1>2 DEF SlotCoversWork, Running, Unfinished, Drawn
<1>4. /\ jobs \in [RunIds -> Statuses \cup {NoRun}]
      /\ jobs[r] = NoRun => r \in refused
  BY <1>3, StatusesDisjoint DEF HostedTypeOK, Open
<1>5. PICK status \in Terminals \cup {NoRun} :
        /\ jobs' = [jobs EXCEPT ![r] = status]
        /\ status = NoRun => jobs[r] = NoRun
        /\ status = Status("COMPLETED", "NONE") =>
             rows[r] \in FinishedRows /\ rows[r][1] = "COMPLETED"
  <2>1. CASE work.persisted /\ work.error = "none" /\ jobs' = [jobs EXCEPT ![r] = Public(rows[r])]
    <3>1. rows[r] \in Rows
      BY <1>1, <2>1 DEF Unfinished
    <3>2. Public(rows[r]) \in Terminals /\ Public(rows[r]) # NoRun
      BY <3>1, PublicTerminal, StatusesDisjoint
    <3> QED
      BY <2>1, <3>1, <3>2, PublicCompleted
  <2>2. CASE work.error # "none" /\ Report(r, Failure(work.error))
    <3>1. work.error \in Errors
      BY <1>2, <2>2
    <3>2. /\ Failure(work.error) \in Terminals /\ Failure(work.error) # NoRun
          /\ Failure(work.error) # Status("COMPLETED", "NONE")
      BY <3>1, FailureTerminal, StatusesDisjoint
    <3> QED
      BY <1>2, <1>4, <2>2, <3>2, ReportedStatus
  <2>3. CASE Report(r, PersistenceFailed)
    <3>1. PersistenceFailed # NoRun
      BY StatusesDisjoint
    <3> QED
      BY <1>2, <1>4, <2>3, <3>1, StatusesDisjoint, ReportedStatus
  <2> QED
    BY <2>1, <2>2, <2>3 DEF Publish
<1>6. /\ jobs' \in [RunIds -> Statuses \cup {NoRun}] /\ jobs'[r] = status
      /\ \A x \in RunIds : x # r => jobs'[x] = jobs[x]
  BY <1>2, <1>4, <1>5 DEF Statuses
<1>7. HostedTypeOK'
  BY <1>1, <1>2, <1>6 DEF HostedTypeOK
<1>8. SlotCoversWork' /\ Drawn'
  BY <1>1, <1>2, <1>3, <1>6 DEF SlotCoversWork, Drawn, Running
<1>9. Unfinished'
  <2>1. \A x \in RunIds \ {r} : Open(x) => Open(x)'
    BY <1>1, <1>6 DEF Open
  <2>2. queue \subseteq RunIds \ {r}
    BY <1>3 DEF HostedTypeOK
  <2> QED
    BY <1>1, <2>1, <2>2 DEF Unfinished
<1>10. Counted'
  BY <1>1, <1>4, <1>5, <1>6, StatusesDisjoint, CountKept
<1>11. CompletedIsPersisted'
  BY <1>1, <1>5, <1>6 DEF CompletedIsPersisted
<1> QED
  BY <1>7, <1>8, <1>9, <1>10, <1>11

LEMMA ReleasePreserves ==
  ASSUME IInv, Release PROVE IInv'
<1> USE DEF IInv
<1>1. /\ work.pc = "release" /\ work' = Free /\ active' = NoRun /\ lastFinished' = clock
      /\ UNCHANGED <<up, clock, closed, accepted, jobs, admitting, pool, queue, rows,
                     refused, issued, told>>
  BY DEF Release
<1>2. work # Free /\ (refused = {} => queue = {})
  BY <1>1 DEF HostedTypeOK, Work, Free, SlotCoversWork, Running
<1>3. HostedTypeOK'
  BY <1>1, HostedAssumption DEF HostedTypeOK, Work
<1>4. SlotCoversWork' /\ Drawn' /\ Unfinished'
  BY <1>1, <1>2, HostedAssumption
  DEF SlotCoversWork, Drawn, Unfinished, Running, Free, Open, HostedTypeOK
<1>5. Counted'
  BY <1>1, CountKept
<1>6. CompletedIsPersisted'
  BY <1>1 DEF CompletedIsPersisted
<1> QED
  BY <1>3, <1>4, <1>5, <1>6

\* The process is gone: only rows, ids and what clients were told remain.
LEMMA StopPreserves ==
  ASSUME IInv, Stop PROVE IInv'
<1> USE DEF IInv
<1>1. /\ up' = FALSE /\ closed' = FALSE /\ active' = NoRun /\ accepted' = 0
      /\ lastFinished' = -1 /\ jobs' = [r \in RunIds |-> NoRun] /\ admitting' = {}
      /\ pool' = FALSE /\ queue' = {} /\ work' = Free
      /\ refused' = {} /\ UNCHANGED <<clock, rows, issued, told>>
  BY DEF Stop
<1>2. -1 \in -1..MaxClock /\ Free \in Work
  BY HostedAssumption DEF Work
<1>3. HostedTypeOK'
  BY <1>1, <1>2 DEF HostedTypeOK
<1>4. SlotCoversWork' /\ Drawn' /\ Unfinished'
  BY <1>1 DEF SlotCoversWork, Drawn, Unfinished, Running, Free
<1>5. Counted'
  <2>1. Launched' = {}
    BY <1>1 DEF Launched
  <2> QED
    BY <1>1, <2>1, FS_EmptySet, HostedAssumption DEF Counted
<1>6. CompletedIsPersisted'
  BY <1>1, HostedAssumption DEF CompletedIsPersisted, Statuses, Terminals
<1> QED
  BY <1>3, <1>4, <1>5, <1>6

LEMMA StepIInv == IInv /\ [HostedNext]_hostedVars => IInv'
<1> SUFFICES ASSUME IInv, [HostedNext]_hostedVars PROVE IInv'
  OBVIOUS
<1> DEFINE Same == UNCHANGED <<queue, work, rows, refused, issued, jobs, accepted, active>>
<1>same. ASSUME Same, HostedTypeOK' PROVE IInv'
  <2>1. SlotCoversWork' /\ Drawn' /\ Unfinished'
    BY <1>same DEF IInv, SlotCoversWork, Drawn, Unfinished, Running, Open
  <2>2. Counted'
    BY <1>same, CountKept
  <2>3. CompletedIsPersisted'
    BY <1>same DEF IInv, CompletedIsPersisted
  <2> QED
    BY <1>same, <2>1, <2>2, <2>3 DEF IInv
<1>1. CASE Passing
  BY <1>1, <1>same, HostedAssumption
  DEF Passing, IInv, HostedTypeOK, coordinator, worker
<1>2. ASSUME NEW q \in Requests, CallStart(q) PROVE IInv'
  BY <1>2, <1>same DEF CallStart, IInv, HostedTypeOK, coordinator, worker
<1>3. ASSUME NEW q \in Requests, Admit(q) PROVE IInv'
  <2>1. admitting' \in SUBSET Requests
    BY <1>3 DEF Admit, IInv, HostedTypeOK
  <2>2. ASSUME HasCapacity, NEW r \in RunIds, Launch(r) PROVE IInv'
    BY <2>1, <2>2, LaunchPreserves
  <2>3. CASE UNCHANGED <<up, clock, coordinator, worker, rows, refused, issued, told>>
    BY <2>1, <2>3, <1>same DEF IInv, HostedTypeOK, coordinator, worker
  <2> QED
    BY <1>3, <2>2, <2>3 DEF Admit
<1>4. ASSUME NEW r \in RunIds, Begin(r) PROVE IInv'
  BY <1>4, BeginPreserves
<1>5. CASE RunReturns
  <2>1. PICK row \in FinishedRows : Capture(row, "none")
    BY <1>5 DEF RunReturns
  <2> QED
    BY <1>5, <2>1, CapturePreserves, FinishedAreRows DEF RunReturns
<1>6. CASE RunRaises
  <2>1. ASSUME NEW error \in Errors, Capture(<<"FAILED", "PROVIDER_DISCONNECTED">>, error)
        PROVE  IInv'
    <3>1. error # "none"
      BY DEF Errors
    <3> QED
      BY <1>6, <2>1, <3>1, CapturePreserves, FinishedAreRows DEF RunRaises
  <2>2. ASSUME NEW error \in Errors, Capture(FailureRow(error), error) PROVE IInv'
    <3>1. error # "none"
      BY DEF Errors
    <3> QED
      BY <1>6, <2>2, <3>1, CapturePreserves, FailureTerminal DEF RunRaises
  <2>3. {"provider", "internal"} \subseteq Errors
    BY DEF Errors
  <2> QED
    BY <1>6, <2>1, <2>2, <2>3 DEF RunRaises
<1>7. CASE Publish
  BY <1>7, PublishPreserves
<1>8. CASE Release
  BY <1>8, ReleasePreserves
<1>9. ASSUME NEW s \in {"RESEARCHING", "EVALUATING"}, Progress(s) PROVE IInv'
  BY <1>9, ProgressPreserves
<1>10. ASSUME NEW r \in RunIds, Poll(r) PROVE IInv'
  BY <1>10, <1>same DEF Poll, IInv, HostedTypeOK, coordinator, worker
<1>11. CASE Close
  BY <1>11, <1>same DEF Close, IInv, HostedTypeOK, worker
<1>12. CASE Exit \/ Die
  BY <1>12, StopPreserves DEF Exit, Die
<1>13. CASE Restart
  BY <1>13, <1>same DEF Restart, IInv, HostedTypeOK, coordinator, worker
<1>14. CASE UNCHANGED hostedVars
  BY <1>14, <1>same DEF hostedVars, IInv, HostedTypeOK, coordinator, worker
<1> QED
  BY <1>1, <1>2, <1>3, <1>4, <1>5, <1>6, <1>7, <1>8, <1>9, <1>10, <1>11, <1>12,
     <1>13, <1>14
  DEF HostedNext, WorkerStep

LEMMA Invariance == HostedSpec => []IInv
  BY InitIInv, StepIInv, PTL DEF HostedSpec

-----------------------------------------------------------------------------
(* The theorems. *)

\* Every reachable state is well typed; statuses stay within the contract of
\* hosted/contracts.py.
THEOREM HostedTypeCorrect == HostedSpec => []HostedTypeOK
<1>1. IInv => HostedTypeOK
  BY DEF IInv
<1> QED
  BY <1>1, Invariance, PTL

\* coordinator.py:1, "one owned worker": whatever is queued or executing holds
\* the slot, for any number of racing requests, until a run is refused after it
\* was queued.
THEOREM OneOwnedWorker == HostedSpec => []SlotCoversWork
<1>1. IInv => SlotCoversWork
  BY DEF IInv
<1> QED
  BY <1>1, Invariance, PTL

\* No run is refused where threads can be started, so there the slot covers the
\* work always.
THEOREM NoneRefused == ASSUME ~ ThreadMayFail PROVE HostedSpec => [](refused = {})
<1>1. HostedInit => refused = {}
  BY DEF HostedInit
<1>2. refused = {} /\ [HostedNext]_hostedVars => (refused = {})'
  BY DEF HostedNext, WorkerStep, hostedVars, Passing, CallStart, Admit, Launch, SubmitFails,
         Begin, RunReturns, RunRaises, Publish, Release, Progress, Poll, Close, Exit, Die,
         Stop, Restart
<1> QED
  BY <1>1, <1>2, PTL DEF HostedSpec

\* qualor_live_max_runs bounds the runs of a process, failed and refused ones
\* included.
THEOREM LaunchLimit == HostedSpec => []LaunchesBounded
<1>1. IInv => LaunchesBounded
  <2> SUFFICES ASSUME IInv PROVE LaunchesBounded
    OBVIOUS
  <2> DEFINE known == {r \in RunIds : jobs[r] # NoRun}
  <2>1. known \subseteq Launched /\ Launched \subseteq RunIds /\ IsFiniteSet(Launched)
    BY FS_Subset, HostedAssumption DEF Launched, IInv, HostedTypeOK
  <2>2. /\ Cardinality(known) <= Cardinality(Launched)
        /\ Cardinality(known) \in Nat /\ Cardinality(Launched) \in Nat
    BY <2>1, FS_Subset, FS_CardinalityType
  <2> QED
    BY <2>2 DEF IInv, Counted, LaunchesBounded, HostedTypeOK
<1> QED
  BY <1>1, Invariance, PTL

\* A run is reported COMPLETED only when its completed row is committed.
THEOREM NoSuccessFromMemory ==
  HostedSpec => []CompletedIsPersisted
<1>1. IInv => CompletedIsPersisted
  BY DEF IInv
<1> QED
  BY <1>1, Invariance, PTL

\* A run in progress has no terminal answer, and an answer depends only on the
\* job and the row of its run.
LEMMA NoAnswerInProgress ==
  ASSUME NEW r \in RunIds, jobs[r] \in InProgress PROVE Answer(r) \notin Terminals
  BY StatusesDisjoint DEF Answer

LEMMA AnswerKept ==
  ASSUME NEW r \in RunIds, jobs'[r] = jobs[r], rows'[r] = rows[r]
  PROVE  Answer(r)' = Answer(r)
  BY DEF Answer

\* A process never takes a terminal answer back.
LEMMA StepAnswer ==
  IInv /\ [HostedNext]_hostedVars =>
    \A r \in RunIds : up /\ up' /\ Answer(r) \in Terminals => Answer(r)' = Answer(r)
<1> SUFFICES ASSUME IInv, [HostedNext]_hostedVars,
                    NEW r \in RunIds, up, up', Answer(r) \in Terminals
             PROVE  Answer(r)' = Answer(r)
  OBVIOUS
<1> DEFINE Kept == jobs'[r] = jobs[r] /\ rows'[r] = rows[r]
<1>0. jobs[r] \notin InProgress
  BY NoAnswerInProgress
<1>1. jobs \in [RunIds -> Statuses \cup {NoRun}] /\ rows \in [RunIds -> Rows \cup {NoRun}]
  BY DEF IInv, HostedTypeOK
<1>2. /\ r \notin queue
      /\ work.pc = "run" => r # work.run
      /\ work.pc = "report" /\ r = work.run => jobs[r] = NoRun
  <2>1. Open(r) => jobs[r] = NoRun /\ rows[r] # NoRun
    BY <1>0, StatusesDisjoint DEF Open, Answer
  <2> QED
    BY <2>1 DEF IInv, Unfinished
<1>3. ASSUME NEW q \in Requests, Admit(q) PROVE Kept
  <2>1. ASSUME NEW x \in RunIds, Launch(x) PROVE Kept
    <3>1. x \notin issued /\ rows' = rows
      BY <2>1 DEF Launch
    <3>2. jobs' = jobs \/ jobs' = [jobs EXCEPT ![x] = Status("STARTING", "NONE")]
      BY <2>1 DEF Launch
    <3>3. r # x
      BY <3>1, StatusesDisjoint DEF Answer, IInv, Drawn
    <3> QED
      BY <1>1, <3>1, <3>2, <3>3
  <2>2. CASE UNCHANGED <<up, clock, coordinator, worker, rows, refused, issued, told>>
    BY <2>2 DEF coordinator
  <2> QED
    BY <1>3, <2>1, <2>2 DEF Admit
<1>4. ASSUME NEW x \in RunIds, Begin(x) PROVE Kept
  <2>1. r # x
    BY <1>2, <1>4 DEF Begin
  <2>2. rows' = rows /\ (jobs' = jobs \/ jobs' = [jobs EXCEPT ![x] = Failure("internal")])
    BY <1>4 DEF Begin, Report
  <2> QED
    BY <1>1, <2>1, <2>2
<1>5. ASSUME RunReturns \/ RunRaises PROVE Kept
  <2>1. work.pc = "run" /\ jobs' = jobs
    BY <1>5 DEF RunReturns, RunRaises, coordinator
  <2>2. ASSUME NEW row, NEW error, Capture(row, error) PROVE rows'[r] = rows[r]
    BY <1>1, <1>2, <2>1, <2>2 DEF Capture
  <2>3. rows'[r] = rows[r]
    BY <1>5, <2>2 DEF RunReturns, RunRaises
  <2> QED
    BY <2>1, <2>3
<1>6. ASSUME Publish PROVE Answer(r)' = Answer(r)
  <2>1. work.pc = "report" /\ rows' = rows
    BY <1>6 DEF Publish
  <2>2. CASE r # work.run
    <3>1. ASSUME NEW status, Report(work.run, status) PROVE jobs'[r] = jobs[r]
      BY <1>1, <2>2, <3>1 DEF Report
    <3>2. ASSUME NEW status, jobs' = [jobs EXCEPT ![work.run] = status]
          PROVE  jobs'[r] = jobs[r]
      BY <1>1, <2>2, <3>2
    <3>3. jobs'[r] = jobs[r]
      BY <1>6, <3>1, <3>2 DEF Publish
    <3> QED
      BY <2>1, <3>3, AnswerKept
  <2>3. CASE r = work.run
    <3>1. jobs[r] = NoRun /\ rows[r] # NoRun /\ Answer(r) = Public(rows[r])
      BY <1>2, <2>1, <2>3, StatusesDisjoint DEF Answer
    <3>2. ASSUME NEW status, Report(work.run, status) PROVE jobs'[r] = NoRun
      BY <1>1, <2>3, <3>1, <3>2 DEF Report
    <3>3. CASE jobs' = [jobs EXCEPT ![work.run] = Public(rows[work.run])]
      <4>1. jobs'[r] = Public(rows[r])
        BY <1>1, <2>3, <3>3
      <4> QED
        BY <2>1, <3>1, <4>1 DEF Answer
    <3>4. CASE jobs'[r] = NoRun
      BY <2>1, <3>1, <3>4 DEF Answer
    <3> QED
      BY <1>6, <3>2, <3>3, <3>4 DEF Publish
  <2> QED
    BY <2>2, <2>3
<1>7. ASSUME NEW s \in {"RESEARCHING", "EVALUATING"}, Progress(s) PROVE Kept
  <2>1. r # work.run /\ rows' = rows
    BY <1>2, <1>7 DEF Progress
  <2>2. jobs' = [jobs EXCEPT ![work.run] = Status(s, "NONE")]
    BY <1>7 DEF Progress
  <2> QED
    BY <1>1, <2>1, <2>2
<1>8. ~ Exit /\ ~ Die
  BY DEF Exit, Die, Stop
<1>9. ASSUME Passing \/ Release \/ Close \/ Restart \/ UNCHANGED hostedVars PROVE Kept
  BY <1>9 DEF Passing, Release, Close, Restart, hostedVars, coordinator
<1>10. ASSUME NEW q \in Requests, CallStart(q) PROVE Kept
  BY <1>10 DEF CallStart, coordinator
<1>11. ASSUME NEW x \in RunIds, Poll(x) PROVE Kept
  BY <1>11 DEF Poll, coordinator
<1>12. Kept \/ Answer(r)' = Answer(r)
  BY <1>3, <1>4, <1>5, <1>6, <1>7, <1>8, <1>9, <1>10, <1>11 DEF HostedNext, WorkerStep
<1> QED
  BY <1>12, AnswerKept

\* While a process lives, the terminal answer it gives of a run stands.
THEOREM AnswersStand == HostedSpec => TerminalIsFinal
<1>1. HostedSpec => []IInv
  BY Invariance
<1> QED
  BY <1>1, StepAnswer, PTL DEF HostedSpec, TerminalIsFinal
=============================================================================
