----------------------------- MODULE HostedRuns -----------------------------
(***************************************************************************)
(* The hosted process that launches paid research runs                     *)
(* (hosted/coordinator.py): request threads are admitted in two critical   *)
(* sections with DNS between them, one worker executes the runs, the run   *)
(* capture writes one row per run, and status reads combine the memory of  *)
(* the process with the rows.  The process may close or die, and restart.  *)
(*                                                                         *)
(* Every action is one section under the coordinator's lock, one database  *)
(* transaction, or one outcome of the runner.                              *)
(***************************************************************************)
EXTENDS Integers, FiniteSets

CONSTANTS
  Requests,         \* request threads of the server
  RunIds,           \* the ids uuid4 will produce
  NoRun,            \* no run, or no row, or no job
  MaxRuns,          \* qualor_live_max_runs
  Cooldown,         \* qualor_live_cooldown_seconds
  MaxClock,         \* bound: the monotonic clock
  ThreadMayFail     \* can the system fail to start the worker's thread?

VARIABLES
  up,               \* is the process serving?
  clock,            \* monotonic clock
  closed, active, accepted, lastFinished,   \* the coordinator's fields
  jobs,             \* _jobs: the status of each run of this process
  admitting,        \* request threads between the two capacity checks
  pool,             \* has the worker's thread been started?
  queue,            \* runs the worker has not begun
  work,             \* what the worker is executing
  rows,             \* rows[r]: the persisted record of run r
  refused,          \* history: runs queued by a submit() that then raised
  issued,           \* run ids drawn so far
  told              \* told[r]: terminal status a client has read of r

coordinator == <<closed, active, accepted, lastFinished, jobs>>
worker == <<pool, queue, work>>
hostedVars == <<up, clock, coordinator, admitting, worker, rows, refused, issued, told>>

\* Rows the capture writes at the end of a run, and the status of each.
FinishedRows ==
  {<<"COMPLETED", "SUFFICIENT_CRITICAL_EVIDENCE">>, <<"PARTIAL", "NO_PROGRESS">>,
   <<"PARTIAL", "TOOL_FAILURE_BOUND_REACHED">>,
   <<"BUDGET_STOPPED", "BUDGET_EXHAUSTED">>}
FailedRows ==
  {<<"FAILED", "PROVIDER_DISCONNECTED">>, <<"FAILED", "INTERNAL_LIVE_RUN_FAILURE">>,
   <<"BUDGET_STOPPED", "BUDGET_EXHAUSTED">>}
Rows == FinishedRows \cup FailedRows

Status(status, code) == [status |-> status, code |-> code]
InProgress == {Status(s, "NONE") : s \in {"STARTING", "RESEARCHING", "EVALUATING"}}

\* Mutant: the state and reason of the row are published as they are.
PublicRaw(row) == Status(row[1], row[2])

\* _persisted_status of a LIVE row.
Public(row) ==
  CASE row[1] = "COMPLETED" -> Status("COMPLETED", "NONE")
    [] row[1] = "BUDGET_STOPPED" -> Status("BUDGET_STOPPED", "BUDGET_STOPPED")
    [] row[2] \in {"PROVIDER_DISCONNECTED", "TOOL_FAILURE_BOUND_REACHED"} ->
         Status("FAILED", "LIVE_PROVIDER_FAILED")
    [] row = <<"FAILED", "INTERNAL_LIVE_RUN_FAILURE">> ->
         Status("FAILED", "INTERNAL_LIVE_RUN_FAILURE")
    [] row = <<"PARTIAL", "NO_PROGRESS">> -> Status("FAILED", "LIVE_RUN_INCOMPLETE")

\* What escaped from the runner: a budget limit, a provider boundary, another.
Errors == {"budget", "provider", "internal"}

\* How the coordinator reports an error, and the row it records for it.
Failure(error) ==
  CASE error = "budget" -> Status("BUDGET_STOPPED", "BUDGET_STOPPED")
    [] error = "provider" -> Status("FAILED", "LIVE_PROVIDER_FAILED")
    [] error = "internal" -> Status("FAILED", "INTERNAL_LIVE_RUN_FAILURE")
FailureRow(error) ==
  CASE error = "budget" -> <<"BUDGET_STOPPED", "BUDGET_EXHAUSTED">>
    [] error = "provider" -> <<"FAILED", "PROVIDER_DISCONNECTED">>
    [] error = "internal" -> <<"FAILED", "INTERNAL_LIVE_RUN_FAILURE">>

PersistenceFailed == Status("FAILED", "LIVE_PERSISTENCE_FAILED")

Terminals ==
  {Status("COMPLETED", "NONE"), Status("BUDGET_STOPPED", "BUDGET_STOPPED"),
   PersistenceFailed}
  \cup {Status("FAILED", code) : code \in {"LIVE_PROVIDER_FAILED",
          "INTERNAL_LIVE_RUN_FAILURE", "LIVE_RUN_INCOMPLETE"}}
Statuses == InProgress \cup Terminals

ASSUME HostedAssumption ==
  /\ MaxRuns \in Nat \ {0} /\ Cooldown \in Nat /\ MaxClock \in Nat
  /\ ThreadMayFail \in BOOLEAN
  /\ IsFiniteSet(RunIds)
  /\ NoRun \notin RunIds /\ NoRun \notin Rows /\ NoRun \notin Statuses

Free == [pc |-> "free"]
Work == {Free}
  \cup [pc : {"run", "release"}, run : RunIds]
  \cup [pc : {"report"}, run : RunIds, error : Errors \cup {"none"},
        persisted : BOOLEAN]

HostedTypeOK ==
  /\ up \in BOOLEAN /\ closed \in BOOLEAN
  /\ pool \in BOOLEAN
  /\ clock \in 0..MaxClock
  /\ active \in RunIds \cup {NoRun}
  /\ accepted \in Nat
  /\ lastFinished \in -1..MaxClock            \* -1: no run finished
  /\ jobs \in [RunIds -> Statuses \cup {NoRun}]
  /\ admitting \in SUBSET Requests
  /\ queue \in SUBSET RunIds
  /\ work \in Work
  /\ rows \in [RunIds -> Rows \cup {NoRun}]
  /\ refused \in SUBSET RunIds
  /\ issued \in SUBSET RunIds
  /\ told \in [RunIds -> Terminals \cup {NoRun}]

Running(r) == work # Free /\ work.run = r
-----------------------------------------------------------------------------
HostedInit ==
  /\ up = TRUE /\ clock = 0
  /\ closed = FALSE /\ active = NoRun /\ accepted = 0 /\ lastFinished = -1
  /\ jobs = [r \in RunIds |-> NoRun]
  /\ admitting = {} /\ pool = FALSE /\ queue = {} /\ work = Free
  /\ rows = [r \in RunIds |-> NoRun]
  /\ refused = {} /\ issued = {}
  /\ told = [r \in RunIds |-> NoRun]

Passing ==
  /\ clock < MaxClock
  /\ clock' = clock + 1
  /\ UNCHANGED <<up, coordinator, admitting, worker, rows, refused, issued, told>>

\* Mutant: the limit is met only once it is passed.
HasCapacityPastLimit ==
  /\ ~ closed
  /\ active = NoRun
  /\ accepted <= MaxRuns
  /\ lastFinished # -1 => clock - lastFinished >= Cooldown

\* _require_capacity, under the lock.
HasCapacity ==
  /\ ~ closed
  /\ active = NoRun
  /\ accepted < MaxRuns
  /\ lastFinished # -1 => clock - lastFinished >= Cooldown

\* start() up to the URL and DNS admission.
CallStart(q) ==
  /\ up
  /\ q \notin admitting
  /\ HasCapacity
  /\ admitting' = admitting \cup {q}
  /\ UNCHANGED <<up, clock, coordinator, worker, rows, refused, issued, told>>

\* ThreadPoolExecutor.submit starts the thread with the first item.
Submit(r) ==
  /\ queue' = queue \cup {r}
  /\ pool' = TRUE
  /\ UNCHANGED work

\* submit raises after it queued the item, when the thread cannot be started.
SubmitFails(r) ==
  /\ ThreadMayFail /\ ~ pool
  /\ queue' = queue \cup {r}
  /\ UNCHANGED <<pool, work>>

\* The second critical section of start().
Launch(r) ==
  /\ r \in RunIds \ issued
  /\ issued' = issued \cup {r}
  /\ accepted' = accepted + 1
  /\ \/ /\ jobs' = [jobs EXCEPT ![r] = Status("STARTING", "NONE")]
        /\ active' = r
        /\ Submit(r)
        /\ UNCHANGED refused
     \/ /\ SubmitFails(r)                                \* LIVE_RUN_UNAVAILABLE
        /\ refused' = refused \cup {r}
        /\ UNCHANGED <<jobs, active>>
  /\ UNCHANGED <<up, clock, closed, lastFinished, rows, told>>

\* Mutant: capacity is not checked again after DNS.
AdmitUnchecked(q) ==
  /\ q \in admitting
  /\ admitting' = admitting \ {q}
  /\ \/ \E r \in RunIds : Launch(r)
     \/ UNCHANGED <<up, clock, coordinator, worker, rows, refused, issued, told>>

\* start() after DNS: the URL is refused, capacity is gone, or the run starts.
Admit(q) ==
  /\ q \in admitting
  /\ admitting' = admitting \ {q}
  /\ \/ HasCapacity /\ \E r \in RunIds : Launch(r)
     \/ UNCHANGED <<up, clock, coordinator, worker, rows, refused, issued, told>>

\* _failure of a run; of one whose job is gone it raises and reports nothing.
Report(r, status) ==
  jobs' = IF jobs[r] = NoRun THEN jobs ELSE [jobs EXCEPT ![r] = status]

\* The worker takes a run; preparing its budget and capture may fail.
Begin(r) ==
  /\ pool /\ work = Free
  /\ r \in queue
  /\ queue' = queue \ {r}
  /\ \/ /\ work' = [pc |-> "run", run |-> r]
        /\ UNCHANGED jobs
     \/ /\ work' = [pc |-> "release", run |-> r]
        /\ Report(r, Failure("internal"))
  /\ UNCHANGED <<up, clock, closed, active, accepted, lastFinished, admitting,
                 pool, rows, refused, issued, told>>

\* _progress: trace events of the run the slot belongs to.
Progress(status) ==
  /\ work.pc = "run"
  /\ active = work.run
  /\ jobs' = [jobs EXCEPT ![work.run] = Status(status, "NONE")]
  /\ UNCHANGED <<up, clock, closed, active, accepted, lastFinished, admitting,
                 worker, rows, refused, issued, told>>

\* The capture commits the row of the run, or retains its failure to do so.
Capture(row, error) ==
  \E ok \in BOOLEAN :
    /\ rows' = IF ok THEN [rows EXCEPT ![work.run] = row] ELSE rows
    /\ work' = [pc |-> "report", run |-> work.run, error |-> error, persisted |-> ok]

\* Mutant: the runner's result is published when the runner returns.
RunReturnsPublishing ==
  /\ work.pc = "run"
  /\ \E row \in FinishedRows :
       /\ Capture(row, "none")
       /\ jobs' = [jobs EXCEPT ![work.run] = Public(row)]
  /\ UNCHANGED <<up, clock, closed, active, accepted, lastFinished, admitting,
                 pool, queue, refused, issued, told>>

\* The runner returns; its run_finished was the last thing it did.
RunReturns ==
  /\ work.pc = "run"
  /\ \E row \in FinishedRows : Capture(row, "none")
  /\ UNCHANGED <<up, clock, coordinator, admitting, pool, queue, refused, issued, told>>

\* The runner raises.  execute_live has recorded every ValueError, RuntimeError
\* and OSError as a disconnected provider (the agent loop keeps budget limits to
\* itself); what a runner did not record the coordinator does.
RunRaises ==
  /\ work.pc = "run"
  /\ \/ \E error \in {"provider", "internal"} :
          Capture(<<"FAILED", "PROVIDER_DISCONNECTED">>, error)
     \/ \E error \in Errors : Capture(FailureRow(error), error)
  /\ UNCHANGED <<up, clock, coordinator, admitting, pool, queue, refused, issued, told>>

\* Mutant: the runner's success is reported without require_persisted.
PublishUnchecked ==
  /\ work.pc = "report"
  /\ work' = [pc |-> "release", run |-> work.run]
  /\ IF work.error # "none" THEN Report(work.run, Failure(work.error))
     ELSE jobs' = [jobs EXCEPT ![work.run] = Status("COMPLETED", "NONE")]
  /\ UNCHANGED <<up, clock, closed, active, accepted, lastFinished, admitting,
                 pool, queue, rows, refused, issued, told>>

\* Mutant: an exception while reporting skips the release of the slot.
PublishLosingSlot ==
  /\ work.pc = "report"
  /\ \/ /\ work.persisted
        /\ work' = [pc |-> "release", run |-> work.run]
        /\ jobs' = [jobs EXCEPT ![work.run] =
                      IF work.error = "none" THEN Public(rows[work.run])
                      ELSE Failure(work.error)]
     \/ /\ Report(work.run, PersistenceFailed)
        /\ work' = Free
  /\ UNCHANGED <<up, clock, closed, active, accepted, lastFinished, admitting,
                 pool, queue, rows, refused, issued, told>>

\* require_persisted, then the error, or the status read back from the row;
\* the read may fail.
Publish ==
  /\ work.pc = "report"
  /\ work' = [pc |-> "release", run |-> work.run]
  /\ \/ /\ work.persisted /\ work.error = "none"
        /\ jobs' = [jobs EXCEPT ![work.run] = Public(rows[work.run])]
     \/ /\ work.persisted /\ work.error # "none"
        /\ Report(work.run, Failure(work.error))
     \/ /\ ~ work.persisted \/ work.error = "none"
        /\ Report(work.run, PersistenceFailed)
  /\ UNCHANGED <<up, clock, closed, active, accepted, lastFinished, admitting,
                 pool, queue, rows, refused, issued, told>>

\* Mutant: close() waits for the worker with the lock held.
ReleaseWhileOpen ==
  /\ work.pc = "release"
  /\ ~ closed
  /\ work' = Free
  /\ active' = NoRun
  /\ lastFinished' = clock
  /\ UNCHANGED <<up, clock, closed, accepted, jobs, admitting, pool, queue, rows,
                 refused, issued, told>>

\* Mutant: only runs in flight count against the limit.
ReleaseUncounting ==
  /\ work.pc = "release"
  /\ work' = Free
  /\ active' = NoRun
  /\ lastFinished' = clock
  /\ accepted' = accepted - 1
  /\ UNCHANGED <<up, clock, closed, jobs, admitting, pool, queue, rows, refused, issued,
                 told>>

\* The finally clause: the slot is free.
Release ==
  /\ work.pc = "release"
  /\ work' = Free
  /\ active' = NoRun
  /\ lastFinished' = clock
  /\ UNCHANGED <<up, clock, closed, accepted, jobs, admitting, pool, queue, rows,
                 refused, issued, told>>

\* close(): admission stops, then the worker is awaited and the process ends.
Close ==
  /\ up /\ ~ closed
  /\ closed' = TRUE
  /\ UNCHANGED <<up, clock, active, accepted, lastFinished, jobs, admitting,
                 worker, rows, refused, issued, told>>

\* The process is gone, with everything it kept in memory.
Stop ==
  /\ up' = FALSE
  /\ closed' = FALSE /\ active' = NoRun /\ accepted' = 0 /\ lastFinished' = -1
  /\ jobs' = [r \in RunIds |-> NoRun]
  /\ admitting' = {} /\ pool' = FALSE /\ queue' = {} /\ work' = Free
  /\ refused' = {}
  /\ UNCHANGED <<clock, rows, issued, told>>

Exit == up /\ closed /\ work = Free /\ (pool => queue = {}) /\ Stop

\* The process dies at any moment.
Die == up /\ Stop

Restart ==
  /\ ~ up
  /\ up' = TRUE
  /\ UNCHANGED <<clock, coordinator, admitting, worker, rows, refused, issued, told>>

\* get(): memory answers unless it says COMPLETED or does not know the run.
Answer(r) ==
  IF jobs[r] \notin {NoRun, Status("COMPLETED", "NONE")} THEN jobs[r]
  ELSE IF rows[r] # NoRun THEN Public(rows[r])
  ELSE NoRun                                         \* 404

Poll(r) ==
  /\ up
  /\ Answer(r) \in Terminals
  /\ told[r] = NoRun
  /\ told' = [told EXCEPT ![r] = Answer(r)]
  /\ UNCHANGED <<up, clock, coordinator, admitting, worker, rows, refused, issued>>

WorkerStep ==
  \/ \E r \in RunIds : Begin(r)
  \/ RunReturns
  \/ RunRaises
  \/ Publish
  \/ Release

HostedNext ==
  \/ Passing
  \/ \E q \in Requests : CallStart(q) \/ Admit(q)
  \/ WorkerStep
  \/ \E status \in {"RESEARCHING", "EVALUATING"} : Progress(status)
  \/ \E r \in RunIds : Poll(r)
  \/ Close \/ Exit \/ Die \/ Restart

HostedSpec == HostedInit /\ [][HostedNext]_hostedVars

\* The worker's thread runs: a run is bounded in steps and every provider call
\* has a timeout.  close() is followed by the end of the process.
FairHostedSpec ==
  HostedSpec /\ WF_hostedVars(WorkerStep) /\ WF_hostedVars(Exit)

-----------------------------------------------------------------------------
(* Properties. *)

\* One owned worker: whatever is queued or executing holds the one slot, so
\* racing requests launch one run and no slot is free under a physical call.
\* It stands until submit() raises: a refused run stays queued without the slot,
\* and its end releases the slot of the run that holds it.
SlotCoversWork ==
  refused = {} =>
    /\ \A r \in queue : active = r
    /\ \A r \in RunIds : Running(r) => active = r /\ queue = {}

\* Every run the process launched is counted, failed and refused ones included,
\* and the count stays within MaxRuns, however many requests passed the first
\* capacity check together.
LaunchesBounded ==
  Cardinality({r \in RunIds : jobs[r] # NoRun}) <= accepted /\ accepted <= MaxRuns

\* COMPLETED is never reported from memory alone: its row is committed, even
\* when the runner returned a result and the capture had failed.
CompletedIsPersisted ==
  \A r \in RunIds :
    jobs[r] = Status("COMPLETED", "NONE") => rows[r] \in FinishedRows /\ rows[r][1] = "COMPLETED"

\* As long as the process lives, a terminal answer is never taken back.
TerminalIsFinal ==
  [][\A r \in RunIds :
       up /\ up' /\ Answer(r) \in Terminals => Answer(r)' = Answer(r)]_hostedVars

\* A taken slot is freed, by the worker or by the end of the process.
SlotIsFreed == \A r \in RunIds : active = r ~> active # r

\* A graceful shutdown ends: close() never waits for a worker that waits for it.
ShutdownEnds == closed ~> ~ up

\* The process neither stays taken nor stays half closed.
SlotAndShutdownSettle == SlotIsFreed /\ ShutdownEnds

\* What tests/test_hosted_live_runs.py relies on between two runs: a run that is
\* seen terminal has released the slot.
TerminalFreesSlot == \A r \in RunIds : jobs[r] \in Terminals => active # r

\* "Persisted terminal authority": a terminal status a client was told is the
\* one it is told after a restart, unless the run left no row.
AnswerSurvivesRestart ==
  \A r \in RunIds :
    up /\ told[r] # NoRun /\ rows[r] # NoRun /\ told[r] # PersistenceFailed
      => Answer(r) = told[r]
=============================================================================
