--------------------------- MODULE DraftWorkflow ---------------------------
(***************************************************************************)
(* The product path from a decision to a draft pack: the HTTP threads of   *)
(* WorkspaceService.request_approval and confirm_approval, and             *)
(* DraftingService.start_draft_job, over the approval authority.           *)
(*                                                                         *)
(* Each step of a thread is one transaction, or the offline authoring that *)
(* runs outside any.  A thread reads the clock at some time between the    *)
(* end of its previous step ("since") and its transaction; one that waits  *)
(* longer than MaxLag for the write lock fails, as any transaction may.    *)
(***************************************************************************)
EXTENDS ApprovalAuthority

CONSTANTS
  Clients,          \* request threads of the server
  Jobs,             \* draft job ids
  NoJob             \* a job id not in use

VARIABLES
  thread,           \* thread[c]: where the call of c is, and its arguments
  jobs,             \* jobs[j]: latest version of the draft job record
  packs             \* stored draft packs

workVars == <<thread, jobs, packs>>
allVars == <<vars, workVars>>

Idle == [pc |-> "idle"]
Call == {Idle}
  \cup [pc : {"request"}, binding : Bindings, since : Instants]
  \cup [pc : {"confirm", "start"}, approval : Approvals, key : Keys,
        since : Instants]
  \cup [pc : {"compose", "persist", "fail"}, job : Jobs]

Job == [approval : Approvals, key : Keys,
        state : {"RUNNING", "COMPLETED", "FAILED"}]

ASSUME WorkAssumption == NoJob \notin Job

WorkTypeOK ==
  /\ TypeOK
  /\ thread \in [Clients -> Call]
  /\ jobs \in [Jobs -> Job \cup {NoJob}]
  /\ packs \in SUBSET [job : Jobs, approval : Approvals]

Started == {j \in Jobs : jobs[j] # NoJob}

-----------------------------------------------------------------------------
\* Mutant: a transaction waits for the write lock without a timeout.
NowsNoTimeout(c) == {t \in Instants : thread[c].since <= t /\ t <= clock}

\* The instant a transaction of thread c works with.
Nows(c) == {t \in Recent : t >= thread[c].since}

Goto(c, call) == thread' = [thread EXCEPT ![c] = call]

\* The call returns or raises: nothing else of it is left.
Return(c) == Goto(c, Idle)

\* request_approval up to its transaction: the aggregate is read and
\* for_workspace_request takes the mode of the completed source run.
CallRequest(c, d) ==
  /\ thread[c] = Idle
  /\ Recorded(d)
  /\ \E r \in SourceRuns(d) :
       /\ SourceRunReason(d, clock) = "VALID"
       /\ Goto(c, [pc |-> "request", binding |-> <<d, r.mode>>, since |-> clock])
  /\ UNCHANGED <<vars, jobs, packs>>

RequestTx(c) ==
  /\ thread[c].pc = "request"
  /\ \/ \E now \in Nows(c), a \in Approvals :
          Request(a, thread[c].binding, now) /\ UNCHANGED graphVars
     \/ UNCHANGED vars                     \* reused, denied or failed
  /\ Return(c)
  /\ UNCHANGED <<jobs, packs>>

\* confirm_approval up to its transaction, on an approval the user was shown.
CallConfirm(c, a, k) ==
  /\ thread[c] = Idle
  /\ a \in Minted
  /\ Goto(c, [pc |-> "confirm", approval |-> a, key |-> k, since |-> clock])
  /\ UNCHANGED <<vars, jobs, packs>>

\* The confirmation, or the replay of its receipt, goes on to start_draft_job.
ConfirmTx(c) ==
  LET a == thread[c].approval
      k == thread[c].key
      e == approvals[a].binding
      next == [pc |-> "start", approval |-> a, key |-> k, since |-> clock]
  IN /\ thread[c].pc = "confirm"
     /\ UNCHANGED <<graphVars, jobs, packs>>
     /\ \/ /\ confirmReceipt[k] = a
           /\ UNCHANGED authorityVars
           /\ Goto(c, next)
        \/ \E now \in Nows(c) : Confirm(a, k, e, now) /\ Goto(c, next)
        \/ /\ confirmReceipt[k] = NoApproval
           /\ \E now \in Nows(c) : Deny(a, e, now)
           /\ Return(c)
        \/ UNCHANGED authorityVars /\ Return(c)     \* denied, conflict, failed

\* Mutant: a replay resumes the job it finds RUNNING.
StartTxResuming(c) ==
  LET a == thread[c].approval
      k == thread[c].key
  IN /\ thread[c].pc = "start"
     /\ UNCHANGED <<graphVars, packs>>
     /\ \/ \E now \in Nows(c), j \in Jobs \ Started :
             /\ Consume(a, k, approvals[a].binding, now)
             /\ jobs' = [jobs EXCEPT ![j] =
                           [approval |-> a, key |-> k, state |-> "RUNNING"]]
             /\ Goto(c, [pc |-> "compose", job |-> j])
        \/ \E j \in Started :
             /\ jobs[j] = [approval |-> a, key |-> k, state |-> "RUNNING"]
             /\ UNCHANGED <<authorityVars, jobs>>
             /\ Goto(c, [pc |-> "compose", job |-> j])
        \/ UNCHANGED <<authorityVars, jobs>> /\ Return(c)

\* Mutant: the job intent is stored before the approval is consumed.
StartTxIntentFirst(c) ==
  LET a == thread[c].approval
      k == thread[c].key
  IN /\ thread[c].pc = "start"
     /\ UNCHANGED <<graphVars, packs>>
     /\ \/ \E now \in Nows(c), j \in Jobs \ Started :
             /\ Consume(a, k, approvals[a].binding, now)
             /\ jobs' = [jobs EXCEPT ![j] =
                           [approval |-> a, key |-> k, state |-> "RUNNING"]]
             /\ Goto(c, [pc |-> "compose", job |-> j])
        \/ \E j \in Jobs \ Started :
             /\ jobs' = [jobs EXCEPT ![j] =
                           [approval |-> a, key |-> k, state |-> "RUNNING"]]
             /\ UNCHANGED authorityVars
             /\ Return(c)
        \/ UNCHANGED <<authorityVars, jobs>> /\ Return(c)

\* Transaction A: the consumption and the RUNNING intent, or neither.
StartTx(c) ==
  LET a == thread[c].approval
      k == thread[c].key
  IN /\ thread[c].pc = "start"
     /\ UNCHANGED <<graphVars, packs>>
     /\ \/ \E now \in Nows(c), j \in Jobs \ Started :
             /\ Consume(a, k, approvals[a].binding, now)
             /\ jobs' = [jobs EXCEPT ![j] =
                           [approval |-> a, key |-> k, state |-> "RUNNING"]]
             /\ Goto(c, [pc |-> "compose", job |-> j])
        \/ UNCHANGED <<authorityVars, jobs>> /\ Return(c)  \* replay, or rollback

\* The offline author, with no transaction open.
Compose(c) ==
  /\ thread[c].pc = "compose"
  /\ \E pc \in {"persist", "fail"} : Goto(c, [pc |-> pc, job |-> thread[c].job])
  /\ UNCHANGED <<vars, jobs, packs>>

\* Mutant: the pack is committed before the job receipt, which may then fail.
PersistTxPackFirst(c) ==
  LET j == thread[c].job IN
  /\ thread[c].pc = "persist"
  /\ packs' = packs \cup {[job |-> j, approval |-> jobs[j].approval]}
  /\ \/ jobs' = [jobs EXCEPT ![j].state = "COMPLETED"] /\ Return(c)
     \/ UNCHANGED jobs /\ Goto(c, [pc |-> "fail", job |-> j])
  /\ UNCHANGED vars

\* Mutant: a failed transaction B composes again instead of failing the job.
PersistTxRetrying(c) ==
  LET j == thread[c].job IN
  /\ thread[c].pc = "persist"
  /\ \/ /\ jobs' = [jobs EXCEPT ![j].state = "COMPLETED"]
        /\ packs' = packs \cup {[job |-> j, approval |-> jobs[j].approval]}
        /\ Return(c)
     \/ UNCHANGED <<jobs, packs>> /\ Goto(c, [pc |-> "compose", job |-> j])
  /\ UNCHANGED vars

\* Transaction B: the terminal receipt and the pack, or a rollback.
PersistTx(c) ==
  LET j == thread[c].job IN
  /\ thread[c].pc = "persist"
  /\ \/ /\ jobs' = [jobs EXCEPT ![j].state = "COMPLETED"]
        /\ packs' = packs \cup {[job |-> j, approval |-> jobs[j].approval]}
        /\ Return(c)
     \/ UNCHANGED <<jobs, packs>> /\ Goto(c, [pc |-> "fail", job |-> j])
  /\ UNCHANGED vars

\* Mutant: the failure receipt stores the reason as the state.
FailTxWithReason(c) ==
  LET j == thread[c].job IN
  /\ thread[c].pc = "fail"
  /\ \/ jobs' = [jobs EXCEPT ![j].state = "AUTHOR_FAILED"]
     \/ UNCHANGED jobs
  /\ Return(c)
  /\ UNCHANGED <<vars, packs>>

\* _failed; when its own transaction raises, the job is left RUNNING.
FailTx(c) ==
  LET j == thread[c].job IN
  /\ thread[c].pc = "fail"
  /\ \/ jobs' = [jobs EXCEPT ![j].state = "FAILED"]
     \/ UNCHANGED jobs
  /\ Return(c)
  /\ UNCHANGED <<vars, packs>>

\* The server process dies and restarts: only committed records survive.
Crash ==
  /\ \E c \in Clients : thread[c] # Idle
  /\ thread' = [c \in Clients |-> Idle]
  /\ UNCHANGED <<vars, jobs, packs>>

Run(c) ==
  RequestTx(c) \/ ConfirmTx(c) \/ StartTx(c) \/ Compose(c) \/ PersistTx(c) \/ FailTx(c)

WorkInit ==
  /\ Init
  /\ thread = [c \in Clients |-> Idle]
  /\ jobs = [j \in Jobs |-> NoJob]
  /\ packs = {}

WorkNext ==
  \/ GraphNext /\ UNCHANGED <<authorityVars, workVars>>
  \/ \E c \in Clients :
       \/ \E d \in Decisions : CallRequest(c, d)
       \/ \E a \in Approvals, k \in Keys : CallConfirm(c, a, k)
       \/ Run(c)
  \/ Crash

WorkSpec == WorkInit /\ [][WorkNext]_allVars

\* The server runs its threads; nobody has to make a call, and no clock or
\* write of the graph is owed.
FairWorkSpec == WorkSpec /\ \A c \in Clients : WF_allVars(Run(c))

-----------------------------------------------------------------------------
(* Properties. *)

JobsOf(a) == {j \in Started : jobs[j].approval = a}
PacksOf(a) == {p \in packs : p.approval = a}
Holder(j) == {c \in Clients : thread[c].pc \in {"compose", "persist", "fail"}
                                /\ thread[c].job = j}
Running(j) == j \in Started /\ jobs[j].state = "RUNNING"
Orphan(j) == Running(j) /\ Holder(j) = {}

\* DraftingService._existing finds the records of receipt k consistent: one job
\* intent, under the same key, and one pack exactly when that job completed.
Existing(k) ==
  LET a == consumeReceipt[k] IN
  \E j \in Started :
    /\ JobsOf(a) = {j}
    /\ jobs[j].key = k
    /\ Cardinality(PacksOf(a)) = IF jobs[j].state = "COMPLETED" THEN 1 ELSE 0

\* A replay can always be answered: at every moment, crashes included, every
\* consumption receipt has the records DraftingService._existing insists on, so
\* a retried confirmation never raises DRAFT_STATE_INCONSISTENT.
ReplayIsAnswerable ==
  \A k \in Keys : consumeReceipt[k] # NoApproval => Existing(k)

\* Work only follows a spend: a job or a pack exists only for a spent approval.
NoWorkWithoutSpend ==
  \A a \in Approvals :
    JobsOf(a) # {} \/ PacksOf(a) # {} => a \in Minted /\ Spent(a)

\* drafting.py:6: an interrupted RUNNING job is never resumed, and a settled one
\* never changes, whatever is replayed afterwards.
InterruptedJobIsLeftAlone ==
  [][\A j \in Started : Orphan(j) \/ ~ Running(j) => jobs'[j] = jobs[j]]_allVars

\* Two threads never work on the same job, so no job gets two outcomes.
OneHolderPerJob == \A j \in Jobs : Cardinality(Holder(j)) <= 1

\* Work is on record: at every moment, crashes included, each job has one thread
\* at most, the spend it rests on, and the records a replay asks for.
WorkOnRecord == ReplayIsAnswerable /\ NoWorkWithoutSpend /\ OneHolderPerJob

\* A call that was started returns or raises, and the job it started gets its
\* outcome unless the thread was interrupted or _failed itself could not commit.
EveryCallReturns == \A c \in Clients : thread[c] # Idle ~> thread[c] = Idle
RunningJobSettles ==
  \A j \in Jobs : Running(j) ~> (~ Running(j) \/ Orphan(j))

\* Everything started settles: the calls, and the jobs behind them.
WorkSettles == EveryCallReturns /\ RunningJobSettles

\* The workflow implements the single-use grant of every binding.
SpentFor(b) == {a \in Minted : approvals[a].binding = b /\ Spent(a)}
WorkFor(b) == UNION {JobsOf(a) : a \in SpentFor(b)}
StageOf(b) ==
  IF SpentFor(b) = {} THEN "open"
  ELSE IF \E j \in WorkFor(b) : jobs[j].state = "COMPLETED" THEN "delivered"
  ELSE IF \E j \in WorkFor(b) : jobs[j].state = "FAILED" THEN "failed"
  ELSE "working"

Grant == INSTANCE SingleUseGrant WITH
  stage <- [b \in Bindings |-> StageOf(b)],
  packCount <- [b \in Bindings |->
    Cardinality({p \in packs : approvals[p.approval].binding = b})]

ImplementsGrant == Grant!Spec

\* Every step of the product path is a step of the approval authority alone.
ImplementsAuthority == Spec
=============================================================================
