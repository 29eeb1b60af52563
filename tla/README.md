# Formal verification of Qualor

TLA+ models of the Qualor backend (`src/src/qualor`), TLC configurations that
check them on small instances, and theorems checked by TLAPS. Paths below are
relative to `src/src/qualor/` unless they start with `src/`.

    tlc -workers 2 -config DraftWorkflow.cfg MCDraftWorkflow.tla
    tlapm ApprovalProofs.tla

## 1. The system

Qualor evaluates an opportunity (a grant, an open call) for one founder and
their projects, decides what is worth pursuing, and, after an explicit human
approval, drafts an application pack. Research runs use paid model and search
providers under hard budgets.

| part | state it keeps | operations | talks to |
|---|---|---|---|
| Approval authority (`workspace/approval.py`) | approval records with versions and a status, idempotency receipts | request, confirm, validate, consume, revoke one, revoke invalid | the workspace graph, in one transaction |
| Workspace graph (`workspace/lifecycle.py`, `versioning.py`, `store.py`, `persistence/repositories.py`) | versions of opportunity, founder, projects, proof, evaluations and decisions, terminal runs, refresh failures | store, supersede, mark a refresh failed, persist an observation | SQLite |
| Drafting (`workspace/drafting.py`) | draft job records, draft packs | start a job in two transactions with offline authoring between | approval authority |
| Product service (`workspace/service.py`) | none of its own | request and confirm an approval, edit the portfolio, read views | all of the above |
| Run capture (`workspace/run_capture.py`) | the pending records of one run, a retained failure | buffer events, commit run and graph once, record a failure | coordinator, run loop, SQLite |
| Hosted coordinator (`hosted/coordinator.py`) | the active run, launch counter, cooldown, the job statuses | start, progress, execute, get, close | request threads, one worker thread, run capture |
| Hosted capabilities and inputs (`hosted/capabilities.py`, `hosted/inputs.py`) | expiring token table; none | issue, validate; validate a URL and a profile | hosted request threads |
| Budget guard (`runtime/budget.py`) | calls, reserved and committed cost, open reservations | allow, reserve, commit, reconcile | run loop |
| Model receipts (`runtime/model_receipts.py`) | one receipt per model call | plan, dispatch, complete, fail, deny | run loop |
| Run loop (`runtime/agent.py`, `loop.py`, `live_cli.py`) | turns, steps, failures, admitted claims and sections, the compiled bundle, the trace | plan, act, admit, evaluate, stop, report | providers, budget guard, capture |
| Section acquisition (`runtime/section_*.py`, `acquisition_*.py`) | section index, plan, coverage ledger, admitted authority | activate, select and begin a job, complete, deny, fail, overflow, stop | run loop, budget guard |
| Persistence (`persistence/`) | SQLite file, applied migrations | transactions, migrations | everything |
| API start-up (`api.py`) | the security mode | migrate, check a hosted file | persistence, coordinator |
| Pure engines (`eligibility/`, `decisions/`, `conflicts/`, `matching/`, `effort/`, `strategy/`) | none | assess a snapshot | run loop |

What is hard here:

* The clock is read **before** a transaction waits for SQLite's write lock
  (`approval.py:402`, `database.py` busy timeout of 5 s), so transactions commit
  in an order that disagrees with the order of their instants.
* An approval binds a whole graph. Any record of it may move between the
  request, the confirmation and the spend.
* Drafting spends the approval in a first transaction, authors outside any, and
  stores the pack in a second one: threads, retries and process death fall
  between them.
* The coordinator checks capacity, releases its lock for DNS, and checks again;
  status, slot and row are changed in different critical sections; the process
  has memory that a restart loses and rows that it keeps.
* One file is opened by request threads and by capturing processes: each reads
  the applied migrations before it holds the write lock, resolves a version long
  before it commits, or upgrades a snapshot that is no longer the newest.
* A run pays for calls that fail between their reservation and their receipt;
  stop reasons, denials and repetitions pile up while the tool loop unwinds; what
  it decides on is cached by a revision that several admissions move.
* Facts arrive one by one and evidence ages: a rule, a gate or a recommendation
  settled early could be reversed by what is learnt next.
* One source is read by a handful of paid extraction calls in one thread. What
  varies is the source, the answers and which step fails; the ledger, the
  admitted authority, the counters of the run and the shared budget change at
  different points of one job, and an exception leaves some of them changed.

`PROJECT.json` lists each of these hazards at its line.

## 2. The modules

    WorkspaceGraph ──> ApprovalAuthority ──> DraftWorkflow ──> DraftProofs
                          │        ▲              │
                   ApprovalProofs  └── refines ───┤
                                    SingleUseGrant┘
    HostedRuns ──> HostedProofs

    ProductStore ───────┬──> ProductServer ──> ServerProofs
    HostedCapabilities ─┘

    LiveBudget ──> ResearchRun ──> ResearchProofs

    AcquisitionPlan ──> CoverageLedger ──> SectionAcquisition ──> SectionProofs

    EligibilityEngine ──> ConflictEngine, PlanningEngine ──> DecisionEngine ──> EngineProofs

    DataInduction ──> ServerProofs, ResearchProofs, SectionProofs, EngineProofs

| module | models |
|---|---|
| `WorkspaceGraph` | the records an approval is bound to, the writers that move them, and `GraphReason`, every clause of `_graph_reason` in its order |
| `ApprovalAuthority` | extends it with the approvals and receipts; one action per transaction of `approval.py` |
| `DraftWorkflow` | extends that with the request threads of the product service and drafting: each step one transaction or the offline author |
| `SingleUseGrant` | the abstract promise: a decision is granted at most once and its work is delivered at most once |
| `HostedRuns` | the hosted process: request threads, worker, rows, clients, shutdown, death, restart |
| `ProductStore` | one SQLite file and the connections that meet on it: migrations, server start, portfolio edits, captured runs |
| `HostedCapabilities` | the table of browser tokens of a hosted server |
| `ProductServer` | composes the last two: browsers reach the table while the server is up and hosted |
| `LiveBudget` | the budget guard and the receipt ledger, and the two sides of a budgeted model call |
| `ResearchRun` | one live run on that budget: planner turns, search, fetch, extraction, admissions, the report |
| `AcquisitionPlan` | pure: the plan of a source, and the closure of its activations under context |
| `CoverageLedger` | the ledger of a plan as a value, one operator per method |
| `SectionAcquisition` | the drain loop, the scheduler, the admission of readings and the planner's turns around them |
| `EligibilityEngine`, `ConflictEngine`, `PlanningEngine` | pure: the rule engine with its evidence, the conflict rules, and matching, effort and score |
| `DecisionEngine` | the policy over them, as a state machine of consecutive runs |
| `DataInduction` | models nothing: induction over the numbers and finite sets, and what the library's folds, sums, maxima and recursive functions compute |
| `ApprovalProofs`, `DraftProofs`, `HostedProofs`, `ServerProofs`, `ResearchProofs`, `SectionProofs`, `EngineProofs` | the theorems |
| `MC*` | model values, bounds and symmetry of the runs |

Definitions named `...` after a comment that starts with "Mutant:" are broken
variants of the definition below them, in use by no specification; they record
that each property notices a plausible bug.

### WorkspaceGraph and ApprovalAuthority

`oppV`, `founderV`, `projV` are the latest versions of the opportunity, founder
and project records; `evals` the evaluations with the versions they were made
from and their `created_at`; `runs` the terminal run rows; `refreshFailed` and
`proofReplaced` the two ways the evidence of a graph goes bad.
`GraphReason(d, now, mode, requireCurrentRun)` is `_graph_reason`: the reason a
decision may not be acted on, or `VALID`. `Inspect` is `_inspect`, with the
order of its returns kept, since the order decides which denial revokes.

`approvals[a]` is the latest version of an approval record (earlier versions are
immutable and only read back as history); `consumedAt = -1` is `None`.
Each action is one `BEGIN IMMEDIATE` transaction, with an instant `now` that is
any of the last `MaxLag` clock values.
A denied `confirm`, `validate` or `consume_approval` whose reason is in
`RevokingReasons` commits the revocation, as the code does; every other denial
and every answer from a receipt leaves the state alone, and is a stutter.

Abstractions: one founder and one opportunity (an approval never relates two);
record contents are versions and a policy; kinds of evidence are not told apart;
a rejected snapshot write is a failing transaction; ids are drawn from a set
instead of `uuid4`.
`confirm_approval` of the product service passes `require_current_run=False`, and
so does the model.

### DraftWorkflow

`thread[c]` says where the call of a request thread is: reading for a request,
the confirmation transaction, transaction A of `start_draft_job` (which spends
the approval and stores the RUNNING job), the author, transaction B (which
stores the pack and completes the job), and `_failed`. `since` bounds the
instant the thread reads: it is read after the previous step. A thread may
vanish at any step, and a transaction may fail at any step: with its lock not
obtained, its write rejected, or the process gone.

`SingleUseGrant` is refined by `DraftWorkflow` through a mapping that calls a
decision granted when an approval of it is spent, and delivered when a pack for
it is stored. `DraftWorkflow` also refines `ApprovalAuthority!Spec` with the
identity mapping, so that everything proved of the authority alone holds of the
authority inside the product.

### HostedRuns

`closed`, `active`, `accepted`, `lastFinished`, `jobs` are the coordinator's
fields; `queue` and `pool` the single-worker `ThreadPoolExecutor`; `work` the
position of the worker in `_execute`; `rows` the database; `told` what a client
has read. `Failure` and `Public` are the two classifications of a failed run:
from its exception, and from its row. `Stop` is the end of the process with the
loss of its memory. `Launch` is the second critical section of `start()`, whose
`submit()` may fail after it queued the item (CPython's executor appends to its
queue before it starts a thread); `ThreadMayFail` says whether the system can
refuse a thread, and is TRUE only where a run is about that.

Abstractions: run events only matter as the two in-progress statuses; `get()` is
atomic, since a row is never rewritten; the input checks are a step that may
refuse; wording of errors is left out.

### ProductStore, HostedCapabilities and ProductServer

`applied` is `schema_migrations`, `tables` the migrations whose tables exist;
`founders`, `projects`, `opportunity`, `decisions`, `runs` are the tables.
`session[c]` is what a connection is doing: idle, connected with the applied
versions it read (`seen`), running a live run with the version it resolved, or
inside the deferred transaction of its terminal commit. `current` says whether
that transaction's snapshot is still the newest; `Overtake` clears it in every
other session when a commit changes the file, and SQLite then refuses the
upgrade. An immediate transaction is one action: it holds the write lock from
`BEGIN` to `COMMIT`.

`Migrate` creates the tables of the smallest version missing in `seen`, and
raises when another connection created them in between. `Start` is the lifespan
with its check of a hosted file (`Sanitized`), `EditTx` is
`_update_portfolio_record`, and `Resolve`, `ReadSnapshot`, `CaptureTx` and
`Retain` are `RunCapture`. `Stop` and `Die` are the end of the server and of a
capturing process. `edits` and `told` are history variables: the edits accepted,
and what `require_persisted` said of each run.

In `HostedCapabilities` a thread first reads the clock (`reading`), then takes
the lock (`Issue`, `Validate`); `entries` is the `OrderedDict`. A token is the
serial of its issue, since two random tokens never collide. `ProductServer`
lets browsers reach the table while the server is up in hosted mode and empties
it with the process.

A capture is `by` the server, whose runs are of the demo profile and end with its
process (`OfServer`), or by the owner, whose process opens the file at any time,
a hosted server's file too: nothing in the code prevents it.

Abstractions: rows are an id, a version and the author of their text; one
opportunity; the ways an old file fails `_validate_schema` are one; one server at
a time is started on a file.

### LiveBudget and ResearchRun

`calls`, `reserved` and `open` are `LiveBudgetGuard`, `receipts` and
`dispatched` the ledger; costs are whole units instead of decimals. `Allowed` is the check of
both caps, `Reserve` and `Purchase` the two paid paths without and with a
commit, `Reconcile` the settlement of a model call. `CallDispatched`,
`CallDenied`, `CallUnrecorded`, `CallReturns` and `CallFails` are `converse`
before and after the provider answers, in the order of the code: receipt,
reservation, dispatch, answer, reconciliation, settlement.

`phase` says where the run is: asking the model, waiting for an answer, handling
the tools of one, acquiring a source, draining its jobs, extracting claims,
returning a result, finishing. `reason` is `termination_reason`; `actions` holds
the kinds of keys entered, since whether a key repeats is the planner's free
choice once its kind was entered. `claims` and `sections` are the content of the
authority, `revision` and `bundleRevision` the two sides of the bundle's cache
(`evaluate_current_state`). The jobs of a source are counted only: which job
comes next is `SectionAcquisition`'s subject, and the two modules share the
shape of `drain`, each refined where the other is coarse. `trace` is how many
receipts the report kept.

Abstractions: search results are whether a candidate is known; the gates of all
candidates are `FAIL`, `PASS` or open; a receipt has no text. `run.search_calls`
and the diagnostics are left out.

### AcquisitionPlan, CoverageLedger and SectionAcquisition

A source is a section index, chosen in `Init` and fixed; `plan` and `ledger` are
what `build_acquisition_plan` and `CoverageLedger` make of it. An item is its
place in the plan, an obligation a pair of an item and a category. `ledger`
holds `_plan_item_states`, `_activations`, `_attempts` and `_outcomes`;
`Supported` and `ContextUnresolved` are what `_recompute_plan_states` derives.
`observations` is `_observations`, and `executable` the categories that
`section_results` holds without the coverage guard. `calls` counts the inference
reservations of the shared budget, `base` those made before the scheduler was
built, `dispatches` those made for extraction (a history variable: the code
derives it as `calls - base`). `pc` is the place in the loop of `drain`:
selecting, entered with a job, dispatching, or back with the planner.

`PlanFull`, `BudgetBound`, `SelectJob` and `NothingToSelect` are the returns of
`next_job`; `BeginJob` is `enter` and `begin`; `DispatchDenied`, `DispatchFails`
and `DispatchCompletes` are the three ends of the body of the loop, the last
with the whole of `_admit`. The actions whose names end in `Raises` are
exceptions that leave the loop, with what they leave changed.

Abstractions: the run starts with the plan built, after at least two planner
turns. Values are model values, two of which conflict (`REQUIRED_TECHNOLOGY`
never conflicts in the code). Fingerprints of the authority are the readings and
the categories they make executable. The verdict of the decision engine is any
that the executable categories allow. Left out: the claim path of unplanned
sources, `MODEL_RETAINED_UNKNOWN` readings dropped in favour of supported ones,
`replace_index` (it has no caller in the loop), revisions, diagnostic
transitions, and failures of the receipt of a completed call. A planner turn
uses one tool at most. `AMBIGUOUS_ANCHOR` is requested by `reconcile_plan` but is
in no item's reasons (`acquisition_plan.py:202`), so it never activates anything,
in the code and in the model.

### EligibilityEngine, ConflictEngine, PlanningEngine and DecisionEngine

Pure operators of an input: what is stated of the founder, the projects, the
opportunity, its rules and their evidence. A fact is its value or `None`.
`EvaluateRule` follows the tree of a rule with a recursive function over its
children; `AggregateEligibility` is the nine-category gate; `AssessConflicts`,
`AssessReadiness`, `AssessCapacity`, `AssessAffordability` and `DeriveStrategy`
are the assessments the six-rule policy `Recommend` reads. `DecisionEngine` makes
a state machine of them. Its actions are the differences between two consecutive
runs: one more fact stated, a record reviewed, time passed. After each of them
the decision is made afresh, so that an action property compares two decisions.
`DecisionInput` and the predicates before it are the contracts of the domain
records, as far as the engines rely on them: the fields there are, whole hours
and dates, and that the children of a rule are a part of it (`Nested`), which is
what makes the recursive function over a tree of rules meaningful.

Abstractions: instants are units of six hours (near evidence lives one, other
evidence four, a deadline is near within twelve, as in the code); reason codes
are sets; ids, wording and quotes are left out.

## 3. The runs

| run | instance | asks |
|---|---|---|
| `authority` | two approvals, keys, modes and policies, clock 0..4, lag 1, two graph writes | `TypeOK`, `OneLiveApproval`, `SpentOnRecord` (a spend has one receipt, its own confirmation and its deadline), `LifecycleOrder` |
| `graph` | two projects, evaluations and runs, clock 0..1 | `ActsOnCurrentGraph`: a confirmation or a spend acts on the graph as it is in that transaction |
| `draft` | two fair threads, one approval, two keys, two jobs, clock 0..2 | `WorkTypeOK`, `WorkOnRecord` (no work without its spend, one thread per job, a replay finds consistent records), `InterruptedJobIsLeftAlone`, the refinements `ImplementsGrant` and `ImplementsAuthority`, and the liveness `WorkSettles` |
| `hosted` | two requests, three run ids, a limit of two launches, threads that may not start, death and restart | `HostedTypeOK`, `SlotCoversWork`, `LaunchesBounded`, `CompletedIsPersisted`, `TerminalIsFinal`, and the liveness `SlotAndShutdownSettle` |
| `server` | two connections, two founders, three projects with a limit of two, two runs, five requests; two browsers, three tokens, a table of two | `ServerTypeOK`, `SchemaIsWhole` (nobody works on a file without exactly the release's migrations, and no gap is left in a history), `VersionsIdentify`, `AcceptedEditsStand`, `RunsAreWhole`, `HostedServesDemo` (only the commit of an owner's capture brings a row that is not the demo's to a serving hosted server), `TokenLifetime` |
| `research` | three model calls, one search, two fetches, a cap of seven units, three turns, six steps, a plan of two jobs, a trace of seven | `ResearchTypeOK`, `SpendIsAccounted`, `StopsForItsReason`, `ReportIsTrue`, `NoSpendAfterStop`, and the liveness `RunEnds` |
| `acquisition` | sixteen sources, three categories, two conflicting values, `UNKNOWN` readings, three jobs | `StartedIsAccounted`, `VerdictRestsOnCoverage`, `ConflictNeverExecutes`, `AcquisitionSettles`, `EndsStand` |
| `engines` | thirty-three inputs with one defect each, every one again with one fact absent and four of them with two, then up to five units of time and every answer | `ActOnlyOnGround`, `ViolationSkips`, `ActOnTheBest`, `VerdictStands`, `WaitingNeverHelps` |
| `section_begin`, `section_stale`, `hosted_slot`, `hosted_restart` | | expected violations, see section 6 |

Why the bounds are enough. Every hazard of the authority is about a pair: two
requests of one binding, a spend and a retry, an inspection and the record it is
older than. Two approvals and two keys give every pair. The clock of `authority`
lets an approval (two ticks of life) be created, expire and be requested again,
and the lag lets an instant be older than the record it meets. Deadlines in
`MCDeadline` fall inside and after that life. `OneWrite` and `TwoWrites` bound
the writes to the graph: one write invalidates a binding and the second changes
it again. In `hosted`, two launches let the limit be met, missed
through a race, and reset by a restart; the third run id is there for a launch
past the limit, which `LaunchesBounded` says does not happen. The constraint
`DrawnInOrder` keeps that id for this: it cuts behaviours in which the third id
is drawn by a process within its limit (after a restart), and orders the ids,
which differ in nothing else. Without it the graph is several times as large and
asks nothing new; liveness is checked over the behaviours it leaves, those of at
most two runs. The hazards of drafting are a thread and
a second one that replays, so one approval with two threads, keys and jobs has
them all; what more approvals add is proved (section 4).

In `server` two connections give every pair of operations of the file: two
migrations, an edit and a capture, two captures. Five requests let a file be
migrated, edited and captured into by two runs; three project ids pass a limit
of two; three tokens overflow a table of two. The two studio files share a
founder and a project with different versions, so that captures conflict. The
symmetry is over connections, run ids, digests and browsers.

In `research` a planner call and an extraction call together reach the cap, a
third is denied on calls; one search is served and the next denied; a trace of
seven holds the steps but not all receipts beside them, so that the truncation
happens. `MaxSlots` and `MaxDispatched` keep the relation of the code: one more
receipt may be planned than calls dispatched.

The sources of `MCSectionAcquisition` are one for each shape the plan
distinguishes: two clauses of a category, a clause of several, headings only,
hints, a context too long or cut off, one cut short of a global section, a chain of references, more sections than
jobs, promoted sections. Two jobs are enough for two readings to conflict or for
a failure to follow an admission; the third reaches activations that wait for
two anchors. `MaxContext` is two (the code has twelve), so that a source of seven sections,
two of them global, has contexts cut short of a global one. `PlanCap`, `MaxCalls` keep the relation of the code (7 and 9, two
turns before the plan): a limit of calls larger by more would let planner calls
carry the count past the limit of jobs, which the code compares for equality.
`MaxClaims` and `Strikes` are the code's own numbers.

The inputs of `engines` start from one that every engine is content with and
differ from it in one defect: a closed or passed deadline, stale or unreviewed
evidence, a disputed rule, a lineage, a second project, another currency, the
same material listed in another order, the input a live run compiles. Facts absent at the start are what the answers then
state; two of them absent together are what makes an early verdict reversible.

`MaxVersion`, `MaxClock`, `MaxLag`, `MaxRequests`, `MaxInstant`, `Horizon` are the
bounds that appear in guards. A clock bound cannot hide a late event: an
approval outlives no more than `ApprovalTtl` ticks, a token `Ttl`, evidence
`DefaultTtl`. Symmetry is used in safety runs only, over ids the code only
compares for equality. `CHECK_DEADLOCK FALSE` is given because the models do
stop: ids, versions, requests and the clock run out, and a run ends.

Fairness. A request thread and the worker are threads of one process that the
operating system schedules; every loop of theirs is bounded (a run has at most
24 steps, each provider call a timeout; a transaction waits 5 s for the lock at
most). So `WF` of the step of each thread is what the code gives. A research run
is one thread, and `FairSpec` is `WF` of its next step: each provider call
answers, fails or times out. No fairness is assumed of clients, of the clock, of
a crash or of a restart.

## 4. What is proved

Theorems hold for every value of the constants that satisfies the named
assumptions: `GraphAssumption`, `AuthorityAssumption`, `WorkAssumption`,
`HostedAssumption`, `StoreAssumption`, `CapabilityAssumption`,
`BudgetAssumption`, `RunAssumption`, `NoneAssumption`, `PlanConstants`,
`RunConstants`, `TtlAssumption`, `HoursAssumption`, `AbsentAssumption`,
`ScenarioAssumption`, `AnswerAssumption`. The last two say that a first input
keeps the contracts of the domain, and that an answer is of the kind its field
asks for; TLC evaluates them on the inputs of `engines`.

`DataInduction` is what the other modules cite about data. A theorem with an
operator as its parameter cannot be instantiated here, so its lemmas are stated
of sets and functions. `LeastNumber` and `SubsetInduction` (a set of subsets that
holds the empty one and grows by one element holds every finite subset) come from
the well-foundedness of the numbers and of finite cardinality. From them:
`Computes` and `TreeRecursion` (a recursive function over a finite, nested
structure has the values of its equation, and a property that passes from the
parts to the whole holds everywhere), `GrowthCloses` (n rounds close a set of n
elements under a step), what a sum is after one term changed, and
`SortedEnumeration` (a strict total order of a finite set has its one sorted
sequence).

`ApprovalProofs`, of `ApprovalAuthority!Spec`: `TypeCorrect`,
`RequestsConverge` (`OneLiveApproval`), `SingleUse` (`OneSpendPerBinding`),
`SpendsAreRecorded` (`SpentOnRecord`), `LivesRunForward` (`LifecycleOrder`) and
`ActionsAreCurrent` (`ActsOnCurrentGraph`).
The first invariant joins the type invariant, `Grounded` (what a
minted record and a receipt say agree with each other) and `OneLiveApproval`.
`OneSpendPerBinding` is not inductive: a spend could meet
another spent approval of its binding, if a request had minted a second record
beside a live one; `OneLiveApproval` excludes exactly this, and rests on
`Reusable` counting a spent record for ever, and a live one until it expires.
Stale instants do not matter to it because `Inspect` refuses an instant older
than the record's last update, and `LivesRunForward` follows from the same
refusal. `SpendsAreRecorded` adds `ReceiptInv`: an approval is spent exactly
when a consumption receipt names it, no two receipts name the same, and whatever
was confirmed has the receipt of its confirmation. `ActionsAreCurrent` needs
`RowsOfEvaluations`: every run row names an evaluation that was stored and
carries its version of the opportunity, so that the one row `GraphReason` asks
for speaks of the graph that is acted on.

`DraftProofs`, of `WorkSpec` (which `FairWorkSpec` restricts):
`ProductUsesTheAuthority` (`ImplementsAuthority`), by simulation: every step of
a thread is one transaction of the authority or leaves it alone. Hence the
theorems of the authority hold of the product. `WorkTypeCorrect`,
`WorkStaysOnRecord` and `InterruptedJobsRest` rest on `WorkInv`: a thread past
transaction A holds the RUNNING job of its own key (`HolderInv`), a job agrees
with the receipt that spent for it (`JobInv`), a pack with its completed job
(`PackInv`). `WorkKeepsTheGrant` (`ImplementsGrant`) is the refinement of
`SingleUseGrant`: a spend moves its binding from asked to granted because
`SingleUse`, obtained through the first theorem, leaves no other spend of it; a
pack moves the count of its binding by one because its job is fresh.

`HostedProofs`, of `HostedSpec`, whether or not threads can always be started:
`HostedTypeCorrect`, `OneOwnedWorker` (`SlotCoversWork`), `LaunchLimit`
(`LaunchesBounded`), `NoSuccessFromMemory` (`CompletedIsPersisted`),
`AnswersStand` (`TerminalIsFinal`). The invariant adds `Drawn` (an id not drawn
has neither job nor row, and none is queued twice), `Unfinished` (a run queued,
running or reporting is in progress, or was refused and is not known; it has no
row before its capture) and `Counted` (the set of launched and refused runs is no
larger than the launch counter, which the capacity check bounds). A refused run
that stayed queued is followed to its end: it is executed, may leave a row, and
the answer of that row stands. `NoneRefused`: where threads can be started no run
is refused, so the slot covers the work always.

`ServerProofs`, of `ServerSpec`: `StoreTypeCorrect`, `MigrationsAreWhole`
(`SchemaIsWhole`), `VersionsAreIdentities` (`VersionsIdentify`), `EditsStand`
(`AcceptedEditsStand`), `RunsStandWhole` (`RunsAreWhole`),
`HostedServesDemoOnly` (`HostedServesDemo`), `TokensLive` (`TokenLifetime`),
`ServerTypeCorrect` (`ServerTypeOK`). `RowsInv` says that the profile
tables are finite, hold one row per version, and that every id with a row has a
newest one: the last is carried as an invariant, since the maximum of a finite
set would otherwise need induction. `CaptureInv` says that an open capture is of
a run nobody was told of. `SchemaInv` follows
the migrations: what a connection read is still on file, whoever is past its
connection found or made the file complete, and a connection that another one
overtook raises on a table that exists instead of recording a version out of
order (`MigrateAssuming`, without that, breaks it), so the history on file is one
this release supports at each step. `HostedInv` ties the check made at the start
to the later states: in hosted mode the open sessions are starts, captures of the
demo file and captures of the owner. An edit of local mode does not outlive its
server, a demo run adds no row that is not the demo's, the check finds every such
row (an id with two versions is no demo row either, `SoleIsCurrent`); what is
left is the commit of an owner's capture, and the theorem names it. For the tokens the invariant
says that the table holds tokens of this process in the order of their issue,
each with the expiry it was handed out with, and that whatever left it early left
behind as many later ones as the table holds: pruning keeps a subsequence
(what `SelectSeq` keeps of a sequence), eviction drops the head.

`ResearchProofs`, of `Spec`: `ResearchTypeCorrect`, `StopsAreGrounded`
(`StopsForItsReason`), `ReportsAreTrue` (`ReportIsTrue`),
`StoppedRunsSpendNothing` (`NoSpendAfterStop`). `CallInv` says which receipt and
reservation belong to the call in flight; `ProgressInv` bounds the counters
by what was entered; `DecisionInv` says that a bundle whose revision is current
was compiled from the content there is now, and that a rolled back admission
moves the revision on; `StopInv` says that a reason once given was met and that
what it was met by is still visible. `SpendsAreAccounted` (`SpendIsAccounted`)
follows the one reservation in flight through the sums: a call moves one term of
one of them at a time, and a call that cannot be recorded moves its cost from the
receipts to the open reservations for good.

`SectionProofs`, of `AcquisitionSpec`, for every set of sources, number of
categories and budget: `ConflictsNeverExecute` (`ConflictNeverExecutes`),
`VerdictsRest` (`VerdictRestsOnCoverage`), `NothingStartedIsLost`
(`StartedIsAccounted`), `RunsSettle` (`AcquisitionSettles`) and `NothingReopens`
(`EndsStand`). The second needs
`VerdictInv`: outcomes are retained only for items whose context fits a job,
because a job is drawn only for those, and a verdict leaves the loop for good.
Without that last part the property is not inductive: the ledger moves on under
an authority that was guarded by an earlier ledger, which is what `section_stale`
shows; only the moment of the verdict is safe.

`NothingStartedIsLost` and `RunsSettle` rest on `CoverageInv` and `DrainInv`. `CoverageInv`: the plan is
one (`BuildsPlan`: for every index, `BuildPlan` gives the sorted sequence of
items with distinct sections or categories); activations are of conditional items
whole or of reserve items, are started, and are closed under context
(`ContextCloses`: as many rounds as the plan has items reach everything that is
linked); only the job in hand is attempted; once the scheduler had no work the
run is over. `DrainInv`, as long as no reserve item is promoted: the categories
of an item are in one state; what was entered on or attempted is beyond being
drawn again; the job in hand is an item whole; each reservation since the
scheduler was built is one dispatch, and work overflows only when all were
made. Each part is needed for another: that no key is entered twice needs the
drawn to stay beyond, which needs items whole, which an item promoted under some
categories only would break.

`NothingReopens` adds the routing of the source (`PlanIsRouted`: which sections
become items of which route, and why) and `EndsInv`. What `BuildPlan` and the
first reconciliation start is closed under context, so an activation due later
can only be of a conditional item that refers to no section (`Follows`,
`ContextSettles`), and reaches global sections only: active already, or the
reserve items of global sections (`GlobalsFollow`). Where no
context was cut short of a global section (`Governed`) such a reserve item governs
every other section, and `EndsInv` says that while a reconciliation may still come
(`Open`) no obligation of such an item has an end. It is never answered or
failed, because `begin` refuses its job; it is not found unresolved, because a
scan that goes on has found an item with its whole context, and so every section
that governs it (`ContextFitsOn`, `GlobalsAreSafe`), and one that stops at a job
too wide stops at the global item if that is earlier (`WideTogether`); and an
overflow is recorded only once no call is left. So a late activation finds
nothing ended to start anew. The ledger's other steps only add ends (`Stands`).
Where a context was cut short (`index_source` keeps the first
`MAX_CONTEXT_SECTION_IDS` of it) a global reserve item may be found unresolved by a
scan that goes on, and be reopened. There ends stand as long as no reserve item
was promoted, since what the others can still activate has nothing started. The
theorem says both: `EndsStand` is conditioned on `GlobalsGovern` or no promotion,
and the inductive invariant (`EndsApart`) carries `EndsInv` under `Apart`, the same
of the plan and the ledger. A source of at most `MaxContext` + 1 sections has
every context in full.

`EngineProofs`, of `DecisionEngine!Spec`, for any inputs that keep the contracts:
`RunsDecide` (every run decides on such an input, whatever is stated, read,
reviewed or waited for in between), `ViolationsSkip` (`ViolationSkips`),
`ActsOnTheBest` (`ActOnTheBest`), `ActsOnGround` (`ActOnlyOnGround`),
`LearningReversesNothing` (`VerdictStands`) and `WaitingHelpsNobody`
(`WaitingNeverHelps`). The first is the invariant (`DecidedInv`) of the others,
which are then about operators: `ActingNeeds` collects what the policy asks for an action; the gate
is traced back, by `TreeRecursion`, from the evaluation of a critical rule to the
evidence it and its children rest on; a deadline near for one rule shortens the
life of every record; the best score is the unique maximum of a finite set.

The last two compare two evaluations of all the engines. `CarriesOver` says what
one input settles of a rule that another settles too (evidence without issues,
no taint, a leaf that passes), and is lifted by induction over the nesting of
the rules to the gate (`GateCarriesOver`); the taint takes an induction of its
own (`TaintCarriesOver`), since a composite that passes is undone by the taint
of an alternative it does not rest on. It is used in both directions. Towards more knowledge, from the earlier input to the later one:
`Learned` says that the later one states all the earlier did, every action of
`Learn` satisfies it, and each engine's answer other than "unknown" is kept
(`GatesLearned`, `ConflictsLearned`, `FactorKept`, `ReadinessLearned`,
`CapacityLearned`, `AffordabilityLearned`), so that a score is final as soon as
there is one (`StrategyLearned`). Reading a limit on the adaptation must exclude
that there is none, or a rating would change from one to the other. Back in
time, from the later input to the earlier one: a record only ages
(`RecordsAge`), also because a deadline coming near shortens its life
(`LifeShrinks`), hours only run out (`HoursRunOut`), and an opportunity open for
entry has been so since (`LeavesAge`), so that what can be acted on later could
be acted on before (`CandidatesAge`). This holds only where no record of
evidence is dated ahead of its evaluation, which is so of every input of the run.

Only model-checked:

* liveness (`WorkSettles`, `SlotAndShutdownSettle`, `RunEnds`), whose fairness
  needs `ENABLED`, which is outside the prover;
* the four properties that are violated.

## 5. What is not modelled

`PROJECT.json` "components" gives each with its reason.

* Extraction and normalization: parsing of text into typed claims. What they
  return is a nondeterministic outcome of the runs that use them; a model of the
  parsing would be the parser. Of the domain contracts, what the engines do not
  rely on.
* Read models and product state: projections of one snapshot for display.
* Template prose, HTTP routing and headers, URL and profile validation, network
  transports, schema export, deployment scripts and the front end.
* Of modelled parts: event buffering of the capture, `replace_index` of the
  ledger (no caller in the loop), `run.search_calls`, the content of traces and
  diagnostics, an agent that answers with more than one tool call per turn in
  `SectionAcquisition` (`ResearchRun` has them).

## 6. Findings

* `hosted_slot`: a run is terminal in one critical section and frees the slot in
  a later one. A client, or a test, that posts as soon as it saw a terminal
  status can be refused with `LIVE_RUN_BUSY`.
* `hosted_restart`: of a run that raised, memory and row give two
  classifications; the answer changes when the process restarts.
* `section_begin`: a reserve section that an active item refers to, or that
  governs it, is promoted and selected, and its job is then refused by `begin`
  with an exception that leaves the loop. The planner may spend further calls;
  a second drain stops at the repeated key, and the calls of the planner can
  then make the plan look exhausted, so that parts of `StartedIsAccounted` and
  `AcquisitionSettles` are claimed only for sources without such a section.
* `section_stale`: a category answered and executable keeps its authority when a
  failed job of another category starts more work on it.

Observations without a run of their own, read in the code while modelling it:

* A request refused with `LIVE_RUN_UNAVAILABLE` because no thread could be
  started leaves its run in the executor's queue; a later request executes it,
  and its end clears the slot (`coordinator.py:98`, `191`). In the model
  (`ThreadMayFail`) the slot then covers the queue no longer, and
  `SlotCoversWork` speaks of processes that refused no run so (`refused = {}`).
* Contexts found unresolved after the reconciliation of `next_job` can make an
  activation due (`acquisition_plan.py:518`) that is then never applied.
* An activation is recorded under its item and its categories
  (`acquisition_coverage.py:566`), so a reserve item ended under one set of
  categories is started again by an activation under a larger one. Only a global
  section can be reached so late. Where it governs every other section it has no
  end by then, as `NothingReopens` proves. Where a context of more than
  `MAX_CONTEXT_SECTION_IDS` (12) sections was cut short of it
  (`sections.py:694`), it is recorded as `CONTEXT_UNRESOLVED` and then reopened:
  TLC refutes `EndsStand` without its condition on the source of `acquisition` with
  cut contexts.
* A hosted server checks its file once, when it starts (`api.py:103`). Nothing
  prevents the owner from capturing a run into the file afterwards, and the server
  then serves the owner's rows, although the comment at `api.py:102` says that it
  "must never serve an owner's local database by accident". `HostedServesDemo`
  allows this one way and excludes every other.
* A capture stores the profile rows of its studio file without the project
  limit, and may store a second founder; portfolio edits of the founder are
  refused with `NOT_FOUND` from then on.
* A run whose terminal commit meets a newer snapshot loses its row although its
  calls were paid (`run_capture.py:251`); the failure is retained and told.
* The loser of two concurrent first starts fails on "table already exists"
  although the schema is complete; a retry succeeds.
* `execute_live` calls `run_failed` when something raises after `run_finished`
  stored the row, which then raises "already persisted".
* A live run compiles no conflict rules and no costs (`handoff.py:249`), so it
  can only recommend `WATCH` or `SKIP`. The alternatives of the fifth rule for an
  unknown affordability or readiness cannot be reached from `decide`.
* A stale child makes an `OR` unknown even when another alternative passes.
* The receipt of a legacy extraction call has the role `PLANNING`.
* A reservation larger than a receipt may record, possible only under the larger
  cap of one profile, leaves its receipt `PLANNED` and its reservation open.
* A source fetched after an evaluation does not move the revision, so the
  `canonical_rules_url` of a report may be older than its list of sources.

## 7. What is left

1. One listed hazard has no property (`section_scheduler.py:99`): it is the
   second observation above.
2. `ResearchRun` counts the jobs that `SectionAcquisition` draws; a refinement
   between the two would join their properties.
3. The parser of deadlines, as a function over small texts.
