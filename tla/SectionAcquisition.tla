------------------------- MODULE SectionAcquisition -------------------------
(***************************************************************************)
(* The bounded acquisition of one admitted official source: the drain loop *)
(* of runtime/section_acquisition.py, the jobs runtime/section_scheduler.py*)
(* draws from the plan, and the planner turns of runtime/agent.py around   *)
(* it, on one shared budget of model calls.                                *)
(*                                                                         *)
(* The run is one thread; what varies is the source, what each model call  *)
(* answers, and which step fails.  It is modelled from the construction of *)
(* the plan, after the planning turns that fetched the source.             *)
(***************************************************************************)
EXTENDS CoverageLedger

CONSTANTS
  Indexes,      \* the section indexes a source may have
  Values,       \* supported readings of a category; two of them conflict
  Unsupported,  \* other readings: some of AMBIGUOUS, UNKNOWN and UNSUPPORTED
  PlanCap,      \* max_extraction_jobs
  MaxCalls,     \* inference_max_calls
  MaxSteps,     \* max_steps of the run
  MaxTurns,     \* turns of the planner
  Strikes,      \* failures, or steps without progress, that stop a run
  MaxClaims     \* MAX_EXTRACTED_CLAIMS_PER_CALL

ASSUME RunConstants ==
  /\ \A ix \in Indexes : IsIndex(ix)
  /\ Unsupported \subseteq Statuses \ {"SUPPORTED"} /\ Values \cap Statuses = {}
  /\ {PlanCap, MaxCalls, MaxSteps, MaxTurns, MaxClaims} \subseteq Nat /\ Strikes \in Nat \ {0}
  /\ 2 <= MaxTurns /\ MaxTurns <= MaxCalls /\ MaxTurns <= MaxSteps
  /\ MaxCalls <= PlanCap + 2

VARIABLES
  index, plan,    \* the source and its plan, fixed for the run
  ledger,
  observations,   \* _observations: readings admitted, by item and category
  executable,     \* categories whose authority in section_results is not guarded
  calls, base,    \* inference calls of the budget, and those before the plan
  dispatches,     \* calls made for extraction
  steps, entered, noProgress, failures, turns,   \* counters of the run
  term,           \* termination_reason
  reason,         \* why the scheduler last had no job
  pc, job

authority == <<observations, executable>>
budget == <<calls, base, dispatches>>
run == <<steps, entered, noProgress, failures, turns>>
vars == <<index, plan, ledger, authority, budget, run, term, reason, pc, job>>

NoJob == [item |-> 0, cats |-> {}]
Terminations == {"NONE", "MAX_STEPS", "BUDGET_EXHAUSTED", "NO_PROGRESS",
                 "TOOL_FAILURE_BOUND_REACHED", "HARD_FAIL_CONFIRMED",
                 "SUFFICIENT_CRITICAL_EVIDENCE"}

Init ==
  /\ index \in Indexes /\ plan = BuildPlan(index) /\ ledger = NewLedger(plan)
  /\ observations = {} /\ executable = {}
  /\ turns \in 2 .. MaxTurns /\ calls = turns /\ base = turns /\ steps = turns
  /\ failures \in 0 .. Strikes - 1 /\ noProgress \in 0 .. Strikes - 1
  /\ failures + noProgress <= turns - 2
  /\ dispatches = 0 /\ entered = {} /\ job = NoJob
  /\ term = "NONE" /\ reason = "NONE" /\ pc = "drain"

\* stop(): the first reason is kept.
Stop(t, why) == IF t = "NONE" THEN why ELSE t

\* Counts f failures, or n steps without progress, against the run.
FailureStop(f) == IF f >= Strikes THEN Stop(term, "TOOL_FAILURE_BOUND_REACHED") ELSE term
ProgressStop(n) == IF n >= Strikes THEN Stop(term, "NO_PROGRESS") ELSE term

\* Where the drain loop goes once a job is over.
Continue == pc' = IF term' = "NONE" THEN "drain" ELSE "planner"

\* An exception leaves drain: the agent records a failed tool.
Raised ==
  /\ failures' = failures + 1 /\ term' = FailureStop(failures + 1)
  /\ pc' = "planner" /\ job' = NoJob

-----------------------------------------------------------------------------
(* SectionScheduler.next_job, called at the head of the loop.              *)

Drained(why, r) == term' = Stop(term, why) /\ reason' = r /\ pc' = "planner" /\ job' = NoJob

Safe(i) == ContextFits(index, plan[i].section)
Wide(L, i) == Cardinality(ActiveCats(L, i)) > 2

\* The item that ends a scan of S in rank order, and those passed before it.
Firsts(L, S) == {i \in S : Safe(i) \/ Wide(L, i)}
PassedBefore(S, found) == {i \in S : \A j \in found : i < j}

StepBound ==
  /\ pc = "drain" /\ steps >= MaxSteps
  /\ Drained("MAX_STEPS", "STEP_BOUND")
  /\ UNCHANGED <<index, plan, ledger, authority, budget, run>>

\* Mutant: jobs begun are counted, not calls made.
CapByJobs == Cardinality({o[1] : o \in ledger.attempts}) = PlanCap

CapReached == calls - base = PlanCap

PlanFull ==
  /\ pc = "drain" /\ steps < MaxSteps /\ CapReached
  /\ \A i \in ActiveItems(plan, ledger) : ~Wide(ledger, i)
  /\ ledger' = MarkOverflow(plan, ledger, ActiveItems(plan, ledger))
  /\ Drained("NO_PROGRESS", "PLAN_EXHAUSTED")
  /\ UNCHANGED <<index, plan, authority, budget, run>>

\* An obligation of three categories is no valid overflow record.
PlanFullRaises ==
  /\ pc = "drain" /\ steps < MaxSteps /\ CapReached
  /\ LET active == ActiveItems(plan, ledger)
         wide == {i \in active : Wide(ledger, i)}
     IN  /\ wide # {}
         /\ ledger' = MarkOverflow(plan, ledger, PassedBefore(active, wide))
  /\ Raised
  /\ UNCHANGED <<index, plan, authority, budget, steps, entered, noProgress, turns, reason>>

BudgetBound ==
  /\ pc = "drain" /\ steps < MaxSteps /\ ~CapReached /\ calls >= MaxCalls
  /\ Drained("BUDGET_EXHAUSTED", "BUDGET_BLOCKED")
  /\ UNCHANGED <<index, plan, ledger, authority, budget, run>>

MayDraw == pc = "drain" /\ steps < MaxSteps /\ ~CapReached /\ calls < MaxCalls

SelectJob ==
  /\ MayDraw
  /\ LET L == Reconcile(plan, ledger)
         found == Firsts(L, ActiveItems(plan, L))
     IN  /\ \E i \in found :
              /\ \A j \in found : i <= j
              /\ ~Wide(L, i)
              /\ job' = [item |-> i, cats |-> ActiveCats(L, i)]
         /\ ledger' = MarkContext(L, PassedBefore(ActiveItems(plan, L), found))
  /\ pc' = "selected"
  /\ UNCHANGED <<index, plan, authority, budget, run, term, reason>>

\* A promoted item with three categories is no valid job, nor a valid mark.
SelectRaises ==
  /\ MayDraw
  /\ LET L == Reconcile(plan, ledger)
         found == Firsts(L, ActiveItems(plan, L))
     IN  /\ \E i \in found : Wide(L, i) /\ \A j \in found : i <= j
         /\ ledger' = MarkContext(L, PassedBefore(ActiveItems(plan, L), found))
  /\ Raised
  /\ UNCHANGED <<index, plan, authority, budget, steps, entered, noProgress, turns, reason>>

NothingToSelect ==
  /\ MayDraw
  /\ LET L == Reconcile(plan, ledger)
         active == ActiveItems(plan, L)
     IN  /\ Firsts(L, active) = {}
         /\ ledger' = MarkContext(L, active)
         /\ Drained("NO_PROGRESS",
              IF active # {} \/ \E c \in Categories : ContextUnresolved(L, c)
              THEN "CONTEXT_UNRESOLVED" ELSE "PLAN_EXHAUSTED")
  /\ UNCHANGED <<index, plan, authority, budget, run>>

-----------------------------------------------------------------------------
(* enter() and SectionScheduler.begin, outside the loop's exception handler. *)

JobKey == <<plan[job.item].section, job.cats>>

RepeatedJob ==
  /\ pc = "selected" /\ JobKey \in entered
  /\ steps' = steps + 1 /\ noProgress' = noProgress + 1
  /\ term' = ProgressStop(noProgress + 1)
  /\ pc' = "planner" /\ job' = NoJob
  /\ UNCHANGED <<index, plan, ledger, authority, budget, entered, failures, turns, reason>>

CanBegin ==
  /\ job.cats = plan[job.item].cats
  /\ \A o \in Obligations(job.item, job.cats) : Holds(ledger, o, {"ACTIVE"})
  /\ Obligations(job.item, job.cats) \cap ledger.attempts = {}

Enter == steps' = steps + 1 /\ entered' = entered \cup {JobKey}

BeginJob ==
  /\ pc = "selected" /\ JobKey \notin entered /\ CanBegin
  /\ Enter
  /\ ledger' = BeginItem(ledger, job.item, job.cats)
  /\ pc' = "dispatched"
  /\ UNCHANGED <<index, plan, authority, budget, noProgress, failures, turns, term, reason, job>>

BeginRaises ==
  /\ pc = "selected" /\ JobKey \notin entered /\ ~CanBegin
  /\ Enter /\ Raised
  /\ UNCHANGED <<index, plan, ledger, authority, budget, noProgress, turns, reason>>

-----------------------------------------------------------------------------
(* The model call of the job and what becomes of its results.              *)

\* The reservation is refused, on cost or calls: nothing was dispatched.
DispatchDenied ==
  /\ pc = "dispatched"
  /\ ledger' = BudgetBlocked(ledger, job.item, job.cats)
  /\ term' = Stop(term, "BUDGET_EXHAUSTED") /\ Continue /\ job' = NoJob
  /\ UNCHANGED <<index, plan, authority, budget, run, reason>>

\* LiveBudgetGuard.reserve of an inference call that costs little enough.
Reserve == calls < MaxCalls /\ calls' = calls + 1 /\ base' = base

\* The extraction, its grounding or its adaptation raises before the
\* outcomes are recorded, with or without a call made.
DispatchFails ==
  /\ pc = "dispatched"
  /\ \/ Reserve /\ dispatches' = dispatches + 1
     \/ UNCHANGED budget
  /\ ledger' = OperationalFailure(plan, ledger, job.item, job.cats)
  /\ failures' = failures + 1 /\ term' = FailureStop(failures + 1)
  /\ Continue /\ job' = NoJob
  /\ UNCHANGED <<index, plan, authority, steps, entered, noProgress, turns, reason>>

\* Readings per category of the job, at most MaxClaims in all.
Results ==
  {r \in [job.cats -> SUBSET (Values \cup Unsupported)] :
     SumFunction([c \in job.cats |-> Cardinality(r[c])]) <= MaxClaims}

Observed(r) ==
  {o \in {job.item} \X job.cats \X (Values \cup Unsupported) : o[3] \in r[o[2]]}

\* Mutant: only the readings of the job itself are compared.
ConflictsWithin(seen) ==
  {c \in Categories : \E o, p \in seen : /\ o[2] = c /\ p[2] = c /\ o[1] = p[1]
                                         /\ o[3] # p[3] /\ {o[3], p[3]} \subseteq Values}

\* _retain_conflicts
Conflicts(seen) ==
  {c \in Categories : \E o, p \in seen : /\ o[2] = c /\ p[2] = c
                                         /\ o[3] # p[3] /\ {o[3], p[3]} \subseteq Values}

\* The outcome of a category: its weakest reading names the status.
OutcomeOf(readings, conflict, complete) ==
  [status |-> CASE readings # {} /\ (conflict \/ "AMBIGUOUS" \in readings) -> "AMBIGUOUS"
                [] readings = {} \/ (~conflict /\ readings \cap {"AMBIGUOUS", "UNKNOWN"} = {"UNKNOWN"})
                     -> "UNKNOWN"
                [] ~conflict /\ readings \cap Statuses = {"UNSUPPORTED"} -> "UNSUPPORTED"
                [] OTHER -> "SUPPORTED",
   supports |-> ~conflict /\ readings \cap Values # {},
   complete |-> complete]

\* Mutant: authority is not guarded by source accounting.
Unguarded(seen, L) ==
  {c \in Categories : c \notin Conflicts(seen) /\ \E o \in seen : o[2] = c /\ o[3] \in Values}

\* _effective_authority: the categories whose supported rules are executable.
Effective(seen, L) ==
  {c \in Categories : /\ c \notin Conflicts(seen) /\ Supported(plan, L, c)
                      /\ \E o \in seen : o[2] = c /\ o[3] \in Values}

\* evaluate_current_state: gates fail on some executable authority, and pass
\* on authority for every category.
Verdicts(cats) ==
  {"NONE"} \cup (IF cats # {} THEN {"HARD_FAIL_CONFIRMED"} ELSE {})
           \cup (IF cats = Categories THEN {"SUFFICIENT_CRITICAL_EVIDENCE"} ELSE {})

\* _admit changes the authority of the run and evaluates it.
Admit(seen, L) ==
  /\ <<seen, Effective(seen, L)>> # authority
  /\ observations' = seen /\ executable' = Effective(seen, L)
  /\ term' \in Verdicts(executable')
  /\ UNCHANGED <<failures, noProgress>>

AdmitNothing(seen, L) ==
  /\ <<seen, Effective(seen, L)>> = authority
  /\ noProgress' = noProgress + 1 /\ term' = ProgressStop(noProgress + 1)
  /\ UNCHANGED <<authority, failures>>

\* The collection is refused, or its evaluation raises: the authority is
\* restored, the outcomes already recorded stand.
AdmitRaises(seen, L) ==
  /\ <<seen, Effective(seen, L)>> # authority
  /\ failures' = failures + 1 /\ term' = FailureStop(failures + 1)
  /\ UNCHANGED <<authority, noProgress>>

DispatchCompletes ==
  /\ pc = "dispatched" /\ Reserve /\ dispatches' = dispatches + 1
  /\ \E r \in Results : \E complete \in SUBSET {c \in job.cats : r[c] # {}} :
       LET seen == observations \cup Observed(r)
           L == CompleteItem(plan, ledger, job.item,
                  [c \in job.cats |-> OutcomeOf(r[c], c \in Conflicts(seen), c \in complete)])
       IN  /\ ledger' = L
           /\ Admit(seen, L) \/ AdmitNothing(seen, L) \/ AdmitRaises(seen, L)
  /\ Continue /\ job' = NoJob
  /\ UNCHANGED <<index, plan, steps, entered, turns, reason>>

-----------------------------------------------------------------------------
(* The agent around the loop (agent.py), and finish().                     *)

Finish(why) == term' = Stop(term, why) /\ pc' = "done"

\* A terminated run takes no further turn; the planner may run out of turns, of
\* budget, or fail.  finish() evaluates the authority once more, with a bundle
\* cached for its revision: the verdict cannot differ.
RunEnds ==
  /\ pc = "planner"
  /\ \/ term # "NONE" /\ Finish("NO_PROGRESS")
     \/ term = "NONE" /\ turns >= MaxTurns /\ Finish("MAX_STEPS")
     \/ term = "NONE" /\ turns < MaxTurns
          /\ \E why \in {"BUDGET_EXHAUSTED", "TOOL_FAILURE_BOUND_REACHED"} : Finish(why)
  /\ UNCHANGED <<index, plan, ledger, authority, budget, run, reason, job>>

\* Another tool: it is out of steps, works, repeats an earlier action, or
\* fails, before it took a step or after.
OtherTool ==
  \/ steps >= MaxSteps /\ term' = "MAX_STEPS" /\ UNCHANGED <<steps, noProgress, failures>>
  \/ steps < MaxSteps /\ steps' = steps + 1 /\ UNCHANGED <<noProgress, failures, term>>
  \/ /\ steps < MaxSteps /\ steps' = steps + 1
     /\ noProgress' = noProgress + 1 /\ term' = ProgressStop(noProgress + 1)
     /\ UNCHANGED failures
  \/ /\ steps' \in {n \in {steps, steps + 1} : n <= MaxSteps}
     /\ failures' = failures + 1 /\ term' = FailureStop(failures + 1)
     /\ UNCHANGED noProgress

\* A turn of the planner: it answers, drains the source again, or uses another tool.
PlannerTurn ==
  /\ pc = "planner" /\ term = "NONE" /\ turns < MaxTurns /\ Reserve
  /\ turns' = turns + 1
  /\ \/ Finish("NO_PROGRESS") /\ UNCHANGED <<steps, noProgress, failures>>
     \/ pc' = "drain" /\ UNCHANGED <<steps, noProgress, failures, term>>
     \/ pc' = "planner" /\ OtherTool
  /\ UNCHANGED <<index, plan, ledger, authority, dispatches, entered, reason, job>>

Next ==
  \/ StepBound \/ PlanFull \/ PlanFullRaises \/ BudgetBound
  \/ SelectJob \/ SelectRaises \/ NothingToSelect
  \/ RepeatedJob \/ BeginJob \/ BeginRaises
  \/ DispatchDenied \/ DispatchFails \/ DispatchCompletes
  \/ RunEnds \/ PlannerTurn

AcquisitionSpec == Init /\ [][Next]_vars

-----------------------------------------------------------------------------
(* What acquisition must keep.                                             *)

\* An activation promoted a reserve item, whose job begin() refuses.
ReservePromoted == \E a \in ledger.activations : plan[a[1]].tier = "RESERVE"

\* At most PlanCap extraction calls are made, and work is recorded as overflow
\* only once all of them were: no call denied, failed before it was made, or
\* made by the planner stands for one of them (the last only if no job of a
\* promoted item sent the run back to the planner in between).
OverflowOnlyAtCapacity ==
  /\ dispatches <= PlanCap
  /\ (\E o \in DOMAIN ledger.state : ledger.state[o] = "OVERFLOW_UNDISPATCHED")
       /\ ~ ReservePromoted => dispatches = PlanCap

\* A run stops on the verdict of the decision engine only with an executable
\* category, and for a sufficient verdict all of them, whose every started
\* obligation was answered: none failed, waits, lacks context or overflowed,
\* and no reading of it was ambiguous, unknown or contradicted by another.
VerdictRestsOnCoverage ==
  /\ term \in {"HARD_FAIL_CONFIRMED", "SUFFICIENT_CRITICAL_EVIDENCE"} =>
       \E c \in executable : TRUE
  /\ term = "SUFFICIENT_CRITICAL_EVIDENCE" => executable = Categories
  /\ term \in {"HARD_FAIL_CONFIRMED", "SUFFICIENT_CRITICAL_EVIDENCE"} =>
       \A c \in executable : \A o \in Started(ledger, c) :
         /\ o \in DOMAIN ledger.outcomes /\ ledger.outcomes[o].complete
         /\ ledger.outcomes[o].status \in {"SUPPORTED", "UNSUPPORTED"}
         /\ Safe(o[1])

\* Two admitted readings of one category that disagree, from one job or from
\* jobs far apart, never leave the category executable.
ConflictNeverExecutes ==
  \A o, p \in observations :
    o[2] = p[2] /\ o[3] # p[3] /\ {o[3], p[3]} \subseteq Values => o[2] \notin executable

\* Activation is closed under context: a conditional item that a started item
\* refers to, or that governs it, at however many removes, has been started.
ActivationsClosed ==
  \A i, j \in DOMAIN plan :
    /\ \E c \in Categories : <<i, c>> \in Started(ledger, c)
    /\ Links(plan, i, j) /\ plan[j].tier = "CONDITIONAL"
    => \A c \in plan[j].cats : <<j, c>> \in Started(ledger, c)

\* When the scheduler stops for want of work every obligation it ever started
\* has its end on record, and one left for want of capacity is an overflow.
ExhaustionIsAccounted ==
  reason \in {"PLAN_EXHAUSTED", "CONTEXT_UNRESOLVED"} =>
    \A o \in DOMAIN ledger.state : ledger.state[o] \in Terminal \cup {"INACTIVE"}

\* Nothing the plan started is lost: what an item leads to is started with it,
\* and when the scheduler stops all of it has an end, an overflow only at the
\* limit of jobs.
StartedIsAccounted == ActivationsClosed /\ OverflowOnlyAtCapacity /\ ExhaustionIsAccounted

\* Failures, later activations and promotions never reopen an obligation that
\* has its end, nor replace the outcome retained for it.  Only where a context
\* was cut short of a global section may a reserve item, promoted once, be
\* promoted anew by an item that is activated late.
EndsStand ==
  [][GlobalsGovern(index) \/ ~ ReservePromoted =>
       \A o \in DOMAIN ledger.state :
         /\ ledger.state[o] \in Terminal => ledger'.state[o] = ledger.state[o]
         /\ HasOutcome(ledger, o) => HasOutcome(ledger', o)
                                       /\ ledger'.outcomes[o] = ledger.outcomes[o]]_vars

\* Once begun, the acquisition settles the run: the planner is not asked again
\* with the run still open, so no job is ever drawn twice.  A promoted reserve
\* item is the one way to get back to it.
AcquisitionSettles == pc = "planner" /\ ~ ReservePromoted => term # "NONE"

\* Every job the scheduler selects passes its own begin().  The design has
\* reserve items promoted by an activation and then selected.
SelectedJobCanBegin == pc = "selected" => job.cats = plan[job.item].cats

\* When the run is over, a category is executable only if its source
\* accounting is supported.
GuardFollowsCoverage ==
  pc = "done" => \A c \in executable : Supported(plan, ledger, c)
=============================================================================
