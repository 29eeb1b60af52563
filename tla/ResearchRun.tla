---------------------------- MODULE ResearchRun -----------------------------
(***************************************************************************)
(* One live research run (runtime/loop.py and run_agent): the planner model  *)
(* takes turns, its tools search, fetch, extract and evaluate, a fetched     *)
(* source is drained section by section, and the run stops for its first     *)
(* reason, evaluates once more and reports.                                  *)
(*                                                                         *)
(* The planner may ask for any tool with any argument, and every paid call   *)
(* may fail before, at or after its reservation.  Which section is read next *)
(* is the subject of SectionAcquisition; here a job is only its call and its *)
(* effect on the authority of the run.  The agent framework (turns, tool      *)
(* dispatch, cancellation) is modelled from how run_agent hooks into it.      *)
(***************************************************************************)
EXTENDS LiveBudget, Functions

CONSTANTS
    MaxTurns,      \* limits["turns"] of the agent
    MaxTools,      \* tool calls before_tool lets through
    MaxSteps,      \* max_steps
    FailureBound,  \* failures that stop a run
    RepeatBound,   \* steps without progress that stop a run
    PlanCap,       \* max_extraction_jobs of a plan
    ClaimLimit,    \* claims a run admits
    BatchLimit,    \* MAX_EXTRACTED_CLAIMS_PER_CALL
    TraceLimit,    \* events a trace holds
    Costs,         \* bound: what a model call is estimated to cost
    Savings        \* bound: how much less than its estimate it may cost

ASSUME RunAssumption ==
    /\ {MaxTurns, MaxTools, MaxSteps, PlanCap, ClaimLimit, BatchLimit} \subseteq Nat
    /\ {FailureBound, RepeatBound} \subseteq Nat \ {0}
    /\ TraceLimit \in Nat /\ MaxSlots < TraceLimit
    /\ Costs \subseteq Nat /\ Savings \subseteq Nat

VARIABLES
    phase,         \* what the run is doing
    call,          \* the model call in flight
    reason,        \* termination_reason
    turns, tools,  \* turns of the planner, tools it was allowed
    steps, repeats, failures,
    actions,       \* the kinds of action entered, so that one can be repeated
    evaluated,     \* the key of the last evaluation entered
    candidates,    \* has a search registered a candidate?
    sources,       \* fetched documents, numbered
    source,        \* the one the current tool is about
    index, base,   \* the source that is planned; calls made before its plan
    batch,         \* claims of one extraction still to be recorded
    claims,        \* admitted claims
    sections,      \* section_results: the step of the job that last changed them
    revision,      \* _authority_revision
    bundle,        \* the compiled decision
    bundleRevision,\* _bundle_revision
    trace          \* the event trace, once the run is reported

limits == <<turns, tools>>
progress == <<steps, repeats, failures, actions, evaluated>>
found == <<candidates, sources, source, index, base, batch>>
authority == <<claims, sections, revision>>
decision == <<bundle, bundleRevision>>
budget == <<guard, ledger>>
vars == <<budget, phase, call, reason, limits, progress, found, authority, decision, trace>>

Phase == {"MODEL", "WAIT", "TOOLS", "ACQUIRE", "DRAIN", "CLAIMS", "RESULT",
          "FINISH", "DONE", "RAISED"}
Ended == {"DONE", "RAISED"}

Reason == {"MAX_STEPS", "NO_PROGRESS", "BUDGET_EXHAUSTED", "TOOL_FAILURE_BOUND_REACHED",
           "HARD_FAIL_CONFIRMED", "SUFFICIENT_CRITICAL_EVIDENCE"}

(* The gates of all candidates: every one failed, every one passed, other.  *)
Verdict == {"FAIL", "PASS", "OPEN"}

Bundle == [claims : Nat, sections : Nat, verdict : Verdict]

ASSUME NoneAssumption == None \notin Reason \cup Bundle

NoCall == [from |-> "NOBODY", slot |-> 0, reservation |-> 0, cost |-> 0]

Init ==
    /\ BudgetInit
    /\ phase = "MODEL" /\ call = NoCall /\ reason = None
    /\ turns = 0 /\ tools = 0
    /\ steps = 0 /\ repeats = 0 /\ failures = 0 /\ actions = {} /\ evaluated = None
    /\ candidates = FALSE /\ sources = 0 /\ source = 0
    /\ index = 0 /\ base = 0 /\ batch = 0
    /\ claims = 0 /\ sections = 0 /\ revision = 0
    /\ bundle = None /\ bundleRevision = -1
    /\ trace = None

-----------------------------------------------------------------------------
(* Mutant: the last reason is kept.                                         *)
StopLast(why) == reason' = why

(* The first reason to stop is kept.                                        *)
Stop(why) == reason' = IF reason = None THEN why ELSE reason

(* An operational failure counts; a budget denial stops at once.            *)
Fail ==
    /\ failures' = failures + 1
    /\ IF failures + 1 >= FailureBound THEN Stop("TOOL_FAILURE_BOUND_REACHED")
                                       ELSE UNCHANGED reason
    /\ UNCHANGED <<steps, repeats, actions, evaluated>>

NoProgress ==
    /\ repeats' = repeats + 1
    /\ IF repeats + 1 >= RepeatBound THEN Stop("NO_PROGRESS") ELSE UNCHANGED reason

(* Mutant: one step more than the limit is entered.                         *)
EnteredOnceMore(kind) ==
    /\ reason = None
    /\ steps <= MaxSteps
    /\ steps' = steps + 1
    /\ actions' = actions \cup {kind}
    /\ UNCHANGED repeats

(* enter() with a key it has not met ...                                    *)
Entered(kind) ==
    /\ reason = None
    /\ steps < MaxSteps
    /\ steps' = steps + 1
    /\ actions' = actions \cup {kind}
    /\ UNCHANGED repeats

(* ... and all the ways it refuses one.  A key is repeated only if an action *)
(* of its kind was entered.                                                 *)
Refused(repeated) ==
    /\ \/ /\ reason # None
          /\ UNCHANGED <<steps, repeats, reason>>
       \/ /\ reason = None
          /\ steps >= MaxSteps
          /\ Stop("MAX_STEPS")
          /\ UNCHANGED <<steps, repeats>>
       \/ /\ reason = None
          /\ steps < MaxSteps
          /\ repeated
          /\ steps' = steps + 1
          /\ NoProgress
    /\ UNCHANGED <<failures, actions, evaluated>>

(* An entered action that then fails, or that is denied by the budget.      *)
EnteredAndFails(kind) ==
    /\ Entered(kind)
    /\ failures' = failures + 1
    /\ IF failures + 1 >= FailureBound THEN Stop("TOOL_FAILURE_BOUND_REACHED")
                                       ELSE UNCHANGED reason
    /\ UNCHANGED evaluated

EnteredAndDenied(kind) ==
    /\ Entered(kind)
    /\ Stop("BUDGET_EXHAUSTED")
    /\ UNCHANGED <<failures, evaluated>>

EnteredAndServed(kind) ==
    /\ Entered(kind)
    /\ UNCHANGED <<failures, evaluated, reason>>

Goto(p) == phase' = p

Waiting(from, cost) ==
    /\ call' = [from |-> from, slot |-> Len(receipts) + 1,
                reservation |-> NextReservation, cost |-> cost]
    /\ Goto("WAIT")

Answered(from) ==
    /\ phase = "WAIT"
    /\ call.from = from
    /\ call' = NoCall

Actuals == {call.cost - s : s \in {t \in Savings : t <= call.cost}}

-----------------------------------------------------------------------------
(* evaluate_current_state: the bundle is compiled again only when the        *)
(* revision of the authority differs from the one it was compiled at.        *)

Current(rev) == bundle # None /\ bundleRevision = rev

(* compile_decision_bundle: what is decided on.                             *)
Compiled(content, v) == [claims |-> claims, sections |-> content, verdict |-> v]

Compiles(content, rev, v) ==
    /\ IF Current(rev) THEN v = bundle.verdict /\ UNCHANGED bundle
       ELSE bundle' = Compiled(content, v)
    /\ bundleRevision' = rev

Evaluates(content, rev) ==
    \E v \in Verdict :
        /\ Compiles(content, rev, v)
        /\ CASE v = "FAIL" -> Stop("HARD_FAIL_CONFIRMED")
             [] v = "PASS" -> Stop("SUFFICIENT_CRITICAL_EVIDENCE")
             [] OTHER -> UNCHANGED reason

-----------------------------------------------------------------------------
(* The planner's turn.                                                      *)

Turn ==
    /\ phase = "MODEL"
    /\ reason = None
    /\ turns < MaxTurns
    /\ turns' = turns + 1

PlannerCalled ==
    \E cost \in Costs :
        /\ Turn
        /\ CallDispatched("PLANNING", cost)
        /\ Waiting("PLANNER", cost)
        /\ UNCHANGED <<reason, tools, progress, found, authority, decision, trace>>

PlannerDenied ==
    \E cost \in Costs :
        /\ Turn
        /\ CallDenied("PLANNING", cost)
        /\ Stop("BUDGET_EXHAUSTED")
        /\ Goto("FINISH")
        /\ UNCHANGED <<call, tools, progress, found, authority, decision, trace>>

(* A planner call that fails for another reason ends the run.               *)
PlannerLost ==
    /\ failures' = failures + 1
    /\ Stop("TOOL_FAILURE_BOUND_REACHED")
    /\ Goto("FINISH")
    /\ UNCHANGED <<tools, steps, repeats, actions, evaluated, found, authority, decision, trace>>

PlannerUnrecorded ==
    \E cost \in Costs :
        /\ Turn
        /\ CallUnrecorded("PLANNING", cost)
        /\ PlannerLost
        /\ UNCHANGED call

PlannerFails ==
    /\ Answered("PLANNER")
    /\ CallFails(call.slot)
    /\ PlannerLost
    /\ UNCHANGED turns

(* It asks for tools, or ends its turn with none.                           *)
PlannerAnswers ==
    /\ Answered("PLANNER")
    /\ \E actual \in Actuals : CallReturns(call.slot, call.reservation, actual, "COMPLETED")
    /\ \E p \in {"TOOLS", "FINISH"} : Goto(p)
    /\ UNCHANGED <<reason, limits, progress, found, authority, decision, trace>>

(* A run that has its reason cancels the next turn; the last turn is the     *)
(* last.                                                                    *)
PlannerStops ==
    /\ phase = "MODEL"
    /\ reason # None \/ turns >= MaxTurns
    /\ Stop("MAX_STEPS")
    /\ Goto("FINISH")
    /\ UNCHANGED <<budget, call, limits, progress, found, authority, decision, trace>>

NoMoreTools ==
    /\ phase = "TOOLS"
    /\ Goto("MODEL")
    /\ UNCHANGED <<budget, call, reason, limits, progress, found, authority, decision, trace>>

ToolLimit ==
    /\ phase = "TOOLS"
    /\ tools >= MaxTools
    /\ Stop("MAX_STEPS")
    /\ Goto("MODEL")
    /\ UNCHANGED <<budget, call, limits, progress, found, authority, decision, trace>>

BeforeTool ==
    /\ phase = "TOOLS"
    /\ tools < MaxTools
    /\ reason = None
    /\ tools' = tools + 1
    /\ UNCHANGED turns

(* What a tool returns may be too large for the agent, which counts as a     *)
(* failure after whatever the tool did.                                     *)
ToolReturns ==
    /\ phase = "RESULT"
    /\ Goto("TOOLS")
    /\ Fail \/ UNCHANGED <<reason, progress>>
    /\ UNCHANGED <<budget, call, limits, found, authority, decision, trace>>

(* A tool that does not exist, or arguments its schema refuses.             *)
ToolRejected ==
    /\ BeforeTool
    /\ Fail
    /\ Goto("TOOLS")
    /\ UNCHANGED <<budget, call, found, authority, decision, trace>>

-----------------------------------------------------------------------------
(* search_web.                                                              *)

ToolRefused(repeated) ==
    /\ BeforeTool
    /\ Refused(repeated)
    /\ Goto("RESULT")
    /\ UNCHANGED <<budget, call, found, authority, decision, trace>>

SearchRefused == ToolRefused("search" \in actions)

SearchDenied ==
    /\ BeforeTool
    /\ ~ Allowed("SEARCH", SearchPrice)
    /\ EnteredAndDenied("search")
    /\ Goto("RESULT")
    /\ UNCHANGED <<budget, call, found, authority, decision, trace>>

(* Discovery fails before the reservation, the transport after it, and a     *)
(* malformed answer after it was committed.                                 *)
SearchFails ==
    /\ BeforeTool
    /\ EnteredAndFails("search")
    /\ UNCHANGED guard \/ Reserve("SEARCH", SearchPrice) \/ Purchase("SEARCH", SearchPrice)
    /\ Goto("RESULT")
    /\ UNCHANGED <<ledger, call, found, authority, decision, trace>>

SearchReturns ==
    /\ BeforeTool
    /\ EnteredAndServed("search")
    /\ Purchase("SEARCH", SearchPrice)
    /\ candidates' \in {candidates, TRUE}
    /\ Goto("RESULT")
    /\ UNCHANGED <<ledger, call, sources, source, index, base, batch, authority, decision, trace>>

-----------------------------------------------------------------------------
(* fetch_official_source, which acquires the sections of what it fetched.   *)

FetchRefused == ToolRefused("fetch" \in actions)

FetchDenied ==
    /\ BeforeTool
    /\ candidates
    /\ ~ Allowed("FETCH", 0)
    /\ EnteredAndDenied("fetch")
    /\ Goto("RESULT")
    /\ UNCHANGED <<budget, call, found, authority, decision, trace>>

(* The candidate is unknown or its address refused, before the reservation;  *)
(* the transfer fails after it.                                             *)
FetchFails ==
    /\ BeforeTool
    /\ EnteredAndFails("fetch")
    /\ UNCHANGED guard \/ (candidates /\ Reserve("FETCH", 0))
    /\ Goto("RESULT")
    /\ UNCHANGED <<ledger, call, found, authority, decision, trace>>

FetchReturns ==
    /\ BeforeTool
    /\ candidates
    /\ EnteredAndServed("fetch")
    /\ Purchase("FETCH", 0)
    /\ sources' = sources + 1
    /\ source' = sources + 1
    /\ Goto("ACQUIRE")
    /\ UNCHANGED <<ledger, call, candidates, index, base, batch, authority, decision, trace>>

(* A document that was fetched is not fetched again.                        *)
FetchKnown ==
    /\ BeforeTool
    /\ EnteredAndServed("fetch")
    /\ source' \in 1..sources
    /\ Goto("ACQUIRE")
    /\ UNCHANGED <<budget, call, candidates, sources, index, base, batch, authority, decision,
                   trace>>

(* An empty document is registered before its reference is refused.         *)
FetchUnreadable ==
    /\ BeforeTool
    /\ candidates
    /\ EnteredAndFails("fetch")
    /\ Purchase("FETCH", 0)
    /\ sources' = sources + 1
    /\ Goto("RESULT")
    /\ UNCHANGED <<ledger, call, candidates, source, index, base, batch, authority, decision,
                   trace>>

-----------------------------------------------------------------------------
(* SectionAcquisition.drain: one source of a run is planned, and its jobs    *)
(* are called for until the run stops.                                      *)

AcquireBegins ==
    /\ phase = "ACQUIRE"
    /\ index \in {0, source}
    /\ index' = source
    /\ base' = IF index = 0 THEN calls["INFERENCE"] ELSE base
    /\ Goto("DRAIN")
    /\ UNCHANGED <<budget, call, reason, limits, progress, candidates, sources, source, batch,
                   authority, decision, trace>>

(* The source cannot be indexed, or another one is planned already.         *)
AcquireFails ==
    /\ phase = "ACQUIRE"
    /\ index # source
    /\ Fail
    /\ Goto("RESULT")
    /\ UNCHANGED <<budget, call, limits, found, authority, decision, trace>>

PlanFull == calls["INFERENCE"] - base = PlanCap
BudgetSpent == calls["INFERENCE"] >= Limit["INFERENCE"]

(* Mutant: a full plan is taken for the step bound.                         *)
NoJobFullAsSteps ==
    IF steps >= MaxSteps \/ PlanFull THEN "MAX_STEPS"
    ELSE IF BudgetSpent THEN "BUDGET_EXHAUSTED" ELSE "NO_PROGRESS"

(* Why there is no job; when none of the bounds is met, nothing is left.    *)
NoJob ==
    IF steps >= MaxSteps THEN "MAX_STEPS"
    ELSE IF PlanFull THEN "NO_PROGRESS"
    ELSE IF BudgetSpent THEN "BUDGET_EXHAUSTED" ELSE "NO_PROGRESS"

DrainEnds ==
    /\ phase = "DRAIN"
    /\ Stop(NoJob)
    /\ Goto("RESULT")
    /\ UNCHANGED <<budget, call, limits, progress, found, authority, decision, trace>>

Job == phase = "DRAIN" /\ steps < MaxSteps /\ ~ PlanFull /\ ~ BudgetSpent

(* The scheduler refuses to begin its own job: what it raises leaves drain   *)
(* through the tool, with the key of the job entered ...                    *)
JobRefused ==
    /\ Job
    /\ EnteredAndFails("section")
    /\ Goto("TOOLS")
    /\ UNCHANGED <<budget, call, limits, found, authority, decision, trace>>

(* ... so that the next drain repeats it.                                   *)
JobRepeated ==
    /\ Job
    /\ reason = None
    /\ Refused("section" \in actions)
    /\ Goto("RESULT")
    /\ UNCHANGED <<budget, call, limits, found, authority, decision, trace>>

SectionEntered == Job /\ Entered("job") /\ UNCHANGED evaluated

SectionCalled ==
    \E cost \in Costs :
        /\ SectionEntered
        /\ CallDispatched("EXTRACTION", cost)
        /\ Waiting("SECTION", cost)
        /\ UNCHANGED <<reason, failures, limits, found, authority, decision, trace>>

SectionDenied ==
    \E cost \in Costs :
        /\ SectionEntered
        /\ CallDenied("EXTRACTION", cost)
        /\ Stop("BUDGET_EXHAUSTED")
        /\ UNCHANGED <<phase, call, failures, limits, found, authority, decision, trace>>

SectionUnrecorded ==
    \E cost \in Costs :
        /\ Job
        /\ CallUnrecorded("EXTRACTION", cost)
        /\ EnteredAndFails("job")
        /\ UNCHANGED <<phase, call, limits, found, authority, decision, trace>>

SectionFails ==
    /\ Answered("SECTION")
    /\ CallFails(call.slot)
    /\ Fail
    /\ Goto("DRAIN")
    /\ UNCHANGED <<limits, found, authority, decision, trace>>

(* The answer was paid for, and is then refused: it cannot be read, or the   *)
(* evaluation of what it admits raises and the authority is put back.       *)
SectionRejected ==
    /\ Answered("SECTION")
    /\ \E actual \in Actuals : CallReturns(call.slot, call.reservation, actual, "FAILED")
    /\ Fail
    /\ Goto("DRAIN")
    /\ UNCHANGED <<limits, found, authority, decision, trace>>

(* It changes nothing the run already had.                                  *)
SectionKnown ==
    /\ Answered("SECTION")
    /\ \E actual \in Actuals : CallReturns(call.slot, call.reservation, actual, "COMPLETED")
    /\ NoProgress
    /\ Goto("DRAIN")
    /\ UNCHANGED <<steps, failures, actions, evaluated, limits, found, authority, decision, trace>>

(* It changes the authority, which is evaluated at once.                    *)
SectionAdmitted ==
    /\ Answered("SECTION")
    /\ \E actual \in Actuals : CallReturns(call.slot, call.reservation, actual, "COMPLETED")
    /\ sections' = steps
    /\ revision' = revision + 1
    /\ Evaluates(steps, revision + 1)
    /\ Goto("DRAIN")
    /\ UNCHANGED <<limits, progress, found, claims, trace>>

-----------------------------------------------------------------------------
(* extract_official_claims: the sections when a source is planned, single    *)
(* claims of a focus otherwise.  A model call made without a receipt context *)
(* is recorded as the planner's.                                            *)

ExtractSections ==
    /\ BeforeTool
    /\ index # 0
    /\ \/ source' \in 1..sources /\ Goto("ACQUIRE") /\ UNCHANGED <<reason, progress>>
       \/ Fail /\ Goto("RESULT") /\ UNCHANGED source
    /\ UNCHANGED <<budget, call, candidates, sources, index, base, batch, authority, decision,
                   trace>>

(* Invalid arguments fail before the action is entered.                     *)
ExtractInvalid ==
    /\ BeforeTool
    /\ index = 0
    /\ Fail \/ EnteredAndFails("extract")
    /\ Goto("RESULT")
    /\ UNCHANGED <<budget, call, found, authority, decision, trace>>

ExtractRefused == index = 0 /\ ToolRefused("extract" \in actions)

Extract == BeforeTool /\ index = 0 /\ sources > 0

ExtractCalled ==
    \E cost \in Costs :
        /\ Extract
        /\ EnteredAndServed("extract")
        /\ CallDispatched("PLANNING", cost)
        /\ Waiting("EXTRACT", cost)
        /\ UNCHANGED <<found, authority, decision, trace>>

ExtractDenied ==
    \E cost \in Costs :
        /\ Extract
        /\ EnteredAndDenied("extract")
        /\ CallDenied("PLANNING", cost)
        /\ Goto("RESULT")
        /\ UNCHANGED <<call, found, authority, decision, trace>>

ExtractUnrecorded ==
    \E cost \in Costs :
        /\ Extract
        /\ EnteredAndFails("extract")
        /\ CallUnrecorded("PLANNING", cost)
        /\ Goto("RESULT")
        /\ UNCHANGED <<call, found, authority, decision, trace>>

ExtractFails ==
    /\ Answered("EXTRACT")
    /\ \/ CallFails(call.slot)
       \/ \E actual \in Actuals : CallReturns(call.slot, call.reservation, actual, "COMPLETED")
    /\ Fail
    /\ Goto("RESULT")
    /\ UNCHANGED <<limits, found, authority, decision, trace>>

ExtractReturns ==
    /\ Answered("EXTRACT")
    /\ \E actual \in Actuals : CallReturns(call.slot, call.reservation, actual, "COMPLETED")
    /\ batch' \in 0..BatchLimit
    /\ Goto("CLAIMS")
    /\ UNCHANGED <<reason, limits, progress, candidates, sources, source, index, base, authority,
                   decision, trace>>

-----------------------------------------------------------------------------
(* record_evidence, for each claim of the batch.                            *)

NextClaim ==
    /\ phase = "CLAIMS"
    /\ batch > 0
    /\ batch' = batch - 1
    /\ UNCHANGED <<budget, phase, call, limits, candidates, sources, source, index, base,
                   sections, decision, trace>>

(* Mutant: a claim that is not entered is tried again.                      *)
ClaimRefusedRetrying ==
    /\ phase = "CLAIMS"
    /\ batch > 0
    /\ Refused("claim" \in actions)
    /\ UNCHANGED <<budget, phase, call, limits, found, authority, decision, trace>>

ClaimRefused ==
    /\ NextClaim
    /\ Refused("claim" \in actions)
    /\ UNCHANGED <<claims, revision>>

(* The claim is not supported by its quote, which is no failure ...         *)
ClaimUnsupported ==
    /\ NextClaim
    /\ EnteredAndServed("claim")
    /\ UNCHANGED <<claims, revision>>

(* ... or it breaks the rules of a claim, or the run has enough of them.    *)
ClaimFails ==
    /\ NextClaim
    /\ EnteredAndFails("claim")
    /\ UNCHANGED <<claims, revision>>

(* Mutant: an admitted claim does not count as a new revision.              *)
ClaimAdmittedQuietly ==
    /\ NextClaim
    /\ claims < ClaimLimit
    /\ EnteredAndServed("claim")
    /\ claims' = claims + 1
    /\ UNCHANGED revision

ClaimAdmitted ==
    /\ NextClaim
    /\ claims < ClaimLimit
    /\ EnteredAndServed("claim")
    /\ claims' = claims + 1
    /\ revision' = revision + 1

ClaimsRecorded ==
    /\ phase = "CLAIMS"
    /\ batch = 0
    /\ Goto("RESULT")
    /\ UNCHANGED <<budget, call, reason, limits, progress, found, authority, decision, trace>>

-----------------------------------------------------------------------------
(* evaluate_current_state: its key is the number of claims and sources.     *)

EvaluateRefused == ToolRefused(evaluated = <<claims, sources>>)

EvaluateEntered ==
    /\ BeforeTool
    /\ steps < MaxSteps
    /\ evaluated # <<claims, sources>>
    /\ evaluated' = <<claims, sources>>
    /\ steps' = steps + 1
    /\ UNCHANGED <<repeats, actions>>

EvaluateReturns ==
    /\ EvaluateEntered
    /\ Evaluates(sections, revision)
    /\ Goto("RESULT")
    /\ UNCHANGED <<budget, call, failures, found, authority, trace>>

(* Compiling raises out of the tool: a failure of the tool.                 *)
EvaluateFails ==
    /\ EvaluateEntered
    /\ ~ Current(revision)
    /\ failures' = failures + 1
    /\ IF failures + 1 >= FailureBound THEN Stop("TOOL_FAILURE_BOUND_REACHED")
                                       ELSE UNCHANGED reason
    /\ Goto("TOOLS")
    /\ UNCHANGED <<budget, call, found, authority, decision, trace>>

-----------------------------------------------------------------------------
(* finish.                                                                  *)

Lesser(a, b) == IF a <= b THEN a ELSE b

(* Mutant: the trace is not shortened before the receipts are emitted.      *)
FlushedAtTheEnd(events) ==
    [events |-> events, receipts |-> Lesser(Len(receipts), TraceLimit - 1 - events)]

(* Room is made for every receipt, and an event is appended while there is   *)
(* room.                                                                    *)
Flushed(events) ==
    LET kept == Lesser(events, TraceLimit - 1 - Lesser(Len(receipts), MaxSlots))
    IN  [events |-> kept, receipts |-> Lesser(Len(receipts), TraceLimit - 1 - kept)]

(* The run may have traced any number of events, within the limit.          *)
FinishReturns ==
    /\ phase = "FINISH"
    /\ \E v \in Verdict :
           /\ Compiles(sections, revision, v)
           /\ Stop(CASE v = "FAIL" -> "HARD_FAIL_CONFIRMED"
                     [] v = "PASS" -> "SUFFICIENT_CRITICAL_EVIDENCE"
                     [] OTHER -> "NO_PROGRESS")
    /\ \E events \in 0..(TraceLimit - 1) : trace' = Flushed(events)
    /\ Goto("DONE")
    /\ UNCHANGED <<budget, call, limits, progress, found, authority>>

FinishRaises ==
    /\ phase = "FINISH"
    /\ ~ Current(revision)
    /\ \E events \in 0..(TraceLimit - 1) : trace' = Flushed(events)
    /\ Goto("RAISED")
    /\ UNCHANGED <<budget, call, reason, limits, progress, found, authority, decision>>

-----------------------------------------------------------------------------
Planner == PlannerCalled \/ PlannerDenied \/ PlannerUnrecorded \/ PlannerFails
           \/ PlannerAnswers \/ PlannerStops
Tool == NoMoreTools \/ ToolLimit \/ ToolReturns \/ ToolRejected
Search == SearchRefused \/ SearchDenied \/ SearchFails \/ SearchReturns
Fetch == FetchRefused \/ FetchDenied \/ FetchFails \/ FetchReturns \/ FetchKnown
         \/ FetchUnreadable
Drain == AcquireBegins \/ AcquireFails \/ DrainEnds \/ JobRefused \/ JobRepeated
         \/ SectionCalled \/ SectionDenied \/ SectionUnrecorded \/ SectionFails
         \/ SectionRejected \/ SectionKnown \/ SectionAdmitted
ExtractTool == ExtractSections \/ ExtractInvalid \/ ExtractRefused \/ ExtractCalled
               \/ ExtractDenied \/ ExtractUnrecorded \/ ExtractFails \/ ExtractReturns
Record == ClaimRefused \/ ClaimUnsupported \/ ClaimFails \/ ClaimAdmitted \/ ClaimsRecorded
Evaluate == EvaluateRefused \/ EvaluateReturns \/ EvaluateFails
Finish == FinishReturns \/ FinishRaises

Next == Planner \/ Tool \/ Search \/ Fetch \/ Drain \/ ExtractTool \/ Record
        \/ Evaluate \/ Finish

Spec == Init /\ [][Next]_vars

(* One thread runs a run, and each of its waits has a timeout.              *)
FairSpec == Spec /\ WF_vars(Next)

-----------------------------------------------------------------------------
(* Properties.                                                              *)

(* Type invariant.  It also says that a plan of receipts never overflows.   *)
ResearchTypeOK ==
    /\ phase \in Phase
    /\ calls \in [Kind -> Nat] /\ reserved \in Nat
    /\ \A n \in DOMAIN open : n \in Nat \ {0} /\ open[n] \in Nat
    /\ receipts \in Seq(Receipt) /\ Len(receipts) <= MaxSlots
    /\ dispatched \in 0..MaxDispatched
    /\ call = NoCall \/ (call.slot \in DOMAIN receipts /\ call.reservation \in DOMAIN open)
    /\ reason \in Reason \cup {None}
    /\ turns \in 0..MaxTurns /\ tools \in 0..MaxTools /\ steps \in 0..MaxSteps
    /\ {repeats, failures, sources, source, index, base, batch, claims, sections, revision}
           \subseteq Nat
    /\ bundle # None => bundle.verdict \in Verdict

(* What a receipt says was spent: what was reconciled, else what is reserved. *)
Charged(r) == IF r.reconciled # None THEN r.reconciled
              ELSE IF r.cost # None THEN r.cost ELSE 0

(* Reservations whose receipt could not record them.                        *)
Unrecorded == {n \in DOMAIN open : open[n] > MaxModelCost}

(* The two ledgers agree.  Through every failure between a reservation and    *)
(* its reconciliation, the guard holds exactly what the receipts charge, the *)
(* searches cost and the unrecorded calls reserve, and that never passes the *)
(* cap of the run.                                                          *)
LedgersAgree ==
    /\ reserved <= CostCap
    /\ \A k \in Kind : calls[k] <= Limit[k]
    /\ reserved = SumFunction([i \in DOMAIN receipts |-> Charged(receipts[i])])
                  + SearchPrice * calls["SEARCH"]
                  + SumFunction([n \in Unrecorded |-> open[n]])

Made(i) == receipts[i].index # None

(* Every call has its receipt.  The inference calls the guard counts are the *)
(* receipts that were dispatched and those that could not be recorded; they  *)
(* are indexed in the order they were made, only a denied call is blocked,   *)
(* and between two calls no receipt but an unrecordable one is unsettled.    *)
CallsHaveReceipts ==
    LET made    == {i \in DOMAIN receipts : Made(i)}
        planned == {i \in DOMAIN receipts : receipts[i].state = "PLANNED"}
        blocked == {i \in DOMAIN receipts : receipts[i].state = "BUDGET_BLOCKED"}
    IN  /\ calls["INFERENCE"] = Cardinality(made) + Cardinality(planned)
        /\ Cardinality(planned) = Cardinality(Unrecorded)
        /\ \A i, j \in made : i < j => receipts[i].index < receipts[j].index
        /\ \A i \in made : receipts[i].index <= calls["INFERENCE"]
        /\ blocked # {} => blocked = {Len(receipts)} /\ reason = "BUDGET_EXHAUSTED"
        /\ \A i \in DOMAIN receipts : receipts[i].state = "DISPATCHED" <=> i = call.slot

(* What was reserved, called and recorded is one account.                   *)
SpendIsAccounted == LedgersAgree /\ CallsHaveReceipts

(* No paid call is made once the run has its reason to stop, whatever tools  *)
(* the planner still asked for, and the reason does not change.             *)
NoSpendAfterStop ==
    [][reason # None => calls' = calls /\ reason' = reason]_vars

(* A run stops for the reason it gives: a bound is given only when it was    *)
(* met, and a failure bound only after failures or a lost planner.          *)
StopsForItsReason ==
    CASE reason = "MAX_STEPS" ->
             steps = MaxSteps \/ tools = MaxTools \/ turns = MaxTurns
      [] reason = "BUDGET_EXHAUSTED" ->
             \/ \E k \in Kind : calls[k] = Limit[k]
             \/ \E c \in Costs \cup {SearchPrice} : reserved + c > CostCap
      [] reason = "TOOL_FAILURE_BOUND_REACHED" ->
             \/ failures >= FailureBound
             \/ LET last == receipts[Len(receipts)]
                IN  last.role = "PLANNING" /\ last.state \in {"FAILED", "PLANNED"}
      [] OTHER -> TRUE

(* The decision a run stops on or reports was compiled from everything it    *)
(* admitted: claims recorded and sections admitted in between, and those put *)
(* back, never leave an earlier decision current.                           *)
DecisionIsCurrent ==
    reason \in {"HARD_FAIL_CONFIRMED", "SUFFICIENT_CRITICAL_EVIDENCE"} \/ phase = "DONE" =>
        /\ bundle.claims = claims
        /\ bundle.sections = sections
        /\ reason = "HARD_FAIL_CONFIRMED" => bundle.verdict = "FAIL"
        /\ reason = "SUFFICIENT_CRITICAL_EVIDENCE" => bundle.verdict = "PASS"

(* However long the trace of a run was, its report keeps every receipt, and  *)
(* leaves room for the event that says why the run ended.                   *)
AccountingIsReported ==
    phase \in Ended =>
        /\ trace.receipts = Len(receipts)
        /\ trace.events + trace.receipts + 1 <= TraceLimit

(* A run reports the decision it is on and every call it made.              *)
ReportIsTrue == DecisionIsCurrent /\ AccountingIsReported

(* Every run ends.                                                          *)
RunEnds == <>(phase \in Ended)

=============================================================================
