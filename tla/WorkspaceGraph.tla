--------------------------- MODULE WorkspaceGraph ---------------------------
(***************************************************************************)
(* The versioned records one opportunity's approvals are bound to, as the  *)
(* SQLite workspace keeps them: the latest opportunity, founder and        *)
(* project versions, the decisions each research run committed, the run    *)
(* rows, recorded refresh failures, and the wall clock.                    *)
(*                                                                         *)
(* Records are append-only, so a version number stands for the immutable   *)
(* record it names (for an opportunity: the record and its digest).        *)
(* A decision is <<b, p>>: evaluation batch b, candidate project p; its id *)
(* is decision_{digest}_{project}.  One founder profile exists.            *)
(***************************************************************************)
EXTENDS Integers, FiniteSets

CONSTANTS
  Projects,         \* project profile ids
  Batches,          \* digests of deterministic evaluations
  Runs,             \* run ids
  Modes,            \* RuntimeMode
  Live,             \* the mode LIVE
  Policies,         \* PolicyVersions a service can be configured with
  Deadline,         \* Deadline[v]: earliest exact deadline of version v
  Uncertain,        \* versions with no deadline or a calendar-only one
  DefaultTtl,       \* freshness.py DEFAULT_TTL
  NearTtl,          \* freshness.py NEAR_DEADLINE_TTL
  NearWindow,       \* freshness.py NEAR_DEADLINE_WINDOW
  NoEval,           \* a batch that was never committed
  MaxVersion,       \* bound: versions of one record
  MaxClock,         \* bound: the clock
  MaxLag            \* bound: how long before its commit a run started

Versions  == 1..MaxVersion
Instants  == 0..MaxClock
Decisions == Batches \X Projects
RunStates == {"COMPLETED", "PARTIAL"}

Evaluation ==
  [opp : Versions, founder : Versions, policy : Policies, created : Instants,
   retrieved : SUBSET Instants,            \* retrieved_at of the required proof
   projV : [Projects -> 0..MaxVersion],    \* 0: not among the candidates
   actionable : SUBSET Projects,           \* APPLY/PREPARE with a clean gate
   selected : Projects,                    \* the decision its run rows name
   mode : Modes, state : RunStates]        \* of the runs that produced it

RunRow ==
  [id : Runs, opp : Versions, decision : Decisions, mode : Modes,
   state : RunStates, created : Instants, completed : Instants]

ASSUME GraphAssumption ==
  /\ MaxVersion \in Nat \ {0} /\ MaxClock \in Nat /\ MaxLag \in Nat
  /\ Deadline \in [Versions -> Nat]
  /\ DefaultTtl \in Nat /\ NearTtl \in Nat /\ NearWindow \in Nat
  /\ NearTtl <= DefaultTtl
  /\ NoEval \notin Evaluation

VARIABLES
  clock,            \* wall clock
  policy,           \* policy versions the service is configured with
  oppV,             \* latest version of the opportunity
  founderV,         \* latest version of the founder profile
  projV,            \* projV[p]: latest version of project p
  evals,            \* evals[b]: the decisions of batch b, NoEval before
  runs,             \* run rows linked to the opportunity
  refreshFailed,    \* opportunity versions with a recorded refresh failure
  proofReplaced     \* batches whose evidence ids have several versions

graphVars == <<clock, policy, oppV, founderV, projV, evals, runs,
               refreshFailed, proofReplaced>>

GraphTypeOK ==
  /\ clock \in Instants
  /\ policy \in Policies
  /\ oppV \in Versions /\ founderV \in Versions
  /\ projV \in [Projects -> Versions]
  /\ evals \in [Batches -> Evaluation \cup {NoEval}]
  /\ runs \in SUBSET RunRow
  /\ refreshFailed \in SUBSET Versions
  /\ proofReplaced \in SUBSET Batches

-----------------------------------------------------------------------------
(* Freshness and the authority of a decision. *)

\* evaluate_freshness with an exact deadline.
Ttl(deadline, now) ==
  IF deadline - now < NearWindow THEN NearTtl ELSE DefaultTtl

Fresh(retrieved, now, deadline) ==
  /\ retrieved <= now
  /\ now - retrieved < Ttl(deadline, now)

Recorded(d) == evals[d[1]] # NoEval /\ evals[d[1]].projV[d[2]] # 0

VersionsCurrent(d) ==
  /\ evals[d[1]].opp = oppV
  /\ evals[d[1]].founder = founderV
  /\ evals[d[1]].projV[d[2]] = projV[d[2]]

\* Mutant: equal timestamps do not supersede.
SupersededStrictly(d) ==
  \E b \in Batches \ {d[1]} :
    /\ Recorded(<<b, d[2]>>)
    /\ evals[b].opp = evals[d[1]].opp
    /\ evals[b].created > evals[d[1]].created

\* A decision of another batch for the same graph, at least as recent.
Superseded(d) ==
  \E b \in Batches \ {d[1]} :
    /\ Recorded(<<b, d[2]>>)
    /\ evals[b].opp = evals[d[1]].opp
    /\ evals[b].created >= evals[d[1]].created

SourceRuns(d) == {r \in runs : r.opp = evals[d[1]].opp /\ r.decision = d}

\* completed_source_run: exactly one completed run, with a consistent timeline.
SourceRunReason(d, now) ==
  LET R == SourceRuns(d) IN
  IF \E r, s \in R : r # s THEN "AMBIGUOUS_SOURCE_RUN"
  ELSE IF ~ \E r \in R : r.state = "COMPLETED" THEN "SOURCE_RUN_NOT_COMPLETED"
  ELSE IF \E r \in R : \/ r.completed > now
                       \/ r.completed < r.created
                       \/ r.completed < evals[d[1]].created
       THEN "SOURCE_RUN_MISMATCH"
  ELSE "VALID"

LatestRuns(v) ==
  {r \in runs : r.opp = v /\ \A s \in runs : s.opp = v => s.created <= r.created}

\* The require_current_run clause, over rows grouped by decision, mode, state.
CurrentRunReason(d) ==
  LET L == LatestRuns(evals[d[1]].opp)
      groups == {<<r.decision, r.mode, r.state>> : r \in L}
  IN IF L = {} \/ \E r \in L : r.state # "COMPLETED"
       THEN "SOURCE_RUN_NOT_COMPLETED"
     ELSE IF \E g, h \in groups : g # h THEN "AMBIGUOUS_SOURCE_RUN"
     ELSE IF \E r \in L : r.decision # d THEN "GRAPH_MISMATCH"
     ELSE "VALID"

RunReason(d, now, mode, current) ==
  IF SourceRunReason(d, now) # "VALID" THEN SourceRunReason(d, now)
  ELSE IF \E r \in SourceRuns(d) : r.mode # mode THEN "MODE_MISMATCH"
  ELSE IF current THEN CurrentRunReason(d) ELSE "VALID"

\* ApprovalService._graph_reason, in the order of its returns, as the product
\* configures it (require_completed_run; current = require_current_run).
GraphReason(d, now, mode, current) ==
  IF ~ Recorded(d) THEN "GRAPH_MISMATCH"
  ELSE IF evals[d[1]].policy # policy THEN "POLICY_MISMATCH"
  ELSE IF ~ VersionsCurrent(d) THEN "VERSION_MISMATCH"
  ELSE IF Superseded(d) THEN "GRAPH_MISMATCH"
  ELSE IF RunReason(d, now, mode, current) # "VALID"
       THEN RunReason(d, now, mode, current)
  ELSE IF oppV \in Uncertain THEN "DEADLINE_UNKNOWN"
  ELSE IF Deadline[oppV] <= now THEN "DEADLINE_PASSED"
  ELSE IF d[2] \notin evals[d[1]].actionable THEN "DECISION_NOT_ACTIONABLE"
  ELSE IF oppV \in refreshFailed THEN "EVIDENCE_NOT_ACTIONABLE"
  ELSE IF d[1] \in proofReplaced THEN "EVIDENCE_CHANGED"
  ELSE IF \/ evals[d[1]].retrieved = {}
          \/ \E t \in evals[d[1]].retrieved : ~ Fresh(t, now, Deadline[oppV])
       THEN "EVIDENCE_NOT_ACTIONABLE"
  ELSE "VALID"

-----------------------------------------------------------------------------
(* The writers of the graph. *)

GraphInit ==
  /\ clock = 0
  /\ policy \in Policies
  /\ oppV = 1 /\ founderV = 1
  /\ projV = [p \in Projects |-> 1]
  /\ evals = [b \in Batches |-> NoEval]
  /\ runs = {} /\ refreshFailed = {} /\ proofReplaced = {}

Tick ==
  /\ clock < MaxClock
  /\ clock' = clock + 1
  /\ UNCHANGED <<policy, oppV, founderV, projV, evals, runs, refreshFailed,
                 proofReplaced>>

\* The service restarts with other trusted policy versions.
ChangePolicy ==
  /\ policy' \in Policies \ {policy}
  /\ UNCHANGED <<clock, oppV, founderV, projV, evals, runs, refreshFailed,
                 proofReplaced>>

\* persist_observation with a digest that differs from the latest one.
PersistObservation ==
  /\ oppV < MaxVersion
  /\ oppV' = oppV + 1
  /\ UNCHANGED <<clock, policy, founderV, projV, evals, runs, refreshFailed,
                 proofReplaced>>

MarkRefreshFailed ==
  /\ refreshFailed' = refreshFailed \cup {oppV}
  /\ UNCHANGED <<clock, policy, oppV, founderV, projV, evals, runs,
                 proofReplaced>>

\* _update_portfolio_record whose expected version is the latest one.
UpdateProfile ==
  /\ founderV < MaxVersion
  /\ founderV' = founderV + 1
  /\ UNCHANGED <<clock, policy, oppV, projV, evals, runs, refreshFailed,
                 proofReplaced>>

UpdateProject(p) ==
  /\ projV[p] < MaxVersion
  /\ projV' = [projV EXCEPT ![p] = @ + 1]
  /\ UNCHANGED <<clock, policy, oppV, founderV, evals, runs, refreshFailed,
                 proofReplaced>>

\* put_evidence of a second version of an id that batch b was evaluated on.
ReplaceProof(b) ==
  /\ evals[b] # NoEval
  /\ proofReplaced' = proofReplaced \cup {b}
  /\ UNCHANGED <<clock, policy, oppV, founderV, projV, evals, runs,
                 refreshFailed>>

Recent == {t \in Instants : clock - MaxLag <= t /\ t <= clock}

\* Profile versions a run was given: stored ones, or the next one from its file.
CandidateVersions ==
  {g \in [Projects -> 0..MaxVersion] :
     /\ \E p \in Projects : g[p] # 0
     /\ \A p \in Projects : g[p] <= projV[p] + 1}

Evaluations ==
  LET E == {[opp |-> v, founder |-> f, policy |-> policy, created |-> t,
             retrieved |-> {t0}, projV |-> g, actionable |-> good,
             selected |-> p, mode |-> mode, state |-> state] :
              v \in {oppV, oppV + 1} \cap Versions,
              f \in (1..founderV + 1) \cap Versions,
              t \in Recent, t0 \in Recent, g \in CandidateVersions,
              good \in SUBSET Projects, p \in Projects,
              mode \in Modes, state \in RunStates}
  IN {e \in E :
        /\ \A t \in e.retrieved : t <= e.created
        /\ e.projV[e.selected] # 0
        /\ \A p \in e.actionable : e.projV[p] # 0
        /\ e.state = "PARTIAL" => e.mode = Live /\ e.selected \notin e.actionable}

\* Mutant: the row is written when the run starts.
AppendRunAtStart(r, b, e, started) ==
  /\ ~ \E row \in runs : row.id = r
  /\ runs' = runs \cup
       {[id |-> r, opp |-> e.opp, decision |-> <<b, e.selected>>,
         mode |-> e.mode, state |-> "RUNNING",
         created |-> started, completed |-> started]}

\* The row a capture writes once, in the transaction that commits its graph.
AppendRun(r, b, e, started) ==
  /\ ~ \E row \in runs : row.id = r
  /\ runs' = runs \cup
       {[id |-> r, opp |-> e.opp, decision |-> <<b, e.selected>>,
         mode |-> e.mode, state |-> e.state,
         created |-> started, completed |-> clock]}

Later(v, w) == IF v < w THEN w ELSE v

\* WorkspaceRunCapture._commit of a new evaluation: every candidate's decision
\* is stored, the run row names the selected one; the selection of a reviewable
\* PARTIAL run, LIVE only, is under REVIEW_REQUIRED.
CommitRun(r, b) ==
  /\ evals[b] = NoEval
  /\ \E e \in Evaluations, started \in Recent :
       /\ evals' = [evals EXCEPT ![b] = e]
       /\ oppV' = e.opp
       /\ founderV' = Later(founderV, e.founder)
       /\ projV' = [p \in Projects |-> Later(projV[p], e.projV[p])]
       /\ AppendRun(r, b, e, started)
  /\ UNCHANGED <<clock, policy, refreshFailed, proofReplaced>>

\* A repeated evaluation: every record exists and is equal, only a row is new.
CommitRerun(r, b) ==
  /\ evals[b] # NoEval
  /\ evals[b].opp = oppV
  /\ \E started \in Recent : AppendRun(r, b, evals[b], started)
  /\ UNCHANGED <<clock, policy, oppV, founderV, projV, evals, refreshFailed,
                 proofReplaced>>

GraphNext ==
  \/ Tick
  \/ ChangePolicy
  \/ PersistObservation
  \/ MarkRefreshFailed
  \/ UpdateProfile
  \/ \E p \in Projects : UpdateProject(p)
  \/ \E b \in Batches : ReplaceProof(b)
  \/ \E r \in Runs, b \in Batches : CommitRun(r, b)
  \/ \E r \in Runs, b \in Batches : CommitRerun(r, b)
=============================================================================
