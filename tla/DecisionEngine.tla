--------------------------- MODULE DecisionEngine ---------------------------
(***************************************************************************)
(* qualor/decisions: every project of an input is assessed afresh by the     *)
(* four engines, the six-rule policy makes a recommendation of it, and the   *)
(* best match of the portfolio is selected.                                  *)
(*                                                                         *)
(* A run decides on what is stated at its time.  The next run decides again, *)
(* with one more fact stated or reviewed, or some time later: the actions    *)
(* are those differences between two consecutive inputs, and each ends with  *)
(* the decision on the new input.                                            *)
(***************************************************************************)
EXTENDS ConflictEngine, PlanningEngine

CONSTANTS
    Scenarios,     \* the inputs a first run may start with
    Answers,       \* for each field an owner states: the values it may get
    Horizon        \* the last instant of a run

VARIABLES
    input,         \* the DecisionInput of the latest run
    output         \* its DecisionOutput

vars == <<input, output>>

-----------------------------------------------------------------------------
(* The contracts an input is validated against, as far as the engines rely   *)
(* on them.                                                                 *)

Optional(S) == S \cup {None}

FounderProfile(founder) ==
    /\ DOMAIN founder = {"residence", "citizenship", "legal_form", "incorporation_date",
                         "team_size", "available_hours", "max_cash_commitment",
                         "open_source", "strategic_goals"}
    /\ founder.available_hours \in Optional(Nat)

ProjectProfile(project) ==
    /\ DOMAIN project = {"problem", "audience", "stage", "features", "technology_stack",
                         "code_provenance", "is_new_project", "license_intent", "adaptation",
                         "has_sponsor_support", "reward_conditions_met", "project_lineage",
                         "reused_components", "reuse_disclosed", "documented", "materials"}
    /\ project.adaptation \in Optional(Nat)
    /\ DOMAIN project.materials = MaterialKind
    /\ \A k \in MaterialKind : DOMAIN project.materials[k] = {"ready", "gap"}

EvidenceRecord(record) ==
    /\ DOMAIN record = {"source", "field", "state", "at"}
    /\ record.at \in Int

(* A rule that does not apply has nothing to execute.                       *)
RuleCandidate(rule, others) ==
    /\ rule.type \in Category
    /\ rule.critical \in BOOLEAN /\ rule.supported \in BOOLEAN
    /\ rule.contradiction \in BOOLEAN /\ rule.notApplicable \in BOOLEAN
    /\ rule.children \subseteq others
    /\ rule.notApplicable =>
           rule.subject = None /\ rule.operands = <<>> /\ rule.children = {}
    /\ \A i \in 1..Len(rule.operands) :
           rule.operands[i].kind \in {"date", "instant"} => rule.operands[i].value \in Int

(* The children of a rule are a part of it: among any rules, one has none of *)
(* them as a child.                                                         *)
Nested(rules) ==
    \A part \in (SUBSET DOMAIN rules) \ {{}} :
        \E r \in part : rules[r].children \cap part = {}

MatchingRequirements(requirements) ==
    /\ DOMAIN requirements = {"problems", "audiences", "technologies", "features", "stages",
                              "licenses", "original", "maxAdaptation", "unbounded", "materials"}
    /\ \A f \in {"technologies", "features"} :
           requirements[f] = None \/ IsFiniteSet(requirements[f])
    /\ DOMAIN requirements.materials = MaterialKind

DecisionInput(in) ==
    /\ DOMAIN in = {"mode", "now", "status", "deadlines", "founder", "projects", "rules",
                    "evidence", "conflictRules", "submissions", "requirements", "benefits",
                    "effort", "costs"}
    /\ in.now \in Int
    /\ in.deadlines \subseteq [exact : BOOLEAN, at : Int] /\ IsFiniteSet(in.deadlines)
    /\ FounderProfile(in.founder)
    /\ DOMAIN in.projects # {} /\ IsFiniteSet(DOMAIN in.projects) /\ None \notin DOMAIN in.projects
    /\ DOMAIN in.projects \subseteq DOMAIN in.effort
    /\ \A id \in DOMAIN in.projects :
           /\ ProjectProfile(in.projects[id])
           /\ in.effort[id] \in [EffortCategory -> Optional(Nat)]
    /\ IsFiniteSet(DOMAIN in.rules) /\ Nested(in.rules)
    /\ \A r \in DOMAIN in.rules : RuleCandidate(in.rules[r], DOMAIN in.rules)
    /\ \A e \in DOMAIN in.evidence : EvidenceRecord(in.evidence[e])
    /\ DOMAIN in.conflictRules \subseteq ConflictCategory
    /\ MatchingRequirements(in.requirements)
    /\ DOMAIN in.costs = {"complete", "items"}
    /\ \A i \in DOMAIN in.costs.items :
           DOMAIN in.costs.items[i] = {"kind", "amount", "covered", "accepted"}

(* An absent fact is none of the values it is told from.                    *)
ASSUME AbsentAssumption ==
    /\ None \notin BOOLEAN /\ None \notin Int /\ None # <<>>
    /\ None \notin {"APPLY", "PREPARE", "WATCH", "SKIP", "ORIGINAL", "REUSED", "MIXED"}
    /\ None \notin [kind : {"instant"}, value : Int]

ASSUME ScenarioAssumption == \A in \in Scenarios : DecisionInput(in)

(* What an owner or a reader states is of the kind its field asks for; the    *)
(* materials and the documents are stated one by one.                       *)
ASSUME AnswerAssumption ==
    /\ {"materials", "documented"} \cap DOMAIN Answers = {}
    /\ Answers["effort"] \subseteq Nat
    /\ \A f \in {"available_hours", "adaptation"} \cap DOMAIN Answers : Answers[f] \subseteq Nat
    /\ \A f \in {"technologies", "features"} \cap DOMAIN Answers : \A v \in Answers[f] :
           IsFiniteSet(v)

-----------------------------------------------------------------------------
Recommendation == {"APPLY", "PREPARE", "WATCH", "SKIP"}

ApplyThreshold == 75
PrepareThreshold == 60

(* The six rules in their order of priority: policy.py.                     *)
Recommend(eligibility, conflict, score, readiness, capacity, affordability, closed) ==
    IF closed \/ eligibility = "FAIL" \/ conflict = "BLOCKED_BY_EXPLICIT_RULE" THEN "SKIP"
    ELSE IF eligibility = "REVIEW_REQUIRED" \/ conflict = "REVIEW_REQUIRED" \/ score = None
         THEN "WATCH"
    ELSE IF /\ score >= ApplyThreshold /\ capacity = "SUFFICIENT"
            /\ affordability = "SUFFICIENT" /\ readiness = "READY"
         THEN "APPLY"
    ELSE IF /\ score >= PrepareThreshold /\ capacity = "SUFFICIENT"
            /\ readiness = "GAPS_EXECUTABLE"
         THEN "PREPARE"
    ELSE IF /\ score >= PrepareThreshold
            /\ \/ capacity # "SUFFICIENT"
               \/ affordability = "UNKNOWN"
               \/ readiness = "UNKNOWN"
         THEN "WATCH"
    ELSE "SKIP"

Closed(in) ==
    in.status = "CLOSED" \/ \E d \in in.deadlines : d.exact /\ d.at <= in.now

TimingKnown(in) ==
    EffectiveDeadlines(in) # {} /\ \A d \in EffectiveDeadlines(in) : d.exact

(* An opportunity not known to be open, or without an exact deadline, is     *)
(* watched whatever its score.                                               *)
Watched(in, found) ==
    IF found \in {"APPLY", "PREPARE"} /\ (in.status # "OPEN" \/ ~ TimingKnown(in))
    THEN "WATCH" ELSE found

Candidate(in, id) ==
    Watched(in, Recommend(AggregateEligibility(in, in.projects[id]),
                          AssessConflicts(in, id, in.projects[id]),
                          DeriveStrategy(in, id, in.projects[id]),
                          AssessReadiness(in, in.projects[id]),
                          AssessCapacity(in, id, in.projects[id]),
                          AssessAffordability(in),
                          Closed(in)))

(* The only project of a live run is its best match, whatever its score.     *)
LiveChoice(in, best) ==
    IF best = None /\ in.mode = "LIVE" /\ Cardinality(DOMAIN in.projects) = 1
    THEN CHOOSE id \in DOMAIN in.projects : TRUE ELSE best

Best(in) ==
    LiveChoice(in, SelectBestProject(
        [id \in DOMAIN in.projects |-> ComparableScore(Factors(in, in.projects[id]))]))

Refused == [best |-> None, candidates |-> <<>>, recommendation |-> None]

(* The recommendation on the portfolio is that on its best match; short of   *)
(* one, it is to skip when every candidate is.                               *)
Overall(candidates, best) ==
    IF best # None THEN candidates[best]
    ELSE IF \A id \in DOMAIN candidates : candidates[id] = "SKIP" THEN "SKIP"
    ELSE "WATCH"

Decided(candidates, best) ==
    [best |-> best, candidates |-> candidates, recommendation |-> Overall(candidates, best)]

Decide(in) ==
    IF ValidRules(in)
    THEN Decided([id \in DOMAIN in.projects |-> Candidate(in, id)], Best(in))
    ELSE Refused

-----------------------------------------------------------------------------
Init ==
    /\ input \in Scenarios
    /\ output = Decide(input)

(* The input of the next run and the decision on it.                        *)
NextRun(in) ==
    /\ input' = in
    /\ output' = Decide(in)

(* An owner states a fact about the founder.                                *)
StateFounder(f) ==
    /\ input.founder[f] = None
    /\ \E v \in Answers[f] : NextRun([input EXCEPT !.founder[f] = v])

(* An owner states a fact about a project, with or without a document.      *)
StateProject(id, f) ==
    LET project == input.projects[id]
    IN  /\ project[f] = None
        /\ \E v \in Answers[f], proved \in SUBSET ({f} \cap {"code_provenance", "is_new_project"}) :
               NextRun([input EXCEPT !.projects[id] =
                   [project EXCEPT ![f] = v, !.documented = project.documented \cup proved]])

StateMaterial(id, k) ==
    \E field \in {"ready", "gap"} :
        /\ input.projects[id].materials[k][field] = None
        /\ \E v \in BOOLEAN : NextRun([input EXCEPT !.projects[id].materials[k][field] = v])

StateEffort(id, c) ==
    /\ input.effort[id][c] = None
    /\ \E v \in Answers["effort"] : NextRun([input EXCEPT !.effort[id][c] = v])

(* What the opportunity asks is read: an unbounded adaptation and a finite   *)
(* limit exclude each other, and a live run reads the technologies only.     *)
ReadRequirement(f) ==
    /\ input.mode = "LIVE" => f = "technologies"
    /\ input.requirements[f] = None
    /\ \E v \in Answers[f] :
           LET in == [input EXCEPT !.requirements[f] = v]
           IN  /\ ~ (in.requirements.unbounded = TRUE /\ in.requirements.maxAdaptation # None)
               /\ NextRun(in)

ReadMaterial(k) ==
    /\ input.mode # "LIVE"
    /\ input.requirements.materials[k] = None
    /\ \E v \in BOOLEAN : NextRun([input EXCEPT !.requirements.materials[k] = v])

StateCost(i, f) ==
    /\ input.costs.items[i][f] = None
    /\ \E v \in Answers[f] : NextRun([input EXCEPT !.costs.items[i][f] = v])

(* A record of evidence is reviewed.                                        *)
Review(e) ==
    /\ input.evidence[e].state = "UNVERIFIED"
    /\ NextRun([input EXCEPT !.evidence[e].state = "REVIEWED"])

(* The next run comes later, with nothing retrieved again.                  *)
Wait ==
    /\ input.now < Horizon
    /\ NextRun([input EXCEPT !.now = @ + 1])

Learn ==
    \/ \E f \in DOMAIN input.founder \cap DOMAIN Answers : StateFounder(f)
    \/ \E id \in DOMAIN input.projects :
           \/ \E f \in DOMAIN input.projects[id] \cap DOMAIN Answers : StateProject(id, f)
           \/ \E k \in MaterialKind : StateMaterial(id, k)
           \/ \E c \in EffortCategory : StateEffort(id, c)
    \/ \E f \in DOMAIN input.requirements \cap DOMAIN Answers : ReadRequirement(f)
    \/ \E k \in MaterialKind : ReadMaterial(k)
    \/ \E i \in DOMAIN input.costs.items : \E f \in {"amount", "covered", "accepted"} :
           StateCost(i, f)
    \/ \E e \in DOMAIN input.evidence : Review(e)

Next == Learn \/ Wait

Spec == Init /\ [][Next]_vars

-----------------------------------------------------------------------------
(* Properties.                                                              *)

Acting == {"APPLY", "PREPARE"}

(* No verdict is reversed by learning more.  At one instant, a candidate's   *)
(* APPLY, PREPARE or SKIP, the selection of a best project and the           *)
(* recommendation on the portfolio survive every fact stated, requirement    *)
(* read and record reviewed; only WATCH is open.  All four engines' ways of  *)
(* treating an absent fact have to agree for this.                           *)
VerdictStands ==
    [][input'.now = input.now =>
        /\ output.recommendation # "WATCH" => output'.recommendation = output.recommendation
        /\ output.best # None => output'.best = output.best
        /\ \A id \in DOMAIN output.candidates :
               output.candidates[id] # "WATCH" => output'.candidates[id] = output.candidates[id]
      ]_vars

Opened(in) ==
    \A r \in DOMAIN in.rules :
        in.rules[r].type = "DEADLINE" /\ Len(in.rules[r].operands) = 2 =>
            in.rules[r].operands[1].value <= in.now

(* No record is dated after the run that decides on it.                     *)
Retrieved(in) == \A e \in DOMAIN in.evidence : in.evidence[e].at <= in.now

(* Waiting never helps.  Once entry is open, time alone (evidence ageing, a   *)
(* deadline coming near, hours running out) never turns a candidate's or the *)
(* portfolio's recommendation into APPLY or PREPARE, and a closed            *)
(* opportunity stays skipped.                                                *)
WaitingNeverHelps ==
    [][input'.now > input.now /\ Opened(input) /\ Retrieved(input) =>
        /\ output'.recommendation \in Acting => output.recommendation = output'.recommendation
        /\ \A id \in DOMAIN output.candidates :
              /\ output'.candidates[id] \in Acting => output.candidates[id] = output'.candidates[id]
              /\ Closed(input) => output'.candidates[id] \in {"SKIP"}
      ]_vars

(* Acting is possible in time: the opportunity is open, its own deadlines    *)
(* are instants still ahead, and the hours the work takes, if any, fit before *)
(* every bound a deadline rule states, and into the founder's hours.         *)
ActOnlyInTime ==
    \A id \in DOMAIN output.candidates : output.candidates[id] \in Acting =>
        LET hours == EffortTotal(input, id, input.projects[id])
            bounds == {r \in DOMAIN input.rules :
                          /\ input.rules[r].type = "DEADLINE"
                          /\ input.rules[r].op = "DATE_BETWEEN"
                          /\ input.rules[r].subject = "evaluated_at"
                          /\ Len(input.rules[r].operands) = 2
                          /\ input.rules[r].operands[2].kind \in {"date", "instant"}}
        IN  /\ input.status = "OPEN"
            /\ \A d \in input.deadlines :
                   d.exact /\ d.at > input.now /\ (d.at - input.now) * HoursPerUnit >= hours
            /\ \A r \in bounds :
                   LET bound == input.rules[r].operands[2]
                   IN  /\ bound.kind = "instant"
                       /\ hours > 0 => (bound.value - input.now) * HoursPerUnit >= hours
            /\ hours <= input.founder.available_hours

(* How old a record may be when the opportunity is acted on: a near unit when *)
(* any deadline is near, the default life otherwise.                         *)
LifeOfRecords(in) ==
    IF \E d \in EffectiveDeadlines(in) : d.at - in.now < NearWindow THEN NearTtl ELSE DefaultTtl

OnRecord(in, e) ==
    /\ e \in DOMAIN in.evidence
    /\ in.evidence[e].state = "REVIEWED"
    /\ in.evidence[e].at <= in.now
    /\ in.now - in.evidence[e].at < LifeOfRecords(in)

(* A rule stands on evidence when it is supported, rests on records and on   *)
(* nothing else, and what it is composed of stands too: all of a             *)
(* conjunction, one alternative of a disjunction.                            *)
Grounded(in) ==
    LET stands[r \in DOMAIN in.rules] ==
            LET rule == in.rules[r]
            IN  /\ rule.supported /\ ~ rule.contradiction
                /\ rule.evidence # {} /\ \A e \in rule.evidence : OnRecord(in, e)
                /\ \/ rule.notApplicable
                   \/ /\ rule.op = "AND" => \A c \in rule.children : stands[c]
                      /\ rule.op = "OR" => \E c \in rule.children : stands[c]
    IN  {r \in DOMAIN in.rules : stands[r]}

(* A rule is untainted when neither it nor anything it is composed of, a     *)
(* discarded alternative included, is contradicted or rests on an old record. *)
Untainted(in) ==
    LET clean[r \in DOMAIN in.rules] ==
            LET rule == in.rules[r]
            IN  /\ ~ rule.contradiction
                /\ \A e \in rule.evidence \cap DOMAIN in.evidence :
                       in.now - in.evidence[e].at < LifeOfRecords(in)
                /\ rule.op \in Connectives => \A c \in rule.children : clean[c]
    IN  {r \in DOMAIN in.rules : clean[r]}

(* Acting rests on evidence: every category has a critical rule, each        *)
(* critical rule is grounded and untainted, and every category of conflict    *)
(* has a supported rule on reviewed records that are still fresh.            *)
ActOnlyOnEvidence ==
    (\E id \in DOMAIN output.candidates : output.candidates[id] \in Acting) =>
        /\ \A c \in Category : \E r \in CriticalRules(input) : input.rules[r].type = c
        /\ CriticalRules(input) \subseteq Grounded(input) \cap Untainted(input)
        /\ \A c \in ConflictCategory :
               /\ c \in DOMAIN input.conflictRules
               /\ input.conflictRules[c].supported /\ input.conflictRules[c].evidence # {}
               /\ \A e \in input.conflictRules[c].evidence : OnRecord(input, e)

(* What can be done, on what is known.                                      *)
ActOnlyOnGround == ActOnlyInTime /\ ActOnlyOnEvidence

(* A violation is never hidden by what is missing.  A project already in     *)
(* another contest, by itself or by its lineage, whose opportunity           *)
(* explicitly forbids that on fresh reviewed evidence, is skipped and never  *)
(* the recommended action, whatever else is unknown or contradicted.         *)
ViolationSkips ==
    \A id \in DOMAIN output.candidates, s \in DOMAIN input.submissions :
        LET rule    == input.conflictRules["SAME_PROJECT"]
            project == input.projects[id]
        IN  /\ "SAME_PROJECT" \in DOMAIN input.conflictRules
            /\ rule.applies = TRUE /\ rule.supported /\ rule.evidence # {}
            /\ \A e \in rule.evidence :
                   /\ e \in DOMAIN input.evidence
                   /\ input.evidence[e].state = "REVIEWED"
                   /\ input.evidence[e].source \in HardSources
                   /\ input.evidence[e].field = "PROJECT_POLICY"
                   /\ input.evidence[e].at <= input.now
                   /\ input.now - input.evidence[e].at < NearTtl
            /\ \/ input.submissions[s].project = id
               \/ input.submissions[s].project \in Listed(project.project_lineage)
            => /\ output.candidates[id] = "SKIP"
               /\ output.best = id => output.recommendation = "SKIP"

(* A portfolio acts on one project only: the recommended action is that of   *)
(* the selected project, and every other candidate has been scored below it. *)
ActOnTheBest ==
    output.recommendation \in Acting =>
        /\ output.best # None
        /\ output.candidates[output.best] = output.recommendation
        /\ \A id \in DOMAIN input.projects \ {output.best} :
               LET score(p) == ComparableScore(Factors(input, input.projects[p]))
               IN  score(id) # None /\ score(id) < score(output.best)

=============================================================================
