--------------------------- MODULE PlanningEngine ---------------------------
(***************************************************************************)
(* qualor/matching, qualor/effort and qualor/strategy: what a project offers *)
(* against what the opportunity asks, the hours and the cash it takes, and   *)
(* the weighted score.  A rating is 0..4, or None as long as a fact it needs *)
(* is absent; labels are compared as members of sets.                        *)
(***************************************************************************)
EXTENDS EligibilityEngine

CONSTANT HoursPerUnit   \* hours in one unit of the clock

ASSUME HoursAssumption == HoursPerUnit \in Nat

MaterialKind == {"REPOSITORY", "LICENSE", "DEMO", "ARCHITECTURE_DIAGRAM",
    "TECHNICAL_INTEGRATION", "NARRATIVE", "PUBLIC_AVAILABILITY", "OTHER"}

EffortCategory == {"INTEGRATION", "EVIDENCE", "REPO_LICENSE_CLEANUP", "DEMO",
    "NARRATIVE", "SUBMISSION"}

CashKinds == {"CASH_SPEND", "ENTRY_FEE", "TRAVEL"}

-----------------------------------------------------------------------------
(* Readiness: matching/readiness.py.                                        *)

Material(requirements, project, kind) ==
    LET required == requirements.materials[kind]
        stated   == project.materials[kind]
    IN  IF required = None THEN None
        ELSE IF ~ required THEN 4
        ELSE IF stated.ready = None THEN None
        ELSE IF stated.ready THEN 4
        ELSE IF stated.gap = None THEN None
        ELSE IF stated.gap THEN 3 ELSE 0

ReadinessState(ratings) ==
    IF 0 \in ratings THEN "NOT_READY"
    ELSE IF None \in ratings THEN "UNKNOWN"
    ELSE IF 3 \in ratings THEN "GAPS_EXECUTABLE"
    ELSE "READY"

AssessReadiness(in, project) ==
    ReadinessState({Material(in.requirements, project, k) : k \in MaterialKind})

ReadinessRating(state) ==
    CASE state = "READY" -> 4
      [] state = "GAPS_EXECUTABLE" -> 3
      [] state = "NOT_READY" -> 0
      [] OTHER -> None

-----------------------------------------------------------------------------
(* Matching: matching/engine.py.                                            *)

Covered(actual, required) ==
    IF required = None THEN None
    ELSE IF required = {} THEN 4
    ELSE IF actual = None THEN None
    ELSE (4 * Cardinality(required \cap actual)) \div Cardinality(required)

(* A single label is one of the accepted ones or it is not.                 *)
Accepted(actual, required) ==
    IF required = None THEN None
    ELSE IF required = {} THEN 4
    ELSE IF actual = None THEN None
    ELSE IF actual \in required THEN 4 ELSE 0

Weakest(ratings) == IF None \in ratings THEN None ELSE Min(ratings)

CodeRating(requirements, project) ==
    IF requirements.original = None THEN None
    ELSE IF ~ requirements.original THEN 4
    ELSE IF project.code_provenance = None THEN None
    ELSE IF project.code_provenance = "ORIGINAL" THEN 4 ELSE 0

(* An explicit absence of a limit answers the question without the project; *)
(* a limit nobody read does not.                                            *)
AdaptationRating(requirements, project) ==
    IF requirements.unbounded = TRUE THEN 4
    ELSE IF project.adaptation = None \/ requirements.maxAdaptation = None THEN None
    ELSE IF project.adaptation <= requirements.maxAdaptation THEN 4 ELSE 0

Factors(in, project) ==
    LET asks == in.requirements
    IN  [problem_audience |-> Weakest({Accepted(project.problem, asks.problems),
                                       Accepted(project.audience, asks.audiences)}),
         technology   |-> Covered(project.technology_stack, asks.technologies),
         features     |-> Covered(project.features, asks.features),
         stage        |-> Accepted(project.stage, asks.stages),
         code_license |-> Weakest({CodeRating(asks, project),
                                   Accepted(project.license_intent, asks.licenses)}),
         adaptation   |-> AdaptationRating(asks, project),
         readiness    |-> ReadinessRating(AssessReadiness(in, project))]

Total(ratings) == SumFunction(ratings)

Complete(ratings) == \A f \in DOMAIN ratings : ratings[f] # None

ComparableScore(factors) ==
    IF Complete(factors) THEN (Total(factors) * 50 + 7) \div 14 ELSE None

MatchRating(factors) ==
    IF Complete(factors) THEN Total(factors) \div 7 ELSE None

(* Mutant: the first of several equal matches is taken.                     *)
SelectAnyBest(scores) ==
    IF Complete(scores)
    THEN CHOOSE p \in DOMAIN scores : \A q \in DOMAIN scores : scores[q] <= scores[p]
    ELSE None

(* The unique best match, once every candidate has a score.                 *)
SelectBestProject(scores) ==
    LET best == {p \in DOMAIN scores : \A q \in DOMAIN scores : scores[q] <= scores[p]}
    IN  IF Complete(scores) /\ Cardinality(best) = 1 THEN CHOOSE p \in best : TRUE
        ELSE None

-----------------------------------------------------------------------------
(* Effort and capacity: effort/engine.py.                                   *)

EffortTotal(in, id, project) ==
    IF Complete(in.effort[id]) /\ project.adaptation # None
    THEN project.adaptation + Total(in.effort[id]) ELSE None

(* The hours left to the tightest effective deadline, None unless all are   *)
(* exact.                                                                   *)
RemainingHours(deadlines, now) ==
    IF deadlines = {} \/ \E d \in deadlines : ~ d.exact THEN None
    ELSE Max({0, HoursPerUnit * (Min({d.at : d \in deadlines}) - now)})

(* Mutant: the opportunity's own deadlines only, not the rules' bounds.      *)
AssessCapacityLoosely(in, id, project) ==
    LET remaining == RemainingHours(in.deadlines, in.now)
        needed    == EffortTotal(in, id, project)
    IN  IF in.founder.available_hours = None \/ remaining = None \/ needed = None THEN "UNKNOWN"
        ELSE IF Min({in.founder.available_hours, remaining}) >= needed THEN "SUFFICIENT"
        ELSE "INSUFFICIENT"

AssessCapacity(in, id, project) ==
    LET available == in.founder.available_hours
        remaining == RemainingHours(EffectiveDeadlines(in), in.now)
        needed    == EffortTotal(in, id, project)
    IN  IF available = None \/ remaining = None \/ needed = None THEN "UNKNOWN"
        ELSE IF Min({available, remaining}) >= needed THEN "SUFFICIENT"
        ELSE "INSUFFICIENT"

-----------------------------------------------------------------------------
(* Affordability: effort/economics.py.  Credits and equity never become     *)
(* cash, and an explicit refusal outweighs everything that is unknown.      *)

AssessAffordability(in) ==
    LET budget == in.founder.max_cash_commitment
        items  == in.costs.items
        cash   == {i \in DOMAIN items : items[i].kind \in CashKinds}
        priced(i) == /\ items[i].amount # None
                     /\ budget # None
                     /\ items[i].amount.currency = budget.currency
        answer(i) == IF items[i].kind = "CLOUD_CREDIT" THEN items[i].covered
                                                       ELSE items[i].accepted
        others  == {answer(i) : i \in DOMAIN items \ cash}
        known   == budget # None /\ \A i \in cash : priced(i)
        spent   == Total([i \in cash |-> items[i].amount.amount])
    IN  IF FALSE \in others \/ (known /\ spent > budget.amount) THEN "INSUFFICIENT"
        ELSE IF in.costs.complete # TRUE \/ ~ known \/ None \in others THEN "UNKNOWN"
        ELSE "SUFFICIENT"

-----------------------------------------------------------------------------
(* Strategy: strategy/scoring.py and rubric.py.                             *)

GoalCoverage(goals, benefits) ==
    IF goals = None THEN None
    ELSE IF goals = {} THEN 0
    ELSE IF benefits = None THEN None
    ELSE (4 * Cardinality(goals \cap benefits)) \div Cardinality(goals)

Weight == [product_fit |-> 30, readiness |-> 25, time_feasibility |-> 20,
           strategic_value |-> 15, economic_affordability |-> 10]

StateRating(state) ==
    CASE state = "SUFFICIENT" -> 4 [] state = "INSUFFICIENT" -> 0 [] OTHER -> None

DeriveStrategy(in, id, project) ==
    LET rating == [product_fit |-> MatchRating(Factors(in, project)),
                   readiness |-> ReadinessRating(AssessReadiness(in, project)),
                   time_feasibility |-> StateRating(AssessCapacity(in, id, project)),
                   strategic_value |-> GoalCoverage(in.founder.strategic_goals, in.benefits),
                   economic_affordability |-> StateRating(AssessAffordability(in))]
    IN  IF Complete(rating)
        THEN (Total([f \in DOMAIN Weight |-> rating[f] * Weight[f]]) + 2) \div 4
        ELSE None

=============================================================================
