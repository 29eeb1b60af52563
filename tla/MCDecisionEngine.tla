-------------------------- MODULE MCDecisionEngine --------------------------
(***************************************************************************)
(* Instances of DecisionEngine: a complete input every engine is content     *)
(* with, and inputs that differ from it in one defect and up to two absent   *)
(* facts.  A unit of the clock is six hours, as in the code: NearTtl is 1,   *)
(* DefaultTtl 4 and NearWindow 12.                                           *)
(***************************************************************************)
EXTENDS DecisionEngine

CONSTANTS p1, p2, s1

Text(v) == [kind |-> "text", value |-> v]
Bool(v) == [kind |-> "bool", value |-> v]
Instant(v) == [kind |-> "instant", value |-> v]

Leaves(type, op, subject, operands) ==
    [type |-> type, op |-> op, subject |-> subject, operands |-> operands, children |-> {},
     critical |-> TRUE, evidence |-> {type}, supported |-> TRUE, contradiction |-> FALSE,
     notApplicable |-> FALSE]

(* One rule a category; the geography rule offers two alternatives, the      *)
(* entrant rule asks for both of its parts, rewards do not apply.            *)
BaseRules ==
    [deadline |-> Leaves("DEADLINE", "DATE_BETWEEN", "evaluated_at", <<Instant(0), Instant(16)>>),
     solo |-> Leaves("ENTRANT_TYPE", "LTE", "team_size", <<[kind |-> "number", value |-> 2]>>),
     person |-> Leaves("ENTRANT_TYPE", "IN", "legal_form", <<Text("INDIVIDUAL"), Text("NONPROFIT")>>),
     entrant |-> [Leaves("ENTRANT_TYPE", "AND", None, <<>>) EXCEPT !.children = {"solo", "person"}],
     lives |-> Leaves("GEOGRAPHY", "EQ", "residence", <<Text("ES")>>),
     citizen |-> Leaves("GEOGRAPHY", "NOT_IN", "citizenship", <<Text("XX")>>),
     geography |-> [Leaves("GEOGRAPHY", "OR", None, <<>>) EXCEPT !.children = {"lives", "citizen"}],
     entity |-> Leaves("LEGAL_ENTITY", "EQ", "legal_form", <<Text("INDIVIDUAL")>>),
     policy |-> Leaves("PROJECT_POLICY", "BOOL_IS", "is_new_project", <<Bool(TRUE)>>),
     license |-> Leaves("LICENSE", "IN", "license_intent", <<Text("MIT")>>),
     stack |-> Leaves("REQUIRED_TECHNOLOGY", "IN", "technology_stack", <<Text("aws")>>),
     support |-> Leaves("FINANCIAL_SUPPORT", "BOOL_IS", "has_sponsor_support", <<Bool(FALSE)>>),
     rewards |-> [Leaves("REWARD_CONDITIONS", "EQ", None, <<>>) EXCEPT !.notApplicable = TRUE]]

BaseEvidence ==
    [c \in Category |-> [source |-> "OFFICIAL_RULES", field |-> c, state |-> "REVIEWED", at |-> 2]]

BaseConflictRules ==
    [c \in ConflictCategory |->
        [applies |-> c \notin {"EXISTING_PROJECT"}, supported |-> TRUE,
         evidence |-> {EvidenceField(c)},
         licenses |-> IF c = "LICENSE" THEN {"MIT"} ELSE None]]

BaseFounder ==
    [residence |-> "ES", citizenship |-> "ES", legal_form |-> "INDIVIDUAL",
     incorporation_date |-> None, team_size |-> 1, available_hours |-> 60,
     max_cash_commitment |-> [amount |-> 10, currency |-> "EUR"], open_source |-> TRUE,
     strategic_goals |-> {"credits"}]

BaseProject ==
    [problem |-> "a", audience |-> "a", stage |-> "MVP", features |-> {"f", "g"},
     technology_stack |-> {"aws"}, code_provenance |-> "ORIGINAL", is_new_project |-> TRUE,
     license_intent |-> "MIT", adaptation |-> 6, has_sponsor_support |-> FALSE,
     reward_conditions_met |-> None, project_lineage |-> <<>>, reused_components |-> <<>>,
     reuse_disclosed |-> None, documented |-> {"code_provenance", "is_new_project"},
     materials |-> [k \in MaterialKind |-> [ready |-> TRUE, gap |-> FALSE]]]

(* The second project lacks a feature.                                      *)
Weaker == [BaseProject EXCEPT !.features = {"f"}]

BaseRequirements ==
    [problems |-> {"a"}, audiences |-> {}, technologies |-> {"aws"}, features |-> {"f", "g"},
     stages |-> {"MVP"}, licenses |-> {"MIT"}, original |-> TRUE, maxAdaptation |-> 10,
     unbounded |-> FALSE,
     materials |-> [k \in MaterialKind |-> k \in {"REPOSITORY", "DEMO"}]]

Base ==
    [mode |-> "REPLAY", now |-> 2, status |-> "OPEN", deadlines |-> {[exact |-> TRUE, at |-> 20]},
     founder |-> BaseFounder, projects |-> [id \in {p1} |-> BaseProject],
     rules |-> BaseRules, evidence |-> BaseEvidence, conflictRules |-> BaseConflictRules,
     submissions |-> <<>>, requirements |-> BaseRequirements, benefits |-> {"credits"},
     effort |-> [id \in {p1, p2} |-> [c \in EffortCategory |-> 8]],
     costs |-> [complete |-> TRUE,
                items |-> <<[kind |-> "ENTRY_FEE", amount |-> [amount |-> 5, currency |-> "EUR"],
                             covered |-> FALSE, accepted |-> FALSE],
                            [kind |-> "CLOUD_CREDIT", amount |-> [amount |-> 50, currency |-> "EUR"],
                             covered |-> TRUE, accepted |-> FALSE]>>]]

(* A submission of the same project to a contest whose own rules were read   *)
(* six hours ago.                                                            *)
Entered ==
    [project |-> p2, project_lineage |-> <<>>, code_provenance |-> "ORIGINAL",
     reused_components |-> <<>>, license_intent |-> "MIT", has_sponsor_support |-> FALSE,
     refs |-> Category,
     rules |-> [c \in ConflictCategory |->
                   [BaseConflictRules[c] EXCEPT !.applies = c \notin {"EXCLUSIVE_SUBMISSION",
                                                                      "EXISTING_PROJECT",
                                                                      "SAME_PROJECT"}]]]

Submitted(in, s) ==
    [in EXCEPT !.submissions = [x \in {s1} |-> s],
               !.conflictRules["EXCLUSIVE_SUBMISSION"].applies = FALSE]

Portfolio(in) ==
    [in EXCEPT !.projects = [id \in {p1, p2} |-> IF id = p1 THEN BaseProject ELSE Weaker]]

(* What a live run compiles: its opportunity has no status, no conflict rule *)
(* and no cost is known, and of the requirements only the technologies.      *)
Compiled(in) ==
    [in EXCEPT !.mode = "LIVE", !.status = "UNKNOWN", !.conflictRules = <<>>,
               !.benefits = None, !.costs = [complete |-> None, items |-> <<>>],
               !.requirements = [f \in DOMAIN BaseRequirements |->
                   CASE f = "technologies" -> {"aws"}
                     [] f = "materials" -> [k \in MaterialKind |-> None]
                     [] OTHER -> None]]

-----------------------------------------------------------------------------
(* One thing is different from the complete input.                          *)
Defects ==
    {Base, Portfolio(Base), Compiled(Base),
     [Base EXCEPT !.mode = "FIXTURE", !.evidence["LICENSE"].source = "SYNTHETIC_FIXTURE"],
     [Portfolio(Base) EXCEPT !.projects[p2] = BaseProject],
     Submitted(Base, Entered),
     Submitted(Base, [Entered EXCEPT !.project = p1]),
     Submitted(Base, [Entered EXCEPT !.project = p1, !.license_intent = "GPL"]),
     Submitted([Base EXCEPT !.projects[p1].project_lineage = <<p2>>], Entered),
     [Submitted(Base, [Entered EXCEPT !.project = p1]) EXCEPT
        !.conflictRules["SAME_PROJECT"].applies = FALSE],
     [Submitted([Base EXCEPT !.projects[p1].reused_components = <<"kit", "lib">>,
                             !.projects[p1].reuse_disclosed = TRUE],
                [Entered EXCEPT !.project = p1, !.reused_components = <<"lib", "kit">>,
                                !.rules["NEW_PROJECT"].applies = FALSE]) EXCEPT
        !.conflictRules["NEW_PROJECT"].applies = FALSE,
        !.conflictRules["SAME_PROJECT"].applies = FALSE],
     [Base EXCEPT !.rules.license.supported = FALSE],
     [Base EXCEPT !.rules.policy.contradiction = TRUE],
     [Base EXCEPT !.rules.lives.supported = FALSE],
     [Base EXCEPT !.rules.lives.contradiction = TRUE],
     [Base EXCEPT !.rules.solo.critical = FALSE],
     [Base EXCEPT !.rules.rewards.critical = FALSE],
     [Base EXCEPT !.rules.deadline.operands[2] = Instant(10)],
     [Base EXCEPT !.rules.deadline.operands[2] = [kind |-> "date", value |-> 10]],
     [Base EXCEPT !.deadlines = {}],
     [Base EXCEPT !.deadlines = {[exact |-> FALSE, at |-> 20]}],
     [Base EXCEPT !.deadlines = {[exact |-> TRUE, at |-> 3]}],
     [Base EXCEPT !.status = "UNKNOWN"],
     [Base EXCEPT !.status = "CLOSED"],
     [Base EXCEPT !.evidence["GEOGRAPHY"].at = 0],
     [Base EXCEPT !.evidence["LICENSE"].state = "UNVERIFIED"],
     [Base EXCEPT !.evidence["PROJECT_POLICY"].source = "SYNTHETIC_FIXTURE"],
     [Base EXCEPT !.projects[p1].materials["DEMO"].ready = FALSE,
                  !.projects[p1].materials["DEMO"].gap = TRUE],
     [Base EXCEPT !.founder.available_hours = 50],
     [Base EXCEPT !.founder.max_cash_commitment.currency = "USD"],
     [Base EXCEPT !.conflictRules["DISCLOSURE"].applies = None],
     [Base EXCEPT !.conflictRules = [c \in ConflictCategory \ {"LICENSE"} |-> @[c]]],
     [Base EXCEPT !.rules.geography.children = {"lives"}]}

-----------------------------------------------------------------------------
(* The facts that may be absent, each as the input without it.              *)
FounderHoles == {"residence", "citizenship", "legal_form", "team_size", "available_hours",
                 "max_cash_commitment", "strategic_goals"}
ProjectHoles == {"problem", "features", "technology_stack", "code_provenance", "is_new_project",
                 "license_intent", "adaptation", "has_sponsor_support", "project_lineage",
                 "reused_components"}
RequirementHoles == {"technologies", "original", "maxAdaptation", "unbounded"}

Without(in) ==
    {[in EXCEPT !.founder[f] = None] : f \in FounderHoles}
    \cup {[in EXCEPT !.projects[p1][f] = None, !.projects[p1].documented = @ \ {f}] :
              f \in ProjectHoles}
    \cup {[in EXCEPT !.requirements[f] = None, !.requirements.maxAdaptation =
                    IF f = "unbounded" THEN None ELSE @] : f \in RequirementHoles}
    \cup {[in EXCEPT !.projects[p1].materials["DEMO"] = [ready |-> None, gap |-> None]],
          [in EXCEPT !.requirements.materials["OTHER"] = None],
          [in EXCEPT !.effort[p1]["DEMO"] = None],
          [in EXCEPT !.costs.items = IF @ = <<>> THEN @ ELSE [@ EXCEPT ![1].amount = None]],
          [in EXCEPT !.costs.items = IF @ = <<>> THEN @ ELSE [@ EXCEPT ![2].covered = None]]}

MCScenarios ==
    Defects \cup UNION {Without(in) : in \in Defects}
    \cup UNION {Without(in) : in \in UNION {Without(full) : full \in
             {Base, Portfolio(Base), [Base EXCEPT !.evidence["LICENSE"].state = "UNVERIFIED"],
              Submitted(Base, [Entered EXCEPT !.project = p1])}}}

MCAnswers ==
    [residence |-> {"ES", "XX"}, citizenship |-> {"ES", "XX"},
     legal_form |-> {"INDIVIDUAL", "NONPROFIT"}, team_size |-> {1, 3},
     available_hours |-> {20, 60},
     max_cash_commitment |-> {[amount |-> 2, currency |-> "EUR"], [amount |-> 5, currency |-> "EUR"]},
     strategic_goals |-> {{"credits"}, {"fame"}},
     problem |-> {"a", "b"}, features |-> {{"f", "g"}, {"f"}}, technology_stack |-> {{"aws"}, {}},
     code_provenance |-> {"ORIGINAL", "REUSED"}, is_new_project |-> BOOLEAN,
     license_intent |-> {"MIT", "GPL"}, adaptation |-> {6, 12}, has_sponsor_support |-> BOOLEAN,
     project_lineage |-> {<<>>, <<p2>>}, reused_components |-> {<<>>, <<"lib">>},
     technologies |-> {{"aws"}, {"gcp"}}, original |-> BOOLEAN, maxAdaptation |-> {10, 5},
     unbounded |-> BOOLEAN,
     effort |-> {8, 24},
     amount |-> {[amount |-> 10, currency |-> "EUR"], [amount |-> 11, currency |-> "EUR"]},
     covered |-> BOOLEAN, accepted |-> BOOLEAN]

=============================================================================
