---------------------------- MODULE EngineProofs ----------------------------
(***************************************************************************)
(* What DecisionEngine.cfg checks of a decision, proved for every input the  *)
(* contracts admit: any portfolio, rules nested to any depth, any evidence,  *)
(* any life of a record and any sequence of runs.                            *)
(***************************************************************************)
EXTENDS DecisionEngine, DataInduction, FiniteSetTheorems, TLAPS

(* Inputs *)

\* The next input differs from this one in one field.
LEMMA FieldChanges ==
  ASSUME NEW in, NEW g \in DOMAIN in, NEW v, NEW new, new = [in EXCEPT ![g] = v]
  PROVE  /\ DOMAIN new = DOMAIN in /\ new[g] = v
         /\ \A h \in DOMAIN in \ {g} : new[h] = in[h]
  OBVIOUS

\* A contract of each field is a contract of the input.
LEMMA FounderChanges ==
  ASSUME NEW in, DecisionInput(in), NEW founder, FounderProfile(founder), NEW new,
         new = [in EXCEPT !.founder = founder]
  PROVE  DecisionInput(new)
  <1>1. "founder" \in DOMAIN in
    BY DEF DecisionInput
  <1>2. DOMAIN new = DOMAIN in /\ new.founder = founder
    BY <1>1, FieldChanges
  <1>3. \A h \in DOMAIN in \ {"founder"} : new[h] = in[h]
    BY <1>1, FieldChanges
  <1>4. /\ new.now = in.now /\ new.deadlines = in.deadlines /\ new.projects = in.projects
        /\ new.rules = in.rules /\ new.evidence = in.evidence
        /\ new.conflictRules = in.conflictRules /\ new.requirements = in.requirements
        /\ new.effort = in.effort /\ new.costs = in.costs
    BY <1>3 DEF DecisionInput
  <1>. QED BY <1>2, <1>4 DEF DecisionInput

LEMMA FounderStated ==
  ASSUME DecisionInput(input), NEW f \in DOMAIN input.founder \cap DOMAIN Answers,
         StateFounder(f)
  PROVE  DecisionInput(input')
  <1>1. PICK v \in Answers[f] : NextRun([input EXCEPT !.founder[f] = v])
    BY DEF StateFounder
  <1>. DEFINE founder == [input.founder EXCEPT ![f] = v]
  <1>2. FounderProfile(founder)
    <2>1. DOMAIN founder = DOMAIN input.founder
      OBVIOUS
    <2>2. founder.available_hours \in Optional(Nat)
      BY AnswerAssumption DEF DecisionInput, FounderProfile, Optional
    <2>. QED BY <2>1, <2>2 DEF DecisionInput, FounderProfile
  <1>. HIDE DEF founder
  <1>3. input' = [input EXCEPT !.founder = founder]
    BY <1>1 DEF NextRun, founder
  <1>. QED BY <1>2, <1>3, FounderChanges

LEMMA ProjectChanges ==
  ASSUME NEW in, DecisionInput(in), NEW id \in DOMAIN in.projects, NEW project,
         ProjectProfile(project), NEW new,
         new = [in EXCEPT !.projects = [in.projects EXCEPT ![id] = project]]
  PROVE  DecisionInput(new)
  <1>. DEFINE projects == [in.projects EXCEPT ![id] = project]
  <1>1. "projects" \in DOMAIN in
    BY DEF DecisionInput
  <1>2. DOMAIN new = DOMAIN in /\ new.projects = projects
    BY <1>1, FieldChanges
  <1>3. \A h \in DOMAIN in \ {"projects"} : new[h] = in[h]
    BY <1>1, FieldChanges
  <1>4. /\ new.now = in.now /\ new.deadlines = in.deadlines /\ new.founder = in.founder
        /\ new.rules = in.rules /\ new.evidence = in.evidence
        /\ new.conflictRules = in.conflictRules /\ new.requirements = in.requirements
        /\ new.effort = in.effort /\ new.costs = in.costs
    BY <1>3 DEF DecisionInput
  <1>5. /\ DOMAIN projects = DOMAIN in.projects
        /\ \A i \in DOMAIN in.projects : projects[i] = IF i = id THEN project ELSE in.projects[i]
    OBVIOUS
  <1>. HIDE DEF projects
  <1>6. \A i \in DOMAIN in.projects : ProjectProfile(projects[i])
    BY <1>5 DEF DecisionInput
  <1>. QED BY <1>2, <1>4, <1>5, <1>6 DEF DecisionInput

LEMMA ProjectStated ==
  ASSUME DecisionInput(input), NEW id \in DOMAIN input.projects,
         NEW f \in DOMAIN input.projects[id] \cap DOMAIN Answers, StateProject(id, f)
  PROVE  DecisionInput(input')
  <1>1. PICK v \in Answers[f], proved \in SUBSET ({f} \cap {"code_provenance", "is_new_project"}) :
          NextRun([input EXCEPT !.projects[id] =
            [input.projects[id] EXCEPT ![f] = v,
                                       !.documented = input.projects[id].documented \cup proved]])
    BY DEF StateProject
  <1>. DEFINE stated == [input.projects[id] EXCEPT ![f] = v]
              project == [stated EXCEPT !.documented = input.projects[id].documented \cup proved]
  <1>2. ProjectProfile(input.projects[id])
    BY DEF DecisionInput
  <1>3. ProjectProfile(project)
    <2>1. DOMAIN project = DOMAIN input.projects[id]
      OBVIOUS
    <2>2. project.adaptation = stated.adaptation /\ project.materials = stated.materials
      BY <1>2 DEF ProjectProfile
    <2>3. stated.adaptation \in Optional(Nat) /\ stated.materials = input.projects[id].materials
      BY <1>2, AnswerAssumption DEF ProjectProfile, Optional
    <2>. HIDE DEF project, stated
    <2>. QED BY <1>2, <2>1, <2>2, <2>3 DEF ProjectProfile
  <1>4. input' = [input EXCEPT !.projects = [input.projects EXCEPT ![id] = project]]
    BY <1>1 DEF NextRun
  <1>. HIDE DEF project, stated
  <1>. QED BY <1>3, <1>4, ProjectChanges

LEMMA MaterialStated ==
  ASSUME DecisionInput(input), NEW id \in DOMAIN input.projects, NEW k \in MaterialKind,
         StateMaterial(id, k)
  PROVE  DecisionInput(input')
  <1>1. PICK field \in {"ready", "gap"}, v \in BOOLEAN :
            NextRun([input EXCEPT !.projects[id].materials[k][field] = v])
    BY DEF StateMaterial
  <1>. DEFINE materials == [input.projects[id].materials EXCEPT ![k][field] = v]
              project == [input.projects[id] EXCEPT !.materials = materials]
  <1>2. ProjectProfile(input.projects[id])
    BY DEF DecisionInput
  <1>5. /\ DOMAIN materials = MaterialKind
        /\ \A j \in MaterialKind : DOMAIN materials[j] = {"ready", "gap"}
    BY <1>2 DEF ProjectProfile
  <1>. HIDE DEF materials
  <1>3. ProjectProfile(project)
    BY <1>2, <1>5 DEF ProjectProfile
  <1>4. [input EXCEPT !.projects[id].materials[k][field] = v]
          = [input EXCEPT !.projects = [input.projects EXCEPT ![id] = project]]
    BY DEF materials
  <1>. HIDE DEF project
  <1>. QED BY <1>1, <1>3, <1>4, ProjectChanges DEF NextRun

LEMMA EffortStated ==
  ASSUME DecisionInput(input), NEW id \in DOMAIN input.projects, NEW c \in EffortCategory,
         StateEffort(id, c)
  PROVE  DecisionInput(input')
  <1>1. PICK v \in Answers["effort"] : NextRun([input EXCEPT !.effort[id][c] = v])
    BY DEF StateEffort
  <1>. DEFINE effort == [input.effort EXCEPT ![id] = [input.effort[id] EXCEPT ![c] = v]]
  <1>2. "effort" \in DOMAIN input
    BY DEF DecisionInput
  <1>3. input' = [input EXCEPT !.effort = effort]
    BY <1>1 DEF NextRun
  <1>4. DOMAIN effort = DOMAIN input.effort
    OBVIOUS
  <1>5. ASSUME NEW i \in DOMAIN input.projects
        PROVE  effort[i] \in [EffortCategory -> Optional(Nat)]
    <2>1. i \in DOMAIN input.effort /\ input.effort[i] \in [EffortCategory -> Optional(Nat)]
      BY DEF DecisionInput
    <2>2. v \in Optional(Nat)
      BY AnswerAssumption DEF Optional
    <2>3. CASE i = id
      <3>1. effort[i] = [input.effort[i] EXCEPT ![c] = v]
        BY <2>1, <2>3
      <3>. HIDE DEF effort
      <3>. QED BY <2>1, <2>2, <3>1
    <2>4. CASE i # id
      BY <2>1, <2>4
    <2>. QED BY <2>3, <2>4
  <1>. HIDE DEF effort
  <1>6. DOMAIN input' = DOMAIN input /\ input'.effort = effort
    BY <1>2, <1>3, FieldChanges
  <1>7. \A h \in DOMAIN input \ {"effort"} : input'[h] = input[h]
    BY <1>2, <1>3, FieldChanges
  <1>8. /\ input'.now = input.now /\ input'.deadlines = input.deadlines
        /\ input'.founder = input.founder /\ input'.projects = input.projects
        /\ input'.rules = input.rules /\ input'.evidence = input.evidence
        /\ input'.conflictRules = input.conflictRules
        /\ input'.requirements = input.requirements /\ input'.costs = input.costs
    BY <1>7 DEF DecisionInput
  <1>. QED BY <1>4, <1>5, <1>6, <1>8 DEF DecisionInput

LEMMA RequirementChanges ==
  ASSUME NEW in, DecisionInput(in), NEW requirements, MatchingRequirements(requirements),
         NEW new, new = [in EXCEPT !.requirements = requirements]
  PROVE  DecisionInput(new)
  <1>1. "requirements" \in DOMAIN in
    BY DEF DecisionInput
  <1>2. DOMAIN new = DOMAIN in /\ new.requirements = requirements
    BY <1>1, FieldChanges
  <1>3. \A h \in DOMAIN in \ {"requirements"} : new[h] = in[h]
    BY <1>1, FieldChanges
  <1>4. /\ new.now = in.now /\ new.deadlines = in.deadlines /\ new.projects = in.projects
        /\ new.rules = in.rules /\ new.evidence = in.evidence
        /\ new.conflictRules = in.conflictRules /\ new.founder = in.founder
        /\ new.effort = in.effort /\ new.costs = in.costs
    BY <1>3 DEF DecisionInput
  <1>. QED BY <1>2, <1>4 DEF DecisionInput

LEMMA RequirementRead ==
  ASSUME DecisionInput(input), NEW f \in DOMAIN input.requirements \cap DOMAIN Answers,
         ReadRequirement(f)
  PROVE  DecisionInput(input')
  <1>1. PICK v \in Answers[f] : NextRun([input EXCEPT !.requirements[f] = v])
    BY DEF ReadRequirement
  <1>. DEFINE requirements == [input.requirements EXCEPT ![f] = v]
  <1>2. MatchingRequirements(requirements)
    <2>1. MatchingRequirements(input.requirements)
      BY DEF DecisionInput
    <2>2. DOMAIN requirements = DOMAIN input.requirements
      OBVIOUS
    <2>3. ASSUME NEW g \in {"technologies", "features"}
          PROVE  requirements[g] = None \/ IsFiniteSet(requirements[g])
      <3>1. requirements[g] = IF g = f THEN v ELSE input.requirements[g]
        BY <2>1 DEF MatchingRequirements
      <3>2. g = f => IsFiniteSet(v)
        BY AnswerAssumption
      <3>. QED BY <2>1, <3>1, <3>2 DEF MatchingRequirements
    <2>4. requirements.materials = input.requirements.materials
      BY <2>1, AnswerAssumption DEF MatchingRequirements
    <2>. QED BY <2>1, <2>2, <2>3, <2>4 DEF MatchingRequirements
  <1>. HIDE DEF requirements
  <1>3. input' = [input EXCEPT !.requirements = requirements]
    BY <1>1 DEF NextRun, requirements
  <1>. QED BY <1>2, <1>3, RequirementChanges

LEMMA MaterialRead ==
  ASSUME DecisionInput(input), NEW k \in MaterialKind, ReadMaterial(k)
  PROVE  DecisionInput(input')
  <1>1. PICK v \in BOOLEAN : NextRun([input EXCEPT !.requirements.materials[k] = v])
    BY DEF ReadMaterial
  <1>. DEFINE materials == [input.requirements.materials EXCEPT ![k] = v]
              requirements == [input.requirements EXCEPT !.materials = materials]
  <1>2. MatchingRequirements(input.requirements)
    BY DEF DecisionInput
  <1>3. input' = [input EXCEPT !.requirements = requirements]
    BY <1>1 DEF NextRun
  <1>5. DOMAIN materials = MaterialKind
    BY <1>2 DEF MatchingRequirements
  <1>. HIDE DEF materials
  <1>4. MatchingRequirements(requirements)
    BY <1>2, <1>5 DEF MatchingRequirements
  <1>. HIDE DEF requirements
  <1>. QED BY <1>3, <1>4, RequirementChanges

LEMMA CostStated ==
  ASSUME DecisionInput(input), NEW i \in DOMAIN input.costs.items,
         NEW f \in {"amount", "covered", "accepted"}, StateCost(i, f)
  PROVE  DecisionInput(input')
  <1>1. PICK v : NextRun([input EXCEPT !.costs.items[i][f] = v])
    BY DEF StateCost
  <1>. DEFINE items == [input.costs.items EXCEPT ![i][f] = v]
              costs == [input.costs EXCEPT !.items = items]
  <1>2. input' = [input EXCEPT !.costs = costs]
    BY <1>1 DEF NextRun
  <1>3. /\ DOMAIN input.costs = {"complete", "items"}
        /\ \A j \in DOMAIN input.costs.items :
              DOMAIN input.costs.items[j] = {"kind", "amount", "covered", "accepted"}
    BY DEF DecisionInput
  <1>4. /\ DOMAIN items = DOMAIN input.costs.items
        /\ \A j \in DOMAIN items : DOMAIN items[j] = {"kind", "amount", "covered", "accepted"}
    BY <1>3
  <1>. HIDE DEF items
  <1>5. DOMAIN costs = {"complete", "items"} /\ costs.items = items
    BY <1>3
  <1>. HIDE DEF costs
  <1>6. "costs" \in DOMAIN input
    BY DEF DecisionInput
  <1>7. DOMAIN input' = DOMAIN input /\ input'.costs = costs
    BY <1>2, <1>6, FieldChanges
  <1>8. \A h \in DOMAIN input \ {"costs"} : input'[h] = input[h]
    BY <1>2, <1>6, FieldChanges
  <1>9. /\ input'.now = input.now /\ input'.deadlines = input.deadlines
        /\ input'.founder = input.founder /\ input'.projects = input.projects
        /\ input'.rules = input.rules /\ input'.evidence = input.evidence
        /\ input'.conflictRules = input.conflictRules
        /\ input'.requirements = input.requirements /\ input'.effort = input.effort
    BY <1>8 DEF DecisionInput
  <1>. QED BY <1>4, <1>5, <1>7, <1>9 DEF DecisionInput

LEMMA EvidenceReviewed ==
  ASSUME DecisionInput(input), NEW e \in DOMAIN input.evidence, Review(e)
  PROVE  DecisionInput(input')
  <1>. DEFINE record == [input.evidence[e] EXCEPT !.state = "REVIEWED"]
              evidence == [input.evidence EXCEPT ![e] = record]
  <1>1. input' = [input EXCEPT !.evidence = evidence]
    BY DEF Review, NextRun
  <1>2. EvidenceRecord(record)
    BY DEF DecisionInput, EvidenceRecord
  <1>. HIDE DEF record
  <1>3. /\ DOMAIN evidence = DOMAIN input.evidence
        /\ \A x \in DOMAIN input.evidence :
              evidence[x] = IF x = e THEN record ELSE input.evidence[x]
    OBVIOUS
  <1>. HIDE DEF evidence
  <1>4. \A x \in DOMAIN evidence : EvidenceRecord(evidence[x])
    BY <1>2, <1>3 DEF DecisionInput
  <1>5. "evidence" \in DOMAIN input
    BY DEF DecisionInput
  <1>6. DOMAIN input' = DOMAIN input /\ input'.evidence = evidence
    BY <1>1, <1>5, FieldChanges
  <1>7. \A h \in DOMAIN input \ {"evidence"} : input'[h] = input[h]
    BY <1>1, <1>5, FieldChanges
  <1>8. /\ input'.now = input.now /\ input'.deadlines = input.deadlines
        /\ input'.founder = input.founder /\ input'.projects = input.projects
        /\ input'.rules = input.rules /\ input'.effort = input.effort
        /\ input'.conflictRules = input.conflictRules
        /\ input'.requirements = input.requirements /\ input'.costs = input.costs
    BY <1>7 DEF DecisionInput
  <1>. QED BY <1>4, <1>6, <1>8 DEF DecisionInput

LEMMA TimePasses ==
  ASSUME DecisionInput(input), Wait
  PROVE  DecisionInput(input')
  <1>1. "now" \in DOMAIN input /\ input.now \in Int
    BY DEF DecisionInput
  <1>2. input' = [input EXCEPT !.now = input.now + 1]
    BY DEF Wait, NextRun
  <1>3. DOMAIN input' = DOMAIN input /\ input'.now = input.now + 1
    BY <1>1, <1>2, FieldChanges
  <1>4. \A h \in DOMAIN input \ {"now"} : input'[h] = input[h]
    BY <1>1, <1>2, FieldChanges
  <1>5. /\ input'.deadlines = input.deadlines /\ input'.evidence = input.evidence
        /\ input'.founder = input.founder /\ input'.projects = input.projects
        /\ input'.rules = input.rules /\ input'.effort = input.effort
        /\ input'.conflictRules = input.conflictRules
        /\ input'.requirements = input.requirements /\ input'.costs = input.costs
    BY <1>4 DEF DecisionInput
  <1>. QED BY <1>1, <1>3, <1>5 DEF DecisionInput

-----------------------------------------------------------------------------
\* Every run decides on the input it has, and the input keeps its contracts.
DecidedInv == DecisionInput(input) /\ output = Decide(input)

\* Whatever is stated, read or reviewed between two runs, and however long they
\* are apart, a decision is always the one on the current input.
THEOREM RunsDecide == Spec => []DecidedInv
  <1>1. Init => DecidedInv
    BY ScenarioAssumption DEF Init, DecidedInv
  <1>2. DecidedInv /\ [Next]_vars => DecidedInv'
    <2>. SUFFICES ASSUME DecidedInv, [Next]_vars PROVE DecidedInv'
      OBVIOUS
    <2>1. CASE Learn
      <3>1. DecisionInput(input')
        BY <2>1, FounderStated, ProjectStated, MaterialStated, EffortStated, RequirementRead,
           MaterialRead, CostStated, EvidenceReviewed DEF Learn, DecidedInv
      <3>2. output' = Decide(input')
        BY <2>1 DEF Learn, StateFounder, StateProject, StateMaterial, StateEffort,
           ReadRequirement, ReadMaterial, StateCost, Review, NextRun
      <3>. QED BY <3>1, <3>2 DEF DecidedInv
    <2>2. CASE Wait
      <3>1. output' = Decide(input')
        BY <2>2 DEF Wait, NextRun
      <3>. QED BY <2>2, <3>1, TimePasses DEF DecidedInv
    <2>3. CASE UNCHANGED vars
      BY <2>3 DEF vars, DecidedInv
    <2>. QED BY <2>1, <2>2, <2>3 DEF Next
  <1>. QED BY <1>1, <1>2, PTL DEF Spec

-----------------------------------------------------------------------------
(* Candidates *)

\* A candidate is a project of a decision that was not refused.
LEMMA CandidatesDecided ==
  ASSUME NEW in, NEW id \in DOMAIN Decide(in).candidates
  PROVE  /\ ValidRules(in) /\ id \in DOMAIN in.projects
         /\ Decide(in) = Decided([i \in DOMAIN in.projects |-> Candidate(in, i)], Best(in))
         /\ Decide(in).candidates = [i \in DOMAIN in.projects |-> Candidate(in, i)]
         /\ Decide(in).best = Best(in)
  <1>1. ValidRules(in)
    <2>1. DOMAIN Refused.candidates = {}
      BY DEF Refused
    <2>. QED BY <2>1 DEF Decide
  <1>. QED BY <1>1 DEF Decide, Decided

(* Violations *)

LEMMA TtlBounds ==
  ASSUME NEW deadlines, NEW now
  PROVE  /\ Ttl(deadlines, now) \in Int /\ Ttl(deadlines, now) >= NearTtl
         /\ Ttl(deadlines, now) \in {NearTtl, DefaultTtl}
  BY TtlAssumption DEF Ttl

\* A record younger than a near unit is fresh whatever the deadlines are.
LEMMA YoungIsFresh ==
  ASSUME NEW at \in Int, NEW now \in Int, NEW deadlines, at <= now, now - at < NearTtl
  PROVE  Freshness(at, now, deadlines) = "FRESH"
  BY TtlBounds, TtlAssumption DEF Freshness

\* A violation found by one category of one contest blocks.
LEMMA ViolationBlocks ==
  ASSUME NEW in, NEW id, NEW scope \in Scopes(in), NEW category \in ConflictCategory,
         Assess(in, id, in.projects[id], scope, category) = "VIOLATED"
  PROVE  Candidate(in, id) = "SKIP"
  <1>1. AssessConflicts(in, id, in.projects[id]) = "BLOCKED_BY_EXPLICIT_RULE"
    BY DEF AssessConflicts
  <1>. QED BY <1>1 DEF Candidate, Recommend, Watched

\* The opportunity forbids what was done, explicitly and on fresh records.
ForbiddenTwice(in, id, s) ==
  LET rule    == in.conflictRules["SAME_PROJECT"]
      project == in.projects[id]
  IN  /\ "SAME_PROJECT" \in DOMAIN in.conflictRules
      /\ rule.applies = TRUE /\ rule.supported /\ rule.evidence # {}
      /\ \A e \in rule.evidence :
             /\ e \in DOMAIN in.evidence
             /\ in.evidence[e].state = "REVIEWED"
             /\ in.evidence[e].source \in HardSources
             /\ in.evidence[e].field = "PROJECT_POLICY"
             /\ in.evidence[e].at <= in.now
             /\ in.now - in.evidence[e].at < NearTtl
      /\ \/ in.submissions[s].project = id
         \/ in.submissions[s].project \in Listed(project.project_lineage)

LEMMA ForbiddenIsSkipped ==
  ASSUME NEW in, DecisionInput(in), NEW id, NEW s \in DOMAIN in.submissions,
         ForbiddenTwice(in, id, s)
  PROVE  Candidate(in, id) = "SKIP"
  <1>. DEFINE rule    == in.conflictRules["SAME_PROJECT"]
              project == in.projects[id]
              entered == {in.submissions[x] : x \in DOMAIN in.submissions}
              scope   == [rules |-> in.conflictRules, peers |-> entered,
                          deadlines |-> EffectiveDeadlines(in),
                          cited |-> UNION {in.conflictRules[c].evidence :
                                               c \in DOMAIN in.conflictRules}]
  <1>1. scope \in Scopes(in)
    BY DEF Scopes
  <1>2. "SAME_PROJECT" \in DOMAIN scope.rules /\ scope.rules["SAME_PROJECT"] = rule
    BY DEF ForbiddenTwice
  <1>3. ASSUME NEW e \in rule.evidence
        PROVE  Reviewed(in, "SAME_PROJECT", e, scope.deadlines)
    <2>1. e \in DOMAIN in.evidence /\ in.evidence[e].at \in Int /\ in.now \in Int
      BY <1>3 DEF ForbiddenTwice, DecisionInput, EvidenceRecord
    <2>2. Freshness(in.evidence[e].at, in.now, scope.deadlines) = "FRESH"
      BY <1>3, <2>1, YoungIsFresh DEF ForbiddenTwice
    <2>. QED BY <1>3, <2>1, <2>2
           DEF ForbiddenTwice, Reviewed, AcceptableSources, EvidenceField
  <1>4. rule.evidence \subseteq scope.cited
    BY DEF ForbiddenTwice
  <1>5. Applicable(in, scope, "SAME_PROJECT")
    BY <1>2, <1>3, <1>4, AbsentAssumption DEF ForbiddenTwice, Applicable
  <1>6. in.submissions[s] \in scope.peers /\ SameLineage(id, project, in.submissions[s])
    BY DEF ForbiddenTwice, SameLineage
  <1>7. Violation(rule, "SAME_PROJECT", id, project, scope.peers) = "VIOLATED"
    BY <1>6 DEF Violation
  <1>8. rule.applies = TRUE
    BY DEF ForbiddenTwice
  <1>. HIDE DEF scope, rule, project
  <1>9. Assess(in, id, project, scope, "SAME_PROJECT") = "VIOLATED"
    BY <1>2, <1>5, <1>7, <1>8 DEF Assess
  <1>. QED BY <1>1, <1>9, ViolationBlocks DEF ConflictCategory, project

\* A project that is already entered elsewhere is skipped, and never the one that
\* is acted on, when the opportunity forbids that on fresh reviewed evidence:
\* whatever the portfolio, its rules and what is not known.
THEOREM ViolationsSkip == Spec => []ViolationSkips
  <1>1. DecidedInv => ViolationSkips
    <2>. SUFFICES ASSUME DecidedInv, NEW id \in DOMAIN output.candidates,
                         NEW s \in DOMAIN input.submissions, ForbiddenTwice(input, id, s)
                  PROVE  /\ output.candidates[id] = "SKIP"
                         /\ output.best = id => output.recommendation = "SKIP"
      BY DEF ViolationSkips, ForbiddenTwice
    <2>1. output = Decide(input) /\ DecisionInput(input)
      BY DEF DecidedInv
    <2>2. /\ id \in DOMAIN input.projects
          /\ output.candidates = [i \in DOMAIN input.projects |-> Candidate(input, i)]
          /\ output = Decided([i \in DOMAIN input.projects |-> Candidate(input, i)], Best(input))
          /\ output.best = Best(input)
      BY <2>1, CandidatesDecided
    <2>3. output.candidates[id] = "SKIP"
      BY <2>1, <2>2, ForbiddenIsSkipped
    <2>4. id # None
      BY <2>1, <2>2 DEF DecisionInput
    <2>5. ASSUME output.best = id PROVE output.recommendation = "SKIP"
      BY <2>2, <2>3, <2>4, <2>5 DEF Decided, Overall
    <2>. QED BY <2>3, <2>5
  <1>. QED BY <1>1, RunsDecide, PTL

-----------------------------------------------------------------------------
(* Scores *)

Rating == Nat \cup {None}

LEMMA WeakestIsRating ==
  ASSUME NEW a \in {0, 4, None}, NEW b \in {0, 4, None}
  PROVE  Weakest({a, b}) \in Rating
  <1>1. CASE None \in {a, b}
    BY <1>1 DEF Weakest, Rating
  <1>2. CASE None \notin {a, b}
    <2>1. a \in {0, 4} /\ b \in {0, 4}
      BY <1>2
    <2>2. \E x \in {a, b} : \A y \in {a, b} : x <= y
      BY <2>1
    <2>3. Min({a, b}) \in {a, b}
      BY <2>2 DEF Min
    <2>. QED BY <1>2, <2>1, <2>3 DEF Weakest, Rating
  <1>. QED BY <1>1, <1>2

LEMMA AcceptedIsRating ==
  ASSUME NEW actual, NEW required
  PROVE  Accepted(actual, required) \in {0, 4, None}
  BY DEF Accepted

LEMMA CoveredIsRating ==
  ASSUME NEW actual, NEW required, required = None \/ IsFiniteSet(required)
  PROVE  Covered(actual, required) \in Rating
  <1>1. CASE required # None /\ required # {} /\ actual # None
    <2>1. IsFiniteSet(required) /\ IsFiniteSet(required \cap actual)
      BY <1>1, FS_Subset
    <2>2. Cardinality(required) \in Nat /\ Cardinality(required \cap actual) \in Nat
      BY <2>1, FS_CardinalityType
    <2>3. Cardinality(required) # 0
      BY <1>1, <2>1, FS_EmptySet
    <2>4. (4 * Cardinality(required \cap actual)) \div Cardinality(required) \in Nat
      BY <2>2, <2>3
    <2>. QED BY <1>1, <2>4 DEF Covered, Rating
  <1>2. CASE ~ (required # None /\ required # {} /\ actual # None)
    BY <1>2 DEF Covered, Rating
  <1>. QED BY <1>1, <1>2

LEMMA ReadinessIsRating ==
  ASSUME NEW state
  PROVE  ReadinessRating(state) \in Rating
  <1>1. state \in {"READY", "GAPS_EXECUTABLE", "NOT_READY"}
          \/ state \notin {"READY", "GAPS_EXECUTABLE", "NOT_READY"}
    OBVIOUS
  <1>. QED BY <1>1 DEF ReadinessRating, Rating

\* A few elements make a finite set.
LEMMA FiniteTriple ==
  ASSUME NEW a, NEW b, NEW c
  PROVE  IsFiniteSet({a, b, c})
  <1>1. IsFiniteSet({} \cup {a})
    BY FS_EmptySet, FS_AddElement
  <1>2. IsFiniteSet(({} \cup {a}) \cup {b})
    BY <1>1, FS_AddElement
  <1>3. IsFiniteSet((({} \cup {a}) \cup {b}) \cup {c})
    BY <1>2, FS_AddElement
  <1>4. (({} \cup {a}) \cup {b}) \cup {c} = {a, b, c}
    OBVIOUS
  <1>. QED BY <1>3, <1>4

FactorName == {"problem_audience", "technology", "features", "stage", "code_license",
               "adaptation", "readiness"}

\* Every factor of a match is a rating, or open.
LEMMA FactorsAreRatings ==
  ASSUME NEW in, DecisionInput(in), NEW project
  PROVE  Factors(in, project) \in [FactorName -> Rating]
  <1>. DEFINE asks == in.requirements
              factors == Factors(in, project)
  <1>1. factors.problem_audience \in Rating
    BY WeakestIsRating, AcceptedIsRating DEF Factors
  <1>2. factors.technology \in Rating /\ factors.features \in Rating
    <2>1. /\ asks.technologies = None \/ IsFiniteSet(asks.technologies)
          /\ asks.features = None \/ IsFiniteSet(asks.features)
      BY DEF DecisionInput, MatchingRequirements
    <2>. QED BY <2>1, CoveredIsRating DEF Factors
  <1>3. factors.stage \in Rating
    BY AcceptedIsRating DEF Factors, Rating
  <1>4. factors.code_license \in Rating
    <2>1. CodeRating(asks, project) \in {0, 4, None}
      BY DEF CodeRating
    <2>. QED BY <2>1, WeakestIsRating, AcceptedIsRating DEF Factors
  <1>5. factors.adaptation \in Rating
    BY DEF Factors, AdaptationRating, Rating
  <1>6. factors.readiness \in Rating
    BY ReadinessIsRating DEF Factors
  <1>7. /\ DOMAIN factors = FactorName
        /\ factors = [f \in FactorName |-> factors[f]]
    BY DEF Factors, FactorName
  <1>. HIDE DEF factors
  <1>8. \A f \in FactorName : factors[f] \in Rating
    BY <1>1, <1>2, <1>3, <1>4, <1>5, <1>6 DEF FactorName
  <1>9. factors \in [FactorName -> Rating]
    BY <1>7, <1>8
  <1>. QED BY <1>9 DEF factors

LEMMA CompleteTotal ==
  ASSUME NEW S, IsFiniteSet(S), NEW ratings \in [S -> Rating], Complete(ratings)
  PROVE  Total(ratings) \in Nat
  <1>1. ratings \in [S -> Nat]
    BY DEF Complete, Rating
  <1>. QED BY <1>1, SumIsNat DEF Total

LEMMA ScoreIsNumber ==
  ASSUME NEW in, DecisionInput(in), NEW project
  PROVE  ComparableScore(Factors(in, project)) \in Nat \cup {None}
  <1>1. Factors(in, project) \in [FactorName -> Rating]
    BY FactorsAreRatings
  <1>2. IsFiniteSet(FactorName)
    <2>1. FactorName = {"problem_audience", "technology", "features"}
                         \cup ({"stage", "code_license", "adaptation"}
                                \cup {"readiness", "stage", "features"})
      BY DEF FactorName
    <2>. QED BY <2>1, FiniteTriple, FS_Union
  <1>3. Complete(Factors(in, project)) => Total(Factors(in, project)) \in Nat
    BY <1>1, <1>2, CompleteTotal
  <1>. QED BY <1>3 DEF ComparableScore

Scores(in) == [id \in DOMAIN in.projects |-> ComparableScore(Factors(in, in.projects[id]))]

\* What is selected is the unique greatest of complete scores.
LEMMA SelectedIsUnique ==
  ASSUME NEW S, IsFiniteSet(S), NEW scores \in [S -> Nat \cup {None}],
         SelectBestProject(scores) # None
  PROVE  /\ SelectBestProject(scores) \in S
         /\ \A id \in S \ {SelectBestProject(scores)} :
              scores[id] # None /\ scores[id] < scores[SelectBestProject(scores)]
  <1>. DEFINE top == {p \in DOMAIN scores : \A q \in DOMAIN scores : scores[q] <= scores[p]}
  <1>1. Complete(scores) /\ Cardinality(top) = 1
    BY DEF SelectBestProject
  <1>2. scores \in [S -> Nat]
    BY <1>1 DEF Complete
  <1>3. top \in SUBSET S /\ IsFiniteSet(top)
    BY FS_Subset
  <1>. HIDE DEF top
  <1>4. PICK p : top = {p}
    BY <1>1, <1>3, FS_Singleton
  <1>5. SelectBestProject(scores) = p
    BY <1>1, <1>4 DEF SelectBestProject, top
  <1>6. p \in S /\ \A q \in S : scores[q] <= scores[p]
    BY <1>3, <1>4 DEF top
  <1>7. ASSUME NEW id \in S \ {p} PROVE scores[id] # None /\ scores[id] < scores[p]
    <2>1. id \notin top
      BY <1>4, <1>7
    <2>2. PICK q \in S : ~ (scores[q] <= scores[id])
      BY <2>1, <1>7 DEF top
    <2>3. scores[q] <= scores[p] /\ scores[q] \in Nat /\ scores[p] \in Nat /\ scores[id] \in Nat
      BY <1>2, <1>6, <1>7
    <2>4. scores[id] # None
      BY <1>1, <1>7 DEF Complete
    <2>. QED BY <2>2, <2>3, <2>4
  <1>. QED BY <1>5, <1>6, <1>7

LEMMA BestIsAbove ==
  ASSUME NEW in, DecisionInput(in), Best(in) # None
  PROVE  /\ Best(in) \in DOMAIN in.projects
         /\ \A id \in DOMAIN in.projects \ {Best(in)} :
              Scores(in)[id] # None /\ Scores(in)[id] < Scores(in)[Best(in)]
  <1>1. Scores(in) \in [DOMAIN in.projects -> Nat \cup {None}]
    BY ScoreIsNumber DEF Scores
  <1>2. IsFiniteSet(DOMAIN in.projects)
    BY DEF DecisionInput
  <1>3. Best(in) = LiveChoice(in, SelectBestProject(Scores(in)))
    BY DEF Best, Scores
  <1>4. CASE SelectBestProject(Scores(in)) # None
    <2>1. Best(in) = SelectBestProject(Scores(in))
      BY <1>3, <1>4 DEF LiveChoice
    <2>. QED BY <1>1, <1>2, <1>4, <2>1, SelectedIsUnique
  <1>5. CASE SelectBestProject(Scores(in)) = None
    <2>1. /\ Cardinality(DOMAIN in.projects) = 1
          /\ Best(in) = CHOOSE id \in DOMAIN in.projects : TRUE
      BY <1>3, <1>5 DEF LiveChoice
    <2>2. PICK p : DOMAIN in.projects = {p}
      BY <1>2, <2>1, FS_Singleton
    <2>. QED BY <2>1, <2>2
  <1>. QED BY <1>4, <1>5

\* A portfolio acts on one project only, scored above every other, however many
\* projects there are and whatever is known of them.
THEOREM ActsOnTheBest == Spec => []ActOnTheBest
  <1>1. DecidedInv => ActOnTheBest
    <2>. SUFFICES ASSUME DecidedInv, output.recommendation \in Acting
                  PROVE  /\ output.best # None
                         /\ output.candidates[output.best] = output.recommendation
                         /\ \A id \in DOMAIN input.projects \ {output.best} :
                              /\ Scores(input)[id] # None
                              /\ Scores(input)[id] < Scores(input)[output.best]
      <3>1. output.best \in DOMAIN input.projects =>
              \A id \in DOMAIN input.projects \cup {output.best} :
                Scores(input)[id] = ComparableScore(Factors(input, input.projects[id]))
        BY DEF Scores
      <3>2. DecidedInv /\ output.best # None => output.best \in DOMAIN input.projects
        BY BestIsAbove DEF DecidedInv, Decide, Decided, Refused
      <3>. QED BY <3>1, <3>2 DEF ActOnTheBest
    <2>1. output = Decide(input) /\ DecisionInput(input)
      BY DEF DecidedInv
    <2>2. output # Refused
      BY AbsentAssumption DEF Acting, Refused
    <2>3. /\ output.best = Best(input)
          /\ output.recommendation = Overall(output.candidates, output.best)
      BY <2>1, <2>2 DEF Decide, Decided
    <2>4. output.best # None /\ output.candidates[output.best] = output.recommendation
      BY <2>3 DEF Overall, Acting
    <2>. QED BY <2>1, <2>3, <2>4, BestIsAbove
  <1>. QED BY <1>1, RunsDecide, PTL

-----------------------------------------------------------------------------
(* Time *)

\* What it takes to act on a candidate.
ActingTakes(in, id) ==
  /\ AggregateEligibility(in, in.projects[id]) = "PASS"
  /\ AssessConflicts(in, id, in.projects[id]) = "NO_CONFLICT_DETECTED_IN_CHECKED_RULES"
  /\ AssessCapacity(in, id, in.projects[id]) = "SUFFICIENT"
  /\ in.status = "OPEN" /\ TimingKnown(in) /\ ~ Closed(in)

LEMMA ActingNeeds ==
  ASSUME NEW in, NEW id, Candidate(in, id) \in Acting
  PROVE  ActingTakes(in, id)
  <1>. DEFINE found == Recommend(AggregateEligibility(in, in.projects[id]),
                          AssessConflicts(in, id, in.projects[id]),
                          DeriveStrategy(in, id, in.projects[id]),
                          AssessReadiness(in, in.projects[id]),
                          AssessCapacity(in, id, in.projects[id]),
                          AssessAffordability(in),
                          Closed(in))
  <1>1. found \in {"APPLY", "PREPARE"} /\ in.status = "OPEN" /\ TimingKnown(in)
    BY DEF Candidate, Watched, Acting
  <1>2. AggregateEligibility(in, in.projects[id]) \in {"FAIL", "REVIEW_REQUIRED", "PASS"}
    BY DEF AggregateEligibility, Gate
  <1>3. AssessConflicts(in, id, in.projects[id]) \in
          {"BLOCKED_BY_EXPLICIT_RULE", "REVIEW_REQUIRED", "NO_CONFLICT_DETECTED_IN_CHECKED_RULES"}
    BY DEF AssessConflicts
  <1>4. /\ ~ Closed(in) /\ AssessCapacity(in, id, in.projects[id]) = "SUFFICIENT"
        /\ AggregateEligibility(in, in.projects[id]) \notin {"FAIL", "REVIEW_REQUIRED"}
        /\ AssessConflicts(in, id, in.projects[id]) \notin
             {"BLOCKED_BY_EXPLICIT_RULE", "REVIEW_REQUIRED"}
    BY <1>1 DEF Recommend
  <1>. QED BY <1>1, <1>2, <1>3, <1>4 DEF ActingTakes

\* The bounds the deadline rules state.
Bounds(in) ==
  {r \in DOMAIN in.rules :
      /\ in.rules[r].type = "DEADLINE"
      /\ in.rules[r].op = "DATE_BETWEEN"
      /\ in.rules[r].subject = "evaluated_at"
      /\ Len(in.rules[r].operands) = 2
      /\ in.rules[r].operands[2].kind \in {"date", "instant"}}

BoundOf(in, r) ==
  [exact |-> in.rules[r].operands[2].kind = "instant", at |-> in.rules[r].operands[2].value]

LEMMA EffectiveAre ==
  ASSUME NEW in
  PROVE  EffectiveDeadlines(in) = in.deadlines \cup {BoundOf(in, r) : r \in Bounds(in)}
  BY DEF EffectiveDeadlines, Bounds, BoundOf

LEMMA EffectiveFinite ==
  ASSUME NEW in, DecisionInput(in)
  PROVE  /\ IsFiniteSet(EffectiveDeadlines(in))
         /\ EffectiveDeadlines(in) \subseteq [exact : BOOLEAN, at : Int]
  <1>. DEFINE f == [r \in Bounds(in) |-> BoundOf(in, r)]
  <1>1. IsFiniteSet(Bounds(in))
    <2>1. Bounds(in) \in SUBSET DOMAIN in.rules /\ IsFiniteSet(DOMAIN in.rules)
      BY DEF Bounds, DecisionInput
    <2>. QED BY <2>1, FS_Subset
  <1>2. DOMAIN f = Bounds(in) /\ {BoundOf(in, r) : r \in Bounds(in)} = {f[r] : r \in Bounds(in)}
    OBVIOUS
  <1>. HIDE DEF f
  <1>3. IsFiniteSet({BoundOf(in, r) : r \in Bounds(in)})
    BY <1>1, <1>2, FiniteImage
  <1>4. ASSUME NEW r \in Bounds(in) PROVE BoundOf(in, r) \in [exact : BOOLEAN, at : Int]
    <2>1. RuleCandidate(in.rules[r], DOMAIN in.rules)
      BY DEF Bounds, DecisionInput
    <2>2. in.rules[r].operands[2].value \in Int
      BY <2>1 DEF Bounds, RuleCandidate
    <2>. QED BY <2>2 DEF BoundOf
  <1>5. in.deadlines \subseteq [exact : BOOLEAN, at : Int] /\ IsFiniteSet(in.deadlines)
    BY DEF DecisionInput
  <1>. QED BY <1>3, <1>4, <1>5, EffectiveAre, FS_Union

LEMMA LeastOfTwo ==
  ASSUME NEW a \in Int, NEW b \in Int
  PROVE  Min({a, b}) <= a /\ Min({a, b}) <= b /\ Min({a, b}) \in Int
  <1>1. \E x \in {a, b} : \A y \in {a, b} : x <= y
    OBVIOUS
  <1>. QED BY <1>1 DEF Min

LEMMA GreatestOfTwo ==
  ASSUME NEW a \in Int, NEW b \in Int
  PROVE  Max({a, b}) \in {a, b}
  <1>1. \E x \in {a, b} : \A y \in {a, b} : x >= y
    OBVIOUS
  <1>. QED BY <1>1 DEF Max

\* Hours that fit into what is left fit before every deadline.
LEMMA RemainingFits ==
  ASSUME NEW deadlines, IsFiniteSet(deadlines), deadlines \subseteq [exact : BOOLEAN, at : Int],
         NEW now \in Int, NEW hours \in Nat, RemainingHours(deadlines, now) # None
  PROVE  /\ RemainingHours(deadlines, now) \in Int
         /\ RemainingHours(deadlines, now) >= hours =>
              \A d \in deadlines : hours > 0 => (d.at - now) * HoursPerUnit >= hours
  <1>. DEFINE f == [d \in deadlines |-> d.at]
              ats == {d.at : d \in deadlines}
              m == Min(ats)
              left == HoursPerUnit * (m - now)
  <1>1. /\ deadlines # {} /\ RemainingHours(deadlines, now) = Max({0, left})
    BY DEF RemainingHours
  <1>2. IsFiniteSet(ats) /\ ats \in SUBSET Int /\ ats # {}
    <2>1. DOMAIN f = deadlines /\ ats = {f[d] : d \in deadlines}
      OBVIOUS
    <2>. HIDE DEF f
    <2>2. IsFiniteSet(ats)
      BY <2>1, FiniteImage
    <2>. QED BY <2>2, <1>1
  <1>3. m \in ats /\ \A x \in ats : m <= x
    <2>. HIDE DEF ats
    <2>1. \E x \in ats : \A y \in ats : x <= y
      BY <1>2, LeastOfFinite
    <2>. QED BY <2>1 DEF Min
  <1>4. m \in Int /\ \A d \in deadlines : d.at \in Int /\ m <= d.at
    BY <1>2, <1>3
  <1>. HIDE DEF m
  <1>5. left \in Int
    BY <1>4, HoursAssumption
  <1>. HIDE DEF left
  <1>6. Max({0, left}) \in {0, left}
    BY <1>5, GreatestOfTwo
  <1>7. ASSUME Max({0, left}) >= hours, hours > 0, NEW d \in deadlines
        PROVE  (d.at - now) * HoursPerUnit >= hours
    <2>1. left >= hours
      BY <1>5, <1>6, <1>7
    <2>2. d.at - now \in Int /\ m - now \in Int /\ m - now <= d.at - now
      BY <1>4
    <2>3. HoursPerUnit * (m - now) <= (d.at - now) * HoursPerUnit
      BY <2>2, HoursAssumption
    <2>. QED BY <2>1, <2>2, <2>3, <1>5, HoursAssumption DEF left
  <1>. QED BY <1>1, <1>5, <1>6, <1>7

LEMMA EffortIsNumber ==
  ASSUME NEW in, DecisionInput(in), NEW id \in DOMAIN in.projects,
         EffortTotal(in, id, in.projects[id]) # None
  PROVE  EffortTotal(in, id, in.projects[id]) \in Nat
  <1>1. /\ in.effort[id] \in [EffortCategory -> Optional(Nat)]
        /\ in.projects[id].adaptation \in Optional(Nat)
    BY DEF DecisionInput, ProjectProfile
  <1>2. /\ Complete(in.effort[id]) /\ in.projects[id].adaptation # None
        /\ EffortTotal(in, id, in.projects[id])
             = in.projects[id].adaptation + Total(in.effort[id])
    BY DEF EffortTotal
  <1>3. IsFiniteSet(EffortCategory)
    <2>1. EffortCategory = {"INTEGRATION", "EVIDENCE", "REPO_LICENSE_CLEANUP"}
                             \cup {"DEMO", "NARRATIVE", "SUBMISSION"}
      BY DEF EffortCategory
    <2>. QED BY <2>1, FiniteTriple, FS_Union
  <1>4. Total(in.effort[id]) \in Nat
    BY <1>1, <1>2, <1>3, CompleteTotal DEF Optional, Rating
  <1>. QED BY <1>1, <1>2, <1>4 DEF Optional

\* A candidate whose capacity suffices has the hours.
LEMMA CapacityFits ==
  ASSUME NEW in, DecisionInput(in), NEW id \in DOMAIN in.projects,
         AssessCapacity(in, id, in.projects[id]) = "SUFFICIENT"
  PROVE  LET hours == EffortTotal(in, id, in.projects[id])
         IN  /\ hours \in Nat /\ hours <= in.founder.available_hours
             /\ \A d \in EffectiveDeadlines(in) :
                  hours > 0 => (d.at - in.now) * HoursPerUnit >= hours
  <1>. DEFINE hours == EffortTotal(in, id, in.projects[id])
              available == in.founder.available_hours
              remaining == RemainingHours(EffectiveDeadlines(in), in.now)
  <1>1. /\ available # None /\ remaining # None /\ hours # None
        /\ Min({available, remaining}) >= hours
    BY DEF AssessCapacity
  <1>2. hours \in Nat
    BY <1>1, EffortIsNumber
  <1>3. available \in Nat /\ in.now \in Int
    BY <1>1 DEF DecisionInput, FounderProfile, Optional
  <1>4. remaining \in Int
        /\ (remaining >= hours =>
              \A d \in EffectiveDeadlines(in) : hours > 0 => (d.at - in.now) * HoursPerUnit >= hours)
    BY <1>1, <1>2, <1>3, EffectiveFinite, RemainingFits
  <1>. HIDE DEF hours, available, remaining
  <1>5. /\ Min({available, remaining}) <= available /\ Min({available, remaining}) <= remaining
        /\ Min({available, remaining}) \in Int
    <2>1. available \in Int /\ remaining \in Int
      BY <1>3, <1>4
    <2>. QED BY <2>1, LeastOfTwo
  <1>6. hours <= available /\ remaining >= hours
    BY <1>1, <1>2, <1>3, <1>4, <1>5
  <1>. QED BY <1>2, <1>4, <1>6 DEF hours, available

LEMMA ActingInTime ==
  ASSUME NEW in, DecisionInput(in), NEW id \in DOMAIN in.projects, ActingTakes(in, id)
  PROVE  LET hours == EffortTotal(in, id, in.projects[id])
         IN  /\ in.status = "OPEN"
             /\ \A d \in in.deadlines :
                    d.exact /\ d.at > in.now /\ (d.at - in.now) * HoursPerUnit >= hours
             /\ \A r \in Bounds(in) :
                    LET bound == in.rules[r].operands[2]
                    IN  /\ bound.kind = "instant"
                        /\ hours > 0 => (bound.value - in.now) * HoursPerUnit >= hours
             /\ hours <= in.founder.available_hours
  <1>. DEFINE hours == EffortTotal(in, id, in.projects[id])
  <1>1. /\ in.status = "OPEN" /\ AssessCapacity(in, id, in.projects[id]) = "SUFFICIENT"
        /\ \A d \in EffectiveDeadlines(in) : d.exact
        /\ \A d \in in.deadlines : ~ (d.exact /\ d.at <= in.now)
    BY DEF ActingTakes, TimingKnown, Closed
  <1>2. /\ hours \in Nat /\ hours <= in.founder.available_hours
        /\ \A d \in EffectiveDeadlines(in) : hours > 0 => (d.at - in.now) * HoursPerUnit >= hours
    BY <1>1, CapacityFits
  <1>. HIDE DEF hours
  <1>3. ASSUME NEW d \in in.deadlines
        PROVE  d.exact /\ d.at > in.now /\ (d.at - in.now) * HoursPerUnit >= hours
    <2>1. d \in EffectiveDeadlines(in) /\ d.at \in Int /\ in.now \in Int
      BY EffectiveAre DEF DecisionInput
    <2>2. d.exact /\ d.at > in.now
      BY <1>1, <2>1
    <2>3. d.at - in.now \in Nat /\ (d.at - in.now) * HoursPerUnit \in Nat
      BY <2>1, <2>2, HoursAssumption
    <2>. QED BY <1>2, <2>1, <2>2, <2>3
  <1>4. ASSUME NEW r \in Bounds(in)
        PROVE  /\ in.rules[r].operands[2].kind = "instant"
               /\ hours > 0 => (in.rules[r].operands[2].value - in.now) * HoursPerUnit >= hours
    <2>1. BoundOf(in, r) \in EffectiveDeadlines(in)
      BY EffectiveAre
    <2>2. BoundOf(in, r).exact /\ (hours > 0 => (BoundOf(in, r).at - in.now) * HoursPerUnit >= hours)
      BY <1>1, <1>2, <2>1
    <2>. QED BY <2>2 DEF BoundOf
  <1>. QED BY <1>1, <1>2, <1>3, <1>4 DEF hours

-----------------------------------------------------------------------------
(* Evaluations *)

Status == {"PASS", "FAIL", "UNKNOWN", "NOT_APPLICABLE"}

Code == {"CONFLICT", "UNSUPPORTED", "MISSING_EVIDENCE", "UNVERIFIED_EVIDENCE", "STALE_EVIDENCE",
         "INVALID_OPERANDS", "PROVENANCE_REQUIRED", "MISSING_FACT", "MATCH"}

Evaluation == [type : Category, status : Status, codes : SUBSET Code]

LEMMA EvaluationTyped ==
  ASSUME NEW in, NEW project, NEW rule, rule.type \in Category, NEW kids, NEW deadlines
  PROVE  EvaluateRule(in, project, rule, kids, deadlines) \in Evaluation
  <1>. DEFINE actual == Resolve(in, project, rule)
              result == EvaluateRule(in, project, rule, kids, deadlines)
  <1>1. actual.reason \in {"UNSUPPORTED", "PROVENANCE_REQUIRED", "MISSING_FACT", "MATCH"}
    BY DEF Resolve
  <1>2. Composite(rule.op, {k.status : k \in kids}) \in {"PASS", "FAIL", "UNKNOWN"}
    BY DEF Composite, Verdict
  <1>3. Leaf(rule.op, actual.value, rule.operands) \in {"PASS", "FAIL", "UNKNOWN"}
    BY DEF Leaf, Verdict
  <1>4. EvidenceIssues(in, rule, deadlines) \subseteq
          {"MISSING_EVIDENCE", "UNVERIFIED_EVIDENCE", "STALE_EVIDENCE"}
    BY DEF EvidenceIssues, IssuesOf
  <1>5. result.codes \in SUBSET Code
    <2>. DEFINE own == EvidenceIssues(in, rule, deadlines)
                       \cup (IF rule.contradiction THEN {"CONFLICT"} ELSE {})
                       \cup (IF rule.supported THEN {} ELSE {"UNSUPPORTED"})
                inherited == IF rule.op \notin Connectives THEN {}
                             ELSE (UNION {k.codes : k \in kids}) \cap {"STALE_EVIDENCE", "CONFLICT"}
    <2>1. own \subseteq Code
      BY <1>4 DEF Code
    <2>2. inherited \subseteq {"STALE_EVIDENCE", "CONFLICT"}
      <3>. DEFINE codes == UNION {k.codes : k \in kids}
      <3>1. codes \cap {"STALE_EVIDENCE", "CONFLICT"} \subseteq {"STALE_EVIDENCE", "CONFLICT"}
        OBVIOUS
      <3>. HIDE DEF codes
      <3>2. inherited = IF rule.op \notin Connectives THEN {}
                        ELSE codes \cap {"STALE_EVIDENCE", "CONFLICT"}
        BY DEF codes
      <3>. HIDE DEF inherited
      <3>. QED BY <3>1, <3>2
    <2>3. {actual.reason} \subseteq Code
      BY <1>1 DEF Code
    <2>. HIDE DEF actual
    <2>4. result.codes \subseteq own \cup inherited \cup {actual.reason, "INVALID_OPERANDS"}
      BY DEF EvaluateRule, actual
    <2>. HIDE DEF own, inherited, result
    <2>. QED BY <2>1, <2>2, <2>3, <2>4 DEF Code
  <1>. HIDE DEF actual
  <1>6. result.status \in Status
    BY <1>2, <1>3 DEF EvaluateRule, Status, actual
  <1>7. result = [type |-> rule.type, status |-> result.status, codes |-> result.codes]
    BY DEF EvaluateRule
  <1>. HIDE DEF result
  <1>8. result \in Evaluation
    BY <1>5, <1>6, <1>7 DEF Evaluation
  <1>. QED BY <1>8 DEF result

Kids(in) == [r \in DOMAIN in.rules |-> in.rules[r].children]

LEMMA RulesAreNested ==
  ASSUME NEW in, DecisionInput(in)
  PROVE  NestedParts(DOMAIN in.rules, Kids(in))
  <1>1. \A r \in DOMAIN in.rules : in.rules[r].children \subseteq DOMAIN in.rules
    BY DEF DecisionInput, RuleCandidate
  <1>2. \A T \in SUBSET DOMAIN in.rules : T # {} => \E r \in T : Kids(in)[r] \cap T = {}
    BY DEF DecisionInput, Nested, Kids
  <1>3. Kids(in) \in [DOMAIN in.rules -> SUBSET DOMAIN in.rules]
    BY <1>1 DEF Kids
  <1>. QED BY <1>2, <1>3 DEF NestedParts, DecisionInput

\* The evaluation of a rule from those of its children.
FromKids(in, project, result, r) ==
  EvaluateRule(in, project, in.rules[r], {result[c] : c \in in.rules[r].children},
               EffectiveDeadlines(in))

\* Every rule has an evaluation, made from those of its children.
LEMMA EvaluationsAre ==
  ASSUME NEW in, DecisionInput(in), NEW project
  PROVE  /\ Evaluations(in, project) \in [DOMAIN in.rules -> Evaluation]
         /\ \A r \in DOMAIN in.rules :
              Evaluations(in, project)[r] = FromKids(in, project, Evaluations(in, project), r)
  <1>. DEFINE D == DOMAIN in.rules
              dl == EffectiveDeadlines(in)
              All(g) == [r \in D |-> EvaluateRule(in, project, in.rules[r],
                                        {g[c] : c \in in.rules[r].children}, dl)]
              step == [r \in D |-> [g \in [Kids(in)[r] -> Evaluation] |->
                         EvaluateRule(in, project, in.rules[r], {g[c] : c \in Kids(in)[r]}, dl)]]
              result == CHOOSE g : g = All(g)
  <1>1. Evaluations(in, project) = result
    BY DEF Evaluations
  <1>2. \A r \in D : in.rules[r].type \in Category /\ Kids(in)[r] = in.rules[r].children
    BY DEF DecisionInput, RuleCandidate, Kids
  <1>3. \A r \in D : step[r] \in [[Kids(in)[r] -> Evaluation] -> Evaluation]
    BY <1>2, EvaluationTyped
  <1>4. \A r \in D : \A g \in [Kids(in)[r] -> Evaluation] :
          step[r][g] = EvaluateRule(in, project, in.rules[r], {g[c] : c \in Kids(in)[r]}, dl)
    OBVIOUS
  <1>. HIDE DEF step
  <1>5. PICK f : Computes(f, D, Kids(in), Evaluation, step)
    BY <1>3, RulesAreNested, TreeRecursion
  <1>6. f \in [D -> Evaluation]
    BY <1>5 DEF Computes
  <1>7. ASSUME NEW r \in D
        PROVE  f[r] = EvaluateRule(in, project, in.rules[r],
                                   {f[c] : c \in in.rules[r].children}, dl)
    <2>. DEFINE g == [c \in Kids(in)[r] |-> f[c]]
    <2>1. Kids(in)[r] \subseteq D /\ f[r] = step[r][g]
      BY <1>5, <1>7 DEF Computes
    <2>2. g \in [Kids(in)[r] -> Evaluation]
      BY <2>1, <1>6
    <2>3. {g[c] : c \in Kids(in)[r]} = {f[c] : c \in in.rules[r].children}
      BY <1>2, <1>7
    <2>. HIDE DEF g
    <2>4. step[r][g] = EvaluateRule(in, project, in.rules[r], {g[c] : c \in Kids(in)[r]}, dl)
      BY <1>4, <1>7, <2>2
    <2>. QED BY <2>1, <2>3, <2>4
  <1>8. f = All(f)
    BY <1>6, <1>7
  <1>. HIDE DEF All
  <1>9. result = All(result)
    BY <1>8
  <1>. HIDE DEF result
  <1>10. /\ result = [r \in D |-> result[r]]
         /\ \A r \in D : result[r] = EvaluateRule(in, project, in.rules[r],
                                        {result[c] : c \in in.rules[r].children}, dl)
    BY <1>9 DEF All
  <1>11. ASSUME NEW r \in D PROVE result[r] \in Evaluation
    <2>. DEFINE kids == {result[c] : c \in in.rules[r].children}
    <2>1. in.rules[r].type \in Category
      BY <1>2
    <2>2. result[r] = EvaluateRule(in, project, in.rules[r], kids, dl)
      BY <1>10
    <2>. HIDE DEF kids, dl, D
    <2>. QED BY <2>1, <2>2, EvaluationTyped
  <1>12. result \in [D -> Evaluation]
    BY <1>10, <1>11
  <1>. QED BY <1>1, <1>10, <1>12 DEF FromKids

-----------------------------------------------------------------------------
(* Evidence *)

\* With exact deadlines, the life of a record depends on the nearest only.
LEMMA LifeIsTtl ==
  ASSUME NEW in, TimingKnown(in)
  PROVE  /\ Ttl(EffectiveDeadlines(in), in.now) = LifeOfRecords(in)
         /\ LifeOfRecords(in) \in Nat /\ LifeOfRecords(in) > 0
  BY TtlAssumption DEF Ttl, LifeOfRecords, TimingKnown

\* A reference without an issue is on record.
LEMMA NoIssueOnRecord ==
  ASSUME NEW in, DecisionInput(in), TimingKnown(in), NEW rule, NEW e,
         IssuesOf(in, rule, e, EffectiveDeadlines(in)) = {}
  PROVE  OnRecord(in, e)
  <1>. DEFINE fresh == Freshness(in.evidence[e].at, in.now, EffectiveDeadlines(in))
  <1>1. e \in DOMAIN in.evidence /\ fresh \notin {"UNKNOWN", "STALE"}
        /\ in.evidence[e].state = "REVIEWED"
    BY DEF IssuesOf
  <1>2. in.evidence[e].at \in Int /\ in.now \in Int
    BY <1>1 DEF DecisionInput, EvidenceRecord
  <1>3. in.evidence[e].at <= in.now
        /\ in.now - in.evidence[e].at < Ttl(EffectiveDeadlines(in), in.now)
    BY <1>1, <1>2 DEF Freshness
  <1>. QED BY <1>1, <1>3, LifeIsTtl DEF OnRecord

\* A reference that is not stale is young, or not retrieved yet.
LEMMA NotStaleIsYoung ==
  ASSUME NEW in, DecisionInput(in), TimingKnown(in), NEW rule, NEW e \in DOMAIN in.evidence,
         "STALE_EVIDENCE" \notin IssuesOf(in, rule, e, EffectiveDeadlines(in))
  PROVE  in.now - in.evidence[e].at < LifeOfRecords(in)
  <1>. DEFINE fresh == Freshness(in.evidence[e].at, in.now, EffectiveDeadlines(in))
  <1>1. fresh # "STALE"
    BY DEF IssuesOf
  <1>2. in.evidence[e].at \in Int /\ in.now \in Int
    BY DEF DecisionInput, EvidenceRecord
  <1>. QED BY <1>1, <1>2, LifeIsTtl DEF Freshness

\* The evidence of a rule that has no issue.
LEMMA NoIssues ==
  ASSUME NEW in, DecisionInput(in), TimingKnown(in), NEW rule,
         EvidenceIssues(in, rule, EffectiveDeadlines(in)) = {}
  PROVE  rule.evidence # {} /\ \A e \in rule.evidence : OnRecord(in, e)
  <1>1. rule.evidence # {}
    BY DEF EvidenceIssues
  <1>2. ASSUME NEW e \in rule.evidence
        PROVE  IssuesOf(in, rule, e, EffectiveDeadlines(in)) = {}
    BY <1>1 DEF EvidenceIssues
  <1>. QED BY <1>1, <1>2, NoIssueOnRecord

Favours(in, project, rule, kids, deadlines) ==
  /\ rule.notApplicable => kids = {}
  /\ EvaluateRule(in, project, rule, kids, deadlines).status \in {"PASS", "NOT_APPLICABLE"}

StatusesOf(kids) == {k.status : k \in kids}

\* A rule that passes, or does not apply, has no issue of any kind.
LEMMA FavourableRule ==
  ASSUME NEW in, NEW project, NEW rule, NEW kids, NEW deadlines,
         Favours(in, project, rule, kids, deadlines)
  PROVE  /\ EvaluateRule(in, project, rule, kids, deadlines).codes = {}
         /\ rule.supported /\ ~ rule.contradiction
         /\ EvidenceIssues(in, rule, deadlines) = {}
         /\ \/ rule.notApplicable
            \/ rule.op \in Connectives => Composite(rule.op, StatusesOf(kids)) = "PASS"
  <1>. USE DEF Favours, StatusesOf
  <1>. DEFINE composite == rule.op \in Connectives
              actual == Resolve(in, project, rule)
              own == EvidenceIssues(in, rule, deadlines)
                     \cup (IF rule.contradiction THEN {"CONFLICT"} ELSE {})
                     \cup (IF rule.supported THEN {} ELSE {"UNSUPPORTED"})
              raw == IF composite THEN Composite(rule.op, {k.status : k \in kids})
                     ELSE IF kids # {} THEN "UNKNOWN"
                     ELSE Leaf(rule.op, actual.value, rule.operands)
              result == EvaluateRule(in, project, rule, kids, deadlines)
  <1>1. raw = "FAIL" /\ composite => ~ rule.notApplicable
    BY DEF Composite, Verdict
  <1>2. raw \in {"PASS", "FAIL", "UNKNOWN"}
    BY DEF Composite, Leaf, Verdict
  <1>. HIDE DEF actual
  <1>3. /\ own \subseteq result.codes
        /\ \/ result.codes = {}
           \/ composite /\ raw = "FAIL"
           \/ result.status = "UNKNOWN"
        /\ result.status = "UNKNOWN"
           \/ result.status = (IF rule.notApplicable THEN "NOT_APPLICABLE" ELSE raw)
    <2>. HIDE DEF own, raw
    <2>. QED BY DEF EvaluateRule, own, raw, actual
  <1>. HIDE DEF raw, own, result
  <1>4. result.codes = {}
    BY <1>1, <1>3 DEF result
  <1>5. own = {}
    BY <1>3, <1>4
  <1>6. rule.notApplicable \/ raw = "PASS"
    BY <1>2, <1>3 DEF result
  <1>. QED BY <1>4, <1>5, <1>6 DEF own, raw, result

\* A rule's own evidence, and what it asks of what it is composed of.
OwnEvidence(in, r) ==
  /\ in.rules[r].supported /\ ~ in.rules[r].contradiction
  /\ in.rules[r].evidence # {} /\ \A e \in in.rules[r].evidence : OnRecord(in, e)

OwnAge(in, r) ==
  /\ ~ in.rules[r].contradiction
  /\ \A e \in in.rules[r].evidence \cap DOMAIN in.evidence :
        in.now - in.evidence[e].at < LifeOfRecords(in)

StandsOn(in, r, g) ==
  LET rule == in.rules[r]
  IN  /\ rule.supported /\ ~ rule.contradiction
      /\ rule.evidence # {} /\ \A e \in rule.evidence : OnRecord(in, e)
      /\ \/ rule.notApplicable
         \/ /\ rule.op = "AND" => \A c \in rule.children : g[c]
            /\ rule.op = "OR" => \E c \in rule.children : g[c]

CleanOn(in, r, g) ==
  LET rule == in.rules[r]
  IN  /\ ~ rule.contradiction
      /\ \A e \in rule.evidence \cap DOMAIN in.evidence :
             in.now - in.evidence[e].at < LifeOfRecords(in)
      /\ rule.op \in Connectives => \A c \in rule.children : g[c]

LEMMA GroundedIs ==
  ASSUME NEW in, DecisionInput(in)
  PROVE  \A r \in DOMAIN in.rules :
           r \in Grounded(in) <=>
             /\ OwnEvidence(in, r)
             /\ \/ in.rules[r].notApplicable
                \/ /\ in.rules[r].op = "AND" =>
                        \A c \in in.rules[r].children : c \in Grounded(in)
                   /\ in.rules[r].op = "OR" =>
                        \E c \in in.rules[r].children : c \in Grounded(in)
  <1>. DEFINE D == DOMAIN in.rules
              All(g) == [r \in D |-> StandsOn(in, r, g)]
              step == [r \in D |-> [g \in [Kids(in)[r] -> BOOLEAN] |-> StandsOn(in, r, g)]]
              stands == CHOOSE g : g = All(g)
  <1>1. Grounded(in) = {r \in D : stands[r]}
    BY DEF Grounded, StandsOn
  <1>2. \A r \in D : Kids(in)[r] = in.rules[r].children /\ in.rules[r].children \subseteq D
    BY DEF DecisionInput, RuleCandidate, Kids
  <1>3. \A r \in D : step[r] \in [[Kids(in)[r] -> BOOLEAN] -> BOOLEAN]
    BY DEF StandsOn
  <1>4. \A r \in D : \A g \in [Kids(in)[r] -> BOOLEAN] : step[r][g] = StandsOn(in, r, g)
    OBVIOUS
  <1>. HIDE DEF step
  <1>5. PICK f : Computes(f, D, Kids(in), BOOLEAN, step)
    BY <1>3, RulesAreNested, TreeRecursion
  <1>6. f \in [D -> BOOLEAN]
    BY <1>5 DEF Computes
  <1>7. ASSUME NEW r \in D PROVE f[r] = StandsOn(in, r, f)
    <2>. DEFINE g == [c \in Kids(in)[r] |-> f[c]]
    <2>1. Kids(in)[r] \subseteq D /\ f[r] = step[r][g]
      BY <1>5, <1>7 DEF Computes
    <2>2. g \in [Kids(in)[r] -> BOOLEAN]
      BY <2>1, <1>6
    <2>3. \A c \in in.rules[r].children : g[c] = f[c]
      BY <1>2, <1>7
    <2>. HIDE DEF g
    <2>4. step[r][g] = StandsOn(in, r, g)
      BY <1>4, <1>7, <2>2
    <2>5. StandsOn(in, r, g) = StandsOn(in, r, f)
      BY <2>3 DEF StandsOn
    <2>. QED BY <2>1, <2>4, <2>5
  <1>8. f = All(f)
    BY <1>6, <1>7
  <1>. HIDE DEF All
  <1>9. stands = All(stands)
    BY <1>8
  <1>. HIDE DEF stands
  <1>10. \A r \in D : stands[r] = StandsOn(in, r, stands)
    BY <1>9 DEF All
  <1>11. \A r \in D : r \in Grounded(in) <=> StandsOn(in, r, stands)
    BY <1>1, <1>10
  <1>12. \A c \in D : c \in Grounded(in) <=> stands[c]
    BY <1>1
  <1>13. ASSUME NEW r \in D
         PROVE  StandsOn(in, r, stands) <=>
             /\ OwnEvidence(in, r)
             /\ \/ in.rules[r].notApplicable
                \/ /\ in.rules[r].op = "AND" =>
                        \A c \in in.rules[r].children : c \in Grounded(in)
                   /\ in.rules[r].op = "OR" =>
                        \E c \in in.rules[r].children : c \in Grounded(in)
    BY <1>2, <1>12 DEF StandsOn, OwnEvidence
  <1>. QED BY <1>11, <1>13

LEMMA UntaintedIs ==
  ASSUME NEW in, DecisionInput(in)
  PROVE  \A r \in DOMAIN in.rules :
           r \in Untainted(in) <=>
             /\ OwnAge(in, r)
             /\ in.rules[r].op \in Connectives =>
                  \A c \in in.rules[r].children : c \in Untainted(in)
  <1>. DEFINE D == DOMAIN in.rules
              All(g) == [r \in D |-> CleanOn(in, r, g)]
              step == [r \in D |-> [g \in [Kids(in)[r] -> BOOLEAN] |-> CleanOn(in, r, g)]]
              clean == CHOOSE g : g = All(g)
  <1>1. Untainted(in) = {r \in D : clean[r]}
    BY DEF Untainted, CleanOn
  <1>2. \A r \in D : Kids(in)[r] = in.rules[r].children /\ in.rules[r].children \subseteq D
    BY DEF DecisionInput, RuleCandidate, Kids
  <1>3. \A r \in D : step[r] \in [[Kids(in)[r] -> BOOLEAN] -> BOOLEAN]
    BY DEF CleanOn
  <1>4. \A r \in D : \A g \in [Kids(in)[r] -> BOOLEAN] : step[r][g] = CleanOn(in, r, g)
    OBVIOUS
  <1>. HIDE DEF step
  <1>5. PICK f : Computes(f, D, Kids(in), BOOLEAN, step)
    BY <1>3, RulesAreNested, TreeRecursion
  <1>6. f \in [D -> BOOLEAN]
    BY <1>5 DEF Computes
  <1>7. ASSUME NEW r \in D PROVE f[r] = CleanOn(in, r, f)
    <2>. DEFINE g == [c \in Kids(in)[r] |-> f[c]]
    <2>1. Kids(in)[r] \subseteq D /\ f[r] = step[r][g]
      BY <1>5, <1>7 DEF Computes
    <2>2. g \in [Kids(in)[r] -> BOOLEAN]
      BY <2>1, <1>6
    <2>3. \A c \in in.rules[r].children : g[c] = f[c]
      BY <1>2, <1>7
    <2>. HIDE DEF g
    <2>4. step[r][g] = CleanOn(in, r, g)
      BY <1>4, <1>7, <2>2
    <2>5. CleanOn(in, r, g) = CleanOn(in, r, f)
      BY <2>3 DEF CleanOn
    <2>. QED BY <2>1, <2>4, <2>5
  <1>8. f = All(f)
    BY <1>6, <1>7
  <1>. HIDE DEF All
  <1>9. clean = All(clean)
    BY <1>8
  <1>. HIDE DEF clean
  <1>10. \A r \in D : clean[r] = CleanOn(in, r, clean)
    BY <1>9 DEF All
  <1>11. \A r \in D : r \in Untainted(in) <=> CleanOn(in, r, clean)
    BY <1>1, <1>10
  <1>12. \A c \in D : c \in Untainted(in) <=> clean[c]
    BY <1>1
  <1>13. ASSUME NEW r \in D
         PROVE  CleanOn(in, r, clean) <=>
             /\ OwnAge(in, r)
             /\ in.rules[r].op \in Connectives =>
                  \A c \in in.rules[r].children : c \in Untainted(in)
    BY <1>2, <1>12 DEF CleanOn, OwnAge
  <1>. QED BY <1>11, <1>13

\* Induction over rules, children first: B, what would be wrong, is empty when a
\* rule is wrong only with a child that is.
LEMMA RuleInduction ==
  ASSUME NEW in, DecisionInput(in), NEW B \in SUBSET DOMAIN in.rules,
         \A r \in B : in.rules[r].children \cap B # {}
  PROVE  B = {}
  BY DEF DecisionInput, Nested

\* What passes, or does not apply, stands on evidence all the way down.
LEMMA FavourableIsGrounded ==
  ASSUME NEW in, DecisionInput(in), TimingKnown(in), NEW project
  PROVE  \A r \in DOMAIN in.rules :
           Evaluations(in, project)[r].status \in {"PASS", "NOT_APPLICABLE"} => r \in Grounded(in)
  <1>. DEFINE result == Evaluations(in, project)
              favours(r) == result[r].status \in {"PASS", "NOT_APPLICABLE"}
              B == {r \in DOMAIN in.rules : favours(r) /\ r \notin Grounded(in)}
  <1>1. ASSUME NEW r \in B PROVE in.rules[r].children \cap B # {}
    <2>. DEFINE rule == in.rules[r]
                kids == {result[c] : c \in rule.children}
    <2>1. /\ r \in DOMAIN in.rules /\ favours(r) /\ r \notin Grounded(in)
          /\ rule.children \subseteq DOMAIN in.rules
          /\ rule.notApplicable => rule.children = {}
      BY <1>1 DEF DecisionInput, RuleCandidate
    <2>2. result[r] = EvaluateRule(in, project, rule, kids, EffectiveDeadlines(in))
      <3>1. result[r] = FromKids(in, project, result, r)
        BY <2>1, EvaluationsAre
      <3>. QED BY <3>1 DEF FromKids
    <2>3. rule.notApplicable => kids = {}
      BY <2>1
    <2>. HIDE DEF result
    <2>4. Favours(in, project, rule, kids, EffectiveDeadlines(in))
      BY <2>1, <2>2, <2>3 DEF Favours
    <2>. HIDE DEF kids, rule
    <2>5. /\ rule.supported /\ ~ rule.contradiction
          /\ EvidenceIssues(in, rule, EffectiveDeadlines(in)) = {}
          /\ \/ rule.notApplicable
             \/ rule.op \in Connectives => Composite(rule.op, StatusesOf(kids)) = "PASS"
      BY <2>4, FavourableRule
    <2>. USE DEF rule
    <2>6. OwnEvidence(in, r)
      BY <2>5, NoIssues DEF OwnEvidence
    <2>7. /\ ~ rule.notApplicable
          /\ \/ rule.op = "AND" /\ \E c \in rule.children : c \notin Grounded(in)
             \/ rule.op = "OR" /\ \A c \in rule.children : c \notin Grounded(in)
      BY <2>1, <2>6, GroundedIs
    <2>8. Composite(rule.op, StatusesOf(kids)) = "PASS"
      BY <2>5, <2>7 DEF Connectives
    <2>. DEFINE statuses == StatusesOf(kids)
    <2>9. CASE rule.op = "AND"
      <3>1. statuses = {"PASS"}
        BY <2>8, <2>9 DEF Composite, Verdict
      <3>2. PICK c \in rule.children : c \notin Grounded(in)
        BY <2>7, <2>9
      <3>3. result[c].status \in statuses
        BY <3>2 DEF kids, StatusesOf
      <3>4. favours(c)
        BY <3>1, <3>3
      <3>. QED BY <2>1, <3>2, <3>4
    <2>10. CASE rule.op = "OR"
      <3>1. "PASS" \in statuses
        BY <2>8, <2>10 DEF Composite, Verdict
      <3>2. PICK c \in rule.children : result[c].status = "PASS"
        BY <3>1 DEF kids, StatusesOf
      <3>3. c \notin Grounded(in)
        BY <2>7, <2>10, <3>2
      <3>. QED BY <2>1, <3>2, <3>3
    <2>. QED BY <2>7, <2>9, <2>10
  <1>. HIDE DEF favours
  <1>2. B = {}
    <2>1. B \in SUBSET DOMAIN in.rules
      OBVIOUS
    <2>. HIDE DEF B
    <2>. QED BY <1>1, <2>1, RuleInduction
  <1>. QED BY <1>2 DEF favours

\* The reasons of a rule that taint what it is a part of.
Taint == {"STALE_EVIDENCE", "CONFLICT"}

TaintOf(kids) == (UNION {k.codes : k \in kids}) \cap Taint

LEMMA TaintedRule ==
  ASSUME NEW in, NEW project, NEW rule, NEW kids, NEW deadlines,
         EvaluateRule(in, project, rule, kids, deadlines).codes \cap Taint = {}
  PROVE  /\ ~ rule.contradiction
         /\ "STALE_EVIDENCE" \notin EvidenceIssues(in, rule, deadlines)
         /\ rule.op \in Connectives => TaintOf(kids) = {}
  <1>. DEFINE composite == rule.op \in Connectives
              own == EvidenceIssues(in, rule, deadlines)
                     \cup (IF rule.contradiction THEN {"CONFLICT"} ELSE {})
                     \cup (IF rule.supported THEN {} ELSE {"UNSUPPORTED"})
              inherited == IF ~ composite THEN {} ELSE TaintOf(kids)
              result == EvaluateRule(in, project, rule, kids, deadlines)
  <1>1. own \subseteq result.codes /\ inherited \subseteq result.codes
    BY DEF EvaluateRule, TaintOf, Taint
  <1>2. TaintOf(kids) \subseteq Taint
    BY DEF TaintOf
  <1>. HIDE DEF result
  <1>3. own \cap Taint = {} /\ inherited \cap Taint = {}
    BY <1>1 DEF result
  <1>4. "CONFLICT" \notin own /\ "STALE_EVIDENCE" \notin own
    BY <1>3 DEF Taint
  <1>. QED BY <1>2, <1>3, <1>4

\* What is not tainted rests on no old record and no contradiction, all the way
\* down, discarded alternatives included.
LEMMA CleanIsUntainted ==
  ASSUME NEW in, DecisionInput(in), TimingKnown(in), NEW project
  PROVE  \A r \in DOMAIN in.rules :
           Evaluations(in, project)[r].codes \cap Taint = {} => r \in Untainted(in)
  <1>. DEFINE result == Evaluations(in, project)
              clean(r) == result[r].codes \cap Taint = {}
              B == {r \in DOMAIN in.rules : clean(r) /\ r \notin Untainted(in)}
  <1>1. ASSUME NEW r \in B PROVE in.rules[r].children \cap B # {}
    <2>. DEFINE rule == in.rules[r]
                kids == {result[c] : c \in rule.children}
    <2>1. /\ r \in DOMAIN in.rules /\ clean(r) /\ r \notin Untainted(in)
          /\ rule.children \subseteq DOMAIN in.rules
      BY <1>1 DEF DecisionInput, RuleCandidate
    <2>2. result[r] = EvaluateRule(in, project, rule, kids, EffectiveDeadlines(in))
      <3>1. result[r] = FromKids(in, project, result, r)
        BY <2>1, EvaluationsAre
      <3>. QED BY <3>1 DEF FromKids
    <2>. HIDE DEF result
    <2>3. EvaluateRule(in, project, rule, kids, EffectiveDeadlines(in)).codes \cap Taint = {}
      BY <2>1, <2>2
    <2>. HIDE DEF kids, rule
    <2>4. /\ ~ rule.contradiction
          /\ "STALE_EVIDENCE" \notin EvidenceIssues(in, rule, EffectiveDeadlines(in))
          /\ rule.op \in Connectives => TaintOf(kids) = {}
      BY <2>3, TaintedRule
    <2>5. ASSUME NEW e \in rule.evidence \cap DOMAIN in.evidence
          PROVE  in.now - in.evidence[e].at < LifeOfRecords(in)
      <3>1. "STALE_EVIDENCE" \notin IssuesOf(in, rule, e, EffectiveDeadlines(in))
        BY <2>4 DEF EvidenceIssues
      <3>. QED BY <3>1, NotStaleIsYoung
    <2>6. OwnAge(in, r)
      BY <2>4, <2>5 DEF OwnAge, rule
    <2>7. rule.op \in Connectives /\ \E c \in rule.children : c \notin Untainted(in)
      BY <2>1, <2>6, UntaintedIs DEF rule
    <2>8. PICK c \in rule.children : c \notin Untainted(in)
      BY <2>7
    <2>9. result[c] \in kids /\ TaintOf(kids) = {}
      BY <2>4, <2>7 DEF kids
    <2>10. clean(c)
      BY <2>9 DEF TaintOf
    <2>. QED BY <2>1, <2>8, <2>10 DEF rule
  <1>. HIDE DEF clean
  <1>2. B = {}
    <2>1. B \in SUBSET DOMAIN in.rules
      OBVIOUS
    <2>. HIDE DEF B
    <2>. QED BY <1>1, <2>1, RuleInduction
  <1>. QED BY <1>2 DEF clean

-----------------------------------------------------------------------------
(* The gate *)

\* Behind an open gate every critical rule is settled favourably, and every
\* category has one.
LEMMA GateOpens ==
  ASSUME NEW in, DecisionInput(in), NEW project, AggregateEligibility(in, project) = "PASS"
  PROVE  /\ \A r \in CriticalRules(in) :
              /\ r \in DOMAIN in.rules
              /\ Evaluations(in, project)[r].status \in {"PASS", "NOT_APPLICABLE"}
         /\ \A c \in Category : \E r \in CriticalRules(in) : in.rules[r].type = c
  <1>. DEFINE result == Evaluations(in, project)
  <1>1. result \in [DOMAIN in.rules -> Evaluation]
    BY EvaluationsAre
  <1>. HIDE DEF result
  <1>2. Gate(in, result) = "PASS"
    BY DEF AggregateEligibility, result
  <1>3. ASSUME NEW r \in CriticalRules(in)
        PROVE  r \in DOMAIN in.rules /\ result[r].status \in {"PASS", "NOT_APPLICABLE"}
    <2>1. r \in DOMAIN in.rules
      BY DEF CriticalRules, TopLevel
    <2>2. result[r].status \in Status
      BY <1>1, <2>1 DEF Evaluation
    <2>3. result[r].status \notin {"FAIL", "UNKNOWN"}
      BY <1>2 DEF Gate
    <2>. QED BY <2>1, <2>2, <2>3 DEF Status
  <1>4. ASSUME NEW c \in Category PROVE \E r \in CriticalRules(in) : in.rules[r].type = c
    <2>1. Coverage(in, result, c) # "MISSING"
      BY <1>2 DEF Gate
    <2>. QED BY <2>1 DEF Coverage
  <1>. QED BY <1>3, <1>4 DEF result

\* When no conflict is found, every category of the opportunity's conflict rules
\* could be applied.
LEMMA NoConflictApplies ==
  ASSUME NEW in, DecisionInput(in), TimingKnown(in), NEW id,
         AssessConflicts(in, id, in.projects[id]) = "NO_CONFLICT_DETECTED_IN_CHECKED_RULES",
         NEW c \in ConflictCategory
  PROVE  /\ c \in DOMAIN in.conflictRules
         /\ in.conflictRules[c].supported /\ in.conflictRules[c].evidence # {}
         /\ \A e \in in.conflictRules[c].evidence : OnRecord(in, e)
  <1>. DEFINE entered == {in.submissions[x] : x \in DOMAIN in.submissions}
              scope   == [rules |-> in.conflictRules, peers |-> entered,
                          deadlines |-> EffectiveDeadlines(in),
                          cited |-> UNION {in.conflictRules[d].evidence :
                                               d \in DOMAIN in.conflictRules}]
  <1>1. scope \in Scopes(in)
    BY DEF Scopes
  <1>2. scope.rules = in.conflictRules /\ scope.deadlines = EffectiveDeadlines(in)
    OBVIOUS
  <1>. HIDE DEF scope
  <1>3. Assess(in, id, in.projects[id], scope, c) # "OPEN"
    BY <1>1 DEF AssessConflicts
  <1>4. Applicable(in, scope, c)
    BY <1>3 DEF Assess
  <1>5. /\ c \in DOMAIN in.conflictRules
        /\ in.conflictRules[c].supported /\ in.conflictRules[c].evidence # {}
        /\ \A e \in in.conflictRules[c].evidence : Reviewed(in, c, e, EffectiveDeadlines(in))
    BY <1>2, <1>4 DEF Applicable
  <1>6. ASSUME NEW e \in in.conflictRules[c].evidence PROVE OnRecord(in, e)
    <2>1. /\ e \in DOMAIN in.evidence /\ in.evidence[e].state = "REVIEWED"
          /\ Freshness(in.evidence[e].at, in.now, EffectiveDeadlines(in)) = "FRESH"
      BY <1>5 DEF Reviewed
    <2>2. in.evidence[e].at \in Int /\ in.now \in Int
      BY <2>1 DEF DecisionInput, EvidenceRecord
    <2>3. in.evidence[e].at <= in.now
          /\ in.now - in.evidence[e].at < Ttl(EffectiveDeadlines(in), in.now)
      BY <2>1, <2>2 DEF Freshness
    <2>. QED BY <2>1, <2>3, LifeIsTtl DEF OnRecord
  <1>. QED BY <1>5, <1>6

LEMMA ActingOnEvidence ==
  ASSUME NEW in, DecisionInput(in), NEW id \in DOMAIN in.projects, ActingTakes(in, id)
  PROVE  /\ \A c \in Category : \E r \in CriticalRules(in) : in.rules[r].type = c
         /\ CriticalRules(in) \subseteq Grounded(in) \cap Untainted(in)
         /\ \A c \in ConflictCategory :
               /\ c \in DOMAIN in.conflictRules
               /\ in.conflictRules[c].supported /\ in.conflictRules[c].evidence # {}
               /\ \A e \in in.conflictRules[c].evidence : OnRecord(in, e)
  <1>. DEFINE project == in.projects[id]
              result  == Evaluations(in, project)
  <1>1. /\ AggregateEligibility(in, project) = "PASS" /\ TimingKnown(in)
        /\ AssessConflicts(in, id, project) = "NO_CONFLICT_DETECTED_IN_CHECKED_RULES"
    BY DEF ActingTakes
  <1>2. /\ \A r \in CriticalRules(in) :
             r \in DOMAIN in.rules /\ result[r].status \in {"PASS", "NOT_APPLICABLE"}
        /\ \A c \in Category : \E r \in CriticalRules(in) : in.rules[r].type = c
    BY <1>1, GateOpens
  <1>3. ASSUME NEW r \in CriticalRules(in) PROVE r \in Grounded(in) /\ r \in Untainted(in)
    <2>. DEFINE rule == in.rules[r]
                kids == {result[c] : c \in rule.children}
    <2>1. r \in Grounded(in)
      BY <1>1, <1>2, FavourableIsGrounded
    <2>2. r \in DOMAIN in.rules /\ (rule.notApplicable => kids = {})
      BY <1>2 DEF DecisionInput, RuleCandidate
    <2>3. result[r] = EvaluateRule(in, project, rule, kids, EffectiveDeadlines(in))
      <3>1. result[r] = FromKids(in, project, result, r)
        BY <2>2, EvaluationsAre
      <3>. QED BY <3>1 DEF FromKids
    <2>. HIDE DEF result
    <2>4. Favours(in, project, rule, kids, EffectiveDeadlines(in))
      BY <1>2, <2>2, <2>3 DEF Favours
    <2>. HIDE DEF kids, rule
    <2>5. result[r].codes = {}
      BY <2>3, <2>4, FavourableRule
    <2>6. Evaluations(in, project)[r].codes \cap Taint = {}
      BY <2>5 DEF result
    <2>. QED BY <1>1, <2>1, <2>2, <2>6, CleanIsUntainted
  <1>4. \A c \in ConflictCategory :
               /\ c \in DOMAIN in.conflictRules
               /\ in.conflictRules[c].supported /\ in.conflictRules[c].evidence # {}
               /\ \A e \in in.conflictRules[c].evidence : OnRecord(in, e)
    BY <1>1, NoConflictApplies
  <1>. QED BY <1>2, <1>3, <1>4

\* No candidate is acted on out of time or without evidence: its rules and its
\* opportunity's are all settled on records that are reviewed and fresh, to
\* whatever depth the rules are nested.
THEOREM ActsOnGround == Spec => []ActOnlyOnGround
  <1>1. DecidedInv => ActOnlyOnGround
    <2>. SUFFICES ASSUME DecidedInv PROVE ActOnlyOnGround
      OBVIOUS
    <2>1. output = Decide(input) /\ DecisionInput(input)
      BY DEF DecidedInv
    <2>2. ASSUME NEW id \in DOMAIN output.candidates, output.candidates[id] \in Acting
          PROVE  id \in DOMAIN input.projects /\ ActingTakes(input, id)
      <3>1. /\ id \in DOMAIN input.projects
            /\ output.candidates = [i \in DOMAIN input.projects |-> Candidate(input, i)]
        BY <2>1, CandidatesDecided
      <3>. QED BY <2>2, <3>1, ActingNeeds
    <2>3. ActOnlyInTime
      BY <2>1, <2>2, ActingInTime DEF ActOnlyInTime, Bounds
    <2>4. ActOnlyOnEvidence
      BY <2>1, <2>2, ActingOnEvidence DEF ActOnlyOnEvidence
    <2>. QED BY <2>3, <2>4 DEF ActOnlyOnGround
  <1>. QED BY <1>1, RunsDecide, PTL

-----------------------------------------------------------------------------
(* Verdicts of two runs *)

LeafOf(in, project, rule) == Leaf(rule.op, Resolve(in, project, rule).value, rule.operands)

\* What a rule says before its evidence is looked at.
RawOf(in, project, rule, kids) ==
  IF rule.op \in Connectives THEN Composite(rule.op, StatusesOf(kids))
  ELSE IF kids # {} THEN "UNKNOWN" ELSE LeafOf(in, project, rule)

WellShaped(rule, kids) ==
  IF rule.op \in Connectives
  THEN rule.subject = None /\ rule.operands = <<>> /\ \A k \in kids : k.type = rule.type
  ELSE kids = {}

Confirmable(in, rule, deadlines) ==
  rule.supported /\ ~ rule.contradiction /\ EvidenceIssues(in, rule, deadlines) = {}

InheritedTaint(rule, kids) == IF rule.op \in Connectives THEN TaintOf(kids) ELSE {}

\* When a rule passes, fails or does not apply, apart from how it is computed.
LEMMA RuleVerdicts ==
  ASSUME NEW in, NEW project, NEW rule, NEW kids, NEW deadlines,
         rule.notApplicable \in BOOLEAN, rule.notApplicable => kids = {}
  PROVE  LET status == EvaluateRule(in, project, rule, kids, deadlines).status
         IN  /\ status = "PASS" <=>
                  /\ ~ rule.notApplicable /\ Confirmable(in, rule, deadlines)
                  /\ WellShaped(rule, kids) /\ InheritedTaint(rule, kids) = {}
                  /\ RawOf(in, project, rule, kids) = "PASS"
             /\ status = "NOT_APPLICABLE" <=>
                  /\ rule.notApplicable /\ Confirmable(in, rule, deadlines)
                  /\ WellShaped(rule, kids) /\ InheritedTaint(rule, kids) = {}
             /\ status = "FAIL" <=>
                  /\ ~ rule.notApplicable /\ Confirmable(in, rule, deadlines)
                  /\ WellShaped(rule, kids) /\ RawOf(in, project, rule, kids) = "FAIL"
  <1>. DEFINE composite == rule.op \in Connectives
              actual == Resolve(in, project, rule)
              own == EvidenceIssues(in, rule, deadlines)
                     \cup (IF rule.contradiction THEN {"CONFLICT"} ELSE {})
                     \cup (IF rule.supported THEN {} ELSE {"UNSUPPORTED"})
              inherited == InheritedTaint(rule, kids)
              misshapen == IF composite
                           THEN \/ rule.subject # None
                                \/ rule.operands # <<>>
                                \/ \E k \in kids : k.type # rule.type
                           ELSE kids # {}
              raw == RawOf(in, project, rule, kids)
              unresolved == IF composite \/ kids # {} \/ raw # "UNKNOWN" \/ rule.notApplicable
                            THEN {}
                            ELSE IF actual.value = None THEN {actual.reason}
                                                        ELSE {"INVALID_OPERANDS"}
              issues == own \cup inherited \cup unresolved
                        \cup (IF misshapen THEN {"INVALID_OPERANDS"} ELSE {})
              confirmed == composite /\ raw = "FAIL" /\ own = {} /\ ~ misshapen
              status == IF issues # {} /\ ~ confirmed THEN "UNKNOWN"
                        ELSE IF rule.notApplicable THEN "NOT_APPLICABLE"
                        ELSE raw
  <1>1. EvaluateRule(in, project, rule, kids, deadlines).status = status
    BY DEF EvaluateRule, InheritedTaint, TaintOf, Taint, RawOf, StatusesOf, LeafOf
  <1>2. raw \in {"PASS", "FAIL", "UNKNOWN"}
    BY DEF RawOf, LeafOf, Composite, Leaf, Verdict
  <1>3. own = {} <=> Confirmable(in, rule, deadlines)
    BY DEF Confirmable
  <1>4. misshapen <=> ~ WellShaped(rule, kids)
    BY DEF WellShaped
  <1>5. ~ composite => inherited = {}
    BY DEF InheritedTaint
  <1>6. composite /\ rule.notApplicable => raw # "FAIL"
    BY DEF RawOf, Composite, StatusesOf, Verdict
  <1>7. ~ composite /\ kids # {} => misshapen
    OBVIOUS
  <1>. HIDE DEF own, inherited, misshapen, raw, composite
  <1>8. unresolved # {} => ~ rule.notApplicable /\ raw = "UNKNOWN"
    OBVIOUS
  <1>. HIDE DEF unresolved
  <1>9. issues = {} <=> own = {} /\ inherited = {} /\ unresolved = {} /\ ~ misshapen
    OBVIOUS
  <1>. HIDE DEF issues
  <1>10. status = "PASS" <=> ~ rule.notApplicable /\ own = {} /\ ~ misshapen /\ inherited = {}
                              /\ raw = "PASS"
    BY <1>2, <1>8, <1>9
  <1>11. status = "NOT_APPLICABLE" <=> rule.notApplicable /\ own = {} /\ ~ misshapen
                                       /\ inherited = {}
    BY <1>2, <1>6, <1>8, <1>9
  <1>12. status = "FAIL" <=> ~ rule.notApplicable /\ own = {} /\ ~ misshapen /\ raw = "FAIL"
    BY <1>2, <1>5, <1>8, <1>9
  <1>. HIDE DEF status
  <1>. QED BY <1>1, <1>3, <1>4, <1>10, <1>11, <1>12 DEF inherited, raw

LEMMA RulePasses ==
  ASSUME NEW in, NEW project, NEW rule, NEW kids, NEW deadlines,
         rule.notApplicable \in BOOLEAN, rule.notApplicable => kids = {}
  PROVE  EvaluateRule(in, project, rule, kids, deadlines).status = "PASS" <=>
           /\ ~ rule.notApplicable /\ Confirmable(in, rule, deadlines)
           /\ WellShaped(rule, kids) /\ InheritedTaint(rule, kids) = {}
           /\ RawOf(in, project, rule, kids) = "PASS"
  BY RuleVerdicts

LEMMA RuleFails ==
  ASSUME NEW in, NEW project, NEW rule, NEW kids, NEW deadlines,
         rule.notApplicable \in BOOLEAN, rule.notApplicable => kids = {}
  PROVE  EvaluateRule(in, project, rule, kids, deadlines).status = "FAIL" <=>
           /\ ~ rule.notApplicable /\ Confirmable(in, rule, deadlines)
           /\ WellShaped(rule, kids) /\ RawOf(in, project, rule, kids) = "FAIL"
  BY RuleVerdicts

LEMMA RuleDoesNotApply ==
  ASSUME NEW in, NEW project, NEW rule, NEW kids, NEW deadlines,
         rule.notApplicable \in BOOLEAN, rule.notApplicable => kids = {}
  PROVE  EvaluateRule(in, project, rule, kids, deadlines).status = "NOT_APPLICABLE" <=>
           /\ rule.notApplicable /\ Confirmable(in, rule, deadlines)
           /\ WellShaped(rule, kids) /\ InheritedTaint(rule, kids) = {}
  BY RuleVerdicts

\* The reasons that taint a rule: its own and those it inherits.
LEMMA TaintIs ==
  ASSUME NEW in, NEW project, NEW rule, NEW kids, NEW deadlines
  PROVE  EvaluateRule(in, project, rule, kids, deadlines).codes \cap Taint
           = (EvidenceIssues(in, rule, deadlines) \cap {"STALE_EVIDENCE"})
             \cup (IF rule.contradiction THEN {"CONFLICT"} ELSE {})
             \cup InheritedTaint(rule, kids)
  <1>. DEFINE actual == Resolve(in, project, rule)
              evidence == EvidenceIssues(in, rule, deadlines)
              contradiction == IF rule.contradiction THEN {"CONFLICT"} ELSE {}
              inherited == InheritedTaint(rule, kids)
              codes == EvaluateRule(in, project, rule, kids, deadlines).codes
  <1>1. actual.reason \in {"UNSUPPORTED", "PROVENANCE_REQUIRED", "MISSING_FACT", "MATCH"}
    BY DEF Resolve
  <1>2. evidence \subseteq {"MISSING_EVIDENCE", "UNVERIFIED_EVIDENCE", "STALE_EVIDENCE"}
    BY DEF EvidenceIssues, IssuesOf
  <1>3. inherited \subseteq Taint
    BY DEF InheritedTaint, TaintOf
  <1>. HIDE DEF actual
  <1>4. \E rest \in SUBSET {actual.reason, "UNSUPPORTED", "INVALID_OPERANDS"} :
           codes = evidence \cup contradiction \cup inherited \cup rest
    <2>. DEFINE composite == rule.op \in Connectives
                supported == IF rule.supported THEN {} ELSE {"UNSUPPORTED"}
                misshapen == IF composite
                             THEN \/ rule.subject # None
                                  \/ rule.operands # <<>>
                                  \/ \E k \in kids : k.type # rule.type
                             ELSE kids # {}
                raw == IF composite THEN Composite(rule.op, {k.status : k \in kids})
                       ELSE IF kids # {} THEN "UNKNOWN"
                       ELSE Leaf(rule.op, actual.value, rule.operands)
                unresolved == IF composite \/ kids # {} \/ raw # "UNKNOWN" \/ rule.notApplicable
                              THEN {}
                              ELSE IF actual.value = None THEN {actual.reason}
                                                          ELSE {"INVALID_OPERANDS"}
                shape == IF misshapen THEN {"INVALID_OPERANDS"} ELSE {}
                rest == supported \cup unresolved \cup shape
    <2>1. codes = evidence \cup contradiction \cup supported \cup inherited \cup unresolved
                  \cup shape
      BY DEF EvaluateRule, InheritedTaint, TaintOf, Taint, actual
    <2>2. unresolved \subseteq {actual.reason, "INVALID_OPERANDS"}
      OBVIOUS
    <2>3. shape \subseteq {"INVALID_OPERANDS"} /\ supported \subseteq {"UNSUPPORTED"}
      OBVIOUS
    <2>. HIDE DEF unresolved, shape, supported, evidence, contradiction, inherited, codes
    <2>4. rest \subseteq {actual.reason, "UNSUPPORTED", "INVALID_OPERANDS"}
      BY <2>2, <2>3
    <2>5. codes = evidence \cup contradiction \cup inherited \cup rest
      BY <2>1
    <2>. HIDE DEF rest
    <2>. QED BY <2>4, <2>5
  <1>. HIDE DEF codes, evidence, inherited
  <1>5. codes \cap Taint = (evidence \cap {"STALE_EVIDENCE"}) \cup contradiction \cup inherited
    BY <1>1, <1>2, <1>3, <1>4 DEF Taint
  <1>. QED BY <1>5 DEF codes, evidence, inherited

-----------------------------------------------------------------------------
(* What settles one run's rules settles another's. *)

\* The same rules on two inputs, where what the first confirms the second does.
CarriesOver(a, p, b, q) ==
  /\ b.rules = a.rules
  /\ \A r \in DOMAIN a.rules :
       LET rule == a.rules[r]
           before == EvidenceIssues(a, rule, EffectiveDeadlines(a))
           after == EvidenceIssues(b, rule, EffectiveDeadlines(b))
       IN  /\ before = {} => after = {}
           /\ "STALE_EVIDENCE" \in after => "STALE_EVIDENCE" \in before
           /\ LeafOf(a, p, rule) = "PASS" => LeafOf(b, q, rule) = "PASS"

\* The evaluations of a rule's children.
KidsOf(in, project, r) == {Evaluations(in, project)[c] : c \in in.rules[r].children}

LEMMA EvaluationOf ==
  ASSUME NEW in, DecisionInput(in), NEW project, NEW r \in DOMAIN in.rules
  PROVE  Evaluations(in, project)[r]
           = EvaluateRule(in, project, in.rules[r], KidsOf(in, project, r), EffectiveDeadlines(in))
  BY EvaluationsAre DEF FromKids, KidsOf

LEMMA TypeIs ==
  ASSUME NEW in, NEW project, NEW rule, NEW kids, NEW deadlines
  PROVE  EvaluateRule(in, project, rule, kids, deadlines).type = rule.type
  BY DEF EvaluateRule

\* What the contracts say of a rule and its evaluation.
LEMMA EvaluationIs ==
  ASSUME NEW in, DecisionInput(in), NEW project, NEW r \in DOMAIN in.rules
  PROVE  /\ in.rules[r].children \subseteq DOMAIN in.rules
         /\ in.rules[r].notApplicable \in BOOLEAN
         /\ in.rules[r].notApplicable => KidsOf(in, project, r) = {}
         /\ Evaluations(in, project)[r].type = in.rules[r].type
         /\ Evaluations(in, project)[r].status \in Status
  <1>1. RuleCandidate(in.rules[r], DOMAIN in.rules)
    BY DEF DecisionInput
  <1>2. Evaluations(in, project)[r].type = in.rules[r].type
    BY EvaluationOf, TypeIs
  <1>3. Evaluations(in, project)[r].status \in Status
    BY EvaluationsAre DEF Evaluation
  <1>4. in.rules[r].notApplicable => KidsOf(in, project, r) = {}
    BY <1>1 DEF RuleCandidate, KidsOf
  <1>. QED BY <1>1, <1>2, <1>3, <1>4 DEF RuleCandidate

\* What is compared of one rule in two runs.
LEMMA BothRules ==
  ASSUME NEW a, DecisionInput(a), NEW b, DecisionInput(b), NEW p, NEW q, b.rules = a.rules,
         NEW r \in DOMAIN a.rules
  PROVE  /\ Evaluations(a, p)[r]
              = EvaluateRule(a, p, a.rules[r], KidsOf(a, p, r), EffectiveDeadlines(a))
         /\ Evaluations(b, q)[r]
              = EvaluateRule(b, q, a.rules[r], KidsOf(b, q, r), EffectiveDeadlines(b))
         /\ a.rules[r].children \subseteq DOMAIN a.rules
         /\ a.rules[r].notApplicable \in BOOLEAN
         /\ a.rules[r].notApplicable => KidsOf(a, p, r) = {} /\ KidsOf(b, q, r) = {}
         /\ KidsOf(a, p, r) = {Evaluations(a, p)[c] : c \in a.rules[r].children}
         /\ KidsOf(b, q, r) = {Evaluations(b, q)[c] : c \in a.rules[r].children}
  <1>1. Evaluations(a, p)[r]
          = EvaluateRule(a, p, a.rules[r], KidsOf(a, p, r), EffectiveDeadlines(a))
    BY EvaluationOf
  <1>2. Evaluations(b, q)[r]
          = EvaluateRule(b, q, b.rules[r], KidsOf(b, q, r), EffectiveDeadlines(b))
    BY EvaluationOf
  <1>3. /\ a.rules[r].children \subseteq DOMAIN a.rules
        /\ a.rules[r].notApplicable \in BOOLEAN
        /\ a.rules[r].notApplicable => KidsOf(a, p, r) = {}
    BY EvaluationIs
  <1>4. b.rules[r].notApplicable => KidsOf(b, q, r) = {}
    BY EvaluationIs
  <1>5. /\ KidsOf(a, p, r) = {Evaluations(a, p)[c] : c \in a.rules[r].children}
        /\ KidsOf(b, q, r) = {Evaluations(b, q)[c] : c \in a.rules[r].children}
    BY DEF KidsOf
  <1>. QED BY <1>1, <1>2, <1>3, <1>4, <1>5

\* The children's types are the rules' own, so a rule is well shaped on both
\* inputs or on neither.
LEMMA SameShape ==
  ASSUME NEW a, DecisionInput(a), NEW b, DecisionInput(b), NEW p, NEW q, b.rules = a.rules,
         NEW r \in DOMAIN a.rules
  PROVE  WellShaped(a.rules[r], KidsOf(a, p, r)) <=> WellShaped(a.rules[r], KidsOf(b, q, r))
  <1>. DEFINE rule == a.rules[r]
              before == Evaluations(a, p)
              after == Evaluations(b, q)
  <1>1. rule.children \subseteq DOMAIN a.rules
    BY EvaluationIs
  <1>2. \A c \in DOMAIN a.rules : before[c].type = a.rules[c].type
    BY EvaluationIs
  <1>3. \A c \in DOMAIN b.rules : after[c].type = b.rules[c].type
    BY EvaluationIs
  <1>4. /\ KidsOf(a, p, r) = {before[c] : c \in rule.children}
        /\ KidsOf(b, q, r) = {after[c] : c \in rule.children}
    BY DEF KidsOf
  <1>. HIDE DEF before, after
  <1>5. KidsOf(a, p, r) = {} <=> KidsOf(b, q, r) = {}
    BY <1>4
  <1>6. (\A k \in KidsOf(a, p, r) : k.type = rule.type)
          <=> (\A k \in KidsOf(b, q, r) : k.type = rule.type)
    BY <1>1, <1>2, <1>3, <1>4
  <1>. QED BY <1>5, <1>6 DEF WellShaped

\* A composite that passes still does when the children that passed still do,
\* and likewise one that fails.
LEMMA CompositeCarriesOver ==
  ASSUME NEW op \in Connectives, NEW old, NEW new, NEW verdict \in {"PASS", "FAIL"},
         (\E k \in old : k.status = verdict) => \E k \in new : k.status = verdict,
         (\A k \in old : k.status = verdict) => \A k \in new : k.status = verdict,
         Composite(op, StatusesOf(old)) = verdict
  PROVE  Composite(op, StatusesOf(new)) = verdict
  <1>1. verdict \in StatusesOf(old)
    BY DEF Composite, Verdict, Connectives
  <1>2. verdict \in StatusesOf(new)
    BY <1>1 DEF StatusesOf
  <1>3. CASE verdict = Verdict(op = "OR")
    BY <1>2, <1>3 DEF Composite
  <1>4. CASE verdict # Verdict(op = "OR")
    <2>1. verdict = Verdict(op = "AND") /\ StatusesOf(old) = {verdict}
      BY <1>4 DEF Composite, Verdict, Connectives
    <2>2. \A k \in new : k.status = verdict
      BY <2>1 DEF StatusesOf
    <2>3. StatusesOf(new) = {verdict}
      BY <1>2, <2>2 DEF StatusesOf
    <2>. QED BY <1>4, <2>1, <2>3 DEF Composite
  <1>. QED BY <1>3, <1>4

\* No taint appears.
LEMMA TaintCarriesOver ==
  ASSUME NEW a, DecisionInput(a), NEW b, DecisionInput(b), NEW p, NEW q, CarriesOver(a, p, b, q)
  PROVE  \A r \in DOMAIN a.rules :
           Evaluations(b, q)[r].codes \cap Taint \subseteq Evaluations(a, p)[r].codes \cap Taint
  <1>. DEFINE before == Evaluations(a, p)
              after == Evaluations(b, q)
              less(r) == after[r].codes \cap Taint \subseteq before[r].codes \cap Taint
              B == {r \in DOMAIN a.rules : ~ less(r)}
  <1>0. b.rules = a.rules
    BY DEF CarriesOver
  <1>1. ASSUME NEW r \in B PROVE a.rules[r].children \cap B # {}
    <2>. DEFINE rule == a.rules[r]
                old == KidsOf(a, p, r)
                new == KidsOf(b, q, r)
    <2>1. /\ before[r] = EvaluateRule(a, p, rule, old, EffectiveDeadlines(a))
          /\ after[r] = EvaluateRule(b, q, rule, new, EffectiveDeadlines(b))
          /\ rule.children \subseteq DOMAIN a.rules
          /\ old = {before[c] : c \in rule.children}
          /\ new = {after[c] : c \in rule.children}
      BY <1>0, BothRules
    <2>. SUFFICES ASSUME \A c \in rule.children : less(c) PROVE less(r)
      BY <2>1
    <2>2. "STALE_EVIDENCE" \in EvidenceIssues(b, rule, EffectiveDeadlines(b))
             => "STALE_EVIDENCE" \in EvidenceIssues(a, rule, EffectiveDeadlines(a))
      BY DEF CarriesOver
    <2>. HIDE DEF before, after, old, new
    <2>3. TaintOf(new) \subseteq TaintOf(old)
      BY <2>1 DEF TaintOf
    <2>4. InheritedTaint(rule, new) \subseteq InheritedTaint(rule, old)
      BY <2>3 DEF InheritedTaint
    <2>. HIDE DEF rule
    <2>. QED BY <2>1, <2>2, <2>4, TaintIs
  <1>. HIDE DEF less
  <1>2. B = {}
    <2>1. B \in SUBSET DOMAIN a.rules
      OBVIOUS
    <2>. HIDE DEF B
    <2>. QED BY <1>1, <2>1, RuleInduction
  <1>. QED BY <1>2 DEF less

\* A rule that passes, or does not apply, still does.
LEMMA FavourCarriesOver ==
  ASSUME NEW a, DecisionInput(a), NEW b, DecisionInput(b), NEW p, NEW q, CarriesOver(a, p, b, q)
  PROVE  \A r \in DOMAIN a.rules :
           Evaluations(a, p)[r].status \in {"PASS", "NOT_APPLICABLE"} =>
             Evaluations(b, q)[r].status = Evaluations(a, p)[r].status
  <1>. DEFINE before == Evaluations(a, p)
              after == Evaluations(b, q)
              kept(r) == before[r].status \in {"PASS", "NOT_APPLICABLE"} =>
                           after[r].status = before[r].status
              B == {r \in DOMAIN a.rules : ~ kept(r)}
  <1>0. b.rules = a.rules
    BY DEF CarriesOver
  <1>1. ASSUME NEW r \in B PROVE a.rules[r].children \cap B # {}
    <2>. DEFINE rule == a.rules[r]
                old == KidsOf(a, p, r)
                new == KidsOf(b, q, r)
    <2>1. /\ before[r] = EvaluateRule(a, p, rule, old, EffectiveDeadlines(a))
          /\ after[r] = EvaluateRule(b, q, rule, new, EffectiveDeadlines(b))
          /\ rule.children \subseteq DOMAIN a.rules
          /\ rule.notApplicable \in BOOLEAN
          /\ rule.notApplicable => old = {} /\ new = {}
          /\ old = {before[c] : c \in rule.children}
          /\ new = {after[c] : c \in rule.children}
      BY <1>0, BothRules
    <2>2. WellShaped(rule, old) <=> WellShaped(rule, new)
      BY <1>0, SameShape
    <2>3. \A c \in rule.children : after[c].codes \cap Taint \subseteq before[c].codes \cap Taint
      BY <2>1, TaintCarriesOver
    <2>. SUFFICES ASSUME \A c \in rule.children : kept(c),
                         before[r].status \in {"PASS", "NOT_APPLICABLE"}
                  PROVE  after[r].status = before[r].status
      BY <2>1
    <2>. HIDE DEF before, after, old, new
    <2>4. InheritedTaint(rule, old) = {} => InheritedTaint(rule, new) = {}
      BY <2>1, <2>3 DEF InheritedTaint, TaintOf
    <2>5. Confirmable(a, rule, EffectiveDeadlines(a)) => Confirmable(b, rule, EffectiveDeadlines(b))
      BY DEF CarriesOver, Confirmable
    <2>6. RawOf(a, p, rule, old) = "PASS" => RawOf(b, q, rule, new) = "PASS"
      <3>1. CASE rule.op \notin Connectives
        <4>1. LeafOf(a, p, rule) = "PASS" => LeafOf(b, q, rule) = "PASS"
          BY DEF CarriesOver
        <4>2. old = {} => new = {}
          BY <2>1
        <4>. QED BY <3>1, <4>1, <4>2 DEF RawOf
      <3>2. CASE rule.op \in Connectives
        <4>1. \A c \in rule.children : before[c].status = "PASS" => after[c].status = "PASS"
          OBVIOUS
        <4>2. Composite(rule.op, StatusesOf(old)) = "PASS" =>
                Composite(rule.op, StatusesOf(new)) = "PASS"
          <5>1. (\E k \in old : k.status = "PASS") => \E k \in new : k.status = "PASS"
            BY <2>1, <4>1
          <5>2. (\A k \in old : k.status = "PASS") => \A k \in new : k.status = "PASS"
            BY <2>1, <4>1
          <5>. QED BY <3>2, <5>1, <5>2, CompositeCarriesOver
        <4>. QED BY <3>2, <4>2 DEF RawOf
      <3>. QED BY <3>1, <3>2
    <2>. HIDE DEF rule
    <2>9. /\ before[r] = EvaluateRule(a, p, rule, old, EffectiveDeadlines(a))
          /\ after[r] = EvaluateRule(b, q, rule, new, EffectiveDeadlines(b))
      BY <2>1
    <2>10. /\ rule.notApplicable \in BOOLEAN
           /\ rule.notApplicable => old = {} /\ new = {}
      BY <2>1
    <2>7. CASE before[r].status = "PASS"
      <3>1. /\ ~ rule.notApplicable /\ Confirmable(a, rule, EffectiveDeadlines(a))
            /\ WellShaped(rule, old) /\ InheritedTaint(rule, old) = {}
            /\ RawOf(a, p, rule, old) = "PASS"
        BY <2>7, <2>9, <2>10, RulePasses
      <3>2. /\ ~ rule.notApplicable /\ Confirmable(b, rule, EffectiveDeadlines(b))
            /\ WellShaped(rule, new) /\ InheritedTaint(rule, new) = {}
            /\ RawOf(b, q, rule, new) = "PASS"
        BY <2>2, <2>4, <2>5, <2>6, <3>1
      <3>3. EvaluateRule(b, q, rule, new, EffectiveDeadlines(b)).status = "PASS"
        BY <2>9, <2>10, <3>2, RulePasses
      <3>. QED BY <2>7, <2>9, <3>3
    <2>8. CASE before[r].status = "NOT_APPLICABLE"
      <3>1. EvaluateRule(a, p, rule, old, EffectiveDeadlines(a)).status = "NOT_APPLICABLE" <=>
              /\ rule.notApplicable /\ Confirmable(a, rule, EffectiveDeadlines(a))
              /\ WellShaped(rule, old) /\ InheritedTaint(rule, old) = {}
        BY <2>10, RuleDoesNotApply
      <3>2. EvaluateRule(b, q, rule, new, EffectiveDeadlines(b)).status = "NOT_APPLICABLE" <=>
              /\ rule.notApplicable /\ Confirmable(b, rule, EffectiveDeadlines(b))
              /\ WellShaped(rule, new) /\ InheritedTaint(rule, new) = {}
        BY <2>10, RuleDoesNotApply
      <3>3. EvaluateRule(b, q, rule, new, EffectiveDeadlines(b)).status = "NOT_APPLICABLE"
        BY <2>2, <2>4, <2>5, <2>8, <2>9, <3>1, <3>2
      <3>. QED BY <2>8, <2>9, <3>3
    <2>. QED BY <2>7, <2>8
  <1>. HIDE DEF kept
  <1>2. B = {}
    <2>1. B \in SUBSET DOMAIN a.rules
      OBVIOUS
    <2>. HIDE DEF B
    <2>. QED BY <1>1, <2>1, RuleInduction
  <1>. QED BY <1>2 DEF kept

\* An open gate stays open.
LEMMA GateCarriesOver ==
  ASSUME NEW a, DecisionInput(a), NEW b, DecisionInput(b), NEW p, NEW q, CarriesOver(a, p, b, q),
         AggregateEligibility(a, p) = "PASS"
  PROVE  AggregateEligibility(b, q) = "PASS"
  <1>. DEFINE before == Evaluations(a, p)
              after == Evaluations(b, q)
  <1>1. b.rules = a.rules /\ CriticalRules(b) = CriticalRules(a)
    BY DEF CarriesOver, CriticalRules, TopLevel
  <1>2. \A r \in CriticalRules(a) : after[r].status = before[r].status
    BY FavourCarriesOver, GateOpens
  <1>. HIDE DEF before, after
  <1>3. \A c \in Category : Coverage(b, after, c) = Coverage(a, before, c)
    <2>. SUFFICES ASSUME NEW c \in Category PROVE Coverage(b, after, c) = Coverage(a, before, c)
      OBVIOUS
    <2>. DEFINE rules == {r \in CriticalRules(a) : a.rules[r].type = c}
    <2>1. {after[r].status : r \in rules} = {before[r].status : r \in rules}
      BY <1>2
    <2>. QED BY <1>1, <2>1 DEF Coverage
  <1>4. {after[r].status : r \in CriticalRules(b)} = {before[r].status : r \in CriticalRules(a)}
    BY <1>1, <1>2
  <1>5. Gate(b, after) = Gate(a, before)
    BY <1>3, <1>4 DEF Gate
  <1>. QED BY <1>5 DEF AggregateEligibility, before, after

\* A rule that fails still does, when what failed it still does.
LEMMA FailCarriesOver ==
  ASSUME NEW a, DecisionInput(a), NEW b, DecisionInput(b), NEW p, NEW q, CarriesOver(a, p, b, q),
         \A r \in DOMAIN a.rules :
            LeafOf(a, p, a.rules[r]) = "FAIL" => LeafOf(b, q, a.rules[r]) = "FAIL"
  PROVE  \A r \in DOMAIN a.rules :
           Evaluations(a, p)[r].status = "FAIL" => Evaluations(b, q)[r].status = "FAIL"
  <1>. DEFINE before == Evaluations(a, p)
              after == Evaluations(b, q)
              kept(r) == before[r].status = "FAIL" => after[r].status = "FAIL"
              B == {r \in DOMAIN a.rules : ~ kept(r)}
  <1>0. b.rules = a.rules
    BY DEF CarriesOver
  <1>1. ASSUME NEW r \in B PROVE a.rules[r].children \cap B # {}
    <2>. DEFINE rule == a.rules[r]
                old == KidsOf(a, p, r)
                new == KidsOf(b, q, r)
    <2>1. /\ before[r] = EvaluateRule(a, p, rule, old, EffectiveDeadlines(a))
          /\ after[r] = EvaluateRule(b, q, rule, new, EffectiveDeadlines(b))
          /\ rule.children \subseteq DOMAIN a.rules
          /\ rule.notApplicable \in BOOLEAN
          /\ rule.notApplicable => old = {} /\ new = {}
          /\ old = {before[c] : c \in rule.children}
          /\ new = {after[c] : c \in rule.children}
      BY <1>0, BothRules
    <2>2. WellShaped(rule, old) <=> WellShaped(rule, new)
      BY <1>0, SameShape
    <2>. SUFFICES ASSUME \A c \in rule.children : kept(c), before[r].status = "FAIL"
                  PROVE  after[r].status = "FAIL"
      BY <2>1
    <2>. HIDE DEF before, after, old, new
    <2>3. Confirmable(a, rule, EffectiveDeadlines(a)) => Confirmable(b, rule, EffectiveDeadlines(b))
      BY DEF CarriesOver, Confirmable
    <2>4. RawOf(a, p, rule, old) = "FAIL" => RawOf(b, q, rule, new) = "FAIL"
      <3>1. CASE rule.op \notin Connectives
        <4>1. old = {} => new = {}
          BY <2>1
        <4>. QED BY <3>1, <4>1 DEF RawOf
      <3>2. CASE rule.op \in Connectives
        <4>1. Composite(rule.op, StatusesOf(old)) = "FAIL" =>
                Composite(rule.op, StatusesOf(new)) = "FAIL"
          <5>1. (\E k \in old : k.status = "FAIL") => \E k \in new : k.status = "FAIL"
            BY <2>1
          <5>2. (\A k \in old : k.status = "FAIL") => \A k \in new : k.status = "FAIL"
            BY <2>1
          <5>. QED BY <3>2, <5>1, <5>2, CompositeCarriesOver
        <4>. QED BY <3>2, <4>1 DEF RawOf
      <3>. QED BY <3>1, <3>2
    <2>. HIDE DEF rule
    <2>5. /\ ~ rule.notApplicable /\ Confirmable(a, rule, EffectiveDeadlines(a))
          /\ WellShaped(rule, old) /\ RawOf(a, p, rule, old) = "FAIL"
      BY <2>1, RuleFails
    <2>6. /\ ~ rule.notApplicable /\ Confirmable(b, rule, EffectiveDeadlines(b))
          /\ WellShaped(rule, new) /\ RawOf(b, q, rule, new) = "FAIL"
      BY <2>2, <2>3, <2>4, <2>5
    <2>7. EvaluateRule(b, q, rule, new, EffectiveDeadlines(b)).status = "FAIL"
      BY <2>1, <2>6, RuleFails
    <2>. QED BY <2>1, <2>7
  <1>. HIDE DEF kept
  <1>2. B = {}
    <2>1. B \in SUBSET DOMAIN a.rules
      OBVIOUS
    <2>. HIDE DEF B
    <2>. QED BY <1>1, <2>1, RuleInduction
  <1>. QED BY <1>2 DEF kept

\* A closed gate stays closed.
LEMMA ClosedGateCarriesOver ==
  ASSUME NEW a, DecisionInput(a), NEW b, DecisionInput(b), NEW p, NEW q, CarriesOver(a, p, b, q),
         \A r \in DOMAIN a.rules :
            LeafOf(a, p, a.rules[r]) = "FAIL" => LeafOf(b, q, a.rules[r]) = "FAIL",
         AggregateEligibility(a, p) = "FAIL"
  PROVE  AggregateEligibility(b, q) = "FAIL"
  <1>. DEFINE before == Evaluations(a, p)
              after == Evaluations(b, q)
  <1>1. CriticalRules(b) = CriticalRules(a) /\ CriticalRules(a) \subseteq DOMAIN a.rules
    BY DEF CarriesOver, CriticalRules, TopLevel
  <1>2. \A r \in DOMAIN a.rules : before[r].status = "FAIL" => after[r].status = "FAIL"
    BY FailCarriesOver
  <1>. HIDE DEF before, after
  <1>3. Gate(a, before) = "FAIL"
    BY DEF AggregateEligibility, before
  <1>4. PICK r \in CriticalRules(a) : before[r].status = "FAIL"
    BY <1>3 DEF Gate
  <1>5. Gate(b, after) = "FAIL"
    BY <1>1, <1>2, <1>4 DEF Gate
  <1>. QED BY <1>5 DEF AggregateEligibility, after

-----------------------------------------------------------------------------
(* What is learned *)

\* What a record states is kept, field by field.
Keeps(old, new, fields) == \A f \in fields : old[f] # None => new[f] = old[f]

CostFields == {"amount", "covered", "accepted"}

LearnedProject(old, new) ==
  /\ Keeps(old, new, DOMAIN old \ {"materials", "documented"})
  /\ old.documented \subseteq new.documented
  /\ \A k \in MaterialKind : Keeps(old.materials[k], new.materials[k], {"ready", "gap"})

LearnedRequirements(old, new) ==
  /\ Keeps(old, new, DOMAIN old \ {"materials"})
  /\ Keeps(old.materials, new.materials, MaterialKind)
  /\ old.unbounded # TRUE /\ old.maxAdaptation # None => new.unbounded # TRUE

LearnedItems(old, new) ==
  /\ DOMAIN new = DOMAIN old
  /\ \A i \in DOMAIN old : new[i].kind = old[i].kind /\ Keeps(old[i], new[i], CostFields)

LearnedRecord(old, new) ==
  /\ new.source = old.source /\ new.field = old.field /\ new.at = old.at
  /\ old.state = "REVIEWED" => new.state = "REVIEWED"

\* The next input says all that this one does, at the same time.
Learned(in, new) ==
  /\ new.now = in.now /\ new.mode = in.mode /\ new.status = in.status
  /\ new.deadlines = in.deadlines /\ new.rules = in.rules
  /\ new.conflictRules = in.conflictRules /\ new.submissions = in.submissions
  /\ new.benefits = in.benefits
  /\ Keeps(in.founder, new.founder, DOMAIN in.founder)
  /\ DOMAIN new.projects = DOMAIN in.projects
  /\ \A id \in DOMAIN in.projects :
        /\ LearnedProject(in.projects[id], new.projects[id])
        /\ Keeps(in.effort[id], new.effort[id], EffortCategory)
  /\ LearnedRequirements(in.requirements, new.requirements)
  /\ new.costs.complete = in.costs.complete /\ LearnedItems(in.costs.items, new.costs.items)
  /\ DOMAIN new.evidence = DOMAIN in.evidence
  /\ \A e \in DOMAIN in.evidence : LearnedRecord(in.evidence[e], new.evidence[e])

LEMMA ProjectKept ==
  ASSUME NEW project PROVE LearnedProject(project, project)
  BY DEF LearnedProject, Keeps

LEMMA RequirementsKept ==
  ASSUME NEW requirements PROVE LearnedRequirements(requirements, requirements)
  BY DEF LearnedRequirements, Keeps

LEMMA ItemsKept ==
  ASSUME NEW items PROVE LearnedItems(items, items)
  BY DEF LearnedItems, Keeps

LEMMA RecordKept ==
  ASSUME NEW record PROVE LearnedRecord(record, record)
  BY DEF LearnedRecord

LEMMA FieldsKept ==
  ASSUME NEW record, NEW fields PROVE Keeps(record, record, fields)
  BY DEF Keeps

\* An input that differs from this one in one field, which is learned.
OneField(in, new, g) == \A h \in DOMAIN in \ {g} : new[h] = in[h]

LEMMA OneFieldChanges ==
  ASSUME NEW in, DecisionInput(in), NEW g \in DOMAIN in, NEW v, NEW new, new = [in EXCEPT ![g] = v]
  PROVE  new[g] = v /\ OneField(in, new, g)
  BY FieldChanges DEF OneField

LEMMA OneFieldLearned ==
  ASSUME NEW in, DecisionInput(in), NEW new,
         NEW g \in {"founder", "projects", "effort", "requirements", "costs", "evidence"},
         OneField(in, new, g),
         g = "founder" => Keeps(in.founder, new.founder, DOMAIN in.founder),
         g = "projects" => /\ DOMAIN new.projects = DOMAIN in.projects
                           /\ \A id \in DOMAIN in.projects :
                                LearnedProject(in.projects[id], new.projects[id]),
         g = "effort" => \A id \in DOMAIN in.projects :
                            Keeps(in.effort[id], new.effort[id], EffortCategory),
         g = "requirements" => LearnedRequirements(in.requirements, new.requirements),
         g = "costs" => /\ new.costs.complete = in.costs.complete
                        /\ LearnedItems(in.costs.items, new.costs.items),
         g = "evidence" => /\ DOMAIN new.evidence = DOMAIN in.evidence
                           /\ \A e \in DOMAIN in.evidence :
                                LearnedRecord(in.evidence[e], new.evidence[e])
  PROVE  Learned(in, new)
  <1>1. DOMAIN in = {"mode", "now", "status", "deadlines", "founder", "projects", "rules",
                     "evidence", "conflictRules", "submissions", "requirements", "benefits",
                     "effort", "costs"}
    BY DEF DecisionInput
  <1>2. \A h \in DOMAIN in : h = g \/ new[h] = in[h]
    BY DEF OneField
  <1>3. /\ new.now = in.now /\ new.mode = in.mode /\ new.status = in.status
        /\ new.deadlines = in.deadlines /\ new.rules = in.rules
        /\ new.conflictRules = in.conflictRules /\ new.submissions = in.submissions
        /\ new.benefits = in.benefits
    BY <1>1, <1>2
  <1>4. Keeps(in.founder, new.founder, DOMAIN in.founder)
    BY <1>1, <1>2, FieldsKept
  <1>5. /\ DOMAIN new.projects = DOMAIN in.projects
        /\ \A id \in DOMAIN in.projects : LearnedProject(in.projects[id], new.projects[id])
    BY <1>1, <1>2, ProjectKept
  <1>6. \A id \in DOMAIN in.projects : Keeps(in.effort[id], new.effort[id], EffortCategory)
    BY <1>1, <1>2, FieldsKept
  <1>7. LearnedRequirements(in.requirements, new.requirements)
    BY <1>1, <1>2, RequirementsKept
  <1>8. new.costs.complete = in.costs.complete /\ LearnedItems(in.costs.items, new.costs.items)
    BY <1>1, <1>2, ItemsKept
  <1>9. /\ DOMAIN new.evidence = DOMAIN in.evidence
        /\ \A e \in DOMAIN in.evidence : LearnedRecord(in.evidence[e], new.evidence[e])
    BY <1>1, <1>2, RecordKept
  <1>. QED BY <1>3, <1>4, <1>5, <1>6, <1>7, <1>8, <1>9 DEF Learned

\* Each of the ways to learn leaves what is already stated as it is.
LEMMA FounderLearned ==
  ASSUME DecisionInput(input), NEW f \in DOMAIN input.founder, StateFounder(f)
  PROVE  Learned(input, input')
  <1>1. PICK v : NextRun([input EXCEPT !.founder[f] = v])
    BY DEF StateFounder
  <1>. DEFINE founder == [input.founder EXCEPT ![f] = v]
  <1>2. input.founder[f] = None
    BY DEF StateFounder
  <1>3. Keeps(input.founder, founder, DOMAIN input.founder)
    BY <1>2 DEF Keeps
  <1>4. input' = [input EXCEPT !.founder = founder] /\ "founder" \in DOMAIN input
    BY <1>1 DEF NextRun, DecisionInput
  <1>. HIDE DEF founder
  <1>5. input'.founder = founder /\ OneField(input, input', "founder")
    BY <1>4, OneFieldChanges
  <1>. QED BY <1>3, <1>5, OneFieldLearned

\* One project of several.
LEMMA OneProjectLearned ==
  ASSUME NEW in, DecisionInput(in), NEW id \in DOMAIN in.projects, NEW project,
         LearnedProject(in.projects[id], project), NEW new,
         new = [in EXCEPT !.projects = [in.projects EXCEPT ![id] = project]]
  PROVE  Learned(in, new)
  <1>. DEFINE projects == [in.projects EXCEPT ![id] = project]
  <1>1. /\ DOMAIN projects = DOMAIN in.projects
        /\ \A i \in DOMAIN in.projects : LearnedProject(in.projects[i], projects[i])
    <2>1. /\ DOMAIN projects = DOMAIN in.projects
          /\ \A i \in DOMAIN in.projects :
                projects[i] = IF i = id THEN project ELSE in.projects[i]
      OBVIOUS
    <2>. HIDE DEF projects
    <2>. QED BY <2>1, ProjectKept
  <1>2. "projects" \in DOMAIN in
    BY DEF DecisionInput
  <1>. HIDE DEF projects
  <1>3. new.projects = projects /\ OneField(in, new, "projects")
    BY <1>2, OneFieldChanges DEF projects
  <1>. QED BY <1>1, <1>3, OneFieldLearned

LEMMA ProjectLearned ==
  ASSUME DecisionInput(input), NEW id \in DOMAIN input.projects,
         NEW f \in DOMAIN input.projects[id] \cap DOMAIN Answers, StateProject(id, f)
  PROVE  Learned(input, input')
  <1>1. PICK v, proved :
          NextRun([input EXCEPT !.projects[id] =
            [input.projects[id] EXCEPT ![f] = v,
                                       !.documented = input.projects[id].documented \cup proved]])
    BY DEF StateProject
  <1>. DEFINE stated == [input.projects[id] EXCEPT ![f] = v]
              project == [stated EXCEPT !.documented = input.projects[id].documented \cup proved]
  <1>2. input.projects[id][f] = None /\ f \notin {"materials", "documented"}
    BY AnswerAssumption DEF StateProject
  <1>3. "documented" \in DOMAIN input.projects[id] /\ "materials" \in DOMAIN input.projects[id]
    BY DEF DecisionInput, ProjectProfile
  <1>4. \A g \in DOMAIN input.projects[id] \ {"documented", f} : project[g] = input.projects[id][g]
    OBVIOUS
  <1>5. project.documented = input.projects[id].documented \cup proved
    BY <1>3
  <1>6. input' = [input EXCEPT !.projects = [input.projects EXCEPT ![id] = project]]
    BY <1>1 DEF NextRun
  <1>. HIDE DEF project, stated
  <1>7. project.materials = input.projects[id].materials
    BY <1>2, <1>3, <1>4
  <1>8. LearnedProject(input.projects[id], project)
    BY <1>2, <1>4, <1>5, <1>7 DEF LearnedProject, Keeps
  <1>. QED BY <1>6, <1>8, OneProjectLearned

LEMMA MaterialLearned ==
  ASSUME DecisionInput(input), NEW id \in DOMAIN input.projects, NEW k \in MaterialKind,
         StateMaterial(id, k)
  PROVE  Learned(input, input')
  <1>1. PICK field \in {"ready", "gap"}, v \in BOOLEAN :
          /\ input.projects[id].materials[k][field] = None
          /\ NextRun([input EXCEPT !.projects[id].materials[k][field] = v])
    BY DEF StateMaterial
  <1>. DEFINE old == input.projects[id].materials
              material == [old[k] EXCEPT ![field] = v]
              materials == [old EXCEPT ![k] = material]
              project == [input.projects[id] EXCEPT !.materials = materials]
  <1>2. /\ DOMAIN old = MaterialKind /\ \A j \in MaterialKind : DOMAIN old[j] = {"ready", "gap"}
        /\ "documented" \in DOMAIN input.projects[id] /\ "materials" \in DOMAIN input.projects[id]
    BY DEF DecisionInput, ProjectProfile
  <1>3. Keeps(old[k], material, {"ready", "gap"})
    BY <1>1, <1>2 DEF Keeps
  <1>4. input' = [input EXCEPT !.projects = [input.projects EXCEPT ![id] = project]]
    BY <1>1 DEF NextRun
  <1>. HIDE DEF material
  <1>5. \A j \in MaterialKind : materials[j] = IF j = k THEN material ELSE old[j]
    BY <1>2
  <1>. HIDE DEF materials
  <1>6. /\ project.materials = materials /\ project.documented = input.projects[id].documented
        /\ \A g \in DOMAIN input.projects[id] \ {"materials"} : project[g] = input.projects[id][g]
    BY <1>2
  <1>. HIDE DEF project
  <1>7. \A j \in MaterialKind : Keeps(old[j], materials[j], {"ready", "gap"})
    BY <1>3, <1>5, FieldsKept
  <1>8. LearnedProject(input.projects[id], project)
    BY <1>6, <1>7 DEF LearnedProject, Keeps
  <1>. QED BY <1>4, <1>8, OneProjectLearned

LEMMA EffortLearned ==
  ASSUME DecisionInput(input), NEW id \in DOMAIN input.projects, NEW c \in EffortCategory,
         StateEffort(id, c)
  PROVE  Learned(input, input')
  <1>1. PICK v : NextRun([input EXCEPT !.effort[id][c] = v])
    BY DEF StateEffort
  <1>. DEFINE hours == [input.effort[id] EXCEPT ![c] = v]
              effort == [input.effort EXCEPT ![id] = hours]
  <1>2. input.effort[id][c] = None
    BY DEF StateEffort
  <1>3. /\ DOMAIN input.effort[id] = EffortCategory
        /\ DOMAIN input.projects \subseteq DOMAIN input.effort
    BY DEF DecisionInput
  <1>4. Keeps(input.effort[id], hours, EffortCategory)
    BY <1>2, <1>3 DEF Keeps
  <1>5. input' = [input EXCEPT !.effort = effort] /\ "effort" \in DOMAIN input
    BY <1>1 DEF NextRun, DecisionInput
  <1>. HIDE DEF hours
  <1>6. \A i \in DOMAIN input.projects : effort[i] = IF i = id THEN hours ELSE input.effort[i]
    BY <1>3
  <1>. HIDE DEF effort
  <1>7. \A i \in DOMAIN input.projects : Keeps(input.effort[i], effort[i], EffortCategory)
    BY <1>4, <1>6, FieldsKept
  <1>8. input'.effort = effort /\ OneField(input, input', "effort")
    BY <1>5, OneFieldChanges
  <1>. QED BY <1>7, <1>8, OneFieldLearned

LEMMA RequirementLearned ==
  ASSUME DecisionInput(input), NEW f \in DOMAIN input.requirements \cap DOMAIN Answers,
         ReadRequirement(f)
  PROVE  Learned(input, input')
  <1>1. PICK v :
          LET in == [input EXCEPT !.requirements[f] = v]
          IN  /\ ~ (in.requirements.unbounded = TRUE /\ in.requirements.maxAdaptation # None)
              /\ NextRun(in)
    BY DEF ReadRequirement
  <1>. DEFINE old == input.requirements
              requirements == [old EXCEPT ![f] = v]
  <1>2. old[f] = None /\ f # "materials"
    BY AnswerAssumption DEF ReadRequirement
  <1>3. {"materials", "unbounded", "maxAdaptation"} \subseteq DOMAIN old
    BY DEF DecisionInput, MatchingRequirements
  <1>4. input' = [input EXCEPT !.requirements = requirements] /\ "requirements" \in DOMAIN input
    BY <1>1 DEF NextRun, DecisionInput
  <1>5. \A g \in DOMAIN old \ {f} : requirements[g] = old[g]
    OBVIOUS
  <1>6. ~ (input'.requirements.unbounded = TRUE /\ input'.requirements.maxAdaptation # None)
    BY <1>1 DEF NextRun
  <1>. HIDE DEF requirements
  <1>7. input'.requirements = requirements /\ OneField(input, input', "requirements")
    BY <1>4, OneFieldChanges
  <1>8. Keeps(old, requirements, DOMAIN old \ {"materials"}) /\ requirements.materials = old.materials
    BY <1>2, <1>3, <1>5 DEF Keeps
  <1>9. old.unbounded # TRUE /\ old.maxAdaptation # None => requirements.unbounded # TRUE
    BY <1>3, <1>6, <1>7, <1>8 DEF Keeps
  <1>10. LearnedRequirements(old, requirements)
    BY <1>8, <1>9, FieldsKept DEF LearnedRequirements
  <1>. QED BY <1>7, <1>10, OneFieldLearned

LEMMA MaterialReadLearned ==
  ASSUME DecisionInput(input), NEW k \in MaterialKind, ReadMaterial(k)
  PROVE  Learned(input, input')
  <1>1. PICK v : NextRun([input EXCEPT !.requirements.materials[k] = v])
    BY DEF ReadMaterial
  <1>. DEFINE old == input.requirements
              materials == [old.materials EXCEPT ![k] = v]
              requirements == [old EXCEPT !.materials = materials]
  <1>2. old.materials[k] = None
    BY DEF ReadMaterial
  <1>3. DOMAIN old.materials = MaterialKind
        /\ {"materials", "unbounded", "maxAdaptation"} \subseteq DOMAIN old
    BY DEF DecisionInput, MatchingRequirements
  <1>4. Keeps(old.materials, materials, MaterialKind)
    BY <1>2, <1>3 DEF Keeps
  <1>5. input' = [input EXCEPT !.requirements = requirements] /\ "requirements" \in DOMAIN input
    BY <1>1 DEF NextRun, DecisionInput
  <1>. HIDE DEF materials
  <1>6. /\ requirements.materials = materials
        /\ \A g \in DOMAIN old \ {"materials"} : requirements[g] = old[g]
    BY <1>3
  <1>. HIDE DEF requirements
  <1>7. LearnedRequirements(old, requirements)
    BY <1>3, <1>4, <1>6 DEF LearnedRequirements, Keeps
  <1>8. input'.requirements = requirements /\ OneField(input, input', "requirements")
    BY <1>5, OneFieldChanges
  <1>. QED BY <1>7, <1>8, OneFieldLearned

LEMMA CostLearned ==
  ASSUME DecisionInput(input), NEW i \in DOMAIN input.costs.items, NEW f \in CostFields,
         StateCost(i, f)
  PROVE  Learned(input, input')
  <1>1. PICK v : NextRun([input EXCEPT !.costs.items[i][f] = v])
    BY DEF StateCost
  <1>. DEFINE old == input.costs.items
              item == [old[i] EXCEPT ![f] = v]
              items == [old EXCEPT ![i] = item]
              costs == [input.costs EXCEPT !.items = items]
  <1>2. old[i][f] = None
    BY DEF StateCost
  <1>3. /\ DOMAIN input.costs = {"complete", "items"}
        /\ DOMAIN old[i] = {"kind", "amount", "covered", "accepted"}
    BY DEF DecisionInput
  <1>4. item.kind = old[i].kind /\ Keeps(old[i], item, CostFields)
    BY <1>2, <1>3 DEF Keeps, CostFields
  <1>5. input' = [input EXCEPT !.costs = costs] /\ "costs" \in DOMAIN input
    BY <1>1 DEF NextRun, DecisionInput
  <1>. HIDE DEF item
  <1>6. /\ DOMAIN items = DOMAIN old
        /\ \A j \in DOMAIN old : items[j] = IF j = i THEN item ELSE old[j]
    OBVIOUS
  <1>. HIDE DEF items
  <1>7. costs.items = items /\ costs.complete = input.costs.complete
    BY <1>3
  <1>. HIDE DEF costs
  <1>8. LearnedItems(old, items)
    BY <1>4, <1>6, FieldsKept DEF LearnedItems
  <1>9. input'.costs = costs /\ OneField(input, input', "costs")
    BY <1>5, OneFieldChanges
  <1>. QED BY <1>7, <1>8, <1>9, OneFieldLearned

LEMMA RecordLearned ==
  ASSUME DecisionInput(input), NEW e \in DOMAIN input.evidence, Review(e)
  PROVE  Learned(input, input')
  <1>. DEFINE record == [input.evidence[e] EXCEPT !.state = "REVIEWED"]
              evidence == [input.evidence EXCEPT ![e] = record]
  <1>1. input' = [input EXCEPT !.evidence = evidence] /\ "evidence" \in DOMAIN input
    BY DEF Review, NextRun, DecisionInput
  <1>2. LearnedRecord(input.evidence[e], record)
    BY DEF DecisionInput, EvidenceRecord, LearnedRecord
  <1>. HIDE DEF record
  <1>3. /\ DOMAIN evidence = DOMAIN input.evidence
        /\ \A x \in DOMAIN input.evidence :
              evidence[x] = IF x = e THEN record ELSE input.evidence[x]
    OBVIOUS
  <1>. HIDE DEF evidence
  <1>4. input'.evidence = evidence /\ OneField(input, input', "evidence")
    BY <1>1, OneFieldChanges
  <1>. QED BY <1>2, <1>3, <1>4, RecordKept, OneFieldLearned

LEMMA LearnIsLearned ==
  ASSUME DecisionInput(input), Learn
  PROVE  Learned(input, input')
  BY FounderLearned, ProjectLearned, MaterialLearned, EffortLearned, RequirementLearned,
     MaterialReadLearned, CostLearned, RecordLearned DEF Learn, CostFields

-----------------------------------------------------------------------------
(* What time does *)

\* The same input, some time later.
Aged(in, later) ==
  /\ in.now <= later.now
  /\ later.mode = in.mode /\ later.status = in.status /\ later.deadlines = in.deadlines
  /\ later.founder = in.founder /\ later.projects = in.projects /\ later.rules = in.rules
  /\ later.evidence = in.evidence /\ later.conflictRules = in.conflictRules
  /\ later.submissions = in.submissions /\ later.requirements = in.requirements
  /\ later.benefits = in.benefits /\ later.effort = in.effort /\ later.costs = in.costs

\* The bounds of a decision are those of its rules.
LEMMA SameDeadlines ==
  ASSUME NEW a, NEW b, b.rules = a.rules, b.deadlines = a.deadlines
  PROVE  EffectiveDeadlines(b) = EffectiveDeadlines(a)
  BY DEF EffectiveDeadlines

\* Records live no longer as a deadline comes near.
LEMMA LifeShrinks ==
  ASSUME NEW deadlines, \A d \in deadlines : d.at \in Int,
         NEW now \in Int, NEW then \in Int, now <= then
  PROVE  Ttl(deadlines, then) <= Ttl(deadlines, now)
  <1>1. (\E d \in deadlines : d.at - now < NearWindow)
          => \E d \in deadlines : d.at - then < NearWindow
    <2>. SUFFICES ASSUME NEW d \in deadlines, d.at - now < NearWindow
                  PROVE  d.at - then < NearWindow
      OBVIOUS
    <2>. QED BY TtlAssumption
  <1>. QED BY <1>1, TtlAssumption DEF Ttl

\* A record only ages.
LEMMA RecordsAge ==
  ASSUME NEW deadlines, \A d \in deadlines : d.at \in Int,
         NEW now \in Int, NEW then \in Int, now <= then, NEW at \in Int, at <= now
  PROVE  /\ Freshness(at, now, deadlines) \in {"FRESH", "STALE"}
         /\ Freshness(at, then, deadlines) \in {"FRESH", "STALE"}
         /\ Freshness(at, then, deadlines) = "FRESH" => Freshness(at, now, deadlines) = "FRESH"
  <1>1. Ttl(deadlines, then) <= Ttl(deadlines, now)
    BY LifeShrinks
  <1>2. Ttl(deadlines, then) \in Int /\ Ttl(deadlines, now) \in Int
    BY TtlAssumption DEF Ttl
  <1>. HIDE DEF Ttl
  <1>. QED BY <1>1, <1>2 DEF Freshness

\* An evidence issue that age has not made is there from the start.
LEMMA IssuesAge ==
  ASSUME NEW in, DecisionInput(in), NEW later, DecisionInput(later), Aged(in, later), Retrieved(in),
         NEW rule
  PROVE  /\ EvidenceIssues(later, rule, EffectiveDeadlines(later)) = {}
              => EvidenceIssues(in, rule, EffectiveDeadlines(in)) = {}
         /\ "STALE_EVIDENCE" \in EvidenceIssues(in, rule, EffectiveDeadlines(in))
              => "STALE_EVIDENCE" \in EvidenceIssues(later, rule, EffectiveDeadlines(later))
  <1>. DEFINE deadlines == EffectiveDeadlines(in)
              old(e) == IssuesOf(in, rule, e, deadlines)
              new(e) == IssuesOf(later, rule, e, deadlines)
  <1>1. EffectiveDeadlines(later) = deadlines
    BY SameDeadlines DEF Aged
  <1>2. \A d \in deadlines : d.at \in Int
    BY EffectiveFinite
  <1>3. /\ in.now \in Int /\ later.now \in Int /\ in.now <= later.now
        /\ later.evidence = in.evidence /\ later.mode = in.mode
    BY DEF DecisionInput, Aged
  <1>. HIDE DEF deadlines
  <1>4. ASSUME NEW e \in rule.evidence
        PROVE  /\ new(e) = {} => old(e) = {}
               /\ "STALE_EVIDENCE" \in old(e) => "STALE_EVIDENCE" \in new(e)
    <2>1. CASE e \notin DOMAIN in.evidence
      BY <1>3, <2>1 DEF IssuesOf
    <2>2. CASE e \in DOMAIN in.evidence
      <3>. DEFINE was == Freshness(in.evidence[e].at, in.now, deadlines)
                  is == Freshness(in.evidence[e].at, later.now, deadlines)
      <3>1. in.evidence[e].at \in Int /\ in.evidence[e].at <= in.now
        BY <2>2 DEF DecisionInput, EvidenceRecord, Retrieved
      <3>2. was \in {"FRESH", "STALE"} /\ is \in {"FRESH", "STALE"} /\ (is = "FRESH" => was = "FRESH")
        BY <1>2, <1>3, <3>1, RecordsAge
      <3>. HIDE DEF was, is
      <3>3. "STALE_EVIDENCE" \in new(e) <=> is = "STALE"
        BY <1>3, <2>2 DEF IssuesOf, is
      <3>4. "STALE_EVIDENCE" \in old(e) <=> was = "STALE"
        BY <2>2 DEF IssuesOf, was
      <3>5. "UNVERIFIED_EVIDENCE" \in new(e) <=> "UNVERIFIED_EVIDENCE" \in old(e)
        BY <1>3, <2>2, <3>2 DEF IssuesOf, was, is
      <3>6. old(e) \subseteq {"UNVERIFIED_EVIDENCE", "STALE_EVIDENCE"}
        BY <2>2 DEF IssuesOf
      <3>. HIDE DEF old, new
      <3>. QED BY <3>2, <3>3, <3>4, <3>5, <3>6
    <2>. QED BY <2>1, <2>2
  <1>5. EvidenceIssues(in, rule, deadlines)
          = IF rule.evidence = {} THEN {"MISSING_EVIDENCE"} ELSE UNION {old(e) : e \in rule.evidence}
    BY DEF EvidenceIssues
  <1>6. EvidenceIssues(later, rule, deadlines)
          = IF rule.evidence = {} THEN {"MISSING_EVIDENCE"} ELSE UNION {new(e) : e \in rule.evidence}
    BY DEF EvidenceIssues
  <1>. HIDE DEF old, new
  <1>7. EvidenceIssues(later, rule, deadlines) = {} => EvidenceIssues(in, rule, deadlines) = {}
    BY <1>4, <1>5, <1>6
  <1>8. "STALE_EVIDENCE" \in EvidenceIssues(in, rule, deadlines)
          => "STALE_EVIDENCE" \in EvidenceIssues(later, rule, deadlines)
    BY <1>4, <1>5, <1>6
  <1>. QED BY <1>1, <1>7, <1>8 DEF deadlines

\* Once entry is open, a rule that passes has passed since.
LEMMA LeavesAge ==
  ASSUME NEW in, DecisionInput(in), NEW later, DecisionInput(later), Aged(in, later), Opened(in),
         NEW p, NEW r \in DOMAIN in.rules, LeafOf(later, p, in.rules[r]) = "PASS"
  PROVE  LeafOf(in, p, in.rules[r]) = "PASS"
  <1>. DEFINE rule == in.rules[r]
              timely == /\ rule.subject \in AllowedSubjects[rule.type]
                        /\ rule.subject = "evaluated_at" /\ rule.op = "DATE_BETWEEN"
  <1>1. later.founder = in.founder /\ in.now <= later.now
    BY DEF Aged
  <1>2. CASE ~ timely
    <2>1. Resolve(later, p, rule) = Resolve(in, p, rule)
      BY <1>1, <1>2 DEF Resolve
    <2>. QED BY <2>1 DEF LeafOf
  <1>3. CASE timely
    <2>1. /\ Resolve(later, p, rule).value = [kind |-> "instant", value |-> later.now]
          /\ Resolve(in, p, rule).value = [kind |-> "instant", value |-> in.now]
      BY <1>3 DEF Resolve
    <2>2. RuleCandidate(rule, DOMAIN in.rules)
      BY DEF DecisionInput
    <2>3. rule.type = "DEADLINE"
      BY <1>3, <2>2 DEF RuleCandidate, Category, AllowedSubjects
    <2>4. in.now \in Int /\ later.now \in Int
      BY DEF DecisionInput
    <2>. DEFINE ops == rule.operands
                was == [kind |-> "instant", value |-> in.now]
                is == [kind |-> "instant", value |-> later.now]
    <2>5. Leaf("DATE_BETWEEN", is, ops) = "PASS" /\ is # None
      BY <1>3, <2>1 DEF LeafOf, Leaf
    <2>6. /\ ops # <<>> /\ ~ \E i \in DOMAIN ops : ops[i].kind # "instant"
          /\ Comparable("DATE_BETWEEN", "instant", ops)
          /\ Matches("DATE_BETWEEN", later.now, ops)
      BY <2>5 DEF Leaf, Verdict
    <2>7. Len(ops) = 2
      BY <2>6 DEF Comparable
    <2>8. ops[1].value <= later.now /\ later.now <= ops[2].value
      BY <2>6 DEF Matches
    <2>9. ops[1].value <= in.now
      BY <2>3, <2>7 DEF Opened
    <2>10. \A i \in {1, 2} : ops[i].value \in Int
      <3>1. {1, 2} \subseteq DOMAIN ops /\ {1, 2} \subseteq 1..Len(ops)
        <4>1. 1..Len(ops) = {1, 2}
          BY <2>7
        <4>. QED BY <2>2, <2>7, <4>1 DEF RuleCandidate
      <3>. QED BY <2>2, <2>6, <3>1 DEF RuleCandidate
    <2>11. ops[1].value <= in.now /\ in.now <= ops[2].value
      BY <1>1, <2>4, <2>8, <2>9, <2>10
    <2>12. Matches("DATE_BETWEEN", in.now, ops)
      BY <2>11 DEF Matches
    <2>13. was # None
      BY <2>4, AbsentAssumption
    <2>14. Leaf("DATE_BETWEEN", was, ops) = "PASS"
      BY <2>6, <2>12, <2>13 DEF Leaf, Verdict
    <2>. QED BY <1>3, <2>1, <2>14 DEF LeafOf
  <1>. QED BY <1>2, <1>3

\* An open gate was open before.
LEMMA GateAges ==
  ASSUME NEW in, DecisionInput(in), NEW later, DecisionInput(later), Aged(in, later),
         Opened(in), Retrieved(in), NEW p, AggregateEligibility(later, p) = "PASS"
  PROVE  AggregateEligibility(in, p) = "PASS"
  <1>1. later.rules = in.rules
    BY DEF Aged
  <1>2. \A r \in DOMAIN later.rules :
          /\ EvidenceIssues(later, later.rules[r], EffectiveDeadlines(later)) = {}
               => EvidenceIssues(in, later.rules[r], EffectiveDeadlines(in)) = {}
          /\ "STALE_EVIDENCE" \in EvidenceIssues(in, later.rules[r], EffectiveDeadlines(in))
               => "STALE_EVIDENCE" \in EvidenceIssues(later, later.rules[r], EffectiveDeadlines(later))
    BY IssuesAge
  <1>3. \A r \in DOMAIN later.rules :
          LeafOf(later, p, later.rules[r]) = "PASS" => LeafOf(in, p, later.rules[r]) = "PASS"
    BY <1>1, LeavesAge
  <1>4. CarriesOver(later, p, in, p)
    BY <1>1, <1>2, <1>3 DEF CarriesOver
  <1>. QED BY <1>4, GateCarriesOver

\* What is checked of a conflict, and in which scopes.
LEMMA AssessIs ==
  ASSUME NEW in, NEW id, NEW project, NEW scope, NEW category
  PROVE  Assess(in, id, project, scope, category) \in {"OPEN", "VIOLATED", "CLEAR"}
  <1>1. \A known, violated : Check(known, violated) \in {"OPEN", "VIOLATED", "CLEAR"}
    BY DEF Check
  <1>2. \A rule, peers :
          Violation(rule, category, id, project, peers) \in {"OPEN", "VIOLATED", "CLEAR"}
    BY <1>1 DEF Violation
  <1>. QED BY <1>2 DEF Assess

LEMMA NoConflict ==
  ASSUME NEW in, NEW id, NEW project
  PROVE  AssessConflicts(in, id, project) = "NO_CONFLICT_DETECTED_IN_CHECKED_RULES" <=>
           \A scope \in Scopes(in), category \in ConflictCategory :
              Assess(in, id, project, scope, category) = "CLEAR"
  <1>. DEFINE results == {Assess(in, id, project, scope, category) :
                             scope \in Scopes(in), category \in ConflictCategory}
  <1>1. AssessConflicts(in, id, project) = "NO_CONFLICT_DETECTED_IN_CHECKED_RULES" <=>
          "VIOLATED" \notin results /\ "OPEN" \notin results
    BY DEF AssessConflicts
  <1>2. \A scope \in Scopes(in), category \in ConflictCategory :
          /\ Assess(in, id, project, scope, category) \in results
          /\ Assess(in, id, project, scope, category) \in {"OPEN", "VIOLATED", "CLEAR"}
    BY AssessIs
  <1>3. \A x \in results : \E scope \in Scopes(in), category \in ConflictCategory :
          x = Assess(in, id, project, scope, category)
    OBVIOUS
  <1>. HIDE DEF results
  <1>. QED BY <1>1, <1>2, <1>3

LEMMA ScopeDeadlines ==
  ASSUME NEW in, DecisionInput(in), NEW scope \in Scopes(in)
  PROVE  \A d \in scope.deadlines : d.at \in Int
  BY EffectiveFinite DEF Scopes

\* What shows no conflict showed none before.
LEMMA ConflictsAge ==
  ASSUME NEW in, DecisionInput(in), NEW later, DecisionInput(later), Aged(in, later),
         Retrieved(in), NEW id, NEW p,
         AssessConflicts(later, id, p) = "NO_CONFLICT_DETECTED_IN_CHECKED_RULES"
  PROVE  AssessConflicts(in, id, p) = "NO_CONFLICT_DETECTED_IN_CHECKED_RULES"
  <1>1. Scopes(later) = Scopes(in)
    <2>1. EffectiveDeadlines(later) = EffectiveDeadlines(in)
      BY SameDeadlines DEF Aged
    <2>. QED BY <2>1 DEF Scopes, Aged
  <1>2. later.evidence = in.evidence /\ in.now \in Int /\ later.now \in Int /\ in.now <= later.now
    BY DEF Aged, DecisionInput
  <1>3. ASSUME NEW scope \in Scopes(in), NEW category \in ConflictCategory
        PROVE  Assess(in, id, p, scope, category) = "CLEAR"
    <2>1. Assess(later, id, p, scope, category) = "CLEAR"
      BY <1>1, NoConflict
    <2>2. \A e : Reviewed(later, category, e, scope.deadlines)
                   => Reviewed(in, category, e, scope.deadlines)
      <3>. SUFFICES ASSUME NEW e, Reviewed(later, category, e, scope.deadlines)
                    PROVE  Reviewed(in, category, e, scope.deadlines)
        OBVIOUS
      <3>1. e \in DOMAIN in.evidence
        BY <1>2 DEF Reviewed
      <3>2. in.evidence[e].at \in Int /\ in.evidence[e].at <= in.now
        BY <3>1 DEF DecisionInput, EvidenceRecord, Retrieved
      <3>3. \A d \in scope.deadlines : d.at \in Int
        BY ScopeDeadlines
      <3>4. Freshness(in.evidence[e].at, later.now, scope.deadlines) = "FRESH"
              => Freshness(in.evidence[e].at, in.now, scope.deadlines) = "FRESH"
        BY <1>2, <3>2, <3>3, RecordsAge
      <3>. QED BY <1>2, <3>4 DEF Reviewed
    <2>3. Applicable(later, scope, category)
      BY <2>1 DEF Assess
    <2>4. Applicable(in, scope, category)
      BY <2>2, <2>3 DEF Applicable
    <2>. QED BY <2>1, <2>3, <2>4 DEF Assess
  <1>. QED BY <1>3, NoConflict

\* Hours only run out.
LEMMA HoursRunOut ==
  ASSUME NEW deadlines, IsFiniteSet(deadlines), deadlines \subseteq [exact : BOOLEAN, at : Int],
         NEW now \in Int, NEW then \in Int, now <= then, RemainingHours(deadlines, then) # None
  PROVE  /\ RemainingHours(deadlines, now) \in Int /\ RemainingHours(deadlines, then) \in Int
         /\ RemainingHours(deadlines, then) <= RemainingHours(deadlines, now)
  <1>. DEFINE f == [d \in deadlines |-> d.at]
              ats == {d.at : d \in deadlines}
              m == Min(ats)
              was == HoursPerUnit * (m - now)
              is == HoursPerUnit * (m - then)
  <1>1. /\ deadlines # {} /\ RemainingHours(deadlines, now) = Max({0, was})
        /\ RemainingHours(deadlines, then) = Max({0, is})
    BY DEF RemainingHours
  <1>2. IsFiniteSet(ats) /\ ats \in SUBSET Int /\ ats # {}
    <2>1. DOMAIN f = deadlines /\ {f[d] : d \in deadlines} = ats
      OBVIOUS
    <2>. HIDE DEF f
    <2>2. IsFiniteSet({f[d] : d \in deadlines})
      BY <2>1, FiniteImage
    <2>3. ats \in SUBSET Int /\ ats # {}
      BY <1>1
    <2>. HIDE DEF ats
    <2>. QED BY <2>1, <2>2, <2>3
  <1>3. m \in Int
    <2>. HIDE DEF ats
    <2>1. \E x \in ats : \A y \in ats : x <= y
      BY <1>2, LeastOfFinite
    <2>. QED BY <1>2, <2>1 DEF Min
  <1>. HIDE DEF m
  <1>4. was \in Int /\ is \in Int /\ is <= was
    <2>1. m - now \in Int /\ m - then \in Int /\ m - then <= m - now
      BY <1>3
    <2>. QED BY <2>1, HoursAssumption
  <1>. HIDE DEF was, is
  <1>5. /\ Max({0, was}) \in {0, was} /\ Max({0, was}) >= 0 /\ Max({0, was}) >= was
        /\ Max({0, is}) \in {0, is}
    <2>1. \A i \in Int : Max({0, i}) \in {0, i} /\ Max({0, i}) >= 0 /\ Max({0, i}) >= i
      <3>. SUFFICES ASSUME NEW i \in Int
                    PROVE  Max({0, i}) \in {0, i} /\ Max({0, i}) >= 0 /\ Max({0, i}) >= i
        OBVIOUS
      <3>1. \E x \in {0, i} : \A y \in {0, i} : x >= y
        OBVIOUS
      <3>. QED BY <3>1 DEF Max
    <2>. QED BY <1>4, <2>1
  <1>. QED BY <1>1, <1>4, <1>5

\* Capacity suffices when the hours a project takes are known and are there.
LEMMA CapacityIs ==
  ASSUME NEW in, DecisionInput(in), NEW id \in DOMAIN in.projects
  PROVE  AssessCapacity(in, id, in.projects[id]) = "SUFFICIENT" <=>
           /\ in.founder.available_hours # None
           /\ RemainingHours(EffectiveDeadlines(in), in.now) # None
           /\ EffortTotal(in, id, in.projects[id]) # None
           /\ in.founder.available_hours >= EffortTotal(in, id, in.projects[id])
           /\ RemainingHours(EffectiveDeadlines(in), in.now)
                >= EffortTotal(in, id, in.projects[id])
  <1>. DEFINE hours == EffortTotal(in, id, in.projects[id])
              available == in.founder.available_hours
              remaining == RemainingHours(EffectiveDeadlines(in), in.now)
  <1>1. AssessCapacity(in, id, in.projects[id]) = "SUFFICIENT" <=>
          /\ available # None /\ remaining # None /\ hours # None
          /\ Min({available, remaining}) >= hours
    BY DEF AssessCapacity
  <1>2. hours # None => hours \in Nat
    BY EffortIsNumber
  <1>3. in.now \in Int /\ (available # None => available \in Nat)
    BY DEF DecisionInput, FounderProfile, Optional
  <1>4. remaining # None => remaining \in Int
    BY <1>3, EffectiveFinite, HoursRunOut
  <1>. HIDE DEF hours, available, remaining
  <1>5. available # None /\ remaining # None
          => /\ Min({available, remaining}) <= available /\ Min({available, remaining}) <= remaining
             /\ Min({available, remaining}) \in {available, remaining}
    <2>. SUFFICES ASSUME available # None, remaining # None
                  PROVE  /\ Min({available, remaining}) <= available
                         /\ Min({available, remaining}) <= remaining
                         /\ Min({available, remaining}) \in {available, remaining}
      OBVIOUS
    <2>1. \E x \in {available, remaining} : \A y \in {available, remaining} : x <= y
      BY <1>3, <1>4
    <2>. QED BY <2>1 DEF Min
  <1>6. /\ available # None /\ remaining # None /\ hours # None
          => (Min({available, remaining}) >= hours <=> available >= hours /\ remaining >= hours)
    BY <1>2, <1>3, <1>4, <1>5
  <1>. QED BY <1>1, <1>6 DEF hours, available, remaining

\* Capacity that suffices did before.
LEMMA CapacityAges ==
  ASSUME NEW in, DecisionInput(in), NEW later, DecisionInput(later), Aged(in, later),
         NEW id \in DOMAIN in.projects, AssessCapacity(later, id, later.projects[id]) = "SUFFICIENT"
  PROVE  AssessCapacity(in, id, in.projects[id]) = "SUFFICIENT"
  <1>. DEFINE was == RemainingHours(EffectiveDeadlines(in), in.now)
              is == RemainingHours(EffectiveDeadlines(later), later.now)
              hours == EffortTotal(in, id, in.projects[id])
  <1>1. /\ later.projects = in.projects /\ later.founder = in.founder /\ later.effort = in.effort
        /\ EffectiveDeadlines(later) = EffectiveDeadlines(in)
    BY SameDeadlines DEF Aged
  <1>2. EffortTotal(later, id, later.projects[id]) = hours
    BY <1>1 DEF EffortTotal
  <1>3. /\ in.founder.available_hours # None /\ is # None /\ hours # None
        /\ in.founder.available_hours >= hours /\ is >= hours
    BY <1>1, <1>2, CapacityIs
  <1>4. in.now \in Int /\ later.now \in Int /\ in.now <= later.now
    BY DEF Aged, DecisionInput
  <1>5. was \in Int /\ is \in Int /\ is <= was
    BY <1>1, <1>3, <1>4, EffectiveFinite, HoursRunOut
  <1>6. hours \in Nat
    BY <1>3, EffortIsNumber
  <1>. HIDE DEF was, is, hours
  <1>7. was # None /\ was >= hours
    BY <1>3, <1>5, <1>6, AbsentAssumption
  <1>. QED BY <1>3, <1>7, CapacityIs DEF was, hours

\* What is not a matter of time.
LEMMA TimelessFactors ==
  ASSUME NEW in, NEW later, Aged(in, later), NEW p
  PROVE  /\ Factors(later, p) = Factors(in, p)
         /\ AssessReadiness(later, p) = AssessReadiness(in, p)
         /\ AssessAffordability(later) = AssessAffordability(in)
  <1>1. AssessReadiness(later, p) = AssessReadiness(in, p)
    BY DEF Aged, AssessReadiness
  <1>2. Factors(later, p) = Factors(in, p)
    BY <1>1 DEF Aged, Factors
  <1>3. AssessAffordability(later) = AssessAffordability(in)
    BY DEF Aged, AssessAffordability
  <1>. QED BY <1>1, <1>2, <1>3

\* A candidate that is acted on was acted on before, in the same way.
LEMMA CandidatesAge ==
  ASSUME NEW in, DecisionInput(in), NEW later, DecisionInput(later), Aged(in, later),
         Opened(in), Retrieved(in), NEW id \in DOMAIN in.projects, Candidate(later, id) \in Acting
  PROVE  Candidate(in, id) = Candidate(later, id)
  <1>. DEFINE p == in.projects[id]
  <1>1. /\ later.projects = in.projects /\ later.status = in.status
        /\ later.deadlines = in.deadlines /\ in.now <= later.now
        /\ later.founder = in.founder /\ later.benefits = in.benefits
        /\ in.now \in Int /\ later.now \in Int
    BY DEF Aged, DecisionInput
  <1>2. /\ AggregateEligibility(later, p) = "PASS"
        /\ AssessConflicts(later, id, p) = "NO_CONFLICT_DETECTED_IN_CHECKED_RULES"
        /\ AssessCapacity(later, id, p) = "SUFFICIENT"
        /\ ~ Closed(later)
    BY <1>1, ActingNeeds DEF ActingTakes
  <1>3. AggregateEligibility(in, p) = "PASS"
    BY <1>2, GateAges
  <1>4. AssessConflicts(in, id, p) = "NO_CONFLICT_DETECTED_IN_CHECKED_RULES"
    BY <1>2, ConflictsAge
  <1>5. AssessCapacity(in, id, p) = "SUFFICIENT"
    BY <1>1, <1>2, CapacityAges
  <1>6. ~ Closed(in)
    <2>. SUFFICES ASSUME NEW d \in in.deadlines, d.exact, d.at <= in.now
                  PROVE  d.exact /\ d.at <= later.now
      BY <1>1, <1>2 DEF Closed
    <2>1. d.at \in Int
      BY DEF DecisionInput
    <2>. QED BY <1>1, <2>1
  <1>7. /\ Factors(later, p) = Factors(in, p) /\ AssessReadiness(later, p) = AssessReadiness(in, p)
        /\ AssessAffordability(later) = AssessAffordability(in)
    BY TimelessFactors
  <1>8. DeriveStrategy(later, id, p) = DeriveStrategy(in, id, p)
    BY <1>1, <1>2, <1>5, <1>7 DEF DeriveStrategy
  <1>9. TimingKnown(later) = TimingKnown(in)
    <2>1. EffectiveDeadlines(later) = EffectiveDeadlines(in)
      BY SameDeadlines DEF Aged
    <2>. QED BY <2>1 DEF TimingKnown
  <1>. DEFINE found == Recommend("PASS", "NO_CONFLICT_DETECTED_IN_CHECKED_RULES",
                          DeriveStrategy(in, id, p), AssessReadiness(in, p), "SUFFICIENT",
                          AssessAffordability(in), FALSE)
  <1>10. Candidate(later, id) = Watched(later, found)
    <2>1. Closed(later) = FALSE
      BY <1>2 DEF Closed
    <2>. QED BY <1>1, <1>2, <1>7, <1>8, <2>1 DEF Candidate
  <1>11. Candidate(in, id) = Watched(in, found)
    <2>1. Closed(in) = FALSE
      BY <1>6 DEF Closed
    <2>. QED BY <1>3, <1>4, <1>5, <2>1 DEF Candidate
  <1>. HIDE DEF found
  <1>. QED BY <1>1, <1>9, <1>10, <1>11 DEF Watched

\* A closed opportunity stays closed, and its candidates skipped.
LEMMA ClosedForGood ==
  ASSUME NEW in, DecisionInput(in), NEW later, DecisionInput(later), Aged(in, later), Closed(in),
         NEW id
  PROVE  Candidate(later, id) = "SKIP"
  <1>1. Closed(later)
    <2>1. CASE in.status = "CLOSED"
      BY <2>1 DEF Aged, Closed
    <2>2. CASE in.status # "CLOSED"
      <3>1. PICK d \in in.deadlines : d.exact /\ d.at <= in.now
        BY <2>2 DEF Closed
      <3>2. d.at \in Int /\ in.now \in Int /\ later.now \in Int
        BY DEF DecisionInput
      <3>. QED BY <3>1, <3>2 DEF Aged, Closed
    <2>. QED BY <2>1, <2>2
  <1>. QED BY <1>1 DEF Candidate, Recommend, Watched

LEMMA BestIsTimeless ==
  ASSUME NEW in, NEW later, Aged(in, later)
  PROVE  Best(later) = Best(in)
  <1>1. Scores(later) = Scores(in)
    BY TimelessFactors DEF Scores, Aged
  <1>2. Best(later) = LiveChoice(later, SelectBestProject(Scores(later)))
    BY DEF Best, Scores
  <1>3. Best(in) = LiveChoice(in, SelectBestProject(Scores(in)))
    BY DEF Best, Scores
  <1>4. \A best : LiveChoice(later, best) = LiveChoice(in, best)
    BY DEF LiveChoice, Aged
  <1>. QED BY <1>1, <1>2, <1>3, <1>4

\* The next run, when no less time has passed.
LEMMA WaitAges ==
  ASSUME DecidedInv, Wait
  PROVE  DecidedInv' /\ Aged(input, input')
  <1>1. DecisionInput(input) /\ DecisionInput(input')
    BY TimePasses DEF DecidedInv
  <1>2. output' = Decide(input') /\ input' = [input EXCEPT !.now = input.now + 1]
    BY DEF Wait, NextRun
  <1>3. "now" \in DOMAIN input /\ input.now \in Int
    BY <1>1 DEF DecisionInput
  <1>4. input'.now = input.now + 1 /\ \A h \in DOMAIN input \ {"now"} : input'[h] = input[h]
    BY <1>2, <1>3, FieldChanges
  <1>5. Aged(input, input')
    BY <1>1, <1>3, <1>4 DEF Aged, DecisionInput
  <1>. QED BY <1>1, <1>2, <1>5 DEF DecidedInv

\* Waiting never helps, however long and whatever is known of the portfolio: a
\* candidate acted on later was acted on before, by each engine in turn, and the
\* best match does not depend on time.
THEOREM WaitingHelpsNobody == Spec => WaitingNeverHelps
  <1>. DEFINE helpless ==
         input'.now > input.now /\ Opened(input) /\ Retrieved(input) =>
           /\ output'.recommendation \in Acting => output.recommendation = output'.recommendation
           /\ \A id \in DOMAIN output.candidates :
                 /\ output'.candidates[id] \in Acting
                      => output.candidates[id] = output'.candidates[id]
                 /\ Closed(input) => output'.candidates[id] \in {"SKIP"}
  <1>1. DecidedInv /\ DecidedInv' /\ [Next]_vars => [helpless]_vars
    <2>. SUFFICES ASSUME DecidedInv, [Next]_vars, input'.now > input.now,
                         Opened(input), Retrieved(input)
                  PROVE  /\ output'.recommendation \in Acting
                              => output.recommendation = output'.recommendation
                         /\ \A id \in DOMAIN output.candidates :
                              /\ output'.candidates[id] \in Acting
                                   => output.candidates[id] = output'.candidates[id]
                              /\ Closed(input) => output'.candidates[id] \in {"SKIP"}
      OBVIOUS
    <2>1. DecidedInv /\ Wait
      <3>1. input.now \in Int /\ input'.now # input.now
        BY DEF DecidedInv, DecisionInput
      <3>2. ~ Learn
        BY <3>1, LearnIsLearned DEF Learned, DecidedInv
      <3>. QED BY <3>1, <3>2 DEF Next, vars
    <2>2. /\ DecidedInv' /\ Aged(input, input')
          /\ DecisionInput(input) /\ DecisionInput(input')
          /\ output = Decide(input) /\ output' = Decide(input')
      BY <2>1, WaitAges DEF DecidedInv
    <2>3. input'.projects = input.projects /\ input'.rules = input.rules
      BY <2>2 DEF Aged
    <2>4. ASSUME NEW id \in DOMAIN output.candidates
          PROVE  /\ id \in DOMAIN input.projects
                 /\ output.candidates[id] = Candidate(input, id)
                 /\ output'.candidates[id] = Candidate(input', id)
      <3>1. /\ ValidRules(input) /\ id \in DOMAIN input.projects
            /\ output.candidates = [i \in DOMAIN input.projects |-> Candidate(input, i)]
        BY <2>2, CandidatesDecided
      <3>2. ValidRules(input')
        BY <2>3, <3>1 DEF ValidRules
      <3>3. output'.candidates = [i \in DOMAIN input.projects |-> Candidate(input', i)]
        BY <2>2, <2>3, <3>2 DEF Decide, Decided
      <3>. QED BY <3>1, <3>3
    <2>5. ASSUME NEW id \in DOMAIN output.candidates, output'.candidates[id] \in Acting
          PROVE  output.candidates[id] = output'.candidates[id]
      BY <2>2, <2>4, <2>5, CandidatesAge
    <2>6. ASSUME NEW id \in DOMAIN output.candidates, Closed(input)
          PROVE  output'.candidates[id] = "SKIP"
      BY <2>2, <2>4, <2>6, ClosedForGood
    <2>7. ASSUME output'.recommendation \in Acting
          PROVE  output.recommendation = output'.recommendation
      <3>1. output' # Refused
        BY <2>7, AbsentAssumption DEF Acting, Refused
      <3>2. ValidRules(input') /\ ValidRules(input)
        BY <2>2, <2>3, <3>1 DEF Decide, ValidRules
      <3>3. /\ output'.best = Best(input')
            /\ output'.recommendation = Overall(output'.candidates, output'.best)
            /\ output.best = Best(input)
            /\ output.recommendation = Overall(output.candidates, output.best)
            /\ DOMAIN output.candidates = DOMAIN input.projects
        BY <2>2, <3>2 DEF Decide, Decided
      <3>4. /\ output'.best # None /\ output'.candidates[output'.best] = output'.recommendation
        BY <2>7, <3>3 DEF Overall, Acting
      <3>5. output'.best = output.best /\ output.best \in DOMAIN output.candidates
        BY <2>2, <3>3, <3>4, BestIsTimeless, BestIsAbove
      <3>6. output.candidates[output.best] = output'.recommendation
        BY <2>5, <2>7, <3>4, <3>5
      <3>. QED BY <3>3, <3>4, <3>5, <3>6 DEF Overall
    <2>. QED BY <2>5, <2>6, <2>7
  <1>. HIDE DEF helpless
  <1>. QED BY <1>1, RunsDecide, PTL DEF Spec, WaitingNeverHelps, helpless

-----------------------------------------------------------------------------
(* What learning does not reverse *)

\* The facts of a project that a rule of some kind looks at.
ProjectFacts == {"is_new_project", "code_provenance", "project_lineage", "reused_components",
    "license_intent", "has_sponsor_support", "reuse_disclosed", "technology_stack",
    "reward_conditions_met", "problem", "audience", "stage", "features", "adaptation"}

LEMMA ProjectFactsKept ==
  ASSUME NEW in, DecisionInput(in), NEW new, Learned(in, new), NEW id \in DOMAIN in.projects
  PROVE  Keeps(in.projects[id], new.projects[id], ProjectFacts)
  <1>1. ProjectProfile(in.projects[id]) /\ LearnedProject(in.projects[id], new.projects[id])
    BY DEF DecisionInput, Learned
  <1>2. ProjectFacts \subseteq DOMAIN in.projects[id] \ {"materials", "documented"}
    BY <1>1 DEF ProjectProfile, ProjectFacts
  <1>. QED BY <1>1, <1>2 DEF LearnedProject, Keeps

\* The issues of a rule's evidence only go away.
LEMMA IssuesLearned ==
  ASSUME NEW in, NEW new, Learned(in, new), NEW rule
  PROVE  EvidenceIssues(new, rule, EffectiveDeadlines(new))
           \subseteq EvidenceIssues(in, rule, EffectiveDeadlines(in))
  <1>. DEFINE deadlines == EffectiveDeadlines(in)
              old(e) == IssuesOf(in, rule, e, deadlines)
              is(e) == IssuesOf(new, rule, e, deadlines)
  <1>1. /\ new.now = in.now /\ new.mode = in.mode /\ DOMAIN new.evidence = DOMAIN in.evidence
        /\ \A e \in DOMAIN in.evidence : LearnedRecord(in.evidence[e], new.evidence[e])
        /\ EffectiveDeadlines(new) = deadlines
    BY SameDeadlines DEF Learned
  <1>. HIDE DEF deadlines
  <1>2. ASSUME NEW e \in rule.evidence PROVE is(e) \subseteq old(e)
    <2>1. CASE e \notin DOMAIN in.evidence
      BY <1>1, <2>1 DEF IssuesOf
    <2>2. CASE e \in DOMAIN in.evidence
      <3>. DEFINE was == Freshness(in.evidence[e].at, in.now, deadlines)
      <3>1. Freshness(new.evidence[e].at, new.now, deadlines) = was
        BY <1>1, <2>2 DEF LearnedRecord
      <3>. HIDE DEF was
      <3>2. LearnedRecord(in.evidence[e], new.evidence[e])
        BY <1>1, <2>2
      <3>. QED BY <1>1, <2>2, <3>1, <3>2 DEF IssuesOf, LearnedRecord, was
    <2>. QED BY <2>1, <2>2
  <1>3. EvidenceIssues(in, rule, deadlines)
          = IF rule.evidence = {} THEN {"MISSING_EVIDENCE"} ELSE UNION {old(e) : e \in rule.evidence}
    BY DEF EvidenceIssues
  <1>4. EvidenceIssues(new, rule, deadlines)
          = IF rule.evidence = {} THEN {"MISSING_EVIDENCE"} ELSE UNION {is(e) : e \in rule.evidence}
    BY DEF EvidenceIssues
  <1>. HIDE DEF old, is
  <1>5. EvidenceIssues(new, rule, deadlines) \subseteq EvidenceIssues(in, rule, deadlines)
    BY <1>2, <1>3, <1>4
  <1>. QED BY <1>1, <1>5 DEF deadlines

\* A fact that a rule finds is found again.
LEMMA FactsLearned ==
  ASSUME NEW in, DecisionInput(in), NEW new, DecisionInput(new), Learned(in, new),
         NEW id \in DOMAIN in.projects, NEW rule, rule.type \in Category,
         Resolve(in, in.projects[id], rule).value # None
  PROVE  Resolve(new, new.projects[id], rule).value = Resolve(in, in.projects[id], rule).value
  <1>. DEFINE p == in.projects[id]
              q == new.projects[id]
              subject == rule.subject
  <1>1. subject \in AllowedSubjects[rule.type]
    BY DEF Resolve
  <1>2. /\ new.now = in.now /\ Keeps(in.founder, new.founder, DOMAIN in.founder)
        /\ DOMAIN new.founder = DOMAIN in.founder
    BY DEF Learned, DecisionInput, FounderProfile
  <1>3. Keeps(p, q, ProjectFacts)
    BY ProjectFactsKept
  <1>4. subject \in DOMAIN in.founder \/ subject = "evaluated_at" \/ subject \in ProjectFacts
    <2>1. DOMAIN in.founder = {"residence", "citizenship", "legal_form", "incorporation_date",
                         "team_size", "available_hours", "max_cash_commitment",
                         "open_source", "strategic_goals"}
      BY DEF DecisionInput, FounderProfile
    <2>. QED BY <1>1, <2>1 DEF AllowedSubjects, Category, ProjectFacts
  <1>5. CASE subject = "evaluated_at"
    BY <1>1, <1>2, <1>5 DEF Resolve
  <1>6. CASE subject # "evaluated_at"
    <2>. DEFINE fact == IF subject \in DOMAIN in.founder THEN in.founder[subject] ELSE p[subject]
                is == IF subject \in DOMAIN new.founder THEN new.founder[subject] ELSE q[subject]
    <2>1. /\ ~ (subject = "is_new_project" /\ ~ OriginDocumented(p)) /\ fact # None
          /\ Resolve(in, p, rule).value = [kind |-> KindOf(subject), value |-> fact]
      BY <1>1, <1>6 DEF Resolve
    <2>2. is = fact
      BY <1>2, <1>3, <1>4, <1>6, <2>1 DEF Keeps
    <2>3. OriginDocumented(p) => OriginDocumented(q)
      <3>1. p.code_provenance = "ORIGINAL" => q.code_provenance = "ORIGINAL"
        BY <1>3, AbsentAssumption DEF Keeps, ProjectFacts
      <3>2. p.documented \subseteq q.documented
        BY DEF Learned, LearnedProject
      <3>. QED BY <3>1, <3>2 DEF OriginDocumented
    <2>4. Resolve(new, q, rule).value = [kind |-> KindOf(subject), value |-> is]
      BY <1>1, <1>6, <2>1, <2>2, <2>3 DEF Resolve
    <2>. QED BY <2>1, <2>2, <2>4
  <1>. QED BY <1>5, <1>6

\* A gate that is open or closed for good reasons stays so.
LEMMA GatesLearned ==
  ASSUME NEW in, DecisionInput(in), NEW new, DecisionInput(new), Learned(in, new),
         NEW id \in DOMAIN in.projects
  PROVE  /\ AggregateEligibility(in, in.projects[id]) = "PASS"
              => AggregateEligibility(new, new.projects[id]) = "PASS"
         /\ AggregateEligibility(in, in.projects[id]) = "FAIL"
              => AggregateEligibility(new, new.projects[id]) = "FAIL"
  <1>. DEFINE p == in.projects[id]
              q == new.projects[id]
  <1>1. new.rules = in.rules
    BY DEF Learned
  <1>2. ASSUME NEW r \in DOMAIN in.rules
        PROVE  LeafOf(in, p, in.rules[r]) \in {"PASS", "FAIL"}
                 => LeafOf(new, q, in.rules[r]) = LeafOf(in, p, in.rules[r])
    <2>1. in.rules[r].type \in Category
      BY DEF DecisionInput, RuleCandidate
    <2>2. LeafOf(in, p, in.rules[r]) \in {"PASS", "FAIL"} => Resolve(in, p, in.rules[r]).value # None
      BY DEF LeafOf, Leaf
    <2>. QED BY <2>1, <2>2, FactsLearned DEF LeafOf
  <1>3. CarriesOver(in, p, new, q)
    <2>1. ASSUME NEW r \in DOMAIN in.rules
          PROVE  /\ EvidenceIssues(in, in.rules[r], EffectiveDeadlines(in)) = {}
                      => EvidenceIssues(new, in.rules[r], EffectiveDeadlines(new)) = {}
                 /\ "STALE_EVIDENCE" \in EvidenceIssues(new, in.rules[r], EffectiveDeadlines(new))
                      => "STALE_EVIDENCE" \in EvidenceIssues(in, in.rules[r], EffectiveDeadlines(in))
      <3>1. EvidenceIssues(new, in.rules[r], EffectiveDeadlines(new))
              \subseteq EvidenceIssues(in, in.rules[r], EffectiveDeadlines(in))
        BY IssuesLearned
      <3>. QED BY <3>1
    <2>2. \A r \in DOMAIN in.rules :
            LeafOf(in, p, in.rules[r]) = "PASS" => LeafOf(new, q, in.rules[r]) = "PASS"
      BY <1>2
    <2>. QED BY <1>1, <2>1, <2>2 DEF CarriesOver
  <1>4. \A r \in DOMAIN in.rules :
          LeafOf(in, p, in.rules[r]) = "FAIL" => LeafOf(new, q, in.rules[r]) = "FAIL"
    BY <1>2
  <1>. QED BY <1>3, <1>4, GateCarriesOver, ClosedGateCarriesOver

-----------------------------------------------------------------------------
(* Conflicts *)

\* What a rule finds of a project, it finds of one that says more; and where it
\* finds nothing, it looked at facts that are stated.
LEMMA ViolationKept ==
  ASSUME NEW rule, NEW category \in ConflictCategory, NEW id, NEW p, NEW q, NEW peers,
         Keeps(p, q, ProjectFacts), Violation(rule, category, id, p, peers) # "OPEN"
  PROVE  /\ Violation(rule, category, id, q, peers) = Violation(rule, category, id, p, peers)
         /\ Violation(rule, category, id, p, peers) = "CLEAR"
              => \A f \in SharedFields(category) : q[f] = p[f]
  <1>1. /\ p.is_new_project # None => q.is_new_project = p.is_new_project
        /\ p.code_provenance # None => q.code_provenance = p.code_provenance
        /\ p.project_lineage # None => q.project_lineage = p.project_lineage
        /\ p.reused_components # None => q.reused_components = p.reused_components
        /\ p.license_intent # None => q.license_intent = p.license_intent
        /\ p.has_sponsor_support # None => q.has_sponsor_support = p.has_sponsor_support
        /\ p.reuse_disclosed # None => q.reuse_disclosed = p.reuse_disclosed
    BY DEF Keeps, ProjectFacts
  <1>2. CASE category = "NEW_PROJECT"
    <2>. DEFINE old(x) == \/ x.is_new_project = FALSE \/ x.code_provenance \in {"REUSED", "MIXED"}
                          \/ x.project_lineage \notin {None, <<>>}
                          \/ x.reused_components \notin {None, <<>>}
                known(x) == /\ x.is_new_project # None /\ x.code_provenance # None
                            /\ x.project_lineage # None /\ x.reused_components # None
    <2>1. \A x : Violation(rule, category, id, x, peers)
                   = IF old(x) THEN "VIOLATED" ELSE IF known(x) THEN "CLEAR" ELSE "OPEN"
      BY <1>2 DEF Violation, Check
    <2>2. old(p) => old(q)
      BY <1>1, AbsentAssumption
    <2>3. known(p) => /\ q.is_new_project = p.is_new_project
                      /\ q.code_provenance = p.code_provenance
                      /\ q.project_lineage = p.project_lineage
                      /\ q.reused_components = p.reused_components
      BY <1>1
    <2>4. known(p) => known(q) /\ (old(q) => old(p))
      BY <2>3
    <2>5. known(p) => \A f \in SharedFields(category) : q[f] = p[f]
      BY <1>2, <2>3 DEF SharedFields
    <2>. HIDE DEF old, known
    <2>. QED BY <2>1, <2>2, <2>4, <2>5
  <1>3. CASE category = "EXCLUSIVE_SUBMISSION"
    BY <1>3 DEF Violation, SharedFields
  <1>4. CASE category = "LICENSE"
    <2>1. \A x : Violation(rule, category, id, x, peers)
                   = Check(x.license_intent # None /\ rule.licenses # None,
                           x.license_intent \notin rule.licenses)
      BY <1>4 DEF Violation
    <2>2. p.license_intent # None /\ q.license_intent = p.license_intent
      BY <1>1, <2>1 DEF Check
    <2>3. \A f \in SharedFields(category) : q[f] = p[f]
      BY <1>4, <2>2 DEF SharedFields
    <2>. QED BY <2>1, <2>2, <2>3
  <1>5. CASE category = "SPONSOR_SUPPORT"
    <2>1. \A x : Violation(rule, category, id, x, peers)
                   = Check(x.has_sponsor_support # None, x.has_sponsor_support)
      BY <1>5 DEF Violation
    <2>2. p.has_sponsor_support # None /\ q.has_sponsor_support = p.has_sponsor_support
      BY <1>1, <2>1 DEF Check
    <2>3. \A f \in SharedFields(category) : q[f] = p[f]
      BY <1>5, <2>2 DEF SharedFields
    <2>. QED BY <2>1, <2>2, <2>3
  <1>6. CASE category = "EXISTING_PROJECT"
    <2>1. \A x : Violation(rule, category, id, x, peers)
                   = Check(x.is_new_project # None, ~ x.is_new_project)
      BY <1>6 DEF Violation
    <2>2. p.is_new_project # None /\ q.is_new_project = p.is_new_project
      BY <1>1, <2>1 DEF Check
    <2>3. SharedFields(category) = {}
      BY <1>6 DEF SharedFields
    <2>. QED BY <2>1, <2>2, <2>3
  <1>7. CASE category = "DISCLOSURE"
    <2>1. \A x : Violation(rule, category, id, x, peers)
                   = IF x.reused_components = <<>> THEN "CLEAR"
                     ELSE Check(x.reused_components # None /\ x.reuse_disclosed # None,
                                ~ x.reuse_disclosed)
      BY <1>7 DEF Violation
    <2>2. p.reused_components # None
      BY <2>1, AbsentAssumption DEF Check
    <2>3. q.reused_components = p.reused_components
      BY <1>1, <2>2
    <2>4. p.reused_components # <<>> => q.reuse_disclosed = p.reuse_disclosed
      BY <1>1, <2>1 DEF Check
    <2>5. \A f \in SharedFields(category) : q[f] = p[f]
      BY <1>7, <2>3 DEF SharedFields
    <2>. QED BY <2>1, <2>3, <2>4, <2>5
  <1>8. CASE category = "SAME_PROJECT"
    <2>. DEFINE same(x) == \E s \in peers : SameLineage(id, x, s)
                known(x) == \A s \in peers : None \notin {x.project_lineage, s.project_lineage}
    <2>1. \A x : Violation(rule, category, id, x, peers)
                   = IF same(x) THEN "VIOLATED" ELSE IF known(x) THEN "CLEAR" ELSE "OPEN"
      BY <1>8 DEF Violation, Check
    <2>2. \A s : SameLineage(id, p, s) => SameLineage(id, q, s)
      BY <1>1 DEF SameLineage, Listed
    <2>3. q.project_lineage = p.project_lineage \/ p.project_lineage = None
      BY <1>1
    <2>4. known(p) => known(q) /\ (same(q) => same(p))
      <3>1. CASE q.project_lineage = p.project_lineage
        BY <3>1 DEF SameLineage
      <3>2. CASE p.project_lineage = None
        BY <3>2
      <3>. QED BY <2>3, <3>1, <3>2
    <2>5. same(p) => same(q)
      BY <2>2
    <2>6. SharedFields(category) = {}
      BY <1>8 DEF SharedFields
    <2>. HIDE DEF same, known
    <2>. QED BY <2>1, <2>4, <2>5, <2>6
  <1>. QED BY <1>2, <1>3, <1>4, <1>5, <1>6, <1>7, <1>8 DEF ConflictCategory

\* An assessment that is not left open stands.
LEMMA AssessLearned ==
  ASSUME NEW in, DecisionInput(in), NEW new, Learned(in, new), NEW id \in DOMAIN in.projects,
         NEW scope, NEW category \in ConflictCategory,
         Assess(in, id, in.projects[id], scope, category) # "OPEN"
  PROVE  Assess(new, id, new.projects[id], scope, category)
           = Assess(in, id, in.projects[id], scope, category)
  <1>. DEFINE p == in.projects[id]
              q == new.projects[id]
              rule == scope.rules[category]
              was == Violation(rule, category, id, p, scope.peers)
              is == Violation(rule, category, id, q, scope.peers)
  <1>1. Applicable(in, scope, category)
    BY DEF Assess
  <1>2. \A e : Reviewed(in, category, e, scope.deadlines)
                 => Reviewed(new, category, e, scope.deadlines)
    <2>. SUFFICES ASSUME NEW e, Reviewed(in, category, e, scope.deadlines)
                  PROVE  Reviewed(new, category, e, scope.deadlines)
      OBVIOUS
    <2>1. e \in DOMAIN in.evidence /\ in.evidence[e].state = "REVIEWED"
      BY DEF Reviewed
    <2>2. /\ new.now = in.now /\ e \in DOMAIN new.evidence
          /\ LearnedRecord(in.evidence[e], new.evidence[e])
      BY <2>1 DEF Learned
    <2>. QED BY <2>1, <2>2 DEF LearnedRecord, Reviewed
  <1>3. Applicable(new, scope, category)
    BY <1>1, <1>2 DEF Applicable
  <1>4. Keeps(p, q, ProjectFacts)
    BY ProjectFactsKept
  <1>5. Assess(in, id, p, scope, category)
          = IF ~ rule.applies THEN "CLEAR"
            ELSE IF was = "CLEAR" /\ Disagreement(category, id, p, scope.peers) THEN "OPEN"
            ELSE was
    BY <1>1 DEF Assess
  <1>6. Assess(new, id, q, scope, category)
          = IF ~ rule.applies THEN "CLEAR"
            ELSE IF is = "CLEAR" /\ Disagreement(category, id, q, scope.peers) THEN "OPEN"
            ELSE is
    BY <1>3 DEF Assess
  <1>7. ASSUME was # "OPEN"
        PROVE  is = was /\ (was = "CLEAR" => \A f \in SharedFields(category) : q[f] = p[f])
    <2>. HIDE DEF p, q, rule
    <2>. QED BY <1>4, <1>7, ViolationKept
  <1>8. was = "CLEAR" => (Disagreement(category, id, q, scope.peers)
                            => Disagreement(category, id, p, scope.peers))
    BY <1>7 DEF Disagreement
  <1>. HIDE DEF was, is
  <1>. QED BY <1>5, <1>6, <1>7, <1>8

\* A conflict that is found, or excluded, stays so.
LEMMA ConflictsLearned ==
  ASSUME NEW in, DecisionInput(in), NEW new, Learned(in, new), NEW id \in DOMAIN in.projects,
         AssessConflicts(in, id, in.projects[id]) # "REVIEW_REQUIRED"
  PROVE  AssessConflicts(new, id, new.projects[id]) = AssessConflicts(in, id, in.projects[id])
  <1>. DEFINE p == in.projects[id]
              q == new.projects[id]
  <1>1. Scopes(new) = Scopes(in)
    <2>1. EffectiveDeadlines(new) = EffectiveDeadlines(in)
      BY SameDeadlines DEF Learned
    <2>. QED BY <2>1 DEF Scopes, Learned
  <1>2. \A scope \in Scopes(in), category \in ConflictCategory :
          Assess(in, id, p, scope, category) # "OPEN" =>
            Assess(new, id, q, scope, category) = Assess(in, id, p, scope, category)
    BY AssessLearned
  <1>3. CASE AssessConflicts(in, id, p) = "BLOCKED_BY_EXPLICIT_RULE"
    <2>1. PICK scope \in Scopes(in), category \in ConflictCategory :
            Assess(in, id, p, scope, category) = "VIOLATED"
      BY <1>3 DEF AssessConflicts
    <2>2. Assess(new, id, q, scope, category) = "VIOLATED"
      BY <1>2, <2>1
    <2>. QED BY <1>1, <1>3, <2>2 DEF AssessConflicts
  <1>4. CASE AssessConflicts(in, id, p) = "NO_CONFLICT_DETECTED_IN_CHECKED_RULES"
    <2>1. \A scope \in Scopes(in), category \in ConflictCategory :
            Assess(in, id, p, scope, category) = "CLEAR"
      BY <1>4, NoConflict
    <2>2. \A scope \in Scopes(new), category \in ConflictCategory :
            Assess(new, id, q, scope, category) = "CLEAR"
      BY <1>1, <1>2, <2>1
    <2>. QED BY <1>4, <2>2, NoConflict
  <1>5. AssessConflicts(in, id, p) \in {"BLOCKED_BY_EXPLICIT_RULE", "REVIEW_REQUIRED",
                                        "NO_CONFLICT_DETECTED_IN_CHECKED_RULES"}
    BY DEF AssessConflicts
  <1>. QED BY <1>3, <1>4, <1>5

-----------------------------------------------------------------------------
(* Ratings *)

\* A rating is kept once it can be given.
LEMMA MaterialKept ==
  ASSUME NEW asks, NEW asked, LearnedRequirements(asks, asked), NEW p, NEW q, LearnedProject(p, q),
         NEW k \in MaterialKind, Material(asks, p, k) # None
  PROVE  Material(asked, q, k) = Material(asks, p, k)
  <1>1. asks.materials[k] # None /\ asked.materials[k] = asks.materials[k]
    BY DEF Material, LearnedRequirements, Keeps
  <1>2. /\ p.materials[k].ready # None => q.materials[k].ready = p.materials[k].ready
        /\ p.materials[k].gap # None => q.materials[k].gap = p.materials[k].gap
    BY DEF LearnedProject, Keeps
  <1>. QED BY <1>1, <1>2 DEF Material

LEMMA ReadinessLearned ==
  ASSUME NEW in, NEW new, Learned(in, new), NEW id \in DOMAIN in.projects,
         AssessReadiness(in, in.projects[id]) # "UNKNOWN"
  PROVE  AssessReadiness(new, new.projects[id]) = AssessReadiness(in, in.projects[id])
  <1>. DEFINE was(k) == Material(in.requirements, in.projects[id], k)
              is(k) == Material(new.requirements, new.projects[id], k)
              old == {was(k) : k \in MaterialKind}
              now == {is(k) : k \in MaterialKind}
  <1>1. \A k \in MaterialKind : was(k) # None => is(k) = was(k)
    BY MaterialKept DEF Learned
  <1>2. /\ AssessReadiness(in, in.projects[id]) = ReadinessState(old)
        /\ AssessReadiness(new, new.projects[id]) = ReadinessState(now)
    BY DEF AssessReadiness
  <1>. HIDE DEF was, is
  <1>3. CASE 0 \in old
    <2>1. 0 \in now
      BY <1>1, <1>3, AbsentAssumption
    <2>. HIDE DEF old, now
    <2>. QED BY <1>2, <1>3, <2>1 DEF ReadinessState
  <1>4. CASE 0 \notin old
    <2>1. None \notin old
      <3>. HIDE DEF old
      <3>. QED BY <1>2, <1>4 DEF ReadinessState
    <2>2. now = old
      BY <1>1, <2>1
    <2>. HIDE DEF now, old
    <2>. QED BY <1>2, <2>2
  <1>. QED BY <1>3, <1>4

LEMMA ReadinessRatingLearned ==
  ASSUME NEW in, NEW new, Learned(in, new), NEW id \in DOMAIN in.projects,
         ReadinessRating(AssessReadiness(in, in.projects[id])) # None
  PROVE  AssessReadiness(new, new.projects[id]) = AssessReadiness(in, in.projects[id])
  <1>1. AssessReadiness(in, in.projects[id]) # "UNKNOWN"
    BY DEF ReadinessRating
  <1>. QED BY <1>1, ReadinessLearned

\* One label, and several of them.
LEMMA AcceptedKept ==
  ASSUME NEW actual, NEW stated, NEW required, NEW asked,
         actual # None => stated = actual, required # None => asked = required,
         Accepted(actual, required) # None
  PROVE  Accepted(stated, asked) = Accepted(actual, required)
  BY DEF Accepted

LEMMA CoveredKept ==
  ASSUME NEW actual, NEW stated, NEW required, NEW asked,
         actual # None => stated = actual, required # None => asked = required,
         Covered(actual, required) # None
  PROVE  Covered(stated, asked) = Covered(actual, required)
  BY DEF Covered

LEMMA CodeKept ==
  ASSUME NEW asks, NEW asked, asks.original # None => asked.original = asks.original,
         NEW p, NEW q, p.code_provenance # None => q.code_provenance = p.code_provenance,
         CodeRating(asks, p) # None
  PROVE  CodeRating(asked, q) = CodeRating(asks, p)
  BY DEF CodeRating

Asked == {"problems", "audiences", "technologies", "features", "stages", "licenses", "original",
    "maxAdaptation", "unbounded"}

LEMMA RequirementsAsked ==
  ASSUME NEW in, DecisionInput(in), NEW new, Learned(in, new)
  PROVE  Keeps(in.requirements, new.requirements, Asked)
  <1>1. /\ Asked \subseteq DOMAIN in.requirements \ {"materials"}
        /\ LearnedRequirements(in.requirements, new.requirements)
    BY DEF DecisionInput, MatchingRequirements, Learned, Asked
  <1>. QED BY <1>1 DEF LearnedRequirements, Keeps

\* Each factor of a match is kept once it is known.
LEMMA FactorKept ==
  ASSUME NEW in, DecisionInput(in), NEW new, DecisionInput(new), Learned(in, new),
         NEW id \in DOMAIN in.projects, NEW f \in FactorName,
         Factors(in, in.projects[id])[f] # None
  PROVE  Factors(new, new.projects[id])[f] = Factors(in, in.projects[id])[f]
  <1>. DEFINE p == in.projects[id]
              q == new.projects[id]
              asks == in.requirements
              asked == new.requirements
  <1>1. /\ p.problem # None => q.problem = p.problem
        /\ p.audience # None => q.audience = p.audience
        /\ p.technology_stack # None => q.technology_stack = p.technology_stack
        /\ p.features # None => q.features = p.features
        /\ p.stage # None => q.stage = p.stage
        /\ p.code_provenance # None => q.code_provenance = p.code_provenance
        /\ p.license_intent # None => q.license_intent = p.license_intent
        /\ p.adaptation # None => q.adaptation = p.adaptation
    BY ProjectFactsKept DEF Keeps, ProjectFacts
  <1>2. /\ asks.problems # None => asked.problems = asks.problems
        /\ asks.audiences # None => asked.audiences = asks.audiences
        /\ asks.technologies # None => asked.technologies = asks.technologies
        /\ asks.features # None => asked.features = asks.features
        /\ asks.stages # None => asked.stages = asks.stages
        /\ asks.licenses # None => asked.licenses = asks.licenses
        /\ asks.original # None => asked.original = asks.original
        /\ asks.maxAdaptation # None => asked.maxAdaptation = asks.maxAdaptation
        /\ asks.unbounded # None => asked.unbounded = asks.unbounded
    BY RequirementsAsked DEF Keeps, Asked
  <1>3. asks.unbounded # TRUE /\ asks.maxAdaptation # None => asked.unbounded # TRUE
    BY DEF Learned, LearnedRequirements   \* a limit that is read excludes that there is none
  <1>4. ReadinessRating(AssessReadiness(in, p)) # None
          => AssessReadiness(new, q) = AssessReadiness(in, p)
    BY ReadinessRatingLearned
  <1>. HIDE DEF p, q, asks, asked
  <1>5. /\ Factors(in, p).problem_audience = Weakest({Accepted(p.problem, asks.problems),
                                                      Accepted(p.audience, asks.audiences)})
        /\ Factors(in, p).technology = Covered(p.technology_stack, asks.technologies)
        /\ Factors(in, p).features = Covered(p.features, asks.features)
        /\ Factors(in, p).stage = Accepted(p.stage, asks.stages)
        /\ Factors(in, p).code_license = Weakest({CodeRating(asks, p),
                                                  Accepted(p.license_intent, asks.licenses)})
        /\ Factors(in, p).adaptation = AdaptationRating(asks, p)
        /\ Factors(in, p).readiness = ReadinessRating(AssessReadiness(in, p))
    BY DEF Factors, asks
  <1>6. /\ Factors(new, q).problem_audience = Weakest({Accepted(q.problem, asked.problems),
                                                       Accepted(q.audience, asked.audiences)})
        /\ Factors(new, q).technology = Covered(q.technology_stack, asked.technologies)
        /\ Factors(new, q).features = Covered(q.features, asked.features)
        /\ Factors(new, q).stage = Accepted(q.stage, asked.stages)
        /\ Factors(new, q).code_license = Weakest({CodeRating(asked, q),
                                                   Accepted(q.license_intent, asked.licenses)})
        /\ Factors(new, q).adaptation = AdaptationRating(asked, q)
        /\ Factors(new, q).readiness = ReadinessRating(AssessReadiness(new, q))
    BY DEF Factors, asked
  <1>7. ASSUME f = "problem_audience" PROVE Factors(new, q)[f] = Factors(in, p)[f]
    <2>. DEFINE a == Accepted(p.problem, asks.problems)
                b == Accepted(p.audience, asks.audiences)
                c == Accepted(q.problem, asked.problems)
                d == Accepted(q.audience, asked.audiences)
    <2>1. a # None => c = a
      BY <1>1, <1>2, AcceptedKept
    <2>2. b # None => d = b
      BY <1>1, <1>2, AcceptedKept
    <2>3. Weakest({a, b}) # None
      BY <1>5, <1>7 DEF p
    <2>. HIDE DEF a, b, c, d
    <2>4. None \notin {a, b}
      BY <2>3 DEF Weakest
    <2>5. c = a /\ d = b
      BY <2>1, <2>2, <2>4
    <2>. QED BY <1>5, <1>6, <1>7, <2>5 DEF a, b, c, d
  <1>8. ASSUME f = "code_license" PROVE Factors(new, q)[f] = Factors(in, p)[f]
    <2>. DEFINE a == CodeRating(asks, p)
                b == Accepted(p.license_intent, asks.licenses)
                c == CodeRating(asked, q)
                d == Accepted(q.license_intent, asked.licenses)
    <2>1. a # None => c = a
      BY <1>1, <1>2, CodeKept
    <2>2. b # None => d = b
      BY <1>1, <1>2, AcceptedKept
    <2>3. Weakest({a, b}) # None
      BY <1>5, <1>8 DEF p
    <2>. HIDE DEF a, b, c, d
    <2>4. None \notin {a, b}
      BY <2>3 DEF Weakest
    <2>5. c = a /\ d = b
      BY <2>1, <2>2, <2>4
    <2>. QED BY <1>5, <1>6, <1>8, <2>5 DEF a, b, c, d
  <1>9. ASSUME f \in {"technology", "features"} PROVE Factors(new, q)[f] = Factors(in, p)[f]
    <2>1. /\ Covered(p.technology_stack, asks.technologies) # None
               => Covered(q.technology_stack, asked.technologies)
                    = Covered(p.technology_stack, asks.technologies)
          /\ Covered(p.features, asks.features) # None
               => Covered(q.features, asked.features) = Covered(p.features, asks.features)
      BY <1>1, <1>2, CoveredKept
    <2>. QED BY <1>5, <1>6, <1>9, <2>1 DEF p
  <1>10. ASSUME f = "stage" PROVE Factors(new, q)[f] = Factors(in, p)[f]
    <2>1. Accepted(p.stage, asks.stages) # None
            => Accepted(q.stage, asked.stages) = Accepted(p.stage, asks.stages)
      BY <1>1, <1>2, AcceptedKept
    <2>. QED BY <1>5, <1>6, <1>10, <2>1 DEF p
  <1>11. ASSUME f = "adaptation" PROVE Factors(new, q)[f] = Factors(in, p)[f]
    <2>1. AdaptationRating(asks, p) # None
      BY <1>5, <1>11 DEF p
    <2>2. AdaptationRating(asked, q) = AdaptationRating(asks, p)
      BY <1>1, <1>2, <1>3, <2>1, AbsentAssumption DEF AdaptationRating
    <2>. QED BY <1>5, <1>6, <1>11, <2>2
  <1>12. ASSUME f = "readiness" PROVE Factors(new, q)[f] = Factors(in, p)[f]
    BY <1>4, <1>5, <1>6, <1>12 DEF p
  <1>13. Factors(new, q)[f] = Factors(in, p)[f]
    BY <1>7, <1>8, <1>9, <1>10, <1>11, <1>12 DEF FactorName
  <1>. QED BY <1>13 DEF p, q

\* A match that can be scored keeps its score.
LEMMA MatchLearned ==
  ASSUME NEW in, DecisionInput(in), NEW new, DecisionInput(new), Learned(in, new),
         NEW id \in DOMAIN in.projects, Complete(Factors(in, in.projects[id]))
  PROVE  Factors(new, new.projects[id]) = Factors(in, in.projects[id])
  <1>. DEFINE was == Factors(in, in.projects[id])
              is == Factors(new, new.projects[id])
  <1>1. was \in [FactorName -> Rating] /\ is \in [FactorName -> Rating]
    BY FactorsAreRatings
  <1>2. \A f \in FactorName : was[f] # None
    BY <1>1 DEF Complete
  <1>3. \A f \in FactorName : is[f] = was[f]
    BY <1>2, FactorKept
  <1>. HIDE DEF was, is
  <1>4. is = was
    BY <1>1, <1>3
  <1>. QED BY <1>4 DEF is, was

\* The founder's facts that are not about entry.
FounderKept(in, new) ==
  /\ in.founder.available_hours # None
       => new.founder.available_hours = in.founder.available_hours
  /\ in.founder.max_cash_commitment # None
       => new.founder.max_cash_commitment = in.founder.max_cash_commitment
  /\ in.founder.strategic_goals # None
       => new.founder.strategic_goals = in.founder.strategic_goals

LEMMA FounderFactsKept ==
  ASSUME NEW in, DecisionInput(in), NEW new, Learned(in, new)
  PROVE  FounderKept(in, new)
  <1>1. /\ {"available_hours", "max_cash_commitment", "strategic_goals"} \subseteq DOMAIN in.founder
        /\ Keeps(in.founder, new.founder, DOMAIN in.founder)
    BY DEF DecisionInput, FounderProfile, Learned
  <1>. QED BY <1>1 DEF Keeps, FounderKept

LEMMA HoursLearned ==
  ASSUME NEW in, DecisionInput(in), NEW new, DecisionInput(new), Learned(in, new),
         NEW id \in DOMAIN in.projects, EffortTotal(in, id, in.projects[id]) # None
  PROVE  EffortTotal(new, id, new.projects[id]) = EffortTotal(in, id, in.projects[id])
  <1>1. /\ in.effort[id] \in [EffortCategory -> Optional(Nat)]
        /\ new.effort[id] \in [EffortCategory -> Optional(Nat)]
        /\ Keeps(in.effort[id], new.effort[id], EffortCategory)
    BY DEF DecisionInput, Learned
  <1>2. Complete(in.effort[id]) /\ in.projects[id].adaptation # None
    BY DEF EffortTotal
  <1>3. \A c \in EffortCategory : new.effort[id][c] = in.effort[id][c]
    BY <1>1, <1>2 DEF Complete, Keeps
  <1>4. new.effort[id] = in.effort[id]
    BY <1>1, <1>3
  <1>5. new.projects[id].adaptation = in.projects[id].adaptation
    BY <1>2, ProjectFactsKept DEF Keeps, ProjectFacts
  <1>. QED BY <1>4, <1>5 DEF EffortTotal

LEMMA CapacityLearned ==
  ASSUME NEW in, DecisionInput(in), NEW new, DecisionInput(new), Learned(in, new),
         NEW id \in DOMAIN in.projects, AssessCapacity(in, id, in.projects[id]) # "UNKNOWN"
  PROVE  AssessCapacity(new, id, new.projects[id]) = AssessCapacity(in, id, in.projects[id])
  <1>1. in.founder.available_hours # None /\ EffortTotal(in, id, in.projects[id]) # None
    BY DEF AssessCapacity
  <1>2. /\ new.founder.available_hours = in.founder.available_hours
        /\ EffortTotal(new, id, new.projects[id]) = EffortTotal(in, id, in.projects[id])
    BY <1>1, FounderFactsKept, HoursLearned DEF FounderKept
  <1>3. EffectiveDeadlines(new) = EffectiveDeadlines(in) /\ new.now = in.now
    BY SameDeadlines DEF Learned
  <1>. QED BY <1>2, <1>3 DEF AssessCapacity

\* What a portfolio of costs comes to.
CashOf(items) == {i \in DOMAIN items : items[i].kind \in CashKinds}

AnswerOf(item) == IF item.kind = "CLOUD_CREDIT" THEN item.covered ELSE item.accepted

OthersOf(items) == {AnswerOf(items[i]) : i \in DOMAIN items \ CashOf(items)}

Priced(items, budget) ==
  /\ budget # None
  /\ \A i \in CashOf(items) :
       items[i].amount # None /\ items[i].amount.currency = budget.currency

SpentOn(items) == Total([i \in CashOf(items) |-> items[i].amount.amount])

LEMMA AffordabilityIs ==
  ASSUME NEW in
  PROVE  AssessAffordability(in)
           = IF \/ FALSE \in OthersOf(in.costs.items)
                \/ /\ Priced(in.costs.items, in.founder.max_cash_commitment)
                   /\ SpentOn(in.costs.items) > in.founder.max_cash_commitment.amount
             THEN "INSUFFICIENT"
             ELSE IF \/ in.costs.complete # TRUE
                     \/ ~ Priced(in.costs.items, in.founder.max_cash_commitment)
                     \/ None \in OthersOf(in.costs.items)
                  THEN "UNKNOWN"
             ELSE "SUFFICIENT"
  <1>. DEFINE budget == in.founder.max_cash_commitment
              items == in.costs.items
              cash == {i \in DOMAIN items : items[i].kind \in CashKinds}
              others == {IF items[i].kind = "CLOUD_CREDIT" THEN items[i].covered
                                                           ELSE items[i].accepted :
                            i \in DOMAIN items \ cash}
              known == budget # None /\ \A i \in cash : /\ items[i].amount # None
                                                        /\ budget # None
                                                        /\ items[i].amount.currency = budget.currency
              spent == Total([i \in cash |-> items[i].amount.amount])
  <1>1. AssessAffordability(in)
          = IF FALSE \in others \/ (known /\ spent > budget.amount) THEN "INSUFFICIENT"
            ELSE IF in.costs.complete # TRUE \/ ~ known \/ None \in others THEN "UNKNOWN"
            ELSE "SUFFICIENT"
    BY DEF AssessAffordability
  <1>2. cash = CashOf(items)
    BY DEF CashOf
  <1>3. others = OthersOf(items)
    BY <1>2 DEF OthersOf, AnswerOf
  <1>4. known <=> Priced(items, budget)
    BY <1>2 DEF Priced
  <1>5. spent = SpentOn(items)
    BY <1>2 DEF SpentOn
  <1>. HIDE DEF others, known, spent, items, budget
  <1>6. AssessAffordability(in)
          = IF FALSE \in OthersOf(items) \/ (Priced(items, budget) /\ SpentOn(items) > budget.amount)
            THEN "INSUFFICIENT"
            ELSE IF in.costs.complete # TRUE \/ ~ Priced(items, budget) \/ None \in OthersOf(items)
                 THEN "UNKNOWN"
            ELSE "SUFFICIENT"
    BY <1>1, <1>3, <1>4, <1>5
  <1>. QED BY <1>6 DEF items, budget

LEMMA CostsKept ==
  ASSUME NEW old, NEW new, LearnedItems(old, new), NEW budget, NEW stated,
         budget # None => stated = budget
  PROVE  /\ \A v \in OthersOf(old) : v # None => v \in OthersOf(new)
         /\ None \notin OthersOf(old) => OthersOf(new) = OthersOf(old)
         /\ Priced(old, budget) => /\ Priced(new, stated) /\ stated = budget
                                   /\ SpentOn(new) = SpentOn(old)
  <1>1. /\ DOMAIN new = DOMAIN old
        /\ \A i \in DOMAIN old :
             /\ new[i].kind = old[i].kind
             /\ old[i].amount # None => new[i].amount = old[i].amount
             /\ old[i].covered # None => new[i].covered = old[i].covered
             /\ old[i].accepted # None => new[i].accepted = old[i].accepted
    BY DEF LearnedItems, Keeps, CostFields
  <1>2. CashOf(new) = CashOf(old)
    BY <1>1 DEF CashOf
  <1>. DEFINE rest == DOMAIN old \ CashOf(old)
  <1>3. /\ OthersOf(old) = {AnswerOf(old[i]) : i \in rest}
        /\ OthersOf(new) = {AnswerOf(new[i]) : i \in rest}
    BY <1>1, <1>2 DEF OthersOf
  <1>4. \A i \in rest : AnswerOf(old[i]) # None => AnswerOf(new[i]) = AnswerOf(old[i])
    BY <1>1 DEF AnswerOf
  <1>5. /\ \A v \in OthersOf(old) : v # None => v \in OthersOf(new)
        /\ None \notin OthersOf(old) => OthersOf(new) = OthersOf(old)
    <2>. HIDE DEF rest
    <2>. QED BY <1>3, <1>4
  <1>6. ASSUME Priced(old, budget)
        PROVE  Priced(new, stated) /\ stated = budget /\ SpentOn(new) = SpentOn(old)
    <2>1. CashOf(old) \subseteq DOMAIN old
      BY DEF CashOf
    <2>2. \A i \in CashOf(old) : old[i].amount # None /\ new[i].amount = old[i].amount
      BY <1>1, <1>6, <2>1 DEF Priced
    <2>3. stated = budget /\ Priced(new, stated)
      BY <1>2, <1>6, <2>2 DEF Priced
    <2>4. SpentOn(new) = SpentOn(old)
      <3>1. [i \in CashOf(new) |-> new[i].amount.amount] = [i \in CashOf(old) |-> old[i].amount.amount]
        BY <1>2, <2>2
      <3>. QED BY <3>1 DEF SpentOn
    <2>. QED BY <2>3, <2>4
  <1>. QED BY <1>5, <1>6

LEMMA AffordabilityLearned ==
  ASSUME NEW in, DecisionInput(in), NEW new, Learned(in, new), AssessAffordability(in) # "UNKNOWN"
  PROVE  AssessAffordability(new) = AssessAffordability(in)
  <1>. DEFINE budget == in.founder.max_cash_commitment
              stated == new.founder.max_cash_commitment
              old == in.costs.items
              now == new.costs.items
  <1>1. LearnedItems(old, now) /\ new.costs.complete = in.costs.complete
        /\ (budget # None => stated = budget)
    BY FounderFactsKept DEF Learned, FounderKept
  <1>. HIDE DEF budget, stated, old, now
  <1>2. /\ FALSE \in OthersOf(old) => FALSE \in OthersOf(now)
        /\ None \notin OthersOf(old) => OthersOf(now) = OthersOf(old)
        /\ Priced(old, budget) => /\ Priced(now, stated) /\ stated = budget
                                  /\ SpentOn(now) = SpentOn(old)
    BY <1>1, CostsKept, AbsentAssumption
  <1>3. AssessAffordability(in)
          = IF FALSE \in OthersOf(old) \/ (Priced(old, budget) /\ SpentOn(old) > budget.amount)
            THEN "INSUFFICIENT"
            ELSE IF in.costs.complete # TRUE \/ ~ Priced(old, budget) \/ None \in OthersOf(old)
                 THEN "UNKNOWN"
            ELSE "SUFFICIENT"
    BY AffordabilityIs DEF old, budget
  <1>4. AssessAffordability(new)
          = IF FALSE \in OthersOf(now) \/ (Priced(now, stated) /\ SpentOn(now) > stated.amount)
            THEN "INSUFFICIENT"
            ELSE IF new.costs.complete # TRUE \/ ~ Priced(now, stated) \/ None \in OthersOf(now)
                 THEN "UNKNOWN"
            ELSE "SUFFICIENT"
    BY AffordabilityIs DEF now, stated
  <1>. QED BY <1>1, <1>2, <1>3, <1>4

\* A score, once all its parts are known, is final.
LEMMA StrategyLearned ==
  ASSUME NEW in, DecisionInput(in), NEW new, DecisionInput(new), Learned(in, new),
         NEW id \in DOMAIN in.projects, DeriveStrategy(in, id, in.projects[id]) # None
  PROVE  /\ DeriveStrategy(new, id, new.projects[id]) = DeriveStrategy(in, id, in.projects[id])
         /\ AssessReadiness(new, new.projects[id]) = AssessReadiness(in, in.projects[id])
         /\ AssessCapacity(new, id, new.projects[id]) = AssessCapacity(in, id, in.projects[id])
         /\ AssessAffordability(new) = AssessAffordability(in)
  <1>. DEFINE p == in.projects[id]
              q == new.projects[id]
              goals == GoalCoverage(in.founder.strategic_goals, in.benefits)
  <1>1. /\ MatchRating(Factors(in, p)) # None /\ ReadinessRating(AssessReadiness(in, p)) # None
        /\ StateRating(AssessCapacity(in, id, p)) # None /\ goals # None
        /\ StateRating(AssessAffordability(in)) # None
    <2>. DEFINE rating == [product_fit |-> MatchRating(Factors(in, p)),
                           readiness |-> ReadinessRating(AssessReadiness(in, p)),
                           time_feasibility |-> StateRating(AssessCapacity(in, id, p)),
                           strategic_value |-> goals,
                           economic_affordability |-> StateRating(AssessAffordability(in))]
    <2>1. Complete(rating)
      BY DEF DeriveStrategy
    <2>2. \A f \in {"product_fit", "readiness", "time_feasibility", "strategic_value",
                    "economic_affordability"} : rating[f] # None
      BY <2>1 DEF Complete
    <2>. QED BY <2>2
  <1>2. Factors(new, q) = Factors(in, p)
    BY <1>1, MatchLearned DEF MatchRating
  <1>3. AssessReadiness(new, q) = AssessReadiness(in, p)
    BY <1>1, ReadinessRatingLearned
  <1>4. AssessCapacity(new, id, q) = AssessCapacity(in, id, p)
    <2>1. AssessCapacity(in, id, p) # "UNKNOWN"
      BY <1>1 DEF StateRating
    <2>. QED BY <2>1, CapacityLearned
  <1>5. AssessAffordability(new) = AssessAffordability(in)
    <2>1. AssessAffordability(in) # "UNKNOWN"
      BY <1>1 DEF StateRating
    <2>. QED BY <2>1, AffordabilityLearned
  <1>6. GoalCoverage(new.founder.strategic_goals, new.benefits) = goals
    <2>1. in.founder.strategic_goals # None /\ new.benefits = in.benefits
      BY <1>1 DEF GoalCoverage, Learned
    <2>2. new.founder.strategic_goals = in.founder.strategic_goals
      BY <2>1, FounderFactsKept DEF FounderKept
    <2>. QED BY <2>1, <2>2
  <1>7. DeriveStrategy(new, id, q) = DeriveStrategy(in, id, p)
    BY <1>2, <1>3, <1>4, <1>5, <1>6 DEF DeriveStrategy
  <1>. QED BY <1>3, <1>4, <1>5, <1>7

-----------------------------------------------------------------------------
(* Verdicts *)

\* The recommendation on a candidate before it is asked whether it is in time.
Found(in, id) ==
  Recommend(AggregateEligibility(in, in.projects[id]),
            AssessConflicts(in, id, in.projects[id]),
            DeriveStrategy(in, id, in.projects[id]),
            AssessReadiness(in, in.projects[id]),
            AssessCapacity(in, id, in.projects[id]),
            AssessAffordability(in),
            Closed(in))

\* Learning does not reverse what is found of a candidate.
LEMMA FoundStands ==
  ASSUME NEW in, DecisionInput(in), NEW new, DecisionInput(new), Learned(in, new),
         NEW id \in DOMAIN in.projects, Found(in, id) # "WATCH"
  PROVE  Found(new, id) = Found(in, id)
  <1>. DEFINE p == in.projects[id]
              q == new.projects[id]
              gate == AggregateEligibility(in, p)
              conflict == AssessConflicts(in, id, p)
  <1>1. Closed(new) = Closed(in)
    BY DEF Closed, Learned
  <1>2. /\ gate = "PASS" => AggregateEligibility(new, q) = "PASS"
        /\ gate = "FAIL" => AggregateEligibility(new, q) = "FAIL"
    BY GatesLearned
  <1>3. conflict # "REVIEW_REQUIRED" => AssessConflicts(new, id, q) = conflict
    BY ConflictsLearned
  <1>4. /\ gate \in {"FAIL", "REVIEW_REQUIRED", "PASS"}
        /\ conflict \in {"BLOCKED_BY_EXPLICIT_RULE", "REVIEW_REQUIRED",
                         "NO_CONFLICT_DETECTED_IN_CHECKED_RULES"}
    BY DEF AggregateEligibility, Gate, AssessConflicts
  <1>. HIDE DEF gate, conflict
  <1>5. CASE Closed(in) \/ gate = "FAIL" \/ conflict = "BLOCKED_BY_EXPLICIT_RULE"
    <2>1. Found(in, id) = "SKIP"
      BY <1>5 DEF Found, Recommend, gate, conflict
    <2>2. /\ Closed(in) => Closed(new)
          /\ gate = "FAIL" => AggregateEligibility(new, q) = "FAIL"
          /\ conflict = "BLOCKED_BY_EXPLICIT_RULE"
               => AssessConflicts(new, id, q) = "BLOCKED_BY_EXPLICIT_RULE"
      BY <1>1, <1>2, <1>3
    <2>3. Found(new, id) = "SKIP"
      BY <1>5, <2>2 DEF Found, Recommend
    <2>. QED BY <2>1, <2>3
  <1>6. CASE ~ (Closed(in) \/ gate = "FAIL" \/ conflict = "BLOCKED_BY_EXPLICIT_RULE")
    <2>1. /\ gate # "REVIEW_REQUIRED" /\ conflict # "REVIEW_REQUIRED"
          /\ DeriveStrategy(in, id, p) # None
      BY <1>6 DEF Found, Recommend, gate, conflict
    <2>2. AggregateEligibility(new, q) = gate /\ AssessConflicts(new, id, q) = conflict
      BY <1>2, <1>3, <1>4, <1>6, <2>1
    <2>3. /\ DeriveStrategy(new, id, q) = DeriveStrategy(in, id, p)
          /\ AssessReadiness(new, q) = AssessReadiness(in, p)
          /\ AssessCapacity(new, id, q) = AssessCapacity(in, id, p)
          /\ AssessAffordability(new) = AssessAffordability(in)
      BY <2>1, StrategyLearned
    <2>. QED BY <1>1, <2>2, <2>3 DEF Found, gate, conflict
  <1>. QED BY <1>5, <1>6

LEMMA CandidateStands ==
  ASSUME NEW in, DecisionInput(in), NEW new, DecisionInput(new), Learned(in, new),
         NEW id \in DOMAIN in.projects, Candidate(in, id) # "WATCH"
  PROVE  Candidate(new, id) = Candidate(in, id)
  <1>1. Candidate(in, id) = Watched(in, Found(in, id))
        /\ Candidate(new, id) = Watched(new, Found(new, id))
    BY DEF Candidate, Found
  <1>2. new.status = in.status /\ TimingKnown(new) = TimingKnown(in)
    <2>1. EffectiveDeadlines(new) = EffectiveDeadlines(in)
      BY SameDeadlines DEF Learned
    <2>. QED BY <2>1 DEF Learned, TimingKnown
  <1>3. Found(in, id) # "WATCH"
    BY <1>1 DEF Watched
  <1>4. Found(new, id) = Found(in, id)
    BY <1>3, FoundStands
  <1>. QED BY <1>1, <1>2, <1>4 DEF Watched

\* The best match, once there is one, is final.
LEMMA BestStands ==
  ASSUME NEW in, DecisionInput(in), NEW new, DecisionInput(new), Learned(in, new), Best(in) # None
  PROVE  Best(new) = Best(in)
  <1>1. /\ Best(in) = LiveChoice(in, SelectBestProject(Scores(in)))
        /\ Best(new) = LiveChoice(new, SelectBestProject(Scores(new)))
    BY DEF Best, Scores
  <1>2. /\ new.mode = in.mode /\ DOMAIN new.projects = DOMAIN in.projects
        /\ IsFiniteSet(DOMAIN in.projects) /\ None \notin DOMAIN in.projects
        /\ DOMAIN in.projects # {}
    BY DEF Learned, DecisionInput
  <1>3. CASE SelectBestProject(Scores(in)) # None
    <2>1. Complete(Scores(in))
      BY <1>3 DEF SelectBestProject
    <2>2. ASSUME NEW id \in DOMAIN in.projects
          PROVE  ComparableScore(Factors(new, new.projects[id]))
                   = ComparableScore(Factors(in, in.projects[id]))
      <3>1. ComparableScore(Factors(in, in.projects[id])) # None
        BY <2>1 DEF Complete, Scores
      <3>2. Complete(Factors(in, in.projects[id]))
        BY <3>1 DEF ComparableScore
      <3>3. Factors(new, new.projects[id]) = Factors(in, in.projects[id])
        BY <3>2, MatchLearned
      <3>. QED BY <3>3
    <2>3. Scores(new) = Scores(in)
      BY <1>2, <2>2 DEF Scores
    <2>. QED BY <1>1, <1>3, <2>3 DEF LiveChoice
  <1>4. CASE SelectBestProject(Scores(in)) = None
    <2>1. in.mode = "LIVE" /\ Cardinality(DOMAIN in.projects) = 1
      BY <1>1, <1>4 DEF LiveChoice
    <2>2. PICK only : DOMAIN in.projects = {only}
      BY <1>2, <2>1, FS_Singleton
    <2>3. Best(in) = only
      BY <1>1, <1>4, <2>1, <2>2 DEF LiveChoice
    <2>4. Best(new) # None
      BY <1>1, <1>2, <2>1, <2>2 DEF LiveChoice
    <2>5. Best(new) \in DOMAIN new.projects
      BY <2>4, BestIsAbove
    <2>. QED BY <1>2, <2>2, <2>3, <2>5
  <1>. QED BY <1>3, <1>4

\* No verdict is reversed by learning more, in any order, of any portfolio: a
\* gate, a conflict, a rating or a score is only ever completed.
THEOREM LearningReversesNothing == Spec => VerdictStands
  <1>. DEFINE stands ==
         input'.now = input.now =>
           /\ output.recommendation # "WATCH" => output'.recommendation = output.recommendation
           /\ output.best # None => output'.best = output.best
           /\ \A id \in DOMAIN output.candidates :
                 output.candidates[id] # "WATCH" => output'.candidates[id] = output.candidates[id]
  <1>1. DecidedInv /\ DecidedInv' /\ [Next]_vars => [stands]_vars
    <2>. SUFFICES ASSUME DecidedInv, DecidedInv', [Next]_vars, input'.now = input.now, ~ UNCHANGED vars
                  PROVE  stands
      OBVIOUS
    <2>1. Learn
      <3>1. ~ Wait
        <4>. SUFFICES ASSUME Wait PROVE FALSE
          OBVIOUS
        <4>1. input' = [input EXCEPT !.now = input.now + 1]
          BY DEF Wait, NextRun
        <4>2. "now" \in DOMAIN input /\ input.now \in Int
          BY DEF DecidedInv, DecisionInput
        <4>3. input'.now = input.now + 1
          BY <4>1, <4>2
        <4>. QED BY <4>2, <4>3
      <3>. QED BY <3>1 DEF Next
    <2>2. /\ DecisionInput(input) /\ DecisionInput(input') /\ Learned(input, input')
          /\ output = Decide(input) /\ output' = Decide(input')
      BY <2>1, LearnIsLearned DEF DecidedInv
    <2>3. DOMAIN input'.projects = DOMAIN input.projects /\ input'.rules = input.rules
      BY <2>2 DEF Learned
    <2>4. CASE ~ ValidRules(input)
      <3>1. output = Refused /\ output' = Refused
        BY <2>2, <2>3, <2>4 DEF Decide, ValidRules
      <3>. QED BY <3>1
    <2>5. CASE ValidRules(input)
      <3>1. /\ output = Decided([id \in DOMAIN input.projects |-> Candidate(input, id)], Best(input))
            /\ output' = Decided([id \in DOMAIN input.projects |-> Candidate(input', id)],
                                 Best(input'))
        BY <2>2, <2>3, <2>5 DEF Decide, ValidRules
      <3>2. /\ output.best = Best(input) /\ output'.best = Best(input')
            /\ output.candidates = [id \in DOMAIN input.projects |-> Candidate(input, id)]
            /\ output'.candidates = [id \in DOMAIN input.projects |-> Candidate(input', id)]
            /\ output.recommendation = Overall(output.candidates, output.best)
            /\ output'.recommendation = Overall(output'.candidates, output'.best)
        BY <3>1 DEF Decided
      <3>3. output.best # None => output'.best = output.best
        BY <2>2, <3>2, BestStands
      <3>4. \A id \in DOMAIN input.projects :
              output.candidates[id] # "WATCH" => output'.candidates[id] = output.candidates[id]
        BY <2>2, <3>2, CandidateStands
      <3>5. output.best # None => output.best \in DOMAIN input.projects
        BY <2>2, <3>2, BestIsAbove
      <3>6. output'.best # None => output'.best \in DOMAIN input.projects
        BY <2>2, <2>3, <3>2, BestIsAbove
      <3>7. DOMAIN output.candidates = DOMAIN input.projects
            /\ DOMAIN output'.candidates = DOMAIN input.projects
        BY <3>2
      <3>8. ASSUME output.recommendation # "WATCH"
            PROVE  output'.recommendation = output.recommendation
        <4>1. CASE output.best # None
          BY <3>2, <3>3, <3>4, <3>5, <3>8, <4>1 DEF Overall
        <4>2. CASE output.best = None
          <5>1. /\ output.recommendation = "SKIP"
                /\ \A id \in DOMAIN input.projects : output.candidates[id] = "SKIP"
            BY <3>2, <3>7, <3>8, <4>2 DEF Overall
          <5>2. \A id \in DOMAIN input.projects : output'.candidates[id] = "SKIP"
            BY <3>4, <5>1
          <5>3. output'.recommendation = "SKIP"
            BY <3>2, <3>6, <3>7, <5>2 DEF Overall
          <5>. QED BY <5>1, <5>3
        <4>. QED BY <4>1, <4>2
      <3>. QED BY <3>3, <3>4, <3>7, <3>8
    <2>. QED BY <2>4, <2>5
  <1>. HIDE DEF stands
  <1>. QED BY <1>1, RunsDecide, PTL DEF Spec, VerdictStands, stands

=============================================================================
