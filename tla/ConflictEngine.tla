--------------------------- MODULE ConflictEngine ---------------------------
(***************************************************************************)
(* qualor/conflicts/engine.py: the opportunity's explicit rules are checked  *)
(* against a project and every active submission, and each submission's own  *)
(* contest rules against that submission.  A violation blocks, whatever else *)
(* is missing; anything unknown, unreviewed or contradicted needs review.    *)
(***************************************************************************)
EXTENDS EligibilityEngine

ConflictCategory == {"NEW_PROJECT", "EXCLUSIVE_SUBMISSION", "LICENSE",
    "SPONSOR_SUPPORT", "SAME_PROJECT", "EXISTING_PROJECT", "DISCLOSURE"}

Check(known, violated) ==
    IF ~ known THEN "OPEN" ELSE IF violated THEN "VIOLATED" ELSE "CLEAR"

(* Lineage and reused material are listed; a list that is absent has nothing. *)
Listed(fact) == IF fact = None THEN {} ELSE ToSet(fact)

SameLineage(id, project, submission) ==
    LET left  == Listed(project.project_lineage)
        right == Listed(submission.project_lineage)
    IN  \/ id = submission.project
        \/ left \cap ({submission.project} \cup right) # {}
        \/ id \in right

(* What a rule of this category says of the project: _violation.            *)
Violation(rule, category, id, project, submissions) ==
    LET new == project.is_new_project
        origin == project.code_provenance
        lineage == project.project_lineage
        reused == project.reused_components
        some(s) == s \notin {None, <<>>}
    IN  CASE category = "NEW_PROJECT" ->
               IF new = FALSE \/ origin \in {"REUSED", "MIXED"} \/ some(lineage) \/ some(reused)
               THEN "VIOLATED"
               ELSE Check(new # None /\ origin # None /\ lineage # None /\ reused # None,
                          FALSE)
          [] category = "EXCLUSIVE_SUBMISSION" -> Check(TRUE, submissions # {})
          [] category = "LICENSE" ->
               Check(project.license_intent # None /\ rule.licenses # None,
                     project.license_intent \notin rule.licenses)
          [] category = "SPONSOR_SUPPORT" ->
               Check(project.has_sponsor_support # None, project.has_sponsor_support)
          [] category = "EXISTING_PROJECT" -> Check(new # None, ~ new)
          [] category = "DISCLOSURE" ->
               IF reused = <<>> THEN "CLEAR"
               ELSE Check(reused # None /\ project.reuse_disclosed # None,
                          ~ project.reuse_disclosed)
          [] OTHER ->
               IF \E s \in submissions : SameLineage(id, project, s) THEN "VIOLATED"
               ELSE Check(\A s \in submissions :
                              None \notin {lineage, s.project_lineage}, FALSE)

(* The project's fields a category relies on; a submission of the same       *)
(* project states them too.                                                 *)
SharedFields(category) ==
    CASE category = "NEW_PROJECT" ->
            {"code_provenance", "project_lineage", "reused_components"}
      [] category = "LICENSE" -> {"license_intent"}
      [] category = "SPONSOR_SUPPORT" -> {"has_sponsor_support"}
      [] category = "DISCLOSURE" -> {"reused_components"}
      [] OTHER -> {}

(* Lists disagree by their order too.                                       *)
Disagreement(category, id, project, submissions) ==
    \E s \in {t \in submissions : t.project = id} : \E f \in SharedFields(category) :
        project[f] # None /\ s[f] # None /\ project[f] # s[f]

EvidenceField(category) ==
    CASE category = "LICENSE" -> "LICENSE"
      [] category = "SPONSOR_SUPPORT" -> "FINANCIAL_SUPPORT"
      [] OTHER -> "PROJECT_POLICY"

AcceptableSources == HardSources \cup {"SYNTHETIC_FIXTURE"}

Reviewed(in, category, e, deadlines) ==
    /\ e \in DOMAIN in.evidence
    /\ in.evidence[e].state = "REVIEWED"
    /\ in.evidence[e].source \in AcceptableSources
    /\ in.evidence[e].field = EvidenceField(category)
    /\ Freshness(in.evidence[e].at, in.now, deadlines) = "FRESH"

(* A rule can be applied when it is supported, its applicability is stated   *)
(* and every reference of it is reviewed; an external contest's rule must be *)
(* one the submission cites.                                                 *)
Applicable(in, scope, category) ==
    /\ category \in DOMAIN scope.rules
    /\ LET rule == scope.rules[category]
       IN  /\ rule.supported
           /\ rule.applies # None
           /\ rule.evidence # {}
           /\ rule.evidence \subseteq scope.cited
           /\ \A e \in rule.evidence : Reviewed(in, category, e, scope.deadlines)

Assess(in, id, project, scope, category) ==
    IF ~ Applicable(in, scope, category) THEN "OPEN"
    ELSE LET rule  == scope.rules[category]
             found == Violation(rule, category, id, project, scope.peers)
         IN  IF ~ rule.applies THEN "CLEAR"
             ELSE IF found = "CLEAR" /\ Disagreement(category, id, project, scope.peers)
                  THEN "OPEN"
             ELSE found

(* The opportunity's scope, with its effective deadlines, and one scope for  *)
(* the contest of every active submission, whose deadlines are not known.    *)
Scopes(in) ==
    LET entered == {in.submissions[s] : s \in DOMAIN in.submissions}
    IN  {[rules |-> in.conflictRules, peers |-> entered,
          deadlines |-> EffectiveDeadlines(in),
          cited |-> UNION {in.conflictRules[c].evidence : c \in DOMAIN in.conflictRules}]}
        \cup {[rules |-> s.rules, peers |-> {s}, deadlines |-> {}, cited |-> s.refs] :
                  s \in entered}

(* Mutant: something missing is reported before a violation.                *)
AssessMissingFirst(in, id, project) ==
    LET results == {Assess(in, id, project, scope, category) :
                        scope \in Scopes(in), category \in ConflictCategory}
    IN  IF "OPEN" \in results THEN "REVIEW_REQUIRED"
        ELSE IF "VIOLATED" \in results THEN "BLOCKED_BY_EXPLICIT_RULE"
        ELSE "NO_CONFLICT_DETECTED_IN_CHECKED_RULES"

AssessConflicts(in, id, project) ==
    LET results == {Assess(in, id, project, scope, category) :
                        scope \in Scopes(in), category \in ConflictCategory}
    IN  IF "VIOLATED" \in results THEN "BLOCKED_BY_EXPLICIT_RULE"
        ELSE IF "OPEN" \in results THEN "REVIEW_REQUIRED"
        ELSE "NO_CONFLICT_DETECTED_IN_CHECKED_RULES"

=============================================================================
