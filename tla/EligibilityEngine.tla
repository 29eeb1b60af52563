------------------------- MODULE EligibilityEngine -------------------------
(***************************************************************************)
(* qualor/eligibility: a rule is compared with the stated facts, its        *)
(* evidence is checked for review and freshness, composite rules combine    *)
(* their children in a three-valued logic, and the critical rules of nine   *)
(* categories make one gate.  Everything is a pure operator of an input     *)
(* "in" (EvaluationInput) and a project of it.                              *)
(*                                                                         *)
(* A fact is its value, or None; a rule set is a function from rule ids to  *)
(* rules, a composite naming its children; reason codes are kept as sets    *)
(* and their order is left out; instants count NearTtl units.               *)
(***************************************************************************)
EXTENDS Integers, Sequences, FiniteSets, FiniteSetsExt, SequencesExt

CONSTANTS
    None,          \* an absent fact
    NearTtl,       \* how long evidence lives when a deadline is near or not known
    DefaultTtl,    \* how long it lives otherwise
    NearWindow     \* how close a deadline is near

ASSUME TtlAssumption ==
    /\ NearTtl \in Nat \ {0}
    /\ DefaultTtl \in Nat
    /\ NearTtl <= DefaultTtl
    /\ NearWindow \in Nat

-----------------------------------------------------------------------------
Category == {"DEADLINE", "ENTRANT_TYPE", "GEOGRAPHY", "LEGAL_ENTITY",
    "PROJECT_POLICY", "LICENSE", "REQUIRED_TECHNOLOGY", "FINANCIAL_SUPPORT",
    "REWARD_CONDITIONS"}

Connectives == {"AND", "OR"}

Verdict(matched) == IF matched THEN "PASS" ELSE "FAIL"

(* AND is settled by one FAIL and OR by one PASS; short of that every       *)
(* child must agree.  A child that does not apply settles nothing.          *)
Composite(op, statuses) ==
    LET decisive  == Verdict(op = "OR")
        unanimous == Verdict(op = "AND")
    IN  IF decisive \in statuses THEN decisive
        ELSE IF statuses = {unanimous} THEN unanimous
        ELSE "UNKNOWN"

(* Whether an operator can compare a value of this kind with the operands,  *)
(* which are all of that kind.                                              *)
Comparable(op, kind, operands) ==
    \/ op \in {"IN", "NOT_IN"}
    \/ Len(operands) = 1 /\ \/ op = "EQ"
                            \/ op = "BOOL_IS" /\ kind = "bool"
                            \/ op \in {"GTE", "LTE"} /\ kind = "number"
    \/ Len(operands) = 2 /\ \/ op = "BETWEEN" /\ kind = "number"
                            \/ op = "DATE_BETWEEN" /\ kind \in {"date", "instant"}
                         /\ operands[1].value <= operands[2].value

Matches(op, value, operands) ==
    LET among == \E i \in DOMAIN operands : operands[i].value = value
    IN  CASE op \in {"IN", "EQ", "BOOL_IS"} -> among
          [] op = "NOT_IN" -> ~ among
          [] op = "GTE" -> value >= operands[1].value
          [] op = "LTE" -> value <= operands[1].value
          [] OTHER -> operands[1].value <= value /\ value <= operands[2].value

(* Mutant: a fact that is not stated fails its rule.                        *)
LeafAbsentFails(op, actual, operands) ==
    IF actual = None THEN "FAIL"
    ELSE IF operands = <<>> \/ actual.kind = "stack" \/ ~ Comparable(op, actual.kind, operands)
         THEN "UNKNOWN" ELSE Verdict(Matches(op, actual.value, operands))

(* A leaf: an absent fact, a missing operand or two kinds that cannot be    *)
(* compared stay UNKNOWN.  A technology stack holds one of the allowed ones. *)
Leaf(op, actual, operands) ==
    IF actual = None \/ operands = <<>> THEN "UNKNOWN"
    ELSE LET kind == IF actual.kind = "stack" THEN "text" ELSE actual.kind
         IN  IF \E i \in DOMAIN operands : operands[i].kind # kind THEN "UNKNOWN"
             ELSE IF actual.kind = "stack"
                  THEN IF op # "IN" \/ actual.value = {} THEN "UNKNOWN"
                       ELSE Verdict(\E i \in DOMAIN operands :
                                        operands[i].value \in actual.value)
             ELSE IF Comparable(op, kind, operands)
                  THEN Verdict(Matches(op, actual.value, operands))
             ELSE "UNKNOWN"

-----------------------------------------------------------------------------
(* The fact a rule is about, and the reason when there is none to compare.  *)

AllowedSubjects ==
    [DEADLINE |-> {"evaluated_at"}, ENTRANT_TYPE |-> {"team_size", "legal_form"},
     GEOGRAPHY |-> {"residence", "citizenship"},
     LEGAL_ENTITY |-> {"legal_form", "incorporation_date"},
     PROJECT_POLICY |-> {"is_new_project"},
     LICENSE |-> {"license_intent", "open_source"},
     REQUIRED_TECHNOLOGY |-> {"technology_stack"},
     FINANCIAL_SUPPORT |-> {"has_sponsor_support"},
     REWARD_CONDITIONS |-> {"reward_conditions_met"}]

KindOf(subject) ==
    CASE subject = "technology_stack" -> "stack"
      [] subject = "incorporation_date" -> "date"
      [] subject = "team_size" -> "number"
      [] subject \in {"open_source", "is_new_project", "has_sponsor_support",
                      "reward_conditions_met"} -> "bool"
      [] OTHER -> "text"

(* New work counts only when its origin is documented.                      *)
OriginDocumented(project) ==
    /\ project.code_provenance = "ORIGINAL"
    /\ {"code_provenance", "is_new_project"} \subseteq project.documented

Resolve(in, project, rule) ==
    LET subject == rule.subject
        absent(reason) == [value |-> None, reason |-> reason]
        found(kind, value) ==
            [value |-> [kind |-> kind, value |-> value], reason |-> "MATCH"]
        fact == IF subject \in DOMAIN in.founder THEN in.founder[subject]
                                                ELSE project[subject]
    IN  IF subject \notin AllowedSubjects[rule.type] THEN absent("UNSUPPORTED")
        ELSE IF subject = "evaluated_at"
             THEN IF rule.op = "DATE_BETWEEN" THEN found("instant", in.now)
                                              ELSE absent("UNSUPPORTED")
        ELSE IF subject = "is_new_project" /\ ~ OriginDocumented(project)
             THEN absent("PROVENANCE_REQUIRED")
        ELSE IF fact = None THEN absent("MISSING_FACT")
        ELSE found(KindOf(subject), fact)

-----------------------------------------------------------------------------
(* Evidence.  A deadline is exact (an instant) or a calendar date.          *)

(* Mutant: the comparison with the window is the wrong way round.           *)
TtlReversed(deadlines, now) ==
    IF deadlines = {} \/ \E d \in deadlines : ~ d.exact \/ d.at - now >= NearWindow
    THEN NearTtl ELSE DefaultTtl

Ttl(deadlines, now) ==
    IF \/ deadlines = {}
       \/ \E d \in deadlines : ~ d.exact
       \/ \E d \in deadlines : d.at - now < NearWindow
    THEN NearTtl ELSE DefaultTtl

Freshness(retrieved, now, deadlines) ==
    IF now < retrieved THEN "UNKNOWN"
    ELSE IF now - retrieved < Ttl(deadlines, now) THEN "FRESH"
    ELSE "STALE"

(* The opportunity's deadlines and every bound a deadline rule states,      *)
(* critical or not, at any depth.                                           *)
EffectiveDeadlines(in) ==
    LET bounds == {in.rules[r] : r \in {q \in DOMAIN in.rules :
                      /\ in.rules[q].type = "DEADLINE"
                      /\ in.rules[q].op = "DATE_BETWEEN"
                      /\ in.rules[q].subject = "evaluated_at"
                      /\ Len(in.rules[q].operands) = 2
                      /\ in.rules[q].operands[2].kind \in {"date", "instant"}}}
    IN  in.deadlines \cup {[exact |-> b.operands[2].kind = "instant",
                            at    |-> b.operands[2].value] : b \in bounds}

HardSources == {"OFFICIAL_RULES", "OFFICIAL_FAQ", "OFFICIAL_APPLICATION"}

(* Mutant: the age of a record is not looked at.                            *)
IssuesIgnoringAge(in, rule, e, deadlines) ==
    IF e \notin DOMAIN in.evidence THEN {"MISSING_EVIDENCE"}
    ELSE IF in.evidence[e].field = rule.type /\ in.evidence[e].state = "REVIEWED" THEN {}
    ELSE {"UNVERIFIED_EVIDENCE"}

IssuesOf(in, rule, e, deadlines) ==
    LET record == in.evidence[e]
        fresh  == Freshness(record.at, in.now, deadlines)
    IN  IF e \notin DOMAIN in.evidence THEN {"MISSING_EVIDENCE"}
        ELSE (IF \/ /\ record.source \notin HardSources
                    /\ ~ (record.source = "SYNTHETIC_FIXTURE" /\ in.mode = "FIXTURE")
                 \/ record.field # rule.type
                 \/ record.state # "REVIEWED"
                 \/ fresh = "UNKNOWN"
              THEN {"UNVERIFIED_EVIDENCE"} ELSE {})
             \cup (IF fresh = "STALE" THEN {"STALE_EVIDENCE"} ELSE {})

EvidenceIssues(in, rule, deadlines) ==
    IF rule.evidence = {} THEN {"MISSING_EVIDENCE"}
    ELSE UNION {IssuesOf(in, rule, e, deadlines) : e \in rule.evidence}

-----------------------------------------------------------------------------
(* One rule, given the evaluations of its children.  A child's stale or      *)
(* contradictory evidence makes a composite uncertain even when another      *)
(* child settles it, except that a confirmed FAIL stands.                    *)
EvaluateRule(in, project, rule, kids, deadlines) ==
    LET composite == rule.op \in Connectives
        actual    == Resolve(in, project, rule)
        own       == EvidenceIssues(in, rule, deadlines)
                     \cup (IF rule.contradiction THEN {"CONFLICT"} ELSE {})
                     \cup (IF rule.supported THEN {} ELSE {"UNSUPPORTED"})
        inherited == IF ~ composite THEN {}
                     ELSE (UNION {k.codes : k \in kids}) \cap {"STALE_EVIDENCE", "CONFLICT"}
        misshapen == IF composite
                     THEN \/ rule.subject # None
                          \/ rule.operands # <<>>
                          \/ \E k \in kids : k.type # rule.type
                     ELSE kids # {}
        raw       == IF composite THEN Composite(rule.op, {k.status : k \in kids})
                     ELSE IF kids # {} THEN "UNKNOWN"
                     ELSE Leaf(rule.op, actual.value, rule.operands)
        unresolved == IF composite \/ kids # {} \/ raw # "UNKNOWN" \/ rule.notApplicable
                      THEN {}
                      ELSE IF actual.value = None THEN {actual.reason}
                                                  ELSE {"INVALID_OPERANDS"}
        issues    == own \cup inherited \cup unresolved
                     \cup (IF misshapen THEN {"INVALID_OPERANDS"} ELSE {})
        confirmed == composite /\ raw = "FAIL" /\ own = {} /\ ~ misshapen
        status    == IF issues # {} /\ ~ confirmed THEN "UNKNOWN"
                     ELSE IF rule.notApplicable THEN "NOT_APPLICABLE"
                     ELSE raw
    IN  [type |-> rule.type, status |-> status, codes |-> issues]

(* Every rule of the input, children first.                                 *)
Evaluations(in, project) ==
    LET deadlines == EffectiveDeadlines(in)
        result[r \in DOMAIN in.rules] ==
            EvaluateRule(in, project, in.rules[r],
                         {result[c] : c \in in.rules[r].children}, deadlines)
    IN  result

TopLevel(in) == DOMAIN in.rules \ UNION {in.rules[r].children : r \in DOMAIN in.rules}

(* Ids are unique by construction; a composite and its children are equally *)
(* critical, or the whole input is refused.                                 *)
ValidRules(in) ==
    \A r \in DOMAIN in.rules :
        \A c \in in.rules[r].children : in.rules[c].critical = in.rules[r].critical

-----------------------------------------------------------------------------
CriticalRules(in) == {r \in TopLevel(in) : in.rules[r].critical}

Coverage(in, result, category) ==
    LET rules    == {r \in CriticalRules(in) : in.rules[r].type = category}
        statuses == {result[r].status : r \in rules}
    IN  IF rules = {} THEN "MISSING"
        ELSE IF "UNKNOWN" \in statuses THEN "UNKNOWN"
        ELSE IF statuses = {"NOT_APPLICABLE"}
             THEN IF \A r \in rules : in.rules[r].notApplicable
                  THEN "NOT_APPLICABLE_WITH_REASON" ELSE "UNKNOWN"
        ELSE "EVALUATED"

(* One critical FAIL closes the gate; it opens only when every category is  *)
(* covered and no critical rule is unknown.                                 *)
Gate(in, result) ==
    LET statuses == {result[r].status : r \in CriticalRules(in)}
    IN  IF "FAIL" \in statuses THEN "FAIL"
        ELSE IF \/ "UNKNOWN" \in statuses
                \/ \E c \in Category : Coverage(in, result, c) \in {"MISSING", "UNKNOWN"}
             THEN "REVIEW_REQUIRED"
        ELSE "PASS"

AggregateEligibility(in, project) == Gate(in, Evaluations(in, project))

=============================================================================
