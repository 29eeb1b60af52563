--------------------------- MODULE AcquisitionPlan ---------------------------
(***************************************************************************)
(* The immutable plan of one indexed source (runtime/acquisition_plan.py)  *)
(* and the activation of its items.  A section index is a sequence of      *)
(* sections in source order; categories are 1 .. NumCategories in the      *)
(* declaration order of Category.  Hashed ids are left out: an item is     *)
(* known by its place in the plan.                                         *)
(***************************************************************************)
EXTENDS Integers, FiniteSets, SequencesExt

CONSTANTS
  NumCategories,   \* categories of rules (nine in the code)
  MaxSpans,        \* MAX_EXTRACTION_JOB_SPAN_IDS
  MaxContext       \* MAX_CONTEXT_SECTION_IDS

ASSUME PlanConstants == NumCategories \in Nat \ {0} /\ {MaxSpans, MaxContext} \subseteq Nat

Categories == 1 .. NumCategories
Tiers == {"MANDATORY", "CONDITIONAL", "RESERVE"}

\* The reasons _activation_reasons can give an item.
Reasons == {"INCOMPLETE_CONTEXT", "EXPLICIT_REFERENCE", "GLOBAL_CONTEXT",
            "NO_SUPPORTED_ANCHOR", "RULE_LIKE_FALLBACK", "ROUTING_UNCERTAIN"}

\* A section as the indexer routes it: category terms of its body and of its
\* heading, hints of rule-like text, and its governing context.
Section == [body : SUBSET Categories, heading : SUBSET Categories,
            hints : SUBSET Categories, marker : BOOLEAN, ruleLike : BOOLEAN,
            ref : BOOLEAN, global : BOOLEAN, context : SUBSET Nat,
            complete : BOOLEAN, spans : Nat]

\* What index_source guarantees of every index it returns: a section that cannot
\* have all of its context has the first MaxContext of it, and is incomplete.
IsIndex(ix) ==
  /\ ix \in Seq(Section) /\ ix # <<>>
  /\ \A n \in DOMAIN ix :
       /\ ix[n].context \subseteq DOMAIN ix \ {n}
       /\ Cardinality(ix[n].context) <= MaxContext
       /\ ix[n].marker => ix[n].ruleLike
       /\ \A m \in DOMAIN ix \ {n} : ix[m].global =>
            \/ m \in ix[n].context
            \/ ~ ix[n].complete /\ Cardinality(ix[n].context) = MaxContext

\* No context was cut short of a global section.
GlobalsGovern(ix) ==
  \A n \in DOMAIN ix : \A m \in DOMAIN ix \ {n} : ix[m].global => m \in ix[n].context

-----------------------------------------------------------------------------
LocalMandatory(s, c) == c \in s.body /\ s.marker

Routed(s) == s.body \cup s.heading \cup s.hints

TierOf(s, c) == IF LocalMandatory(s, c) THEN "MANDATORY" ELSE "CONDITIONAL"

SignalRank(s, c) ==
  CASE LocalMandatory(s, c) -> 0
    [] c \in s.body /\ ~s.marker -> 1
    [] c \in s.heading \ s.body /\ s.ruleLike -> 2
    [] OTHER -> 3

Anchored(ix) == {c \in Categories : \E n \in DOMAIN ix : LocalMandatory(ix[n], c)}

ActivationReasons(ix, s, c) ==
  LET found ==
        {r \in Reasons :
           \/ r = "INCOMPLETE_CONTEXT" /\ ~s.complete
           \/ r = "NO_SUPPORTED_ANCHOR" /\ c \notin Anchored(ix)
           \/ r \in {"RULE_LIKE_FALLBACK", "ROUTING_UNCERTAIN"} /\ s.ruleLike /\ c \in s.hints
           \/ r = "EXPLICIT_REFERENCE" /\ s.ref
           \/ r = "GLOBAL_CONTEXT" /\ s.global}
  IN  CASE LocalMandatory(s, c) -> {}
        [] ~LocalMandatory(s, c) /\ found = {} -> {"NO_SUPPORTED_ANCHOR"}
        [] OTHER -> found

\* The categories of section n that coalesce with c, and how many come first.
Coalesced(ix, n, c) ==
  {d \in Routed(ix[n]) :
     /\ TierOf(ix[n], d) = TierOf(ix[n], c)
     /\ ActivationReasons(ix, ix[n], d) = ActivationReasons(ix, ix[n], c)
     /\ SignalRank(ix[n], d) = SignalRank(ix[n], c)}

Before(S, c) == Cardinality({d \in S : d < c})

\* _chunks: items address at most two categories.
Chunk(ix, n, c) ==
  LET group == Coalesced(ix, n, c)
  IN  {d \in group : Before(group, d) \div 2 = Before(group, c) \div 2}

SmallestOf(S) == CHOOSE x \in S : \A y \in S : x <= y
LargestOf(S) == CHOOSE x \in S : \A y \in S : x >= y

\* Items of the same tier and category that earlier sections already have.
Breadth(ix, n, cats, tier) ==
  LargestOf({Cardinality({m \in 1 .. n - 1 : c \in Routed(ix[m]) /\ TierOf(ix[m], c) = tier}) :
               c \in cats})

Item(ix, n, cats, tier, reasons, signal, breadth) ==
  [section |-> n, cats |-> cats, tier |-> tier, reasons |-> reasons,
   context |-> ix[n].context, complete |-> ix[n].complete,
   ref |-> ix[n].ref, global |-> ix[n].global,
   rank |-> <<CASE tier = "MANDATORY" -> 0 [] tier = "CONDITIONAL" -> 1 [] OTHER -> 2,
              breadth,
              IF cats = {} THEN NumCategories + 1 ELSE SmallestOf(cats),
              signal, Cardinality(ix[n].context), n>>]

ItemsOf(ix, n) ==
  IF Routed(ix[n]) = {}
  THEN {Item(ix, n, {}, "RESERVE", {}, 3, 0)}
  ELSE {LET tier == TierOf(ix[n], c) IN
        Item(ix, n, Chunk(ix, n, c), tier, ActivationReasons(ix, ix[n], c),
             SignalRank(ix[n], c), Breadth(ix, n, Chunk(ix, n, c), tier)) :
          c \in Routed(ix[n])}

Earlier(a, b) ==
  \E k \in 1 .. 6 : a.rank[k] < b.rank[k] /\ \A j \in 1 .. k - 1 : a.rank[j] = b.rank[j]

\* build_acquisition_plan: the items in the order of their ranks.
BuildPlan(ix) ==
  LET items == UNION {ItemsOf(ix, n) : n \in DOMAIN ix}
  IN  CHOOSE p \in [1 .. Cardinality(items) -> items] :
        \A i, j \in 1 .. Cardinality(items) : i < j => Earlier(p[i], p[j])

-----------------------------------------------------------------------------
(* Activations: a set of pairs of a place in the plan and its categories.  *)

Anchors(plan, c) == {i \in DOMAIN plan : plan[i].tier = "MANDATORY" /\ c \in plan[i].cats}

\* A context edge from an active item i that qualifies item j.
Links(plan, i, j) ==
  /\ plan[j].section \in plan[i].context
  /\ plan[j].tier # "MANDATORY"
  /\ plan[i].cats # {}
  /\ plan[j].cats = {} \/ plan[j].cats \cap plan[i].cats # {}
  /\ plan[j].global \/ plan[i].ref

\* Mutant: context edges are followed from the given items only, not onwards.
OneStep(plan, S) == S \cup {j \in DOMAIN plan : \E i \in S : Links(plan, i, j)}

\* Items reached from S along qualifying edges, S included.
Reached(plan, S) ==
  LET grow[k \in 0 .. Len(plan)] ==
        IF k = 0 THEN S
        ELSE LET before == grow[k - 1]
             IN  before \cup {j \in DOMAIN plan : \E i \in before : Links(plan, i, j)}
  IN  grow[Len(plan)]

\* _close_context_activations: a reserve item takes the categories of its cause.
CloseContext(plan, activations) ==
  LET active == Reached(plan, {i \in DOMAIN plan : plan[i].tier = "MANDATORY"}
                              \cup {a[1] : a \in activations})
  IN  activations
      \cup {<<j, plan[j].cats>> : j \in {k \in active : plan[k].tier = "CONDITIONAL"}}
      \cup {<<e[2], plan[e[1]].cats>> :
              e \in {p \in active \X (DOMAIN plan) :
                       plan[p[2]].tier = "RESERVE" /\ Links(plan, p[1], p[2])}}

InitialActivations(plan) ==
  LET anchored == UNION {plan[i].cats : i \in {j \in DOMAIN plan : plan[j].tier = "MANDATORY"}}
      static(i) ==
        {"INCOMPLETE_CONTEXT", "RULE_LIKE_FALLBACK", "ROUTING_UNCERTAIN"}
        \cup IF plan[i].cats \cap anchored = {} THEN {"NO_SUPPORTED_ANCHOR"} ELSE {}
  IN  CloseContext(plan,
        {<<i, plan[i].cats>> :
           i \in {j \in DOMAIN plan : plan[j].tier = "CONDITIONAL"
                                      /\ plan[j].reasons \cap static(j) # {}}})

\* activate_plan_items, for every requested pair of a reason and a category.
Activate(plan, activations, requested) ==
  CloseContext(plan,
    activations \cup
    {<<i, plan[i].cats>> :
       i \in {j \in DOMAIN plan : plan[j].tier = "CONDITIONAL"
                /\ \E r \in requested : r[1] \in plan[j].reasons /\ r[2] \in plan[j].cats}})

\* SectionScheduler._context_for succeeds: the whole transitive context is
\* complete, has spans, and fits one job.
Governing(ix, n) ==
  LET grow[k \in 0 .. Len(ix)] ==
        IF k = 0 THEN {n}
        ELSE grow[k - 1] \cup UNION {ix[m].context : m \in grow[k - 1]}
  IN  grow[Len(ix)]

SpanTotal(ix, S) == SumFunction([m \in S |-> ix[m].spans])

ContextFits(ix, n) ==
  /\ \A m \in Governing(ix, n) : ix[m].complete /\ ix[m].spans > 0
  /\ SpanTotal(ix, Governing(ix, n)) <= MaxSpans
=============================================================================
