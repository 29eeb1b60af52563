--------------------------- MODULE CoverageLedger ---------------------------
(***************************************************************************)
(* The ledger of one plan (runtime/acquisition_coverage.py) as a value:    *)
(* the state of each obligation, the activations, the attempts and the     *)
(* retained outcomes.  Every method of the ledger is an operator from a    *)
(* ledger to the next one; its diagnostic transitions are left out.        *)
(* An obligation is a pair of a place in the plan and a category.          *)
(***************************************************************************)
EXTENDS AcquisitionPlan

Terminal == {"ACCOUNTED", "CONTEXT_UNRESOLVED", "OVERFLOW_UNDISPATCHED"}
Statuses == {"SUPPORTED", "AMBIGUOUS", "UNKNOWN", "UNSUPPORTED"}
Outcome == [status : Statuses, supports : BOOLEAN, complete : BOOLEAN]

\* The obligations the ledger knows of are the domain of state.
Holds(L, o, states) == o \in DOMAIN L.state /\ L.state[o] \in states

SetStates(L, obligations, s) ==
  [L EXCEPT !.state = [o \in DOMAIN L.state \cup obligations |->
                         IF o \in obligations THEN s ELSE L.state[o]]]

Obligations(i, cats) == {i} \X cats

\* Mutant: every activation is applied again, the ones already recorded too.
ApplyAgain(L, activations) ==
  [SetStates(L, UNION {Obligations(a[1], a[2]) : a \in activations}, "ACTIVE")
     EXCEPT !.activations = activations]

\* _apply_activations: only new ones, and each starts its obligations.
Apply(L, activations) ==
  [SetStates(L, UNION {Obligations(a[1], a[2]) : a \in activations \ L.activations}, "ACTIVE")
     EXCEPT !.activations = activations]

\* _initialize_plan
NewLedger(plan) ==
  Apply([state |-> [o \in {p \in (DOMAIN plan) \X Categories : p[2] \in plan[p[1]].cats} |->
                      IF plan[o[1]].tier = "MANDATORY" THEN "ACTIVE" ELSE "INACTIVE"],
         activations |-> {}, attempts |-> {}, outcomes |-> <<>>],
        InitialActivations(plan))

HasOutcome(L, o) == o \in DOMAIN L.outcomes

\* The requests of reconcile_plan.
Requested(plan, L) ==
  {r \in {"AMBIGUOUS_ANCHOR", "NO_SUPPORTED_ANCHOR"} \X Categories :
     LET anchors == {<<i, r[2]>> : i \in Anchors(plan, r[2])}
     IN  IF r[1] = "AMBIGUOUS_ANCHOR"
         THEN \E o \in anchors : HasOutcome(L, o) /\ L.outcomes[o].status = "AMBIGUOUS"
         ELSE /\ anchors # {}
              /\ \A o \in anchors : /\ Holds(L, o, Terminal)
                                    /\ ~(HasOutcome(L, o) /\ L.outcomes[o].supports)}

Reconcile(plan, L) == Apply(L, Activate(plan, L.activations, Requested(plan, L)))

ActiveCats(L, i) == {c \in Categories : Holds(L, <<i, c>>, {"ACTIVE"})}
ActiveItems(plan, L) == {i \in DOMAIN plan : ActiveCats(L, i) # {}}

\* begin_item, whose checks the caller has made.
BeginItem(L, i, cats) ==
  [SetStates(L, Obligations(i, cats), "EXTRACTION_ATTEMPTED")
     EXCEPT !.attempts = @ \cup Obligations(i, cats)]

\* complete_item: what is an outcome of each of the categories.
CompleteItem(plan, L, i, what) ==
  Reconcile(plan,
    [SetStates(L, Obligations(i, DOMAIN what), "ACCOUNTED")
       EXCEPT !.outcomes = [o \in DOMAIN L.outcomes \cup Obligations(i, DOMAIN what) |->
                              IF o \in Obligations(i, DOMAIN what) THEN what[o[2]]
                              ELSE L.outcomes[o]]])

\* Mutant: a failed item may be drawn again.
FailToActive(plan, L, i, cats) ==
  Reconcile(plan, SetStates(L, Obligations(i, cats), "ACTIVE"))

\* operational_failure_item: accounted for without an outcome.
OperationalFailure(plan, L, i, cats) ==
  Reconcile(plan, SetStates(L, Obligations(i, cats), "ACCOUNTED"))

\* budget_blocked_item
BudgetBlocked(L, i, cats) ==
  [SetStates(L, Obligations(i, cats), "ACTIVE")
     EXCEPT !.attempts = @ \ Obligations(i, cats)]

\* mark_context_unresolved of each of the items.
MarkContext(L, items) ==
  SetStates(L, UNION {Obligations(i, ActiveCats(L, i)) : i \in items}, "CONTEXT_UNRESOLVED")

\* Mutant: only mandatory items are recorded as overflow.
MandatoryOverflow(plan, L, items) ==
  SetStates(L, UNION {Obligations(i, ActiveCats(L, i)) :
                        i \in {j \in items : plan[j].tier = "MANDATORY"}},
            "OVERFLOW_UNDISPATCHED")

\* mark_plan_overflow, as far as items.
MarkOverflow(plan, L, items) ==
  SetStates(L, UNION {Obligations(i, ActiveCats(L, i)) : i \in items}, "OVERFLOW_UNDISPATCHED")

-----------------------------------------------------------------------------
(* _recompute_plan_states *)

\* The started obligations of a category.
Started(L, c) == {o \in DOMAIN L.state : o[2] = c /\ L.state[o] # "INACTIVE"}

\* Mutant: a category with work left can already be supported.
EarlySupport(plan, L, c) ==
  /\ \E o \in Started(L, c) : HasOutcome(L, o) /\ L.outcomes[o].supports
  /\ \A o \in Started(L, c) : HasOutcome(L, o) =>
       L.outcomes[o].complete /\ L.outcomes[o].status \notin {"AMBIGUOUS", "UNKNOWN"}

\* The category is SUPPORTED in source accounting.
Supported(plan, L, c) ==
  /\ \E o \in Started(L, c) : HasOutcome(L, o) /\ L.outcomes[o].supports
  /\ \A o \in Started(L, c) :
       /\ L.state[o] = "ACCOUNTED"
       /\ HasOutcome(L, o) /\ L.outcomes[o].complete
       /\ L.outcomes[o].status \notin {"AMBIGUOUS", "UNKNOWN"}
       /\ plan[o[1]].complete

ContextUnresolved(L, c) ==
  /\ \E o \in Started(L, c) : L.state[o] = "CONTEXT_UNRESOLVED"
  /\ \A o \in Started(L, c) : L.state[o] \notin {"ACTIVE", "EXTRACTION_ATTEMPTED"}
=============================================================================
