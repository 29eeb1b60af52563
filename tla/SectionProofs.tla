---------------------------- MODULE SectionProofs ----------------------------
(***************************************************************************)
(* Proofs about section acquisition, for every source, plan and budget.    *)
(***************************************************************************)
EXTENDS SectionAcquisition, DataInduction, TLAPS

VerdictStops == {"HARD_FAIL_CONFIRMED", "SUFFICIENT_CRITICAL_EVIDENCE"}

\* Executable authority is of categories, none of them contradicted.
Uncontradicted == executable \subseteq Categories \ Conflicts(observations)

-----------------------------------------------------------------------------
(* Conflicting readings.                                                   *)

\* What Effective selects is a category without a conflict among the readings.
LEMMA EffectiveIsUncontradicted ==
  ASSUME NEW seen, NEW L
  PROVE  Effective(seen, L) \subseteq Categories \ Conflicts(seen)
BY DEF Effective

\* Uncontradicted holds in every reachable state.
LEMMA ConflictInvariant == AcquisitionSpec => []Uncontradicted
<1>1. Init => Uncontradicted
  BY DEF Init, Uncontradicted
<1>2. Uncontradicted /\ [Next]_vars => Uncontradicted'
  <2> SUFFICES ASSUME Uncontradicted, [Next]_vars
               PROVE  Uncontradicted'
    OBVIOUS
  <2>1. UNCHANGED authority => Uncontradicted'
    BY DEF Uncontradicted, authority, Conflicts
  <2>2. ASSUME NEW seen, NEW L, Admit(seen, L)
        PROVE  Uncontradicted'
    BY <2>2, EffectiveIsUncontradicted DEF Admit, Uncontradicted, Conflicts
  <2>3. CASE DispatchCompletes
    BY <2>1, <2>2, <2>3 DEF DispatchCompletes, AdmitNothing, AdmitRaises
  <2>4. CASE StepBound \/ PlanFull \/ PlanFullRaises \/ BudgetBound
    BY <2>1, <2>4 DEF StepBound, PlanFull, PlanFullRaises, BudgetBound
  <2>5. CASE SelectJob \/ SelectRaises \/ NothingToSelect
    BY <2>1, <2>5 DEF SelectJob, SelectRaises, NothingToSelect
  <2>6. CASE RepeatedJob \/ BeginJob \/ BeginRaises
    BY <2>1, <2>6 DEF RepeatedJob, BeginJob, BeginRaises
  <2>7. CASE DispatchDenied \/ DispatchFails
    BY <2>1, <2>7 DEF DispatchDenied, DispatchFails
  <2>8. CASE RunEnds \/ PlannerTurn
    BY <2>1, <2>8 DEF RunEnds, PlannerTurn
  <2>9. CASE UNCHANGED vars
    BY <2>1, <2>9 DEF vars, authority
  <2> QED
    BY <2>3, <2>4, <2>5, <2>6, <2>7, <2>8, <2>9 DEF Next
<1> QED
  BY <1>1, <1>2, PTL DEF AcquisitionSpec

\* Two admitted readings of a category that disagree never leave it executable,
\* whichever jobs they came from (_retain_conflicts before the coverage guard).
THEOREM ConflictsNeverExecute == AcquisitionSpec => []ConflictNeverExecutes
<1>1. Uncontradicted => ConflictNeverExecutes
  BY DEF Uncontradicted, ConflictNeverExecutes, Conflicts
<1> QED
  BY <1>1, ConflictInvariant, PTL

-----------------------------------------------------------------------------
(* Verdicts.                                                               *)

IsLedger(L) ==
  L = [state |-> L.state, activations |-> L.activations,
       attempts |-> L.attempts, outcomes |-> L.outcomes]

\* Every retained outcome is of an item whose context could be asked in full.
Answered(L) ==
  \A o \in DOMAIN L.outcomes : L.outcomes[o].status \in Statuses /\ Safe(o[1])

\* A verdict leaves the loop for good.
VerdictLeaves == term \in VerdictStops => pc \in {"planner", "done"}

VerdictInv ==
  /\ IsLedger(ledger) /\ Answered(ledger)
  /\ pc \in {"selected", "dispatched"} => Safe(job.item)
  /\ VerdictLeaves
  /\ VerdictRestsOnCoverage

\* Changing the states of obligations changes nothing else of the ledger.
LEMMA SetStatesKeeps ==
  ASSUME NEW L, IsLedger(L), NEW X, NEW s
  PROVE  IsLedger(SetStates(L, X, s)) /\ SetStates(L, X, s).outcomes = L.outcomes
BY DEF IsLedger, SetStates

\* Neither do activations and reconciliation touch the outcomes.
LEMMA ApplyKeeps ==
  ASSUME NEW L, IsLedger(L), NEW A
  PROVE  IsLedger(Apply(L, A)) /\ Apply(L, A).outcomes = L.outcomes
<1> DEFINE M == SetStates(L, UNION {Obligations(a[1], a[2]) : a \in A \ L.activations}, "ACTIVE")
<1>1. IsLedger(M) /\ M.outcomes = L.outcomes
  BY SetStatesKeeps
<1>2. Apply(L, A) = [M EXCEPT !.activations = A]
  BY DEF Apply
<1> HIDE DEF M
<1> QED
  BY <1>1, <1>2 DEF IsLedger

\* Reconciliation is an activation.
LEMMA ReconcileKeeps ==
  ASSUME NEW P, NEW L, IsLedger(L)
  PROVE  IsLedger(Reconcile(P, L)) /\ Reconcile(P, L).outcomes = L.outcomes
BY ApplyKeeps DEF Reconcile

\* A category that Effective selects has every started obligation answered.
LEMMA EffectiveIsCovered ==
  ASSUME NEW seen, NEW L, Answered(L), NEW c \in Effective(seen, L),
         NEW o \in Started(L, c)
  PROVE  /\ o \in DOMAIN L.outcomes /\ L.outcomes[o].complete
         /\ L.outcomes[o].status \in {"SUPPORTED", "UNSUPPORTED"}
         /\ Safe(o[1])
BY DEF Effective, Supported, Answered, HasOutcome, Statuses

\* The status the loop records for a category is one of the four.
LEMMA OutcomeIsTyped ==
  ASSUME NEW readings, NEW conflict, NEW complete
  PROVE  OutcomeOf(readings, conflict, complete).status \in Statuses
BY DEF OutcomeOf, Statuses

\* A fresh run has a ledger without outcomes, and no verdict.
LEMMA VerdictInit == Init => VerdictInv
<1> SUFFICES ASSUME Init
             PROVE  VerdictInv
  OBVIOUS
<1> DEFINE K == {p \in (DOMAIN plan) \X Categories : p[2] \in plan[p[1]].cats}
           E == [state |-> [o \in K |-> IF plan[o[1]].tier = "MANDATORY"
                                        THEN "ACTIVE" ELSE "INACTIVE"],
                 activations |-> {}, attempts |-> {}, outcomes |-> <<>>]
<1>1. ledger = Apply(E, InitialActivations(plan))
  BY DEF Init, NewLedger
<1>2. IsLedger(E) /\ E.outcomes = <<>>
  BY DEF IsLedger
<1> HIDE DEF E
<1>3. IsLedger(ledger) /\ ledger.outcomes = <<>>
  BY <1>1, <1>2, ApplyKeeps
<1>4. Answered(ledger)
  BY <1>3 DEF Answered
<1> QED
  BY <1>3, <1>4 DEF Init, VerdictInv, VerdictLeaves, VerdictStops, VerdictRestsOnCoverage

\* An admission stops the run only on answered obligations.
LEMMA AdmitVerdict ==
  ASSUME NEW seen, NEW L, Answered(L), term \notin VerdictStops,
         ledger' = L, UNCHANGED <<index, plan>>,
         Admit(seen, L) \/ AdmitNothing(seen, L) \/ AdmitRaises(seen, L)
  PROVE  VerdictRestsOnCoverage'
<1>1. CASE Admit(seen, L)
  <2>1. executable' = Effective(seen, L) /\ term' \in Verdicts(executable')
    BY <1>1 DEF Admit
  <2>2. term' \in VerdictStops => executable' # {}
    <3>1. 1 \in Categories
      BY PlanConstants DEF Categories
    <3> QED
      BY <2>1, <3>1 DEF Verdicts, VerdictStops
  <2>3. term' = "SUFFICIENT_CRITICAL_EVIDENCE" => executable' = Categories
    BY <2>1 DEF Verdicts
  <2>4. \A c \in executable' : \A o \in Started(L, c) :
          /\ o \in DOMAIN L.outcomes /\ L.outcomes[o].complete
          /\ L.outcomes[o].status \in {"SUPPORTED", "UNSUPPORTED"}
          /\ Safe(o[1])
    BY <2>1, EffectiveIsCovered
  <2>5. \A i : Safe(i)' <=> Safe(i)
    BY DEF Safe
  <2> QED
    BY <2>2, <2>3, <2>4, <2>5 DEF VerdictRestsOnCoverage, VerdictStops
<1>2. CASE AdmitNothing(seen, L) \/ AdmitRaises(seen, L)
  <2>1. term' \notin VerdictStops
    BY <1>2 DEF AdmitNothing, AdmitRaises, ProgressStop, FailureStop, Stop, VerdictStops
  <2> QED
    BY <2>1 DEF VerdictRestsOnCoverage, VerdictStops
<1> QED
  BY <1>1, <1>2
\* While no verdict is given, a step that gives none keeps the property.
LEMMA NoVerdict ==
  ASSUME term' \notin VerdictStops
  PROVE  VerdictRestsOnCoverage' /\ VerdictLeaves'
BY DEF VerdictRestsOnCoverage, VerdictLeaves, VerdictStops

\* The other ways to stop are no verdicts.
LEMMA OtherStops ==
  ASSUME term \notin VerdictStops
  PROVE  /\ \A n : FailureStop(n) \notin VerdictStops /\ ProgressStop(n) \notin VerdictStops
         /\ \A why \in {"MAX_STEPS", "NO_PROGRESS", "BUDGET_EXHAUSTED",
                        "TOOL_FAILURE_BOUND_REACHED"} : Stop(term, why) \notin VerdictStops
BY DEF FailureStop, ProgressStop, Stop, VerdictStops

\* Every step of the run keeps the invariant.
LEMMA VerdictStep == VerdictInv /\ [Next]_vars => VerdictInv'
<1> SUFFICES ASSUME VerdictInv, [Next]_vars
             PROVE  VerdictInv'
  OBVIOUS
<1>1. pc \notin {"planner", "done"} => term \notin VerdictStops
  BY DEF VerdictInv, VerdictLeaves
<1>2. ASSUME UNCHANGED <<index, plan>>
      PROVE  \A i : Safe(i)' <=> Safe(i)
  BY <1>2 DEF Safe
\* Steps of the scheduler: they move states only, and end in no verdict.
<1>3. ASSUME UNCHANGED <<index, plan>>, IsLedger(ledger'), ledger'.outcomes = ledger.outcomes
      PROVE  IsLedger(ledger)' /\ Answered(ledger)'
  BY <1>2, <1>3 DEF VerdictInv, Answered
<1>4. CASE StepBound \/ BudgetBound
  BY <1>1, <1>3, <1>4, NoVerdict, OtherStops DEF StepBound, BudgetBound, Drained, VerdictInv
<1>5. CASE PlanFull
  <2>1. IsLedger(ledger') /\ ledger'.outcomes = ledger.outcomes
    BY <1>5, SetStatesKeeps DEF PlanFull, MarkOverflow, VerdictInv
  <2> QED
    BY <1>1, <1>3, <1>5, <2>1, NoVerdict, OtherStops DEF PlanFull, Drained, VerdictInv
<1>6. CASE PlanFullRaises
  <2>1. IsLedger(ledger') /\ ledger'.outcomes = ledger.outcomes
    BY <1>6, SetStatesKeeps DEF PlanFullRaises, MarkOverflow, VerdictInv
  <2> QED
    BY <1>1, <1>3, <1>6, <2>1, NoVerdict, OtherStops DEF PlanFullRaises, Raised, VerdictInv
<1>7. IsLedger(Reconcile(plan, ledger)) /\ Reconcile(plan, ledger).outcomes = ledger.outcomes
  BY ReconcileKeeps DEF VerdictInv
<1>8. ASSUME NEW items, ledger' = MarkContext(Reconcile(plan, ledger), items)
      PROVE  IsLedger(ledger') /\ ledger'.outcomes = ledger.outcomes
  BY <1>7, <1>8, SetStatesKeeps DEF MarkContext
<1>9. CASE SelectJob
  <2>1. IsLedger(ledger') /\ ledger'.outcomes = ledger.outcomes
    BY <1>8, <1>9 DEF SelectJob
  <2>2. Safe(job'.item)
    BY <1>9 DEF SelectJob, Firsts
  <2>3. UNCHANGED <<index, plan, term>> /\ pc = "drain"
    BY <1>9 DEF SelectJob, MayDraw
  <2> QED
    BY <1>1, <1>2, <1>3, <2>1, <2>2, <2>3, NoVerdict DEF VerdictInv
<1>10. CASE SelectRaises
  <2>1. IsLedger(ledger') /\ ledger'.outcomes = ledger.outcomes
    BY <1>8, <1>10 DEF SelectRaises
  <2> QED
    BY <1>1, <1>3, <1>10, <2>1, NoVerdict, OtherStops DEF SelectRaises, MayDraw, Raised, VerdictInv
<1>11. CASE NothingToSelect
  <2>1. IsLedger(ledger') /\ ledger'.outcomes = ledger.outcomes
    BY <1>8, <1>11 DEF NothingToSelect
  <2> QED
    BY <1>1, <1>3, <1>11, <2>1, NoVerdict, OtherStops
       DEF NothingToSelect, MayDraw, Drained, VerdictInv
<1>12. CASE RepeatedJob \/ BeginRaises
  BY <1>1, <1>3, <1>12, NoVerdict, OtherStops
     DEF RepeatedJob, BeginRaises, Raised, VerdictInv
<1>13. CASE BeginJob
  <2>1. IsLedger(ledger') /\ ledger'.outcomes = ledger.outcomes
    <3> DEFINE M == SetStates(ledger, Obligations(job.item, job.cats), "EXTRACTION_ATTEMPTED")
    <3>1. IsLedger(M) /\ M.outcomes = ledger.outcomes
      BY SetStatesKeeps DEF VerdictInv
    <3>2. ledger' = [M EXCEPT !.attempts = @ \cup Obligations(job.item, job.cats)]
      BY <1>13 DEF BeginJob, BeginItem
    <3> HIDE DEF M
    <3> QED
      BY <3>1, <3>2 DEF IsLedger
  <2> QED
    BY <1>1, <1>2, <1>3, <1>13, <2>1, NoVerdict DEF BeginJob, VerdictInv
<1>14. CASE DispatchDenied
  <2>1. IsLedger(ledger') /\ ledger'.outcomes = ledger.outcomes
    <3> DEFINE M == SetStates(ledger, Obligations(job.item, job.cats), "ACTIVE")
    <3>1. IsLedger(M) /\ M.outcomes = ledger.outcomes
      BY SetStatesKeeps DEF VerdictInv
    <3>2. ledger' = [M EXCEPT !.attempts = @ \ Obligations(job.item, job.cats)]
      BY <1>14 DEF DispatchDenied, BudgetBlocked
    <3> HIDE DEF M
    <3> QED
      BY <3>1, <3>2 DEF IsLedger
  <2> QED
    BY <1>1, <1>3, <1>14, <2>1, NoVerdict, OtherStops DEF DispatchDenied, Continue, VerdictInv
<1>15. CASE DispatchFails
  <2>1. IsLedger(ledger') /\ ledger'.outcomes = ledger.outcomes
    BY <1>15, SetStatesKeeps, ReconcileKeeps DEF DispatchFails, OperationalFailure, VerdictInv
  <2> QED
    BY <1>1, <1>3, <1>15, <2>1, NoVerdict, OtherStops DEF DispatchFails, Continue, VerdictInv
<1>16. CASE DispatchCompletes
  <2>1. pc = "dispatched" /\ UNCHANGED <<index, plan>> /\ job' = NoJob
        /\ pc' = IF term' = "NONE" THEN "drain" ELSE "planner"
    BY <1>16 DEF DispatchCompletes, Continue
  <2>2. PICK seen, what :
          /\ \A c \in DOMAIN what : what[c].status \in Statuses
          /\ ledger' = CompleteItem(plan, ledger, job.item, what)
          /\ Admit(seen, ledger') \/ AdmitNothing(seen, ledger') \/ AdmitRaises(seen, ledger')
    <3>0. PICK r \in Results : \E complete \in SUBSET {c \in job.cats : r[c] # {}} :
            LET seen == observations \cup Observed(r)
                L == CompleteItem(plan, ledger, job.item,
                       [c \in job.cats |-> OutcomeOf(r[c], c \in Conflicts(seen), c \in complete)])
            IN  /\ ledger' = L
                /\ Admit(seen, L) \/ AdmitNothing(seen, L) \/ AdmitRaises(seen, L)
      BY <1>16 DEF DispatchCompletes
    <3>1. PICK complete \in SUBSET {c \in job.cats : r[c] # {}} :
            LET seen == observations \cup Observed(r)
                L == CompleteItem(plan, ledger, job.item,
                       [c \in job.cats |-> OutcomeOf(r[c], c \in Conflicts(seen), c \in complete)])
            IN  /\ ledger' = L
                /\ Admit(seen, L) \/ AdmitNothing(seen, L) \/ AdmitRaises(seen, L)
      BY <3>0
    <3> DEFINE seen0 == observations \cup Observed(r)
               what0 == [c \in job.cats |->
                           OutcomeOf(r[c], c \in Conflicts(seen0), c \in complete)]
    <3>2. \A c \in DOMAIN what0 : what0[c].status \in Statuses
      BY OutcomeIsTyped
    <3>3. /\ ledger' = CompleteItem(plan, ledger, job.item, what0)
          /\ \/ Admit(seen0, ledger') \/ AdmitNothing(seen0, ledger')
             \/ AdmitRaises(seen0, ledger')
      BY <3>1
    <3> HIDE DEF seen0, what0
    <3> QED
      BY <3>2, <3>3
  <2>3. IsLedger(ledger') /\ Answered(ledger')
    <3> DEFINE M == SetStates(ledger, Obligations(job.item, DOMAIN what), "ACCOUNTED")
               F == [o \in DOMAIN M.outcomes \cup Obligations(job.item, DOMAIN what) |->
                       IF o \in Obligations(job.item, DOMAIN what) THEN what[o[2]]
                       ELSE M.outcomes[o]]
               N == [M EXCEPT !.outcomes = F]
    <3>1. IsLedger(M) /\ M.outcomes = ledger.outcomes
      BY SetStatesKeeps DEF VerdictInv
    <3>2. CompleteItem(plan, ledger, job.item, what) = Reconcile(plan, N)
      BY <3>1 DEF CompleteItem, IsLedger, SetStates
    <3>3. \A o \in DOMAIN F : F[o].status \in Statuses /\ Safe(o[1])
      <4>1. \A o \in Obligations(job.item, DOMAIN what) :
              o[2] \in DOMAIN what /\ o[1] = job.item
        BY DEF Obligations
      <4>2. Safe(job.item)
        BY <2>1 DEF VerdictInv
      <4> QED
        BY <2>2, <3>1, <4>1, <4>2 DEF VerdictInv, Answered
    <3> HIDE DEF M, F
    <3>4. IsLedger(N) /\ N.outcomes = F
      BY <3>1 DEF IsLedger
    <3> HIDE DEF N
    <3>5. IsLedger(ledger') /\ ledger'.outcomes = F
      BY <2>2, <3>2, <3>4, ReconcileKeeps
    <3> QED
      BY <3>3, <3>5 DEF Answered
  <2>4. VerdictRestsOnCoverage'
    BY <1>1, <2>1, <2>2, <2>3, AdmitVerdict
  <2>5. Answered(ledger)'
    BY <1>2, <2>1, <2>3 DEF Answered
  <2> QED
    BY <2>1, <2>3, <2>4, <2>5 DEF VerdictInv, VerdictLeaves, VerdictStops
<1>17. CASE RunEnds
  <2>1. UNCHANGED <<index, plan, ledger, executable>> /\ pc' = "done"
    BY <1>17 DEF RunEnds, Finish, authority
  <2>2. term' = term \/ term' \notin VerdictStops
    BY <1>17 DEF RunEnds, Finish, Stop, VerdictStops
  <2>3. term' = term => VerdictRestsOnCoverage'
    BY <2>1, <1>2 DEF VerdictInv, VerdictRestsOnCoverage, Started
  <2> QED
    BY <1>3, <2>1, <2>2, <2>3, NoVerdict DEF VerdictInv, VerdictLeaves
<1>18. CASE PlannerTurn
  <2>1. UNCHANGED <<index, plan, ledger>> /\ pc' \notin {"selected", "dispatched"}
    BY <1>18 DEF PlannerTurn, Finish
  <2>2. term' \notin VerdictStops
    <3>1. term = "NONE" /\ term \notin VerdictStops
      BY <1>18 DEF PlannerTurn, VerdictStops
    <3> QED
      BY <1>18, <3>1, OtherStops DEF PlannerTurn, Finish, OtherTool, VerdictStops
  <2> QED
    BY <1>3, <2>1, <2>2, NoVerdict DEF VerdictInv
<1>19. CASE UNCHANGED vars
  <2>1. UNCHANGED <<index, plan, ledger, executable, term, pc, job>>
    BY <1>19 DEF vars, authority
  <2> QED
    BY <1>2, <1>3, <2>1 DEF VerdictInv, VerdictLeaves, VerdictRestsOnCoverage, Started
<1> QED
  BY <1>4, <1>5, <1>6, <1>9, <1>10, <1>11, <1>12, <1>13, <1>14, <1>15, <1>16, <1>17,
     <1>18, <1>19 DEF Next

\* A run stops on a verdict only when every started obligation of every
\* executable category was answered in full (section_acquisition.py, drain and
\* _effective_authority), for every source, plan and budget.
THEOREM VerdictsRest == AcquisitionSpec => []VerdictRestsOnCoverage
<1>1. VerdictInv => VerdictRestsOnCoverage
  BY DEF VerdictInv
<1> QED
  BY <1>1, VerdictInit, VerdictStep, PTL DEF AcquisitionSpec

-----------------------------------------------------------------------------
(* The plan.                                                               *)

\* The greatest and the least of a finite set of numbers.
LEMMA LargestIs ==
  ASSUME NEW S \in SUBSET Int, IsFiniteSet(S), S # {}
  PROVE  LargestOf(S) \in S /\ \A y \in S : LargestOf(S) >= y
<1> DEFINE R == {p \in S \X S : p[1] < p[2]}
<1>1. \A x, y \in S : <<x, y>> \in R <=> x < y
  OBVIOUS
<1> HIDE DEF R
<1>2. StrictTotalOrder(R, S)
  BY <1>1 DEF StrictTotalOrder
<1>3. PICK x \in S : \A y \in S \ {x} : <<y, x>> \in R
  BY <1>2, LastOfFinite
<1>4. ASSUME NEW y \in S PROVE x >= y
  <2>1. y # x => y < x
    BY <1>1, <1>3
  <2> QED
    BY <2>1
<1> QED
  BY <1>4 DEF LargestOf

LEMMA SmallestIs ==
  ASSUME NEW S \in SUBSET Int, IsFiniteSet(S), S # {}
  PROVE  SmallestOf(S) \in S /\ \A y \in S : SmallestOf(S) <= y
<1>1. \E x \in S : \A y \in S : x <= y
  BY LeastOfFinite
<1> QED
  BY <1>1 DEF SmallestOf

LEMMA CategoriesFinite ==
  /\ IsFiniteSet(Categories) /\ Categories \in SUBSET Int
  /\ \A S \in SUBSET Categories : IsFiniteSet(S) /\ Cardinality(S) \in Nat
<1>1. IsFiniteSet(Categories) /\ Categories \in SUBSET Int
  BY PlanConstants, FS_Interval DEF Categories
<1> QED
  BY <1>1, FS_Subset, FS_CardinalityType

LEMMA IndexFacts ==
  ASSUME NEW ix, IsIndex(ix)
  PROVE  /\ IsFiniteSet(DOMAIN ix) /\ DOMAIN ix \in SUBSET Nat
         /\ \A n \in DOMAIN ix : /\ ix[n] \in Section /\ Routed(ix[n]) \subseteq Categories
                                 /\ Cardinality(ix[n].context) \in Nat
<1>1. DOMAIN ix = 1 .. Len(ix) /\ Len(ix) \in Nat /\ \A n \in DOMAIN ix : ix[n] \in Section
  BY DEF IsIndex
<1>2. IsFiniteSet(DOMAIN ix) /\ DOMAIN ix \in SUBSET Nat
  BY <1>1, FS_Interval
<1>3. ASSUME NEW n \in DOMAIN ix
      PROVE  Routed(ix[n]) \subseteq Categories /\ Cardinality(ix[n].context) \in Nat
  <2>1. ix[n].context \in SUBSET DOMAIN ix
    BY DEF IsIndex
  <2>2. Routed(ix[n]) \subseteq Categories
    BY <1>1 DEF Routed, Section
  <2> QED
    BY <1>2, <2>1, <2>2, FS_Subset, FS_CardinalityType
<1> QED
  BY <1>1, <1>2, <1>3

\* The item of section n that a routed category c belongs to.
RoutedItem(ix, n, c) ==
  Item(ix, n, Chunk(ix, n, c), TierOf(ix[n], c), ActivationReasons(ix, ix[n], c),
       SignalRank(ix[n], c), Breadth(ix, n, Chunk(ix, n, c), TierOf(ix[n], c)))

LEMMA ItemsAre ==
  ASSUME NEW ix, NEW n
  PROVE  ItemsOf(ix, n) = IF Routed(ix[n]) = {} THEN {Item(ix, n, {}, "RESERVE", {}, 3, 0)}
                          ELSE {RoutedItem(ix, n, c) : c \in Routed(ix[n])}
BY DEF ItemsOf, RoutedItem

\* A category is in its own chunk, and the chunk is that of each of its members.
LEMMA ChunkOfMember ==
  ASSUME NEW ix, NEW n, NEW c \in Routed(ix[n])
  PROVE  /\ c \in Chunk(ix, n, c) /\ Chunk(ix, n, c) \subseteq Routed(ix[n])
         /\ \A d \in Chunk(ix, n, c) : RoutedItem(ix, n, d) = RoutedItem(ix, n, c)
<1>1. c \in Coalesced(ix, n, c)
  BY DEF Coalesced
<1>2. c \in Chunk(ix, n, c) /\ Chunk(ix, n, c) \subseteq Routed(ix[n])
  BY <1>1 DEF Chunk, Coalesced
<1>3. ASSUME NEW d \in Chunk(ix, n, c)
      PROVE  RoutedItem(ix, n, d) = RoutedItem(ix, n, c)
  <2>1. d \in Coalesced(ix, n, c)
    BY DEF Chunk
  <2>2. /\ TierOf(ix[n], d) = TierOf(ix[n], c)
        /\ ActivationReasons(ix, ix[n], d) = ActivationReasons(ix, ix[n], c)
        /\ SignalRank(ix[n], d) = SignalRank(ix[n], c)
    BY <2>1 DEF Coalesced
  <2>3. Coalesced(ix, n, d) = Coalesced(ix, n, c)
    BY <2>2 DEF Coalesced
  <2>4. Before(Coalesced(ix, n, c), d) \div 2 = Before(Coalesced(ix, n, c), c) \div 2
    BY DEF Chunk
  <2>5. Chunk(ix, n, d) = Chunk(ix, n, c)
    BY <2>3, <2>4 DEF Chunk
  <2> QED
    BY <2>2, <2>5 DEF RoutedItem
<1> QED
  BY <1>2, <1>3

\* Two numbers of the same half differ by less than two.
LEMMA Halves ==
  ASSUME NEW a \in Nat, NEW b \in Nat, a \div 2 = b \div 2
  PROVE  a \in {2 * (b \div 2), 2 * (b \div 2) + 1}
OBVIOUS

\* A chunk has at most two categories.
LEMMA ChunkOfTwo ==
  ASSUME NEW ix, IsIndex(ix), NEW n \in DOMAIN ix, NEW c \in Routed(ix[n])
  PROVE  Cardinality(Chunk(ix, n, c)) <= 2
<1> DEFINE group == Coalesced(ix, n, c)
           C == Chunk(ix, n, c)
           h == Before(group, c) \div 2
           T == {2 * h, 2 * h + 1}
           f == [d \in C |-> Before(group, d)]
<1>1. group \in SUBSET Categories /\ c \in group /\ C \in SUBSET group
  BY IndexFacts DEF Coalesced, Chunk
<1>2. \A d \in group : Before(group, d) \in Nat
  <2> SUFFICES ASSUME NEW d \in group PROVE Before(group, d) \in Nat
    OBVIOUS
  <2>1. {e \in group : e < d} \in SUBSET Categories
    BY <1>1
  <2> QED
    BY <2>1, CategoriesFinite DEF Before
<1>3. \A d \in C : Before(group, d) \in T
  <2> SUFFICES ASSUME NEW d \in C PROVE Before(group, d) \in T
    OBVIOUS
  <2>1. Before(group, d) \div 2 = Before(group, c) \div 2
    BY DEF Chunk
  <2> HIDE DEF group
  <2> QED
    BY <1>1, <1>2, <2>1, Halves
<1>4. ASSUME NEW d \in group, NEW e \in group, d < e
      PROVE  Before(group, d) < Before(group, e)
  <2> DEFINE D == {x \in group : x < d}
             E == {x \in group : x < e}
  <2>1. D \in SUBSET E /\ d \in E \ D /\ D \in SUBSET Categories /\ E \in SUBSET Categories
    <3>1. group \in SUBSET Int
      BY <1>1, CategoriesFinite
    <3> QED
      BY <1>1, <1>4, <3>1
  <2>2. IsFiniteSet(D) /\ IsFiniteSet(E) /\ Cardinality(D) \in Nat /\ Cardinality(E) \in Nat
    BY <2>1, CategoriesFinite
  <2> HIDE DEF D, E
  <2>3. Cardinality(D) <= Cardinality(E) /\ Cardinality(D) # Cardinality(E)
    BY <2>1, <2>2, FS_Subset
  <2>4. Cardinality(D) < Cardinality(E)
    BY <2>2, <2>3
  <2> QED
    BY <2>4 DEF Before, D, E
<1>5. \A d, e \in C : Before(group, d) = Before(group, e) => d = e
  <2>1. group \in SUBSET Int
    BY <1>1, CategoriesFinite
  <2> SUFFICES ASSUME NEW d \in C, NEW e \in C, Before(group, d) = Before(group, e)
               PROVE  d = e
    OBVIOUS
  <2>2. d < e => Before(group, d) < Before(group, e)
    BY <1>1, <1>4
  <2>3. e < d => Before(group, e) < Before(group, d)
    BY <1>1, <1>4
  <2>4. d \in Int /\ e \in Int /\ Before(group, d) \in Nat
    BY <1>1, <1>2, <2>1
  <2> HIDE DEF group, C
  <2> QED
    BY <2>2, <2>3, <2>4
<1>6. f \in Injection(C, T)
  BY <1>3, <1>5 DEF Injection, IsInjective
<1>7. IsFiniteSet(T) /\ Cardinality(T) <= 2
  <2>1. {2 * h} \cup {2 * h + 1} = T
    OBVIOUS
  <2> HIDE DEF h
  <2>2. IsFiniteSet({2 * h}) /\ Cardinality({2 * h}) = 1
    BY FS_Singleton
  <2>3. Cardinality({2 * h} \cup {2 * h + 1}) <= 2 /\ IsFiniteSet({2 * h} \cup {2 * h + 1})
    BY <2>2, FS_AddElement
  <2> QED
    BY <2>1, <2>3
<1> HIDE DEF f, T
<1>8. IsFiniteSet(C) /\ Cardinality(C) <= Cardinality(T)
  BY <1>6, <1>7, FS_Injection
<1>9. Cardinality(C) \in Nat /\ Cardinality(T) \in Nat
  BY <1>7, <1>8, FS_CardinalityType
<1> HIDE DEF C
<1>10. Cardinality(C) <= 2
  BY <1>7, <1>8, <1>9
<1> QED
  BY <1>10 DEF C

\* What is in an item, whatever its section.
IsItem(a) ==
  /\ a.cats \in SUBSET Categories /\ Cardinality(a.cats) <= 2
  /\ a.tier \in Tiers /\ (a.tier = "RESERVE" <=> a.cats = {})
  /\ DOMAIN a.rank = 1 .. 6 /\ \A k \in 1 .. 6 : a.rank[k] \in Int
  /\ a.rank[3] = IF a.cats = {} THEN NumCategories + 1 ELSE SmallestOf(a.cats)
  /\ a.rank[6] = a.section

\* The fields of an item that the ledger looks at, and its rank.
LEMMA ItemFields ==
  ASSUME NEW ix, NEW n, NEW cats, NEW tier, NEW reasons, NEW signal, NEW breadth,
         NEW a, a = Item(ix, n, cats, tier, reasons, signal, breadth)
  PROVE  /\ a.section = n /\ a.cats = cats /\ a.tier = tier
         /\ DOMAIN a.rank = 1 .. 6
         /\ a.rank[1] \in {0, 1, 2} /\ a.rank[2] = breadth
         /\ a.rank[3] = IF cats = {} THEN NumCategories + 1 ELSE SmallestOf(cats)
         /\ a.rank[4] = signal /\ a.rank[5] = Cardinality(ix[n].context) /\ a.rank[6] = n
BY DEF Item

LEMMA BreadthIsNumber ==
  ASSUME NEW ix, IsIndex(ix), NEW n \in DOMAIN ix, NEW cats \in SUBSET Categories, cats # {},
         NEW tier
  PROVE  Breadth(ix, n, cats, tier) \in Int
<1> DEFINE behind(c) == {m \in 1 .. n - 1 : c \in Routed(ix[m]) /\ TierOf(ix[m], c) = tier}
           f == [c \in cats |-> Cardinality(behind(c))]
           S == {f[c] : c \in cats}
<1>1. n \in Nat
  BY IndexFacts
<1>2. ASSUME NEW c \in cats PROVE f[c] \in Nat
  <2>1. behind(c) \in SUBSET (1 .. n - 1) /\ IsFiniteSet(1 .. n - 1)
    BY <1>1, FS_Interval
  <2> HIDE DEF behind
  <2>2. Cardinality(behind(c)) \in Nat
    BY <2>1, FS_Subset, FS_CardinalityType
  <2> QED
    BY <2>2
<1>3. DOMAIN f = cats
  OBVIOUS
<1>4. Breadth(ix, n, cats, tier) = LargestOf(S)
  BY DEF Breadth
<1> HIDE DEF f
<1>5. S \in SUBSET Int /\ S # {}
  BY <1>2
<1>6. IsFiniteSet(S)
  BY <1>3, CategoriesFinite, FiniteImage
<1> HIDE DEF S
<1> QED
  BY <1>4, <1>5, <1>6, LargestIs

LEMMA SignalIsNumber ==
  ASSUME NEW s, NEW c
  PROVE  SignalRank(s, c) \in Int
BY DEF SignalRank

\* Every item of a section is one.
LEMMA ItemsAreItems ==
  ASSUME NEW ix, IsIndex(ix), NEW n \in DOMAIN ix, NEW a \in ItemsOf(ix, n)
  PROVE  IsItem(a) /\ a.section = n
<1>1. n \in Int /\ Cardinality(ix[n].context) \in Int /\ NumCategories \in Int
  BY IndexFacts, PlanConstants
<1>2. CASE Routed(ix[n]) = {}
  <2>1. a = Item(ix, n, {}, "RESERVE", {}, 3, 0)
    BY <1>2, ItemsAre
  <2>2. /\ a.section = n /\ a.cats = {} /\ a.tier = "RESERVE" /\ DOMAIN a.rank = 1 .. 6
        /\ a.rank[1] \in {0, 1, 2} /\ a.rank[2] = 0 /\ a.rank[3] = NumCategories + 1
        /\ a.rank[4] = 3 /\ a.rank[5] = Cardinality(ix[n].context) /\ a.rank[6] = n
    BY <2>1, ItemFields
  <2>3. \A k \in 1 .. 6 : a.rank[k] \in Int
    BY <1>1, <2>2
  <2>4. Cardinality(a.cats) <= 2
    BY <2>2, FS_EmptySet
  <2> QED
    BY <2>2, <2>3, <2>4 DEF IsItem, Tiers
<1>3. CASE Routed(ix[n]) # {}
  <2>1. PICK c \in Routed(ix[n]) : a = RoutedItem(ix, n, c)
    BY <1>3, ItemsAre
  <2> DEFINE C == Chunk(ix, n, c)
             b == Breadth(ix, n, C, TierOf(ix[n], c))
  <2>2. C \in SUBSET Categories /\ C # {} /\ Cardinality(C) <= 2
    BY IndexFacts, ChunkOfMember, ChunkOfTwo
  <2>3. b \in Int /\ SignalRank(ix[n], c) \in Int
    BY <2>2, BreadthIsNumber, SignalIsNumber
  <2>4. a = Item(ix, n, C, TierOf(ix[n], c), ActivationReasons(ix, ix[n], c),
                 SignalRank(ix[n], c), b)
    BY <2>1 DEF RoutedItem
  <2> HIDE DEF C, b
  <2>5. /\ a.section = n /\ a.cats = C /\ a.tier = TierOf(ix[n], c) /\ DOMAIN a.rank = 1 .. 6
        /\ a.rank[1] \in {0, 1, 2} /\ a.rank[2] = b /\ a.rank[3] = SmallestOf(C)
        /\ a.rank[4] = SignalRank(ix[n], c) /\ a.rank[5] = Cardinality(ix[n].context)
        /\ a.rank[6] = n
    BY <2>2, <2>4, ItemFields
  <2>6. SmallestOf(C) \in Int
    <3>1. C \in SUBSET Int /\ IsFiniteSet(C)
      BY <2>2, CategoriesFinite
    <3> QED
      BY <2>2, <3>1, SmallestIs
  <2>7. \A k \in 1 .. 6 : a.rank[k] \in Int
    BY <1>1, <2>3, <2>5, <2>6
  <2>8. a.tier \in Tiers \ {"RESERVE"}
    BY <2>5 DEF TierOf, Tiers
  <2> QED
    BY <2>2, <2>5, <2>7, <2>8 DEF IsItem
<1> QED
  BY <1>2, <1>3

\* Items of one section with a category in common, or with none at all, are one.
LEMMA ItemsApart ==
  ASSUME NEW ix, IsIndex(ix), NEW n \in DOMAIN ix, NEW a \in ItemsOf(ix, n),
         NEW b \in ItemsOf(ix, n),
         a.cats \cap b.cats # {} \/ (a.cats = {} /\ b.cats = {})
  PROVE  a = b
<1>1. CASE Routed(ix[n]) = {}
  BY <1>1, ItemsAre
<1>2. CASE Routed(ix[n]) # {}
  <2>1. ASSUME NEW x \in ItemsOf(ix, n)
        PROVE  x.cats # {} /\ \A d \in x.cats : x = RoutedItem(ix, n, d)
    <3>1. PICK c \in Routed(ix[n]) : x = RoutedItem(ix, n, c)
      BY <1>2, ItemsAre
    <3>2. x.cats = Chunk(ix, n, c)
      BY <3>1, ItemFields DEF RoutedItem
    <3> QED
      BY <3>1, <3>2, ChunkOfMember
  <2>2. PICK d \in a.cats \cap b.cats : TRUE
    BY <2>1
  <2> QED
    BY <2>1, <2>2
<1> QED
  BY <1>1, <1>2

\* Every item that any section of the index gives.
AllItems(ix) == UNION {ItemsOf(ix, n) : n \in DOMAIN ix}

LEMMA AllItemsFinite ==
  ASSUME NEW ix, IsIndex(ix)
  PROVE  IsFiniteSet(AllItems(ix))
<1> DEFINE f == [n \in DOMAIN ix |-> ItemsOf(ix, n)]
<1>1. ASSUME NEW n \in DOMAIN ix PROVE IsFiniteSet(ItemsOf(ix, n))
  <2>1. CASE Routed(ix[n]) = {}
    BY <2>1, ItemsAre, FS_Singleton
  <2>2. CASE Routed(ix[n]) # {}
    <3> DEFINE g == [c \in Routed(ix[n]) |-> RoutedItem(ix, n, c)]
    <3>1. IsFiniteSet(Routed(ix[n])) /\ DOMAIN g = Routed(ix[n])
      BY IndexFacts, CategoriesFinite
    <3>2. ItemsOf(ix, n) = {g[c] : c \in Routed(ix[n])}
      BY <2>2, ItemsAre
    <3> HIDE DEF g
    <3> QED
      BY <3>1, <3>2, FiniteImage
  <2> QED
    BY <2>1, <2>2
<1>2. AllItems(ix) = UNION {f[n] : n \in DOMAIN ix}
  BY DEF AllItems
<1>3. IsFiniteSet(DOMAIN ix) /\ DOMAIN f = DOMAIN ix /\ \A n \in DOMAIN ix : IsFiniteSet(f[n])
  BY <1>1, IndexFacts
<1> HIDE DEF f
<1>4. IsFiniteSet({f[n] : n \in DOMAIN ix})
  BY <1>3, FiniteImage
<1> QED
  BY <1>2, <1>3, <1>4, FS_UNION

\* Items of equal rank are one.
LEMMA RankIdentifies ==
  ASSUME NEW ix, IsIndex(ix), NEW a \in AllItems(ix), NEW b \in AllItems(ix),
         \A k \in 1 .. 6 : a.rank[k] = b.rank[k]
  PROVE  a = b
<1>1. PICK n \in DOMAIN ix : a \in ItemsOf(ix, n)
  BY DEF AllItems
<1>2. PICK m \in DOMAIN ix : b \in ItemsOf(ix, m)
  BY DEF AllItems
<1>3. IsItem(a) /\ a.section = n /\ IsItem(b) /\ b.section = m
  BY <1>1, <1>2, ItemsAreItems
<1>4. m = n
  BY <1>3 DEF IsItem
<1>5. ASSUME NEW x, IsItem(x), x.cats # {}
      PROVE  x.rank[3] \in x.cats /\ x.rank[3] <= NumCategories
  <2>1. x.cats \in SUBSET Int /\ IsFiniteSet(x.cats)
    BY <1>5, CategoriesFinite DEF IsItem
  <2>2. x.rank[3] \in x.cats
    BY <1>5, <2>1, SmallestIs DEF IsItem
  <2> QED
    BY <1>5, <2>2, PlanConstants DEF IsItem, Categories
<1>6. NumCategories \in Nat /\ ~ (NumCategories + 1 <= NumCategories)
  BY PlanConstants
<1>7. \A x : IsItem(x) /\ x.cats = {} => x.rank[3] = NumCategories + 1
  BY DEF IsItem
<1>8. a.rank[3] = b.rank[3]
  OBVIOUS
<1>9. a.cats = {} <=> b.cats = {}
  BY <1>3, <1>5, <1>6, <1>7, <1>8
<1>10. a.cats # {} => a.cats \cap b.cats # {}
  BY <1>3, <1>5, <1>8, <1>9
<1> QED
  BY <1>1, <1>2, <1>4, <1>9, <1>10, ItemsApart

\* The pairs of items of which the first is the earlier.
Order(ix) == {p \in AllItems(ix) \X AllItems(ix) : Earlier(p[1], p[2])}

\* Ranks are compared place by place: there is a first place that differs.
LEMMA FirstDifference ==
  ASSUME NEW r, NEW s, \A k \in 1 .. 6 : r[k] \in Int /\ s[k] \in Int,
         \E k \in 1 .. 6 : r[k] # s[k]
  PROVE  \E k \in 1 .. 6 : r[k] # s[k] /\ \A j \in 1 .. k - 1 : r[j] = s[j]
<1> DEFINE T == {k \in 1 .. 6 : r[k] # s[k]}
<1>1. T \in SUBSET Nat /\ T # {}
  OBVIOUS
<1>2. PICK k \in T : \A j \in T : k <= j
  BY <1>1, LeastNumber
<1>3. \A j \in 1 .. k - 1 : r[j] = s[j]
  BY <1>2
<1> QED
  BY <1>2, <1>3

LEMMA EarlierIsTransitive ==
  ASSUME NEW a, NEW b, NEW c, IsItem(a), IsItem(b), IsItem(c), Earlier(a, b), Earlier(b, c)
  PROVE  Earlier(a, c)
<1>1. PICK k \in 1 .. 6 : a.rank[k] < b.rank[k] /\ \A j \in 1 .. k - 1 : a.rank[j] = b.rank[j]
  BY DEF Earlier
<1>2. PICK m \in 1 .. 6 : b.rank[m] < c.rank[m] /\ \A j \in 1 .. m - 1 : b.rank[j] = c.rank[j]
  BY DEF Earlier
<1>3. \A j \in 1 .. 6 : a.rank[j] \in Int /\ b.rank[j] \in Int /\ c.rank[j] \in Int
  BY DEF IsItem
<1>4. CASE k <= m
  <2>1. a.rank[k] < c.rank[k]
    BY <1>1, <1>2, <1>3, <1>4
  <2>2. \A j \in 1 .. k - 1 : a.rank[j] = c.rank[j]
    BY <1>1, <1>2, <1>4
  <2> QED
    BY <2>1, <2>2 DEF Earlier
<1>5. CASE ~ (k <= m)
  <2>1. a.rank[m] < c.rank[m]
    BY <1>1, <1>2, <1>3, <1>5
  <2>2. \A j \in 1 .. m - 1 : a.rank[j] = c.rank[j]
    BY <1>1, <1>2, <1>5
  <2> QED
    BY <2>1, <2>2 DEF Earlier
<1> QED
  BY <1>4, <1>5

LEMMA OrderIsTotal ==
  ASSUME NEW ix, IsIndex(ix)
  PROVE  StrictTotalOrder(Order(ix), AllItems(ix))
<1>1. \A a \in AllItems(ix) : IsItem(a)
  BY ItemsAreItems DEF AllItems
<1>2. \A a, b \in AllItems(ix) : <<a, b>> \in Order(ix) <=> Earlier(a, b)
  BY DEF Order
<1>3. \A a \in AllItems(ix) : ~ Earlier(a, a)
  BY <1>1 DEF Earlier, IsItem
<1>4. \A a, b, c \in AllItems(ix) : Earlier(a, b) /\ Earlier(b, c) => Earlier(a, c)
  BY <1>1, EarlierIsTransitive
<1>5. ASSUME NEW a \in AllItems(ix), NEW b \in AllItems(ix), a # b
      PROVE  Earlier(a, b) \/ Earlier(b, a)
  <2>1. \A k \in 1 .. 6 : a.rank[k] \in Int /\ b.rank[k] \in Int
    BY <1>1 DEF IsItem
  <2>2. \E k \in 1 .. 6 : a.rank[k] # b.rank[k]
    BY <1>5, RankIdentifies
  <2>3. PICK k \in 1 .. 6 : a.rank[k] # b.rank[k]
                             /\ \A j \in 1 .. k - 1 : a.rank[j] = b.rank[j]
    BY <2>1, <2>2, FirstDifference
  <2>4. a.rank[k] < b.rank[k] \/ b.rank[k] < a.rank[k]
    BY <2>1, <2>3
  <2> QED
    BY <2>3, <2>4 DEF Earlier
<1> QED
  BY <1>2, <1>3, <1>4, <1>5 DEF StrictTotalOrder

\* A plan: items of distinct sections or categories.
IsPlan(P) ==
  /\ Len(P) \in Nat /\ DOMAIN P = 1 .. Len(P)
  /\ \A i \in DOMAIN P : IsItem(P[i])
  /\ \A i, j \in DOMAIN P :
       i # j /\ P[i].section = P[j].section => /\ P[i].cats \cap P[j].cats = {}
                                               /\ P[i].cats # {} \/ P[j].cats # {}

\* The plan has each item of each section once.
LEMMA PlanOfItems ==
  ASSUME NEW ix, IsIndex(ix), NEW P, P = BuildPlan(ix)
  PROVE  /\ Len(P) \in Nat /\ DOMAIN P = 1 .. Len(P)
         /\ \A i \in DOMAIN P : P[i] \in AllItems(ix)
         /\ \A i, j \in DOMAIN P : i # j => P[i] # P[j]
         /\ \A a \in AllItems(ix) : \E i \in DOMAIN P : P[i] = a
<1> DEFINE items == AllItems(ix)
           N == Cardinality(items)
           Sorted(p) == \A i, j \in 1 .. N : i < j => Earlier(p[i], p[j])
<1>1. IsFiniteSet(items) /\ N \in Nat
  BY AllItemsFinite, FS_CardinalityType
<1>2. PICK p : Enumerates(p, items, Order(ix))
  BY <1>1, OrderIsTotal, SortedEnumeration
<1>3. p \in [1 .. N -> items] /\ Sorted(p)
  BY <1>2 DEF Enumerates, Order
<1>4. P = CHOOSE q \in [1 .. N -> items] : Sorted(q)
  BY DEF BuildPlan, AllItems
<1>5. \A a \in items : IsItem(a)
  BY ItemsAreItems DEF AllItems
<1> HIDE DEF items, N, Sorted
<1>6. P \in [1 .. N -> items] /\ Sorted(P)
  BY <1>3, <1>4
<1>7. DOMAIN P = 1 .. N /\ Len(P) = N
  <2>1. P \in Seq(items)
    BY <1>1, <1>6
  <2> QED
    BY <1>1, <1>6, <2>1
<1>8. ASSUME NEW i \in 1 .. N, NEW j \in 1 .. N, i # j
      PROVE  P[i] # P[j]
  <2>1. Earlier(P[i], P[j]) \/ Earlier(P[j], P[i])
    BY <1>1, <1>6, <1>8 DEF Sorted
  <2>2. IsItem(P[i]) /\ IsItem(P[j])
    BY <1>5, <1>6
  <2> QED
    BY <2>1, <2>2 DEF Earlier, IsItem
<1>9. ASSUME NEW a \in items, \A i \in 1 .. N : P[i] # a
      PROVE  FALSE
  <2>1. P \in Injection(1 .. N, items \ {a})
    BY <1>6, <1>8, <1>9 DEF Injection, IsInjective
  <2>2. IsFiniteSet(items \ {a}) /\ Cardinality(items \ {a}) = N - 1
    BY <1>1, FS_RemoveElement DEF N
  <2>3. Cardinality(1 .. N) <= N - 1
    BY <2>1, <2>2, FS_Injection
  <2>4. Cardinality(1 .. N) = N
    BY <1>1, FS_Interval
  <2> QED
    BY <1>1, <2>3, <2>4
<1> QED
  BY <1>1, <1>6, <1>7, <1>8, <1>9 DEF items

\* build_acquisition_plan gives a plan, for every index.
LEMMA BuildsPlan ==
  ASSUME NEW ix, IsIndex(ix)
  PROVE  IsPlan(BuildPlan(ix))
<1> DEFINE P == BuildPlan(ix)
<1>1. /\ Len(P) \in Nat /\ DOMAIN P = 1 .. Len(P)
      /\ \A i \in DOMAIN P : P[i] \in AllItems(ix)
      /\ \A i, j \in DOMAIN P : i # j => P[i] # P[j]
  BY PlanOfItems
<1> HIDE DEF P
<1>2. ASSUME NEW i \in DOMAIN P
      PROVE  IsItem(P[i])
  BY <1>1, ItemsAreItems DEF AllItems
<1>3. ASSUME NEW i \in DOMAIN P, NEW j \in DOMAIN P, i # j, P[i].section = P[j].section
      PROVE  P[i].cats \cap P[j].cats = {} /\ (P[i].cats # {} \/ P[j].cats # {})
  <2>1. PICK n \in DOMAIN ix : P[i] \in ItemsOf(ix, n)
    BY <1>1 DEF AllItems
  <2>2. PICK m \in DOMAIN ix : P[j] \in ItemsOf(ix, m)
    BY <1>1 DEF AllItems
  <2>3. n = m
    BY <2>1, <2>2, <1>3, ItemsAreItems
  <2> QED
    BY <2>1, <2>2, <2>3, <1>1, <1>3, ItemsApart
<1> QED
  BY <1>1, <1>2, <1>3 DEF IsPlan, P

-----------------------------------------------------------------------------
(* What a ledger always is.                                                *)

\* Each activation is of a conditional item whole, or of a reserve item.
IsActivation(P, a) ==
  /\ a = <<a[1], a[2]>> /\ a[1] \in DOMAIN P /\ a[2] \in SUBSET Categories
  /\ \/ P[a[1]].tier = "CONDITIONAL" /\ a[2] = P[a[1]].cats
     \/ P[a[1]].tier = "RESERVE"

Activated(A, i) == \E a \in A : a[1] = i

\* Items that run of themselves or by an activation activate what they link to.
Closed(P, A) ==
  \A i, j \in DOMAIN P :
    /\ P[i].tier = "MANDATORY" \/ Activated(A, i)
    /\ Links(P, i, j) /\ P[j].tier = "CONDITIONAL"
    => <<j, P[j].cats>> \in A

\* The obligations the plan itself addresses.
Addressed(P) == {p \in (DOMAIN P) \X Categories : p[2] \in P[p[1]].cats}

StartedOf(L) == {o \in DOMAIN L.state : L.state[o] # "INACTIVE"}
AttemptedOf(L) == {o \in DOMAIN L.state : L.state[o] = "EXTRACTION_ATTEMPTED"}
States == Terminal \cup {"INACTIVE", "ACTIVE", "EXTRACTION_ATTEMPTED"}

IsCoverage(P, L) ==
  /\ IsLedger(L)
  /\ \A a \in L.activations : IsActivation(P, a)
  /\ DOMAIN L.state \subseteq (DOMAIN P) \X Categories /\ Addressed(P) \subseteq DOMAIN L.state
  /\ \A o \in DOMAIN L.state :
       /\ L.state[o] \in States
       /\ o \in Addressed(P) \/ (P[o[1]].tier = "RESERVE" /\ Activated(L.activations, o[1]))
  /\ \A o \in StartedOf(L) : P[o[1]].tier = "MANDATORY" \/ Activated(L.activations, o[1])
  /\ \A a \in L.activations : Obligations(a[1], a[2]) \subseteq StartedOf(L)

\* No activation promoted a reserve item.
Unpromoted(P, L) == \A a \in L.activations : P[a[1]].tier # "RESERVE"

\* The categories of an item are in one state.
Whole(P, L) ==
  \A i \in DOMAIN P : \A c, d \in P[i].cats : L.state[<<i, c>>] = L.state[<<i, d>>]

\* An obligation that has been attempted, or was entered on.
Beyond(L, o) == o \in DOMAIN L.state /\ L.state[o] \notin {"INACTIVE", "ACTIVE"}

KeyOf(P, i) == <<P[i].section, P[i].cats>>

CoverageOK ==
  IsPlan(plan) /\ IsCoverage(plan, ledger) /\ Closed(plan, ledger.activations)

\* Attempted is what the job in hand addresses, and nothing else.
InFlight ==
  /\ AttemptedOf(ledger) \subseteq IF pc = "dispatched" THEN Obligations(job.item, job.cats) ELSE {}
  /\ pc = "dispatched" => Obligations(job.item, job.cats) \subseteq StartedOf(ledger)

RunsOn == pc \in {"drain", "selected", "dispatched"} => term = "NONE"

\* Once the scheduler had no work the run is over.
Exhausted ==
  reason \in {"PLAN_EXHAUSTED", "CONTEXT_UNRESOLVED"} =>
    pc \in {"planner", "done"} /\ term # "NONE" /\ ExhaustionIsAccounted

Counted ==
  /\ base \in Nat /\ 2 <= base /\ calls \in Nat /\ calls <= MaxCalls
  /\ dispatches \in Nat /\ dispatches <= calls - base

CoverageInv == CoverageOK /\ InFlight /\ RunsOn /\ Exhausted /\ Counted

Overflowed(L) == \E o \in DOMAIN L.state : L.state[o] = "OVERFLOW_UNDISPATCHED"

\* What is attempted or entered on is beyond being drawn, and the job in hand
\* is an item whole.
LedgerDrains ==
  /\ Whole(plan, ledger)
  /\ \A o \in ledger.attempts : Beyond(ledger, o)
  /\ term = "NONE" => \A i \in DOMAIN plan : KeyOf(plan, i) \in entered =>
                        \A c \in plan[i].cats : Beyond(ledger, <<i, c>>)

JobIsItem ==
  /\ pc \in {"selected", "dispatched"} =>
       job.item \in DOMAIN plan /\ job.cats = plan[job.item].cats /\ job.cats # {}
  /\ pc = "selected" =>
       \A o \in Obligations(job.item, job.cats) : Holds(ledger, o, {"ACTIVE"})

CallsDispatch ==
  /\ pc = "planner" => term # "NONE"
  /\ calls - base = dispatches
  /\ Overflowed(ledger) => dispatches = PlanCap

\* As long as no reserve item is promoted the run drains its source in one go.
DrainInv == Unpromoted(plan, ledger) => LedgerDrains /\ JobIsItem /\ CallsDispatch

-----------------------------------------------------------------------------
(* Activation.                                                             *)

\* What is reached along links is the least set closed under them.
LEMMA ReachedIsClosed ==
  ASSUME NEW P, IsPlan(P), NEW S \in SUBSET DOMAIN P
  PROVE  /\ S \subseteq Reached(P, S) /\ Reached(P, S) \subseteq DOMAIN P
         /\ \A i \in Reached(P, S), j \in DOMAIN P : Links(P, i, j) => j \in Reached(P, S)
         /\ \A T \in SUBSET DOMAIN P :
              /\ S \subseteq T
              /\ \A i \in T, j \in DOMAIN P : Links(P, i, j) => j \in T
              => Reached(P, S) \subseteq T
<1> DEFINE n == Len(P)
           Grow(g) == [k \in 0 .. n |->
                         IF k = 0 THEN S
                         ELSE g[k - 1] \cup {j \in DOMAIN P : \E i \in g[k - 1] : Links(P, i, j)}]
           grow == CHOOSE g : g = Grow(g)
           next == [T \in SUBSET DOMAIN P |-> {j \in DOMAIN P : \E i \in T : Links(P, i, j)}]
<1>1. n \in Nat /\ IsFiniteSet(DOMAIN P) /\ Cardinality(DOMAIN P) <= n
  BY FS_Interval DEF IsPlan
<1>2. Reached(P, S) = grow[n]
  BY DEF Reached
<1>3. next \in [SUBSET DOMAIN P -> SUBSET DOMAIN P]
  OBVIOUS
<1>4. \A T \in SUBSET DOMAIN P : next[T] = {j \in DOMAIN P : \E i \in T : Links(P, i, j)}
  OBVIOUS
<1> HIDE DEF n, next
<1>5. PICK f : Growth(f, n, DOMAIN P, S, next)
  BY <1>1, <1>3, GrowthExists
<1>6. \A k \in 0 .. n : k # 0 => k \in 1 .. n /\ k - 1 \in 0 .. n
  BY <1>1
<1>7. \A g : Growth(g, n, DOMAIN P, S, next) => g = Grow(g)
  <2> SUFFICES ASSUME NEW g, Growth(g, n, DOMAIN P, S, next) PROVE g = Grow(g)
    OBVIOUS
  <2>1. \A k \in 1 .. n :
          g[k] = g[k - 1] \cup {j \in DOMAIN P : \E i \in g[k - 1] : Links(P, i, j)}
    BY <1>4, <1>6 DEF Growth
  <2> QED
    BY <1>6, <2>1 DEF Growth
<1>8. grow = Grow(grow)
  <2> HIDE DEF Grow
  <2> QED
    BY <1>5, <1>7
<1>9. Growth(grow, n, DOMAIN P, S, next)
  <2> HIDE DEF grow
  <2> DEFINE G == {k \in 0 .. n : grow[k] \in SUBSET DOMAIN P}
  <2>1. grow[0] = S /\ \A k \in 1 .. n :
          grow[k] = grow[k - 1] \cup {j \in DOMAIN P : \E i \in grow[k - 1] : Links(P, i, j)}
    <3>1. 0 \in 0 .. n /\ \A k \in 1 .. n : k \in 0 .. n /\ k # 0
      BY <1>1
    <3>2. Grow(grow)[0] = S
      BY <3>1
    <3>3. \A k \in 1 .. n : Grow(grow)[k] =
            grow[k - 1] \cup {j \in DOMAIN P : \E i \in grow[k - 1] : Links(P, i, j)}
      BY <3>1
    <3> HIDE DEF Grow
    <3> QED
      BY <1>8, <3>2, <3>3
  <2>2. 0 \in G /\ \A k \in 1 .. n : k - 1 \in G => k \in G
    BY <1>1, <2>1
  <2> HIDE DEF G
  <2>3. 0 .. n \subseteq G
    BY <1>1, <2>2, UpTo
  <2>4. \A k \in 0 .. n : grow[k] \in SUBSET DOMAIN P
    BY <2>3 DEF G
  <2>5. \A k \in 1 .. n : k - 1 \in 0 .. n
    BY <1>1
  <2>6. \A k \in 1 .. n : grow[k] = grow[k - 1] \cup next[grow[k - 1]]
    BY <1>4, <2>1, <2>4, <2>5
  <2>7. grow \in [0 .. n -> SUBSET DOMAIN P]
    <3>1. DOMAIN Grow(grow) = 0 .. n /\ Grow(grow) = [k \in 0 .. n |-> Grow(grow)[k]]
      OBVIOUS
    <3> HIDE DEF Grow
    <3> QED
      BY <1>8, <2>4, <3>1
  <2> QED
    BY <2>1, <2>6, <2>7 DEF Growth
<1> HIDE DEF grow
<1>10. S \subseteq grow[n] /\ grow[n] \subseteq DOMAIN P /\ next[grow[n]] \subseteq grow[n]
  <2> DEFINE D == DOMAIN P
  <2>1. S \in SUBSET D /\ IsFiniteSet(D) /\ Cardinality(D) <= n
        /\ next \in [SUBSET D -> SUBSET D] /\ Growth(grow, n, D, S, next)
    BY <1>1, <1>3, <1>9
  <2> HIDE DEF D
  <2>2. S \subseteq grow[n] /\ grow[n] \subseteq D /\ next[grow[n]] \subseteq grow[n]
    BY <1>1, <2>1, GrowthCloses
  <2> QED
    BY <2>2 DEF D
<1>11. next[grow[n]] = {j \in DOMAIN P : \E i \in grow[n] : Links(P, i, j)}
  BY <1>4, <1>10
<1>12. ASSUME NEW T \in SUBSET DOMAIN P, S \subseteq T,
              \A i \in T, j \in DOMAIN P : Links(P, i, j) => j \in T
       PROVE  grow[n] \subseteq T
  <2> DEFINE G == {k \in 0 .. n : grow[k] \subseteq T}
  <2>1. 0 \in G
    BY <1>1, <1>9, <1>12 DEF Growth
  <2>2. ASSUME NEW k \in 1 .. n, k - 1 \in G PROVE k \in G
    <3>1. grow[k - 1] \in SUBSET DOMAIN P /\ grow[k - 1] \subseteq T
          /\ grow[k] = grow[k - 1] \cup next[grow[k - 1]]
      BY <1>6, <1>9, <2>2 DEF Growth
    <3>2. next[grow[k - 1]] \subseteq T
      BY <1>4, <1>12, <3>1
    <3> QED
      BY <1>6, <3>1, <3>2
  <2> HIDE DEF G
  <2>3. 0 .. n \subseteq G
    BY <1>1, <2>1, <2>2, UpTo
  <2> QED
    BY <1>1, <2>3 DEF G
<1> QED
  BY <1>2, <1>10, <1>11, <1>12

\* Activations closed over their context keep what they had and are closed.
LEMMA ContextCloses ==
  ASSUME NEW P, IsPlan(P), NEW A, \A a \in A : IsActivation(P, a)
  PROVE  /\ A \subseteq CloseContext(P, A)
         /\ \A a \in CloseContext(P, A) : IsActivation(P, a)
         /\ Closed(P, CloseContext(P, A))
<1> DEFINE S == {i \in DOMAIN P : P[i].tier = "MANDATORY"} \cup {a[1] : a \in A}
           active == Reached(P, S)
           C1 == {<<j, P[j].cats>> : j \in {k \in active : P[k].tier = "CONDITIONAL"}}
           C2 == {<<e[2], P[e[1]].cats>> :
                    e \in {p \in active \X (DOMAIN P) :
                             P[p[2]].tier = "RESERVE" /\ Links(P, p[1], p[2])}}
           C == CloseContext(P, A)
<1>1. C = (A \cup C1) \cup C2
  BY DEF CloseContext
<1>2. S \in SUBSET DOMAIN P
  BY DEF IsActivation
<1>3. /\ S \subseteq active /\ active \subseteq DOMAIN P
      /\ \A i \in active, j \in DOMAIN P : Links(P, i, j) => j \in active
  BY <1>2, ReachedIsClosed
<1>4. \A i \in DOMAIN P : P[i].cats \in SUBSET Categories
  BY DEF IsPlan, IsItem
<1>5. \A i \in DOMAIN P : P[i].tier = "MANDATORY" => i \in S
  OBVIOUS
<1>6. \A a \in A : a[1] \in S
  OBVIOUS
<1> HIDE DEF active, S
<1>7. \A a \in C1 : IsActivation(P, a) /\ a[1] \in active
  BY <1>3, <1>4 DEF IsActivation
<1>8. \A a \in C2 : IsActivation(P, a) /\ a[1] \in active
  BY <1>3, <1>4 DEF IsActivation
<1>9. \A j \in active : P[j].tier = "CONDITIONAL" => <<j, P[j].cats>> \in C1
  OBVIOUS
<1> HIDE DEF C, C1, C2
<1>10. \A a \in C : IsActivation(P, a) /\ a[1] \in active
  BY <1>1, <1>3, <1>6, <1>7, <1>8
<1>11. Closed(P, C)
  <2> SUFFICES ASSUME NEW i \in DOMAIN P, NEW j \in DOMAIN P,
                      P[i].tier = "MANDATORY" \/ Activated(C, i),
                      Links(P, i, j), P[j].tier = "CONDITIONAL"
               PROVE  <<j, P[j].cats>> \in C
    BY DEF Closed
  <2>1. i \in active
    BY <1>3, <1>5, <1>10 DEF Activated
  <2> QED
    BY <1>1, <1>3, <1>9, <2>1
<1> QED
  BY <1>1, <1>10, <1>11 DEF C

\* So are the first activations, and those of a request.
LEMMA InitiallyClosed ==
  ASSUME NEW P, IsPlan(P)
  PROVE  /\ \A a \in InitialActivations(P) : IsActivation(P, a)
         /\ Closed(P, InitialActivations(P))
<1>1. PICK T \in SUBSET {j \in DOMAIN P : P[j].tier = "CONDITIONAL"} :
        InitialActivations(P) = CloseContext(P, {<<i, P[i].cats>> : i \in T})
  BY DEF InitialActivations
<1> DEFINE A == {<<i, P[i].cats>> : i \in T}
<1>2. \A a \in A : IsActivation(P, a)
  BY DEF IsActivation, IsPlan, IsItem
<1> HIDE DEF A
<1>3. /\ \A a \in CloseContext(P, A) : IsActivation(P, a)
      /\ Closed(P, CloseContext(P, A))
  BY <1>2, ContextCloses
<1> QED
  BY <1>1, <1>3 DEF A

LEMMA RequestCloses ==
  ASSUME NEW P, IsPlan(P), NEW A, \A a \in A : IsActivation(P, a), NEW requested
  PROVE  /\ A \subseteq Activate(P, A, requested)
         /\ \A a \in Activate(P, A, requested) : IsActivation(P, a)
         /\ Closed(P, Activate(P, A, requested))
<1>1. PICK T \in SUBSET {j \in DOMAIN P : P[j].tier = "CONDITIONAL"} :
        Activate(P, A, requested) = CloseContext(P, A \cup {<<i, P[i].cats>> : i \in T})
  BY DEF Activate
<1> DEFINE B == A \cup {<<i, P[i].cats>> : i \in T}
<1>2. \A a \in B : IsActivation(P, a)
  BY DEF IsActivation, IsPlan, IsItem
<1>3. A \subseteq B
  OBVIOUS
<1> HIDE DEF B
<1>4. /\ B \subseteq CloseContext(P, B)
      /\ \A a \in CloseContext(P, B) : IsActivation(P, a)
      /\ Closed(P, CloseContext(P, B))
  BY <1>2, ContextCloses
<1> QED
  BY <1>1, <1>3, <1>4 DEF B

-----------------------------------------------------------------------------
(* The operations of the ledger.                                           *)

\* Setting states changes those states and nothing else.
LEMMA SetStatesSets ==
  ASSUME NEW L, IsLedger(L), NEW X, NEW s, NEW M, M = SetStates(L, X, s)
  PROVE  /\ IsLedger(M) /\ M.activations = L.activations
         /\ M.attempts = L.attempts /\ M.outcomes = L.outcomes
         /\ DOMAIN M.state = DOMAIN L.state \cup X
         /\ \A o \in DOMAIN L.state \cup X : M.state[o] = IF o \in X THEN s ELSE L.state[o]
<1> DEFINE f == [o \in DOMAIN L.state \cup X |-> IF o \in X THEN s ELSE L.state[o]]
<1>1. M = [L EXCEPT !.state = f]
  BY DEF SetStates
<1>2. DOMAIN f = DOMAIN L.state \cup X
      /\ \A o \in DOMAIN L.state \cup X : f[o] = IF o \in X THEN s ELSE L.state[o]
  OBVIOUS
<1> HIDE DEF f
<1>3. M = [state |-> f, activations |-> L.activations,
           attempts |-> L.attempts, outcomes |-> L.outcomes]
  BY <1>1 DEF IsLedger
<1> QED
  BY <1>2, <1>3 DEF IsLedger

\* From L to M the obligations of X change their state to s, and no more changes.
Changed(L, M, X, s) ==
  /\ M.activations = L.activations /\ M.attempts = L.attempts /\ M.outcomes = L.outcomes
  /\ DOMAIN M.state = DOMAIN L.state
  /\ \A o \in DOMAIN L.state : M.state[o] = IF o \in X THEN s ELSE L.state[o]

\* A started obligation that moves on stays started.
LEMMA StatesMove ==
  ASSUME NEW P, NEW L, IsCoverage(P, L), NEW X, X \subseteq StartedOf(L),
         NEW s, s \in States \ {"INACTIVE"}
  PROVE  IsCoverage(P, SetStates(L, X, s)) /\ Changed(L, SetStates(L, X, s), X, s)
<1> DEFINE M == SetStates(L, X, s)
<1>1. IsLedger(L) /\ X \subseteq DOMAIN L.state
  BY DEF IsCoverage, StartedOf
<1>2. DOMAIN L.state \cup X = DOMAIN L.state
  BY <1>1
<1>3. /\ IsLedger(M) /\ M.activations = L.activations
      /\ M.attempts = L.attempts /\ M.outcomes = L.outcomes
      /\ DOMAIN M.state = DOMAIN L.state \cup X
      /\ \A o \in DOMAIN L.state \cup X : M.state[o] = IF o \in X THEN s ELSE L.state[o]
  BY <1>1, SetStatesSets
<1> HIDE DEF M
<1>4. Changed(L, M, X, s) /\ IsLedger(M)
  BY <1>2, <1>3 DEF Changed
<1>5. StartedOf(M) = StartedOf(L)
  BY <1>1, <1>4 DEF StartedOf, Changed
<1>6. IsCoverage(P, M)
  BY <1>4, <1>5 DEF IsCoverage, Changed
<1> QED
  BY <1>4, <1>6 DEF M

\* The obligations that the new ones of A start.
FreshOf(L, A) == UNION {Obligations(a[1], a[2]) : a \in A \ L.activations}

\* New activations start their obligations.
LEMMA ApplyStarts ==
  ASSUME NEW P, NEW L, IsCoverage(P, L),
         NEW A, L.activations \subseteq A, \A a \in A : IsActivation(P, a),
         NEW M, M = Apply(L, A)
  PROVE  /\ IsCoverage(P, M) /\ M.activations = A
         /\ M.attempts = L.attempts /\ M.outcomes = L.outcomes
         /\ DOMAIN M.state = DOMAIN L.state \cup FreshOf(L, A)
         /\ \A o \in DOMAIN M.state :
              M.state[o] = IF o \in FreshOf(L, A) THEN "ACTIVE" ELSE L.state[o]
<1> DEFINE X == FreshOf(L, A)
           N == SetStates(L, X, "ACTIVE")
<1>1. M = [N EXCEPT !.activations = A]
  BY DEF Apply, FreshOf
<1>2. IsLedger(L)
  BY DEF IsCoverage
<1>3. /\ IsLedger(N) /\ N.activations = L.activations
      /\ N.attempts = L.attempts /\ N.outcomes = L.outcomes
      /\ DOMAIN N.state = DOMAIN L.state \cup X
      /\ \A o \in DOMAIN L.state \cup X : N.state[o] = IF o \in X THEN "ACTIVE" ELSE L.state[o]
  BY <1>2, SetStatesSets
<1> HIDE DEF N
<1>4. /\ IsLedger(M) /\ M.activations = A /\ M.state = N.state
      /\ M.attempts = L.attempts /\ M.outcomes = L.outcomes
  BY <1>1, <1>3 DEF IsLedger
<1>5. \A o \in X : \E a \in A : o[1] = a[1] /\ o[2] \in a[2] /\ o = <<a[1], o[2]>>
  BY DEF FreshOf, Obligations
<1>6. \A a \in A \ L.activations : Obligations(a[1], a[2]) \subseteq X
  BY DEF FreshOf
<1> HIDE DEF X
<1>7. StartedOf(M) = StartedOf(L) \cup X
  BY <1>3, <1>4 DEF StartedOf
<1>8. \A o \in X : /\ o \in (DOMAIN P) \X Categories /\ Activated(A, o[1])
                   /\ o \in Addressed(P) \/ P[o[1]].tier = "RESERVE"
  <2> SUFFICES ASSUME NEW o \in X
               PROVE  /\ o \in (DOMAIN P) \X Categories /\ Activated(A, o[1])
                      /\ o \in Addressed(P) \/ P[o[1]].tier = "RESERVE"
    OBVIOUS
  <2>1. PICK a \in A : o[1] = a[1] /\ o[2] \in a[2] /\ o = <<a[1], o[2]>>
    BY <1>5
  <2>2. IsActivation(P, a)
    OBVIOUS
  <2>3. o \in (DOMAIN P) \X Categories /\ Activated(A, o[1])
    BY <2>1, <2>2 DEF IsActivation, Activated
  <2>4. P[a[1]].tier = "RESERVE" \/ o \in Addressed(P)
    BY <2>1, <2>2, <2>3 DEF IsActivation, Addressed
  <2> QED
    BY <2>1, <2>3, <2>4
<1>9. \A i : Activated(L.activations, i) => Activated(A, i)
  BY DEF Activated
<1>10. \A a \in A : Obligations(a[1], a[2]) \subseteq StartedOf(M)
  <2> SUFFICES ASSUME NEW a \in A
               PROVE  Obligations(a[1], a[2]) \subseteq StartedOf(M)
    OBVIOUS
  <2>1. CASE a \in L.activations
    BY <1>7, <2>1 DEF IsCoverage
  <2>2. CASE a \notin L.activations
    BY <1>6, <1>7, <2>2
  <2> QED
    BY <2>1, <2>2
<1>11. /\ DOMAIN M.state \subseteq (DOMAIN P) \X Categories
       /\ Addressed(P) \subseteq DOMAIN M.state
  BY <1>3, <1>4, <1>8 DEF IsCoverage
<1>12. ASSUME NEW o \in DOMAIN M.state
       PROVE  /\ M.state[o] \in States
              /\ o \in Addressed(P) \/ (P[o[1]].tier = "RESERVE" /\ Activated(A, o[1]))
  <2>1. CASE o \in X
    BY <1>3, <1>4, <1>8, <2>1 DEF States
  <2>2. CASE o \notin X
    BY <1>3, <1>4, <1>9, <2>2 DEF IsCoverage
  <2> QED
    BY <2>1, <2>2
<1>13. ASSUME NEW o \in StartedOf(M)
       PROVE  P[o[1]].tier = "MANDATORY" \/ Activated(A, o[1])
  BY <1>7, <1>8, <1>9 DEF IsCoverage
<1>14. IsCoverage(P, M)
  BY <1>4, <1>10, <1>11, <1>12, <1>13 DEF IsCoverage
<1> QED
  BY <1>3, <1>4, <1>14 DEF X

\* Without a promotion they start what had not been, a whole item at a time.
LEMMA ApplyStartsOnce ==
  ASSUME NEW P, IsPlan(P), NEW L, IsCoverage(P, L),
         NEW A, L.activations \subseteq A, \A a \in A : IsActivation(P, a),
         NEW M, M = Apply(L, A), Unpromoted(P, M)
  PROVE  /\ DOMAIN M.state = DOMAIN L.state
         /\ \A o \in DOMAIN L.state : M.state[o] # L.state[o] =>
              L.state[o] = "INACTIVE" /\ M.state[o] = "ACTIVE"
         /\ Whole(P, L) => Whole(P, M)
<1> DEFINE X == FreshOf(L, A)
<1>1. /\ M.activations = A /\ DOMAIN M.state = DOMAIN L.state \cup X
      /\ \A o \in DOMAIN M.state : M.state[o] = IF o \in X THEN "ACTIVE" ELSE L.state[o]
  BY ApplyStarts
<1>2. ASSUME NEW o \in X
      PROVE  /\ o \in Addressed(P) /\ o[1] \in DOMAIN P
             /\ <<o[1], P[o[1]].cats>> \in A \ L.activations
             /\ P[o[1]].tier = "CONDITIONAL" /\ o = <<o[1], o[2]>>
  <2>1. PICK a \in A \ L.activations : o \in Obligations(a[1], a[2])
    BY DEF FreshOf
  <2>2. o[1] = a[1] /\ o[2] \in a[2] /\ o = <<a[1], o[2]>>
    BY <2>1 DEF Obligations
  <2>3. IsActivation(P, a) /\ P[a[1]].tier # "RESERVE"
    BY <1>1 DEF Unpromoted
  <2>4. P[a[1]].tier = "CONDITIONAL" /\ a = <<a[1], P[a[1]].cats>> /\ a[1] \in DOMAIN P
        /\ a[2] = P[a[1]].cats /\ a[2] \subseteq Categories
    BY <2>3 DEF IsActivation
  <2> QED
    BY <2>1, <2>2, <2>4 DEF Addressed
<1>3. \A i \in DOMAIN P : \A c, d \in P[i].cats : <<i, c>> \in X => <<i, d>> \in X
  <2> SUFFICES ASSUME NEW i \in DOMAIN P, NEW c \in P[i].cats, NEW d \in P[i].cats,
                      <<i, c>> \in X
               PROVE  <<i, d>> \in X
    OBVIOUS
  <2>1. <<i, P[i].cats>> \in A \ L.activations
    BY <1>2
  <2>2. <<i, d>> \in Obligations(<<i, P[i].cats>>[1], <<i, P[i].cats>>[2])
    BY DEF Obligations
  <2> QED
    BY <2>1, <2>2 DEF FreshOf
<1> HIDE DEF X
<1>4. DOMAIN M.state = DOMAIN L.state
  BY <1>1, <1>2 DEF IsCoverage
<1>5. ASSUME NEW o \in X PROVE L.state[o] = "INACTIVE"
  <2>1. ~ Activated(L.activations, o[1])
    <3> SUFFICES ASSUME NEW a \in L.activations, a[1] = o[1] PROVE FALSE
      BY DEF Activated
    <3>1. IsActivation(P, a)
      OBVIOUS
    <3>2. a = <<o[1], P[o[1]].cats>>
      BY <1>2, <3>1 DEF IsActivation
    <3> QED
      BY <1>2, <3>2
  <2>2. o \in DOMAIN L.state /\ P[o[1]].tier # "MANDATORY"
    BY <1>1, <1>2, <1>4
  <2> QED
    BY <2>1, <2>2 DEF IsCoverage, StartedOf
<1>6. ASSUME Whole(P, L) PROVE Whole(P, M)
  <2> SUFFICES ASSUME NEW i \in DOMAIN P, NEW c \in P[i].cats, NEW d \in P[i].cats
               PROVE  M.state[<<i, c>>] = M.state[<<i, d>>]
    BY DEF Whole
  <2>1. <<i, c>> \in Addressed(P) /\ <<i, d>> \in Addressed(P)
    BY DEF Addressed, IsPlan, IsItem
  <2>2. <<i, c>> \in DOMAIN M.state /\ <<i, d>> \in DOMAIN M.state
    BY <1>4, <2>1 DEF IsCoverage
  <2>3. L.state[<<i, c>>] = L.state[<<i, d>>]
    BY <1>6 DEF Whole
  <2> QED
    BY <1>1, <1>3, <2>2, <2>3
<1> QED
  BY <1>1, <1>4, <1>5, <1>6

\* Reconciliation is such an activation, and leaves the activations closed.
LEMMA ReconcileCloses ==
  ASSUME NEW P, IsPlan(P), NEW L, IsCoverage(P, L), NEW M, M = Reconcile(P, L)
  PROVE  /\ IsCoverage(P, M) /\ Closed(P, M.activations)
         /\ L.activations \subseteq M.activations
         /\ M.attempts = L.attempts /\ M.outcomes = L.outcomes
         /\ DOMAIN L.state \subseteq DOMAIN M.state
         /\ AttemptedOf(M) \subseteq AttemptedOf(L)
         /\ StartedOf(L) \subseteq StartedOf(M)
         /\ \A o \in DOMAIN M.state : M.state[o] = "ACTIVE"
                                      \/ (o \in DOMAIN L.state /\ M.state[o] = L.state[o])
         /\ Unpromoted(P, M) =>
              /\ Unpromoted(P, L)
              /\ DOMAIN M.state = DOMAIN L.state
              /\ \A o \in DOMAIN L.state : M.state[o] # L.state[o] =>
                   L.state[o] = "INACTIVE" /\ M.state[o] = "ACTIVE"
              /\ Whole(P, L) => Whole(P, M)
<1> DEFINE A == Activate(P, L.activations, Requested(P, L))
<1>1. \A a \in L.activations : IsActivation(P, a)
  BY DEF IsCoverage
<1>2. /\ L.activations \subseteq A /\ \A a \in A : IsActivation(P, a)
      /\ Closed(P, A)
  BY <1>1, RequestCloses
<1>3. M = Apply(L, A)
  BY DEF Reconcile
<1> HIDE DEF A
<1>4. /\ IsCoverage(P, M) /\ M.activations = A
      /\ M.attempts = L.attempts /\ M.outcomes = L.outcomes
      /\ DOMAIN M.state = DOMAIN L.state \cup FreshOf(L, A)
      /\ \A o \in DOMAIN M.state :
           M.state[o] = IF o \in FreshOf(L, A) THEN "ACTIVE" ELSE L.state[o]
  BY <1>2, <1>3, ApplyStarts
<1>5. ASSUME Unpromoted(P, M)
      PROVE  /\ Unpromoted(P, L)
             /\ DOMAIN M.state = DOMAIN L.state
             /\ \A o \in DOMAIN L.state : M.state[o] # L.state[o] =>
                  L.state[o] = "INACTIVE" /\ M.state[o] = "ACTIVE"
             /\ Whole(P, L) => Whole(P, M)
  <2>1. Unpromoted(P, L)
    BY <1>2, <1>4, <1>5 DEF Unpromoted
  <2> QED
    BY <1>2, <1>3, <1>5, <2>1, ApplyStartsOnce
<1>6. AttemptedOf(M) \subseteq AttemptedOf(L)
  BY <1>4 DEF AttemptedOf
<1>7. StartedOf(L) \subseteq StartedOf(M)
  BY <1>4 DEF StartedOf
<1> QED
  BY <1>2, <1>4, <1>5, <1>6, <1>7

\* A new ledger is one, with nothing attempted.
LEMMA NewLedgerCovers ==
  ASSUME NEW P, IsPlan(P), NEW M, M = NewLedger(P)
  PROVE  /\ IsCoverage(P, M) /\ Closed(P, M.activations)
         /\ M.attempts = {} /\ \A o \in DOMAIN M.state : M.state[o] \in {"ACTIVE", "INACTIVE"}
         /\ Unpromoted(P, M) => Whole(P, M)
<1> DEFINE K == Addressed(P)
           f == [o \in K |-> IF P[o[1]].tier = "MANDATORY" THEN "ACTIVE" ELSE "INACTIVE"]
           E == [state |-> f, activations |-> {}, attempts |-> {}, outcomes |-> <<>>]
           A == InitialActivations(P)
<1>1. M = Apply(E, A)
  BY DEF NewLedger, Addressed
<1>2. DOMAIN f = K /\ \A o \in K : f[o] = IF P[o[1]].tier = "MANDATORY" THEN "ACTIVE" ELSE "INACTIVE"
  OBVIOUS
<1> HIDE DEF f
<1>3. E.state = f /\ E.activations = {} /\ E.attempts = {} /\ IsLedger(E)
  BY DEF IsLedger
<1> HIDE DEF E
<1>4. IsCoverage(P, E)
  BY <1>2, <1>3 DEF IsCoverage, StartedOf, States, Addressed
<1>5. Whole(P, E)
  <2> SUFFICES ASSUME NEW i \in DOMAIN P, NEW c \in P[i].cats, NEW d \in P[i].cats
               PROVE  E.state[<<i, c>>] = E.state[<<i, d>>]
    BY DEF Whole
  <2>1. <<i, c>> \in K /\ <<i, d>> \in K
    BY DEF Addressed, IsPlan, IsItem
  <2> QED
    BY <1>2, <1>3, <2>1
<1>6. (\A a \in A : IsActivation(P, a)) /\ Closed(P, A)
  BY InitiallyClosed
<1> HIDE DEF K, A
<1>7. /\ IsCoverage(P, M) /\ M.activations = A /\ M.attempts = {}
      /\ DOMAIN M.state = DOMAIN E.state \cup FreshOf(E, A)
      /\ \A o \in DOMAIN M.state :
           M.state[o] = IF o \in FreshOf(E, A) THEN "ACTIVE" ELSE E.state[o]
  BY <1>1, <1>3, <1>4, <1>6, ApplyStarts
<1>8. \A o \in DOMAIN M.state : M.state[o] \in {"ACTIVE", "INACTIVE"}
  BY <1>2, <1>3, <1>7
<1>9. Unpromoted(P, M) => Whole(P, M)
  BY <1>1, <1>3, <1>4, <1>5, <1>6, ApplyStartsOnce
<1> QED
  BY <1>6, <1>7, <1>8, <1>9

\* The obligations of the items that wait to be drawn.
ActiveOf(L, items) == {o \in DOMAIN L.state : o[1] \in items /\ L.state[o] = "ACTIVE"}

\* Marking what is active of some items marks those items whole.
LEMMA MarksActive ==
  ASSUME NEW P, NEW L, IsCoverage(P, L), NEW items, NEW s \in States \ {"INACTIVE"},
         NEW M, M = SetStates(L, UNION {Obligations(i, ActiveCats(L, i)) : i \in items}, s)
  PROVE  IsCoverage(P, M) /\ Changed(L, M, ActiveOf(L, items), s)
<1> DEFINE X == UNION {Obligations(i, ActiveCats(L, i)) : i \in items}
<1>1. ASSUME NEW o \in X
      PROVE  o \in DOMAIN L.state /\ o[1] \in items /\ L.state[o] = "ACTIVE"
  <2>1. PICK i \in items : o \in Obligations(i, ActiveCats(L, i))
    OBVIOUS
  <2>2. o = <<i, o[2]>> /\ o[1] = i /\ o[2] \in ActiveCats(L, i)
    BY <2>1 DEF Obligations
  <2> QED
    BY <2>2 DEF ActiveCats, Holds
<1>2. ASSUME NEW o \in DOMAIN L.state, o[1] \in items, L.state[o] = "ACTIVE"
      PROVE  o \in X
  <2>1. o = <<o[1], o[2]>> /\ o[2] \in Categories
    BY DEF IsCoverage
  <2>2. o \in Obligations(o[1], ActiveCats(L, o[1]))
    BY <1>2, <2>1 DEF Obligations, ActiveCats, Holds
  <2> QED
    BY <1>2, <2>2
<1> HIDE DEF X
<1>3. X \subseteq StartedOf(L)
  BY <1>1 DEF StartedOf
<1>4. M = SetStates(L, X, s)
  BY DEF X
<1>5. IsCoverage(P, M) /\ Changed(L, M, X, s)
  BY <1>3, <1>4, StatesMove
<1>6. \A o \in DOMAIN L.state : o \in X <=> o \in ActiveOf(L, items)
  BY <1>1, <1>2 DEF ActiveOf
<1> QED
  BY <1>5, <1>6 DEF Changed

\* The obligations of an item are those of the plan.
LEMMA ItemAddressed ==
  ASSUME NEW P, IsPlan(P), NEW L, IsCoverage(P, L), NEW i \in DOMAIN P, NEW c \in P[i].cats
  PROVE  <<i, c>> \in DOMAIN L.state /\ c \in Categories
BY DEF IsPlan, IsItem, IsCoverage, Addressed

\* A change of states by item and state keeps items whole.
LEMMA WholeKept ==
  ASSUME NEW P, IsPlan(P), NEW L, IsCoverage(P, L), Whole(P, L), NEW items, NEW s, NEW M,
         Changed(L, M, ActiveOf(L, items), s)
  PROVE  Whole(P, M)
<1> SUFFICES ASSUME NEW i \in DOMAIN P, NEW c \in P[i].cats, NEW d \in P[i].cats
             PROVE  M.state[<<i, c>>] = M.state[<<i, d>>]
  BY DEF Whole
<1>1. <<i, c>> \in DOMAIN L.state /\ <<i, d>> \in DOMAIN L.state
  BY ItemAddressed
<1>2. L.state[<<i, c>>] = L.state[<<i, d>>]
  BY DEF Whole
<1> QED
  BY <1>1, <1>2 DEF Changed, ActiveOf

\* From L to M the ledger moves on: nothing beyond being drawn comes back.
MovesOn(P, L, M) ==
  /\ IsCoverage(P, M) /\ Closed(P, M.activations)
  /\ AttemptedOf(M) \subseteq AttemptedOf(L)
  /\ Unpromoted(P, M) => Unpromoted(P, L)
  /\ Unpromoted(P, M) =>
       /\ Whole(P, L) => Whole(P, M)
       /\ M.attempts = L.attempts
       /\ \A o : Beyond(L, o) => Beyond(M, o)

LEMMA ReconcileMovesOn ==
  ASSUME NEW P, IsPlan(P), NEW L, IsCoverage(P, L), NEW M, M = Reconcile(P, L)
  PROVE  MovesOn(P, L, M) /\ (Overflowed(M) => Overflowed(L))
<1>1. /\ IsCoverage(P, M) /\ Closed(P, M.activations)
      /\ M.attempts = L.attempts
      /\ AttemptedOf(M) \subseteq AttemptedOf(L)
      /\ \A o \in DOMAIN M.state : M.state[o] = "ACTIVE"
                                   \/ (o \in DOMAIN L.state /\ M.state[o] = L.state[o])
      /\ Unpromoted(P, M) =>
           /\ Unpromoted(P, L)
           /\ DOMAIN M.state = DOMAIN L.state
           /\ \A o \in DOMAIN L.state : M.state[o] # L.state[o] =>
                L.state[o] = "INACTIVE" /\ M.state[o] = "ACTIVE"
           /\ Whole(P, L) => Whole(P, M)
  BY ReconcileCloses
<1>2. Overflowed(M) => Overflowed(L)
  BY <1>1 DEF Overflowed
<1>3. Unpromoted(P, M) => \A o : Beyond(L, o) => Beyond(M, o)
  BY <1>1 DEF Beyond
<1> QED
  BY <1>1, <1>2, <1>3 DEF MovesOn

LEMMA MarkMovesOn ==
  ASSUME NEW P, IsPlan(P), NEW L, IsCoverage(P, L), Closed(P, L.activations), NEW items,
         NEW s \in Terminal,
         NEW M, M = SetStates(L, UNION {Obligations(i, ActiveCats(L, i)) : i \in items}, s)
  PROVE  /\ MovesOn(P, L, M) /\ M.activations = L.activations
         /\ s # "OVERFLOW_UNDISPATCHED" => (Overflowed(M) => Overflowed(L))
         /\ Changed(L, M, ActiveOf(L, items), s)
<1>1. s \in States \ {"INACTIVE"} /\ s \notin {"INACTIVE", "ACTIVE", "EXTRACTION_ATTEMPTED"}
  BY DEF States, Terminal
<1>2. IsCoverage(P, M) /\ Changed(L, M, ActiveOf(L, items), s)
  BY <1>1, MarksActive
<1>3. Whole(P, L) => Whole(P, M)
  BY <1>2, WholeKept
<1>4. AttemptedOf(M) \subseteq AttemptedOf(L)
  BY <1>1, <1>2 DEF AttemptedOf, Changed
<1>5. \A o : Beyond(L, o) => Beyond(M, o)
  BY <1>1, <1>2 DEF Beyond, Changed, ActiveOf
<1>6. s # "OVERFLOW_UNDISPATCHED" => (Overflowed(M) => Overflowed(L))
  BY <1>2 DEF Overflowed, Changed
<1>7. M.activations = L.activations /\ M.attempts = L.attempts
  BY <1>2 DEF Changed
<1>8. Unpromoted(P, M) => Unpromoted(P, L)
  BY <1>7 DEF Unpromoted
<1> QED
  BY <1>2, <1>3, <1>4, <1>5, <1>6, <1>7, <1>8 DEF MovesOn

LEMMA MovesOnTwice ==
  ASSUME NEW P, NEW L, NEW M, NEW N, MovesOn(P, L, M), MovesOn(P, M, N)
  PROVE  MovesOn(P, L, N)
BY DEF MovesOn

\* The obligations of a job move on together.
LEMMA JobMoves ==
  ASSUME NEW P, IsPlan(P), NEW L, IsCoverage(P, L), NEW i, NEW cats,
         Obligations(i, cats) \subseteq StartedOf(L), NEW s \in States \ {"INACTIVE"},
         NEW M, M = SetStates(L, Obligations(i, cats), s)
  PROVE  /\ IsCoverage(P, M) /\ Changed(L, M, Obligations(i, cats), s)
         /\ i \in DOMAIN P /\ cats = P[i].cats /\ Whole(P, L) => Whole(P, M)
<1>1. IsCoverage(P, M) /\ Changed(L, M, Obligations(i, cats), s)
  BY StatesMove
<1>2. ASSUME i \in DOMAIN P, cats = P[i].cats, Whole(P, L),
             NEW j \in DOMAIN P, NEW c \in P[j].cats, NEW d \in P[j].cats
      PROVE  M.state[<<j, c>>] = M.state[<<j, d>>]
  <2>1. <<j, c>> \in DOMAIN L.state /\ <<j, d>> \in DOMAIN L.state
    BY ItemAddressed
  <2>2. L.state[<<j, c>>] = L.state[<<j, d>>]
    BY <1>2 DEF Whole
  <2>3. <<j, c>> \in Obligations(i, cats) <=> <<j, d>> \in Obligations(i, cats)
    BY <1>2 DEF Obligations
  <2> QED
    BY <1>1, <2>1, <2>2, <2>3 DEF Changed
<1> QED
  BY <1>1, <1>2 DEF Whole

\* Without a promotion no item has more than its two categories active.
LEMMA NeverWide ==
  ASSUME NEW P, IsPlan(P), NEW L, IsCoverage(P, L), Unpromoted(P, L), NEW i
  PROVE  /\ ~ Wide(L, i)
         /\ ActiveCats(L, i) # {} => i \in DOMAIN P /\ ActiveCats(L, i) \subseteq P[i].cats
         /\ Whole(P, L) /\ ActiveCats(L, i) # {} => ActiveCats(L, i) = P[i].cats
<1>1. ASSUME NEW c \in ActiveCats(L, i)
      PROVE  i \in DOMAIN P /\ c \in P[i].cats /\ <<i, c>> \in DOMAIN L.state
             /\ L.state[<<i, c>>] = "ACTIVE"
  <2>1. <<i, c>> \in DOMAIN L.state /\ L.state[<<i, c>>] = "ACTIVE"
    BY DEF ActiveCats, Holds
  <2>2. <<i, c>> \in Addressed(P) \/ (P[i].tier = "RESERVE" /\ Activated(L.activations, i))
    BY <2>1 DEF IsCoverage
  <2>3. ~ (P[i].tier = "RESERVE" /\ Activated(L.activations, i))
    BY DEF Unpromoted, Activated
  <2> QED
    BY <2>1, <2>2, <2>3 DEF Addressed
<1>2. CASE ActiveCats(L, i) = {}
  BY <1>2, FS_EmptySet DEF Wide
<1>3. CASE ActiveCats(L, i) # {}
  <2>1. i \in DOMAIN P /\ ActiveCats(L, i) \in SUBSET P[i].cats
    BY <1>1, <1>3
  <2>2. P[i].cats \in SUBSET Categories /\ Cardinality(P[i].cats) <= 2
    BY <2>1 DEF IsPlan, IsItem
  <2>3. IsFiniteSet(P[i].cats) /\ Cardinality(P[i].cats) \in Nat
        /\ Cardinality(ActiveCats(L, i)) \in Nat
    BY <2>1, <2>2, CategoriesFinite
  <2>4. Cardinality(ActiveCats(L, i)) <= Cardinality(P[i].cats)
    BY <2>1, <2>3, FS_Subset
  <2>5. ~ Wide(L, i)
    BY <2>2, <2>3, <2>4 DEF Wide
  <2>6. ASSUME Whole(P, L), NEW d \in P[i].cats
        PROVE  d \in ActiveCats(L, i)
    <3>1. PICK c \in ActiveCats(L, i) : TRUE
      BY <1>3
    <3>2. L.state[<<i, d>>] = "ACTIVE" /\ <<i, d>> \in DOMAIN L.state /\ d \in Categories
      BY <1>1, <2>1, <2>6, <3>1, ItemAddressed DEF Whole
    <3> QED
      BY <3>2 DEF ActiveCats, Holds
  <2> QED
    BY <2>1, <2>5, <2>6
<1> QED
  BY <1>2, <1>3

-----------------------------------------------------------------------------
(* Every step keeps the invariants.                                        *)

\* A ledger that moves on keeps its coverage, and drains.
LEMMA MovingOnKeeps ==
  ASSUME CoverageOK, MovesOn(plan, ledger, ledger'), UNCHANGED <<plan, entered>>,
         term' = "NONE" => term = "NONE"
  PROVE  /\ CoverageOK'
         /\ DrainInv /\ Unpromoted(plan, ledger)' => Unpromoted(plan, ledger) /\ LedgerDrains'
<1>1. CoverageOK'
  BY DEF CoverageOK, MovesOn
<1>2. ASSUME DrainInv, Unpromoted(plan, ledger)'
      PROVE  Unpromoted(plan, ledger) /\ LedgerDrains'
  <2>1. Unpromoted(plan, ledger')
    BY <1>2
  <2>2. Unpromoted(plan, ledger)
    BY <2>1 DEF MovesOn
  <2>3. LedgerDrains
    BY <1>2, <2>2 DEF DrainInv
  <2>4. /\ Whole(plan, ledger') /\ ledger'.attempts = ledger.attempts
        /\ \A o : Beyond(ledger, o) => Beyond(ledger', o)
    BY <2>1, <2>3 DEF MovesOn, LedgerDrains
  <2> QED
    BY <2>2, <2>3, <2>4 DEF LedgerDrains
<1> QED
  BY <1>1, <1>2

\* A ledger that stays as it is moves on.
LEMMA StayingMovesOn ==
  ASSUME CoverageOK, UNCHANGED ledger
  PROVE  MovesOn(plan, ledger, ledger')
BY DEF CoverageOK, MovesOn

LEMMA Bounds == /\ MaxCalls \in Nat /\ PlanCap \in Nat /\ MaxCalls <= PlanCap + 2
                /\ \A ix \in Indexes : IsIndex(ix)
BY RunConstants

LEMMA StopStops ==
  ASSUME NEW why, why # "NONE"
  PROVE  Stop(term, why) # "NONE"
BY DEF Stop

\* A fresh run.
LEMMA AcquisitionInit == Init => CoverageInv /\ DrainInv
<1> SUFFICES ASSUME Init PROVE CoverageInv /\ DrainInv
  OBVIOUS
<1>1. IsPlan(plan)
  BY Bounds, BuildsPlan DEF Init
<1>2. /\ IsCoverage(plan, ledger) /\ Closed(plan, ledger.activations)
      /\ ledger.attempts = {}
      /\ \A o \in DOMAIN ledger.state : ledger.state[o] \in {"ACTIVE", "INACTIVE"}
      /\ Unpromoted(plan, ledger) => Whole(plan, ledger)
  BY <1>1, NewLedgerCovers DEF Init
<1>3. base \in Nat /\ 2 <= base /\ calls = base /\ dispatches = 0 /\ calls <= MaxCalls
      /\ pc = "drain" /\ term = "NONE" /\ reason = "NONE" /\ entered = {}
  BY RunConstants DEF Init
<1>4. AttemptedOf(ledger) = {} /\ ~ Overflowed(ledger)
  BY <1>2 DEF AttemptedOf, Overflowed
<1>5. CoverageInv
  BY <1>1, <1>2, <1>3, <1>4
     DEF CoverageInv, CoverageOK, InFlight, RunsOn, Exhausted, Counted
<1>6. DrainInv
  BY <1>2, <1>3, <1>4 DEF DrainInv, LedgerDrains, JobIsItem, CallsDispatch
<1> QED
  BY <1>5, <1>6

\* The scheduler stops at a bound: the ledger stays.
LEMMA BoundStep ==
  ASSUME CoverageInv, DrainInv, StepBound \/ BudgetBound
  PROVE  CoverageInv' /\ DrainInv'
<1>1. /\ UNCHANGED <<plan, ledger, entered, calls, base, dispatches>>
      /\ pc' = "planner" /\ term' # "NONE"
      /\ reason' \notin {"PLAN_EXHAUSTED", "CONTEXT_UNRESOLVED"} /\ pc = "drain"
  BY StopStops DEF StepBound, BudgetBound, Drained, budget, run
<1>2. MovesOn(plan, ledger, ledger')
  BY <1>1, StayingMovesOn DEF CoverageInv
<1>3. CoverageOK' /\ (Unpromoted(plan, ledger)' => Unpromoted(plan, ledger) /\ LedgerDrains')
  BY <1>1, <1>2, MovingOnKeeps DEF CoverageInv
<1>4. CoverageInv'
  BY <1>1, <1>3 DEF CoverageInv, InFlight, RunsOn, Exhausted, Counted
<1>5. DrainInv'
  BY <1>1, <1>3 DEF DrainInv, JobIsItem, CallsDispatch
<1> QED
  BY <1>4, <1>5

\* What is active are the obligations of the active items.
LEMMA ActiveItemsAre ==
  ASSUME NEW P, NEW L, IsCoverage(P, L)
  PROVE  \A o \in DOMAIN L.state : L.state[o] = "ACTIVE" => o[1] \in ActiveItems(P, L)
<1> SUFFICES ASSUME NEW o \in DOMAIN L.state, L.state[o] = "ACTIVE"
             PROVE  o[1] \in ActiveItems(P, L)
  OBVIOUS
<1>1. o = <<o[1], o[2]>> /\ o[1] \in DOMAIN P /\ o[2] \in Categories
  BY DEF IsCoverage
<1> QED
  BY <1>1 DEF ActiveItems, ActiveCats, Holds

\* At capacity: everything active is an overflow.
LEMMA PlanFullStep ==
  ASSUME CoverageInv, DrainInv, PlanFull
  PROVE  CoverageInv' /\ DrainInv'
<1>1. /\ UNCHANGED <<plan, entered, calls, base, dispatches>>
      /\ pc' = "planner" /\ term' # "NONE" /\ pc = "drain" /\ calls - base = PlanCap
      /\ ledger' = MarkOverflow(plan, ledger, ActiveItems(plan, ledger))
  BY StopStops DEF PlanFull, Drained, budget, run, CapReached
<1>2. IsPlan(plan) /\ IsCoverage(plan, ledger) /\ Closed(plan, ledger.activations)
      /\ AttemptedOf(ledger) = {}
  BY <1>1 DEF CoverageInv, CoverageOK, InFlight
<1> DEFINE items == ActiveItems(plan, ledger)
<1>3. /\ MovesOn(plan, ledger, ledger') /\ ledger'.activations = ledger.activations
      /\ Changed(ledger, ledger', ActiveOf(ledger, items), "OVERFLOW_UNDISPATCHED")
  BY <1>1, <1>2, MarkMovesOn DEF MarkOverflow, Terminal
<1>4. CoverageOK' /\ (Unpromoted(plan, ledger)' => Unpromoted(plan, ledger) /\ LedgerDrains')
  BY <1>1, <1>3, MovingOnKeeps DEF CoverageInv
<1>5. AttemptedOf(ledger') = {}
  BY <1>2, <1>3 DEF MovesOn
<1>6. \A o \in DOMAIN ledger'.state : ledger'.state[o] \in Terminal \cup {"INACTIVE"}
  <2> SUFFICES ASSUME NEW o \in DOMAIN ledger.state
               PROVE  ledger'.state[o] \in Terminal \cup {"INACTIVE"}
    BY <1>3 DEF Changed
  <2>1. ledger.state[o] = "ACTIVE" => o[1] \in items
    BY <1>2, ActiveItemsAre
  <2>2. ledger.state[o] \in States /\ ledger.state[o] # "EXTRACTION_ATTEMPTED"
    BY <1>2 DEF IsCoverage, AttemptedOf
  <2> QED
    BY <1>3, <2>1, <2>2 DEF Changed, ActiveOf, States, Terminal
<1>7. CoverageInv'
  BY <1>1, <1>4, <1>5, <1>6
     DEF CoverageInv, InFlight, RunsOn, Exhausted, Counted, ExhaustionIsAccounted
<1>8. DrainInv'
  BY <1>1, <1>4 DEF DrainInv, JobIsItem, CallsDispatch
<1> QED
  BY <1>7, <1>8

\* Neither an overflow record nor a job is refused while no item is promoted.
LEMMA PlanFullRaisesStep ==
  ASSUME CoverageInv, DrainInv, PlanFullRaises
  PROVE  CoverageInv' /\ DrainInv'
<1>1. /\ UNCHANGED <<plan, entered, calls, base, dispatches, reason>>
      /\ pc' = "planner" /\ pc = "drain"
      /\ \E i : Wide(ledger, i)
  BY DEF PlanFullRaises, Raised, budget
<1>2. PICK items : ledger' = MarkOverflow(plan, ledger, items)
  BY DEF PlanFullRaises
<1>3. IsPlan(plan) /\ IsCoverage(plan, ledger) /\ Closed(plan, ledger.activations)
      /\ AttemptedOf(ledger) = {} /\ term = "NONE"
  BY <1>1 DEF CoverageInv, CoverageOK, InFlight, RunsOn
<1>4. MovesOn(plan, ledger, ledger') /\ ledger'.activations = ledger.activations
  BY <1>2, <1>3, MarkMovesOn DEF MarkOverflow, Terminal
<1>5. CoverageOK'
  BY <1>1, <1>3, <1>4, MovingOnKeeps DEF CoverageInv
<1>6. AttemptedOf(ledger') = {}
  BY <1>3, <1>4 DEF MovesOn
<1>7. CoverageInv'
  BY <1>1, <1>5, <1>6 DEF CoverageInv, InFlight, RunsOn, Exhausted, Counted
<1>8. ~ Unpromoted(plan, ledger)
  BY <1>1, <1>3, NeverWide
<1>9. DrainInv'
  BY <1>1, <1>4, <1>8 DEF DrainInv, Unpromoted
<1> QED
  BY <1>7, <1>9

\* The scheduler reconciles, marks what it passes over and goes on from there.
LEMMA Scan ==
  ASSUME CoverageInv, pc = "drain", UNCHANGED <<plan, entered>>,
         NEW items, ledger' = MarkContext(Reconcile(plan, ledger), items)
  PROVE  /\ MovesOn(plan, ledger, ledger') /\ (Overflowed(ledger') => Overflowed(ledger))
         /\ AttemptedOf(ledger') = {} /\ CoverageOK'
         /\ DrainInv /\ Unpromoted(plan, ledger)' =>
              /\ Unpromoted(plan, ledger) /\ LedgerDrains'
              /\ Unpromoted(plan, Reconcile(plan, ledger)) /\ Whole(plan, Reconcile(plan, ledger))
         /\ IsCoverage(plan, Reconcile(plan, ledger))
         /\ Changed(Reconcile(plan, ledger), ledger',
                    ActiveOf(Reconcile(plan, ledger), items), "CONTEXT_UNRESOLVED")
<1> DEFINE L == Reconcile(plan, ledger)
<1>1. IsPlan(plan) /\ IsCoverage(plan, ledger) /\ Closed(plan, ledger.activations)
      /\ AttemptedOf(ledger) = {} /\ term = "NONE"
  BY DEF CoverageInv, CoverageOK, InFlight, RunsOn
<1>2. MovesOn(plan, ledger, L) /\ (Overflowed(L) => Overflowed(ledger))
  BY <1>1, ReconcileMovesOn
<1>3. ledger' = SetStates(L, UNION {Obligations(i, ActiveCats(L, i)) : i \in items},
                          "CONTEXT_UNRESOLVED")
  BY DEF MarkContext
<1> HIDE DEF L
<1>4. IsCoverage(plan, L) /\ Closed(plan, L.activations)
  BY <1>2 DEF MovesOn
<1>5. /\ MovesOn(plan, L, ledger') /\ (Overflowed(ledger') => Overflowed(L))
      /\ Changed(L, ledger', ActiveOf(L, items), "CONTEXT_UNRESOLVED")
  BY <1>1, <1>3, <1>4, MarkMovesOn DEF Terminal
<1>6. MovesOn(plan, ledger, ledger')
  BY <1>2, <1>5, MovesOnTwice
<1>7. AttemptedOf(ledger') = {}
  BY <1>1, <1>6 DEF MovesOn
<1>8. CoverageOK' /\ (DrainInv /\ Unpromoted(plan, ledger)' => Unpromoted(plan, ledger) /\ LedgerDrains')
  BY <1>1, <1>6, MovingOnKeeps DEF CoverageInv
<1>9. ASSUME DrainInv, Unpromoted(plan, ledger)'
      PROVE  Unpromoted(plan, L) /\ Whole(plan, L)
  <2>1. Unpromoted(plan, ledger')
    BY <1>9
  <2>2. Unpromoted(plan, L)
    BY <1>5, <2>1 DEF MovesOn
  <2>3. Whole(plan, ledger)
    BY <1>8, <1>9 DEF DrainInv, LedgerDrains
  <2> QED
    BY <1>2, <2>2, <2>3 DEF MovesOn
<1> QED
  BY <1>2, <1>4, <1>5, <1>6, <1>7, <1>8, <1>9 DEF L

\* The job selected is an item whole, and still waits.
LEMMA SelectJobStep ==
  ASSUME CoverageInv, DrainInv, SelectJob
  PROVE  CoverageInv' /\ DrainInv'
<1> DEFINE L == Reconcile(plan, ledger)
           found == Firsts(L, ActiveItems(plan, L))
           items == PassedBefore(ActiveItems(plan, L), found)
<1>1. /\ UNCHANGED <<plan, entered, calls, base, dispatches, term, reason>>
      /\ pc' = "selected" /\ pc = "drain" /\ ledger' = MarkContext(L, items)
  BY DEF SelectJob, MayDraw, budget, run
<1>2. PICK i \in found : /\ \A j \in found : i <= j
                         /\ job' = [item |-> i, cats |-> ActiveCats(L, i)]
  BY DEF SelectJob
<1>3. i \in DOMAIN plan /\ ActiveCats(L, i) # {}
  BY DEF Firsts, ActiveItems
<1>4. i \notin items
  <2>1. i \in Int
    BY <1>3 DEF CoverageInv, CoverageOK, IsPlan
  <2> QED
    BY <2>1 DEF PassedBefore
<1> HIDE DEF found, items
<1>5. /\ MovesOn(plan, ledger, ledger') /\ (Overflowed(ledger') => Overflowed(ledger))
      /\ AttemptedOf(ledger') = {} /\ CoverageOK'
      /\ Unpromoted(plan, ledger)' =>
              /\ Unpromoted(plan, ledger) /\ LedgerDrains'
              /\ Unpromoted(plan, L) /\ Whole(plan, L)
      /\ IsCoverage(plan, L)
      /\ Changed(L, ledger', ActiveOf(L, items), "CONTEXT_UNRESOLVED")
  BY <1>1, Scan
<1> HIDE DEF L
<1>6. CoverageInv'
  BY <1>1, <1>5 DEF CoverageInv, InFlight, RunsOn, Exhausted, Counted
<1>7. ASSUME Unpromoted(plan, ledger)'
      PROVE  JobIsItem'
  <2>1. ActiveCats(L, i) = plan[i].cats
    BY <1>3, <1>5, <1>7, NeverWide DEF CoverageInv, CoverageOK
  <2>2. ASSUME NEW o \in Obligations(i, ActiveCats(L, i))
        PROVE  Holds(ledger', o, {"ACTIVE"})
    <3>1. o[1] = i /\ o \in DOMAIN L.state /\ L.state[o] = "ACTIVE"
      BY DEF Obligations, ActiveCats, Holds
    <3> QED
      BY <1>4, <1>5, <3>1 DEF Changed, ActiveOf, Holds
  <2> QED
    BY <1>1, <1>2, <1>3, <2>1, <2>2 DEF JobIsItem
<1>8. DrainInv'
  BY <1>1, <1>5, <1>7 DEF DrainInv, CallsDispatch
<1> QED
  BY <1>6, <1>8

LEMMA SelectRaisesStep ==
  ASSUME CoverageInv, DrainInv, SelectRaises
  PROVE  CoverageInv' /\ DrainInv'
<1> DEFINE L == Reconcile(plan, ledger)
           items == PassedBefore(ActiveItems(plan, L), Firsts(L, ActiveItems(plan, L)))
<1>1. /\ UNCHANGED <<plan, entered, calls, base, dispatches, reason>>
      /\ pc' = "planner" /\ pc = "drain" /\ ledger' = MarkContext(L, items)
      /\ \E i : Wide(L, i)
  BY DEF SelectRaises, Raised, MayDraw, budget
<1> HIDE DEF items
<1>2. /\ AttemptedOf(ledger') = {} /\ CoverageOK'
      /\ Unpromoted(plan, ledger)' => Unpromoted(plan, L)
      /\ IsCoverage(plan, L)
  BY <1>1, Scan
<1> HIDE DEF L
<1>3. CoverageInv'
  BY <1>1, <1>2 DEF CoverageInv, InFlight, RunsOn, Exhausted, Counted
<1>4. ~ Unpromoted(plan, ledger)'
  BY <1>1, <1>2, NeverWide DEF CoverageInv, CoverageOK
<1> QED
  BY <1>3, <1>4 DEF DrainInv

\* With nothing to select everything has its end.
LEMMA NothingToSelectStep ==
  ASSUME CoverageInv, DrainInv, NothingToSelect
  PROVE  CoverageInv' /\ DrainInv'
<1> DEFINE L == Reconcile(plan, ledger)
           items == ActiveItems(plan, L)
<1>1. /\ UNCHANGED <<plan, entered, calls, base, dispatches>>
      /\ pc' = "planner" /\ term' # "NONE" /\ pc = "drain"
      /\ ledger' = MarkContext(L, items)
  BY StopStops DEF NothingToSelect, Drained, MayDraw, budget, run
<1>2. \A o \in DOMAIN L.state : IsCoverage(plan, L) /\ L.state[o] = "ACTIVE" => o[1] \in items
  BY ActiveItemsAre
<1> HIDE DEF items
<1>3. /\ (Overflowed(ledger') => Overflowed(ledger))
      /\ AttemptedOf(ledger') = {} /\ CoverageOK'
      /\ Unpromoted(plan, ledger)' => Unpromoted(plan, ledger) /\ LedgerDrains'
      /\ IsCoverage(plan, L)
      /\ Changed(L, ledger', ActiveOf(L, items), "CONTEXT_UNRESOLVED")
  BY <1>1, Scan
<1> HIDE DEF L
<1>4. ExhaustionIsAccounted'
  <2> SUFFICES ASSUME NEW o \in DOMAIN ledger'.state
               PROVE  ledger'.state[o] \in Terminal \cup {"INACTIVE"}
    BY DEF ExhaustionIsAccounted
  <2>1. ledger'.state[o] \in States /\ ledger'.state[o] # "EXTRACTION_ATTEMPTED"
    BY <1>3 DEF CoverageOK, IsCoverage, AttemptedOf
  <2>2. ledger'.state[o] # "ACTIVE"
    BY <1>2, <1>3 DEF Changed, ActiveOf
  <2> QED
    BY <2>1, <2>2 DEF States, Terminal
<1>5. CoverageInv'
  BY <1>1, <1>3, <1>4 DEF CoverageInv, InFlight, RunsOn, Exhausted, Counted
<1>6. DrainInv'
  BY <1>1, <1>3 DEF DrainInv, JobIsItem, CallsDispatch
<1> QED
  BY <1>5, <1>6

-----------------------------------------------------------------------------
\* A selected job that is an item whole was never entered on, and can begin.
LEMMA SelectedIsFresh ==
  ASSUME CoverageInv, DrainInv, Unpromoted(plan, ledger), pc = "selected"
  PROVE  JobKey \notin entered /\ CanBegin
<1>1. /\ job.item \in DOMAIN plan /\ job.cats = plan[job.item].cats /\ job.cats # {}
      /\ \A o \in Obligations(job.item, job.cats) : Holds(ledger, o, {"ACTIVE"})
      /\ term = "NONE" /\ LedgerDrains
  BY DEF DrainInv, JobIsItem, CoverageInv, RunsOn
<1>2. JobKey = KeyOf(plan, job.item)
  BY <1>1 DEF JobKey, KeyOf
<1>3. ASSUME JobKey \in entered PROVE FALSE
  <2>1. PICK c \in job.cats : TRUE
    BY <1>1
  <2>2. Beyond(ledger, <<job.item, c>>)
    BY <1>1, <1>2, <1>3, <2>1 DEF LedgerDrains
  <2>3. <<job.item, c>> \in Obligations(job.item, job.cats)
    BY DEF Obligations
  <2> QED
    BY <1>1, <2>2, <2>3 DEF Holds, Beyond
<1>4. Obligations(job.item, job.cats) \cap ledger.attempts = {}
  BY <1>1 DEF LedgerDrains, Holds, Beyond
<1> QED
  BY <1>1, <1>3, <1>4 DEF CanBegin

LEMMA RefusedStep ==
  ASSUME CoverageInv, DrainInv, RepeatedJob \/ BeginRaises
  PROVE  CoverageInv' /\ DrainInv'
<1>1. /\ UNCHANGED <<plan, ledger, calls, base, dispatches, reason>>
      /\ pc = "selected" /\ pc' = "planner"
      /\ JobKey \in entered \/ ~ CanBegin
  BY DEF RepeatedJob, BeginRaises, Raised, budget
<1>2. ~ Unpromoted(plan, ledger)
  BY <1>1, SelectedIsFresh
<1>3. AttemptedOf(ledger) = {}
  BY <1>1 DEF CoverageInv, InFlight
<1>4. CoverageInv'
  BY <1>1, <1>3 DEF CoverageInv, CoverageOK, InFlight, RunsOn, Exhausted, Counted
<1> QED
  BY <1>1, <1>2, <1>4 DEF DrainInv

LEMMA BeginJobStep ==
  ASSUME CoverageInv, DrainInv, BeginJob
  PROVE  CoverageInv' /\ DrainInv'
<1> DEFINE X == Obligations(job.item, job.cats)
           M == SetStates(ledger, X, "EXTRACTION_ATTEMPTED")
<1>1. /\ UNCHANGED <<plan, calls, base, dispatches, term, reason, job>>
      /\ pc = "selected" /\ pc' = "dispatched" /\ entered' = entered \cup {JobKey}
      /\ ledger' = [M EXCEPT !.attempts = M.attempts \cup X]
  BY DEF BeginJob, BeginItem, Enter, budget
<1>2. IsPlan(plan) /\ IsCoverage(plan, ledger) /\ Closed(plan, ledger.activations)
      /\ AttemptedOf(ledger) = {} /\ term = "NONE"
  BY <1>1 DEF CoverageInv, CoverageOK, InFlight, RunsOn
<1>3. \A o \in X : o \in DOMAIN ledger.state /\ ledger.state[o] = "ACTIVE"
  BY DEF BeginJob, CanBegin, Holds
<1>4. X \subseteq StartedOf(ledger)
  BY <1>3 DEF StartedOf
<1>5. /\ IsCoverage(plan, M) /\ Changed(ledger, M, X, "EXTRACTION_ATTEMPTED")
      /\ job.item \in DOMAIN plan /\ job.cats = plan[job.item].cats /\ Whole(plan, ledger)
           => Whole(plan, M)
  BY <1>2, <1>4, JobMoves DEF States
<1> HIDE DEF M
<1>6. /\ IsLedger(ledger') /\ ledger'.state = M.state /\ ledger'.activations = ledger.activations
      /\ ledger'.attempts = ledger.attempts \cup X
  BY <1>1, <1>5 DEF IsCoverage, IsLedger, Changed
<1> HIDE DEF X
<1>7. CoverageOK'
  BY <1>1, <1>2, <1>5, <1>6 DEF CoverageOK, IsCoverage, StartedOf, Changed
<1>8. AttemptedOf(ledger') \subseteq X /\ X \subseteq StartedOf(ledger')
  BY <1>2, <1>3, <1>5, <1>6 DEF AttemptedOf, StartedOf, Changed
<1>9. CoverageInv'
  BY <1>1, <1>2, <1>7, <1>8 DEF CoverageInv, InFlight, RunsOn, Exhausted, Counted, X
<1>10. ASSUME Unpromoted(plan, ledger)'
       PROVE  LedgerDrains' /\ JobIsItem' /\ CallsDispatch'
  <2>1. Unpromoted(plan, ledger)
    BY <1>1, <1>6, <1>10 DEF Unpromoted
  <2>2. /\ job.item \in DOMAIN plan /\ job.cats = plan[job.item].cats /\ job.cats # {}
        /\ LedgerDrains
        /\ calls - base = dispatches
        /\ Overflowed(ledger) => dispatches = PlanCap
    BY <1>1, <2>1 DEF DrainInv, JobIsItem, CallsDispatch
  <2>3. \A o : Beyond(ledger, o) => Beyond(ledger', o)
    BY <1>3, <1>5, <1>6 DEF Beyond, Changed
  <2>4. \A o \in X : Beyond(ledger', o)
    BY <1>3, <1>5, <1>6 DEF Beyond, Changed
  <2>5. Whole(plan, ledger')
    <3>1. Whole(plan, M)
      BY <1>5, <2>2 DEF LedgerDrains
    <3> QED
      BY <1>6, <3>1 DEF Whole
  <2>6. ASSUME NEW i \in DOMAIN plan, KeyOf(plan, i) \in entered', NEW c \in plan[i].cats
        PROVE  Beyond(ledger', <<i, c>>)
    <3>1. CASE KeyOf(plan, i) \in entered
      BY <1>2, <2>2, <2>3, <3>1 DEF LedgerDrains
    <3>2. CASE KeyOf(plan, i) = JobKey
      <4>1. plan[i].section = plan[job.item].section /\ plan[i].cats = job.cats
        BY <3>2 DEF KeyOf, JobKey
      <4>2. i = job.item
        BY <1>2, <2>2, <4>1 DEF IsPlan
      <4> QED
        BY <2>4, <4>1, <4>2 DEF X, Obligations
    <3> QED
      BY <1>1, <2>6, <3>1, <3>2
  <2>7. LedgerDrains'
    <3>1. \A o \in ledger'.attempts : Beyond(ledger', o)
      BY <1>6, <2>2, <2>3, <2>4 DEF LedgerDrains
    <3> QED
      BY <1>1, <2>5, <2>6, <3>1 DEF LedgerDrains
  <2>8. Overflowed(ledger') => Overflowed(ledger)
    BY <1>5, <1>6 DEF Overflowed, Changed
  <2> QED
    BY <1>1, <2>2, <2>7, <2>8 DEF JobIsItem, CallsDispatch
<1> QED
  BY <1>9, <1>10 DEF DrainInv

\* The job that runs is of started obligations, and whole without a promotion.
LEMMA JobInHand ==
  ASSUME CoverageInv, DrainInv, pc = "dispatched"
  PROVE  /\ IsPlan(plan) /\ IsCoverage(plan, ledger) /\ Closed(plan, ledger.activations)
         /\ Obligations(job.item, job.cats) \subseteq StartedOf(ledger)
         /\ AttemptedOf(ledger) \subseteq Obligations(job.item, job.cats)
         /\ term = "NONE" /\ reason \notin {"PLAN_EXHAUSTED", "CONTEXT_UNRESOLVED"}
         /\ Unpromoted(plan, ledger) =>
              /\ job.item \in DOMAIN plan /\ job.cats = plan[job.item].cats
              /\ LedgerDrains /\ calls - base = dispatches
              /\ Overflowed(ledger) => dispatches = PlanCap
BY DEF CoverageInv, CoverageOK, InFlight, RunsOn, Exhausted, DrainInv, JobIsItem, CallsDispatch

LEMMA DispatchDeniedStep ==
  ASSUME CoverageInv, DrainInv, DispatchDenied
  PROVE  CoverageInv' /\ DrainInv'
<1> DEFINE X == Obligations(job.item, job.cats)
           M == SetStates(ledger, X, "ACTIVE")
<1>1. /\ UNCHANGED <<plan, calls, base, dispatches, reason, entered>>
      /\ pc = "dispatched" /\ pc' = "planner" /\ term' # "NONE"
      /\ ledger' = [M EXCEPT !.attempts = M.attempts \ X]
  BY StopStops DEF DispatchDenied, BudgetBlocked, Continue, budget, run
<1>2. /\ IsPlan(plan) /\ IsCoverage(plan, ledger) /\ Closed(plan, ledger.activations)
      /\ X \subseteq StartedOf(ledger) /\ AttemptedOf(ledger) \subseteq X
      /\ reason \notin {"PLAN_EXHAUSTED", "CONTEXT_UNRESOLVED"}
      /\ Unpromoted(plan, ledger) =>
              /\ job.item \in DOMAIN plan /\ job.cats = plan[job.item].cats
              /\ LedgerDrains /\ calls - base = dispatches
              /\ Overflowed(ledger) => dispatches = PlanCap
  BY <1>1, JobInHand
<1>3. /\ IsCoverage(plan, M) /\ Changed(ledger, M, X, "ACTIVE")
      /\ job.item \in DOMAIN plan /\ job.cats = plan[job.item].cats /\ Whole(plan, ledger)
           => Whole(plan, M)
  BY <1>2, JobMoves DEF States
<1> HIDE DEF M, X
<1>4. /\ IsLedger(ledger') /\ ledger'.state = M.state /\ ledger'.activations = ledger.activations
      /\ ledger'.attempts = ledger.attempts \ X
  BY <1>1, <1>3 DEF IsCoverage, IsLedger, Changed
<1>5. CoverageOK'
  BY <1>1, <1>2, <1>3, <1>4 DEF CoverageOK, IsCoverage, StartedOf, Changed
<1>6. AttemptedOf(ledger') = {}
  BY <1>2, <1>3, <1>4 DEF AttemptedOf, Changed
<1>7. CoverageInv'
  BY <1>1, <1>2, <1>5, <1>6 DEF CoverageInv, InFlight, RunsOn, Exhausted, Counted
<1>8. ASSUME Unpromoted(plan, ledger)'
      PROVE  LedgerDrains' /\ JobIsItem' /\ CallsDispatch'
  <2>1. Unpromoted(plan, ledger)
    BY <1>1, <1>4, <1>8 DEF Unpromoted
  <2>2. Whole(plan, ledger')
    <3>1. Whole(plan, M)
      BY <1>2, <1>3, <2>1 DEF LedgerDrains
    <3> QED
      BY <1>4, <3>1 DEF Whole
  <2>3. \A o \in ledger'.attempts : Beyond(ledger', o)
    BY <1>2, <1>3, <1>4, <2>1 DEF LedgerDrains, Beyond, Changed
  <2>4. Overflowed(ledger') => Overflowed(ledger)
    BY <1>3, <1>4 DEF Overflowed, Changed
  <2> QED
    BY <1>1, <1>2, <2>1, <2>2, <2>3, <2>4 DEF LedgerDrains, JobIsItem, CallsDispatch
<1> QED
  BY <1>7, <1>8 DEF DrainInv

\* A job that is over leaves its item whole and accounted for, whatever the
\* reconciliation after it activates.
JobAccounted(L, N) ==
  /\ Changed([L EXCEPT !.outcomes = N.outcomes], N, Obligations(job.item, job.cats), "ACCOUNTED")
  /\ IsLedger(N)

LEMMA JobOver ==
  ASSUME CoverageInv, DrainInv, pc = "dispatched", UNCHANGED <<plan, entered, reason, base>>,
         pc' = IF term' = "NONE" THEN "drain" ELSE "planner",
         (Reserve /\ dispatches' = dispatches + 1) \/ UNCHANGED <<calls, dispatches>>,
         NEW N, JobAccounted(ledger, N), ledger' = Reconcile(plan, N)
  PROVE  CoverageInv' /\ DrainInv'
<1> DEFINE X == Obligations(job.item, job.cats)
           M == SetStates(ledger, X, "ACCOUNTED")
<1>1. /\ IsPlan(plan) /\ IsCoverage(plan, ledger) /\ Closed(plan, ledger.activations)
      /\ X \subseteq StartedOf(ledger) /\ AttemptedOf(ledger) \subseteq X
      /\ term = "NONE" /\ reason \notin {"PLAN_EXHAUSTED", "CONTEXT_UNRESOLVED"}
      /\ Unpromoted(plan, ledger) =>
              /\ job.item \in DOMAIN plan /\ job.cats = plan[job.item].cats
              /\ LedgerDrains /\ calls - base = dispatches
              /\ Overflowed(ledger) => dispatches = PlanCap
  BY JobInHand
<1>2. /\ IsCoverage(plan, M) /\ Changed(ledger, M, X, "ACCOUNTED")
      /\ job.item \in DOMAIN plan /\ job.cats = plan[job.item].cats /\ Whole(plan, ledger)
           => Whole(plan, M)
  BY <1>1, JobMoves DEF States, Terminal
<1>3. IsLedger(M)
  BY <1>2 DEF IsCoverage
<1> HIDE DEF M
<1>4. /\ DOMAIN N.state = DOMAIN M.state /\ N.activations = ledger.activations
      /\ N.attempts = ledger.attempts /\ IsLedger(N)
      /\ \A o \in DOMAIN M.state : N.state[o] = M.state[o]
  <2> DEFINE K == [ledger EXCEPT !.outcomes = N.outcomes]
  <2>1. IsLedger(ledger)
    BY <1>1 DEF IsCoverage
  <2>2. K.state = ledger.state /\ K.activations = ledger.activations /\ K.attempts = ledger.attempts
    BY <2>1 DEF IsLedger
  <2> HIDE DEF K, X
  <2>3. Changed(K, N, X, "ACCOUNTED") /\ IsLedger(N)
    BY DEF JobAccounted, K, X
  <2> QED
    BY <1>2, <2>2, <2>3 DEF Changed
<1> HIDE DEF X
<1>5. IsCoverage(plan, N) /\ Closed(plan, N.activations)
  <2>1. StartedOf(N) = StartedOf(M)
    BY <1>4 DEF StartedOf
  <2>2. M.activations = ledger.activations
    BY <1>2 DEF Changed
  <2> QED
    BY <1>1, <1>2, <1>4, <2>1, <2>2 DEF IsCoverage
<1>6. /\ \A o : Beyond(ledger, o) => Beyond(N, o)
      /\ AttemptedOf(N) = {}
      /\ Overflowed(N) => Overflowed(ledger)
      /\ Unpromoted(plan, ledger) => Whole(plan, N)
  <2>1. \A o : Beyond(ledger, o) => Beyond(N, o)
    BY <1>2, <1>4 DEF Beyond, Changed
  <2>2. AttemptedOf(N) = {}
    BY <1>1, <1>2, <1>4 DEF AttemptedOf, Changed
  <2>3. Overflowed(N) => Overflowed(ledger)
    BY <1>2, <1>4 DEF Overflowed, Changed
  <2>4. ASSUME Unpromoted(plan, ledger) PROVE Whole(plan, N)
    <3>1. Whole(plan, M)
      BY <1>1, <1>2, <2>4 DEF LedgerDrains
    <3> SUFFICES ASSUME NEW i \in DOMAIN plan, NEW c \in plan[i].cats, NEW d \in plan[i].cats
                 PROVE  N.state[<<i, c>>] = N.state[<<i, d>>]
      BY DEF Whole
    <3>2. <<i, c>> \in DOMAIN N.state /\ <<i, d>> \in DOMAIN N.state
      BY <1>1, <1>5, ItemAddressed
    <3> QED
      BY <1>4, <3>1, <3>2 DEF Whole
  <2> QED
    BY <2>1, <2>2, <2>3, <2>4
<1>7. MovesOn(plan, N, ledger') /\ (Overflowed(ledger') => Overflowed(N))
  BY <1>1, <1>5, ReconcileMovesOn
<1>8. CoverageOK' /\ AttemptedOf(ledger') = {}
  BY <1>1, <1>6, <1>7 DEF CoverageOK, MovesOn
<1>9. Counted'
  BY Bounds DEF CoverageInv, Counted, Reserve
<1>10. CoverageInv'
  BY <1>1, <1>8, <1>9 DEF CoverageInv, InFlight, RunsOn, Exhausted
<1>11. ASSUME Unpromoted(plan, ledger)'
       PROVE  LedgerDrains' /\ JobIsItem' /\ CallsDispatch'
  <2>1. Unpromoted(plan, ledger')
    BY <1>11
  <2>2. Unpromoted(plan, N)
    BY <1>7, <2>1 DEF MovesOn
  <2>3. Unpromoted(plan, ledger)
    BY <1>4, <2>2 DEF Unpromoted
  <2>4. /\ LedgerDrains /\ calls - base = dispatches
        /\ Overflowed(ledger) => dispatches = PlanCap
        /\ Whole(plan, N)
    BY <1>1, <1>6, <2>3
  <2>5. /\ Whole(plan, ledger') /\ ledger'.attempts = ledger.attempts
        /\ \A o : Beyond(ledger, o) => Beyond(ledger', o)
    BY <1>4, <1>6, <1>7, <2>1, <2>4 DEF MovesOn
  <2>6. LedgerDrains'
    BY <1>1, <2>4, <2>5 DEF LedgerDrains
  <2>7. calls' - base' = dispatches'
    BY <2>4 DEF Reserve, CoverageInv, Counted
  <2>8. Overflowed(ledger') => dispatches' = PlanCap
    <3> SUFFICES ASSUME Overflowed(ledger') PROVE dispatches' = PlanCap
      OBVIOUS
    <3>1. dispatches = PlanCap
      BY <1>6, <1>7, <2>4
    <3>2. ~ Reserve
      BY <2>4, <3>1, Bounds DEF CoverageInv, Counted, Reserve
    <3> QED
      BY <3>1, <3>2
  <2> QED
    BY <2>6, <2>7, <2>8 DEF JobIsItem, CallsDispatch
<1> QED
  BY <1>10, <1>11 DEF DrainInv

LEMMA DispatchFailsStep ==
  ASSUME CoverageInv, DrainInv, DispatchFails
  PROVE  CoverageInv' /\ DrainInv'
<1> DEFINE N == SetStates(ledger, Obligations(job.item, job.cats), "ACCOUNTED")
<1>1. /\ pc = "dispatched" /\ UNCHANGED <<plan, entered, reason, base>>
      /\ pc' = IF term' = "NONE" THEN "drain" ELSE "planner"
      /\ (Reserve /\ dispatches' = dispatches + 1) \/ UNCHANGED <<calls, dispatches>>
      /\ ledger' = Reconcile(plan, N)
  BY DEF DispatchFails, Continue, OperationalFailure, budget, Reserve
<1>2. /\ IsCoverage(plan, ledger)
      /\ Obligations(job.item, job.cats) \subseteq StartedOf(ledger)
  BY <1>1, JobInHand
<1>3. /\ IsCoverage(plan, N)
      /\ Changed(ledger, N, Obligations(job.item, job.cats), "ACCOUNTED")
  BY <1>2, StatesMove DEF States, Terminal
<1> HIDE DEF N
<1>4. [ledger EXCEPT !.outcomes = N.outcomes] = ledger
  BY <1>2, <1>3 DEF IsCoverage, IsLedger, Changed
<1>5. JobAccounted(ledger, N)
  BY <1>3, <1>4 DEF JobAccounted, IsCoverage
<1> QED
  BY <1>1, <1>5, JobOver

LEMMA DispatchCompletesStep ==
  ASSUME CoverageInv, DrainInv, DispatchCompletes
  PROVE  CoverageInv' /\ DrainInv'
<1> DEFINE X == Obligations(job.item, job.cats)
           M == SetStates(ledger, X, "ACCOUNTED")
<1>1. /\ pc = "dispatched" /\ UNCHANGED <<plan, entered, reason, base>>
      /\ pc' = IF term' = "NONE" THEN "drain" ELSE "planner"
      /\ Reserve /\ dispatches' = dispatches + 1
  BY DEF DispatchCompletes, Continue, Reserve
<1>2. PICK what : /\ DOMAIN what = job.cats
                  /\ ledger' = CompleteItem(plan, ledger, job.item, what)
  <2>1. PICK r \in Results : \E complete \in SUBSET {c \in job.cats : r[c] # {}} :
          ledger' = CompleteItem(plan, ledger, job.item,
                      [c \in job.cats |-> OutcomeOf(r[c],
                         c \in Conflicts(observations \cup Observed(r)), c \in complete)])
    BY DEF DispatchCompletes
  <2> QED
    BY <2>1
<1> DEFINE N == [M EXCEPT !.outcomes =
                   [o \in DOMAIN ledger.outcomes \cup X |->
                      IF o \in X THEN what[o[2]] ELSE ledger.outcomes[o]]]
<1>3. ledger' = Reconcile(plan, N)
  BY <1>2 DEF CompleteItem
<1>4. IsCoverage(plan, ledger) /\ X \subseteq StartedOf(ledger)
  BY <1>1, JobInHand
<1>5. IsCoverage(plan, M) /\ Changed(ledger, M, X, "ACCOUNTED")
  BY <1>4, StatesMove DEF States, Terminal
<1> HIDE DEF M
<1>6. IsLedger(ledger) /\ IsLedger(M)
  BY <1>4, <1>5 DEF IsCoverage
<1>7. IsLedger(N) /\ N.state = M.state /\ N.activations = M.activations /\ N.attempts = M.attempts
  BY <1>6 DEF IsLedger
<1> HIDE DEF N
<1> DEFINE K == [ledger EXCEPT !.outcomes = N.outcomes]
<1>8. /\ K.state = ledger.state /\ K.activations = ledger.activations
      /\ K.attempts = ledger.attempts /\ K.outcomes = N.outcomes
  BY <1>6 DEF IsLedger
<1> HIDE DEF K, X
<1>9. Changed(K, N, X, "ACCOUNTED")
  BY <1>5, <1>7, <1>8 DEF Changed
<1>10. JobAccounted(ledger, N)
  BY <1>7, <1>9 DEF JobAccounted, K, X
<1> QED
  BY <1>1, <1>3, <1>10, JobOver

\* Around the loop the ledger stays as it is.
LEMMA AgentStep ==
  ASSUME CoverageInv, DrainInv, RunEnds \/ PlannerTurn \/ UNCHANGED vars
  PROVE  CoverageInv' /\ DrainInv'
<1>1. CASE RunEnds
  <2>1. /\ UNCHANGED <<plan, ledger, entered, calls, base, dispatches, reason>>
        /\ pc = "planner" /\ pc' = "done" /\ term' # "NONE"
    BY <1>1, StopStops DEF RunEnds, Finish, budget, run
  <2>2. CoverageInv'
    BY <2>1 DEF CoverageInv, CoverageOK, InFlight, RunsOn, Exhausted, Counted, ExhaustionIsAccounted
  <2>3. DrainInv'
    BY <2>1 DEF DrainInv, LedgerDrains, JobIsItem, CallsDispatch
  <2> QED
    BY <2>2, <2>3
<1>2. CASE PlannerTurn
  <2>1. /\ UNCHANGED <<plan, ledger, base, dispatches, reason>> /\ Reserve
        /\ pc = "planner" /\ term = "NONE" /\ pc' \in {"done", "drain", "planner"}
        /\ pc' = "drain" => term' = "NONE"
    BY <1>2 DEF PlannerTurn, Finish, Reserve
  <2>2. Counted'
    BY <2>1, Bounds DEF CoverageInv, Counted, Reserve
  <2>3. reason \notin {"PLAN_EXHAUSTED", "CONTEXT_UNRESOLVED"} /\ AttemptedOf(ledger) = {}
    BY <2>1 DEF CoverageInv, Exhausted, InFlight
  <2>4. CoverageInv'
    BY <2>1, <2>2, <2>3 DEF CoverageInv, CoverageOK, InFlight, RunsOn, Exhausted
  <2>5. ~ Unpromoted(plan, ledger)
    BY <2>1 DEF DrainInv, CallsDispatch
  <2> QED
    BY <2>1, <2>4, <2>5 DEF DrainInv
<1>3. CASE UNCHANGED vars
  <2>1. UNCHANGED <<plan, ledger, entered, calls, base, dispatches, reason, term, pc, job>>
    BY <1>3 DEF vars, budget, run
  <2>2. CoverageInv'
    BY <2>1 DEF CoverageInv, CoverageOK, InFlight, RunsOn, Exhausted, Counted, ExhaustionIsAccounted
  <2>3. DrainInv'
    BY <2>1 DEF DrainInv, LedgerDrains, JobIsItem, CallsDispatch
  <2> QED
    BY <2>2, <2>3
<1> QED
  BY <1>1, <1>2, <1>3

LEMMA AcquisitionStep == CoverageInv /\ DrainInv /\ [Next]_vars => (CoverageInv /\ DrainInv)'
BY BoundStep, PlanFullStep, PlanFullRaisesStep, SelectJobStep, SelectRaisesStep,
   NothingToSelectStep, RefusedStep, BeginJobStep, DispatchDeniedStep, DispatchFailsStep,
   DispatchCompletesStep, AgentStep DEF Next

LEMMA AcquisitionInvariant == AcquisitionSpec => [](CoverageInv /\ DrainInv)
BY AcquisitionInit, AcquisitionStep, PTL DEF AcquisitionSpec

\* What a started item leads to has been started.
LEMMA ClosedStarts ==
  ASSUME CoverageInv
  PROVE  ActivationsClosed
<1> SUFFICES ASSUME NEW i \in DOMAIN plan, NEW j \in DOMAIN plan,
                    NEW b \in Categories, <<i, b>> \in Started(ledger, b),
                    Links(plan, i, j), plan[j].tier = "CONDITIONAL",
                    NEW c \in plan[j].cats
             PROVE  <<j, c>> \in Started(ledger, c)
  BY DEF ActivationsClosed
<1>1. IsPlan(plan) /\ IsCoverage(plan, ledger) /\ Closed(plan, ledger.activations)
  BY DEF CoverageInv, CoverageOK
<1>2. <<i, b>> \in StartedOf(ledger)
  BY DEF Started, StartedOf
<1>3. plan[i].tier = "MANDATORY" \/ Activated(ledger.activations, i)
  BY <1>1, <1>2 DEF IsCoverage
<1>4. <<j, plan[j].cats>> \in ledger.activations
  BY <1>1, <1>3 DEF Closed
<1>5. Obligations(j, plan[j].cats) \subseteq StartedOf(ledger)
  BY <1>1, <1>4 DEF IsCoverage
<1>6. <<j, c>> \in Obligations(j, plan[j].cats)
  BY DEF Obligations
<1> QED
  BY <1>5, <1>6 DEF StartedOf, Started

\* Nothing the plan started is lost (acquisition_coverage.py, _apply_activations
\* and mark_plan_overflow; section_scheduler.py, next_job), for every source.
THEOREM NothingStartedIsLost == AcquisitionSpec => []StartedIsAccounted
<1>1. CoverageInv /\ DrainInv => StartedIsAccounted
  <2> SUFFICES ASSUME CoverageInv, DrainInv PROVE StartedIsAccounted
    OBVIOUS
  <2>1. ActivationsClosed
    BY ClosedStarts
  <2>2. ~ ReservePromoted => Unpromoted(plan, ledger)
    BY DEF ReservePromoted, Unpromoted
  <2>3. dispatches <= PlanCap
    BY Bounds DEF CoverageInv, Counted
  <2>4. OverflowOnlyAtCapacity
    BY <2>2, <2>3 DEF OverflowOnlyAtCapacity, DrainInv, CallsDispatch, Overflowed
  <2>5. ExhaustionIsAccounted
    BY DEF CoverageInv, Exhausted, ExhaustionIsAccounted
  <2> QED
    BY <2>1, <2>4, <2>5 DEF StartedIsAccounted
<1> QED
  BY <1>1, AcquisitionInvariant, PTL

\* A run whose source promotes no reserve item does not get back to the planner
\* open: every job its loop draws is begun, once (section_acquisition.py, drain).
THEOREM RunsSettle == AcquisitionSpec => []AcquisitionSettles
<1>1. DrainInv => AcquisitionSettles
  BY DEF DrainInv, CallsDispatch, AcquisitionSettles, ReservePromoted, Unpromoted
<1> QED
  BY <1>1, AcquisitionInvariant, PTL

-----------------------------------------------------------------------------
(* How the plan follows the routing of the source.                         *)

\* The fields of an item that its section gives it.
LEMMA ItemFollows ==
  ASSUME NEW ix, NEW n, NEW cats, NEW tier, NEW reasons, NEW signal, NEW breadth,
         NEW a, a = Item(ix, n, cats, tier, reasons, signal, breadth)
  PROVE  /\ a.context = ix[n].context /\ a.ref = ix[n].ref /\ a.global = ix[n].global
         /\ a.reasons = reasons
BY DEF Item

\* An item of the plan, and the section it is of.
OfSection(ix, a) ==
  /\ a.section \in DOMAIN ix
  /\ a.context = ix[a.section].context /\ a.ref = ix[a.section].ref
  /\ a.global = ix[a.section].global
  /\ \/ Routed(ix[a.section]) = {} /\ a.cats = {} /\ a.tier = "RESERVE"
     \/ /\ Routed(ix[a.section]) # {} /\ a.cats # {}
        /\ \A c \in a.cats : /\ a.tier = TierOf(ix[a.section], c)
                             /\ a.reasons = ActivationReasons(ix, ix[a.section], c)

LEMMA ItemsAreOfSections ==
  ASSUME NEW ix, IsIndex(ix), NEW a \in AllItems(ix)
  PROVE  OfSection(ix, a)
<1>1. PICK n \in DOMAIN ix : a \in ItemsOf(ix, n)
  BY DEF AllItems
<1>2. CASE Routed(ix[n]) = {}
  <2>1. a = Item(ix, n, {}, "RESERVE", {}, 3, 0)
    BY <1>1, <1>2, ItemsAre
  <2> QED
    BY <1>2, <2>1, ItemFields, ItemFollows DEF OfSection
<1>3. CASE Routed(ix[n]) # {}
  <2>1. PICK d \in Routed(ix[n]) : a = RoutedItem(ix, n, d)
    BY <1>1, <1>3, ItemsAre
  <2>2. /\ a.section = n /\ a.cats = Chunk(ix, n, d)
        /\ a.context = ix[n].context /\ a.ref = ix[n].ref /\ a.global = ix[n].global
    BY <2>1, ItemFields, ItemFollows DEF RoutedItem
  <2>3. ASSUME NEW c \in a.cats
        PROVE  a.tier = TierOf(ix[n], c) /\ a.reasons = ActivationReasons(ix, ix[n], c)
    <3>1. a = RoutedItem(ix, n, c)
      BY <2>1, <2>2, ChunkOfMember
    <3> QED
      BY <3>1, ItemFields, ItemFollows DEF RoutedItem
  <2>4. a.cats # {}
    BY <2>2, ChunkOfMember
  <2> QED
    BY <1>3, <2>2, <2>3, <2>4 DEF OfSection
<1> QED
  BY <1>2, <1>3

\* A category has an anchor in the plan if some section makes it mandatory.
LEMMA AnchorsAreAnchored ==
  ASSUME NEW ix, IsIndex(ix), NEW P, P = BuildPlan(ix), NEW c \in Categories
  PROVE  Anchors(P, c) # {} <=> c \in Anchored(ix)
<1>1. /\ \A i \in DOMAIN P : P[i] \in AllItems(ix)
      /\ \A a \in AllItems(ix) : \E i \in DOMAIN P : P[i] = a
  BY PlanOfItems
<1>2. ASSUME NEW i \in Anchors(P, c)
      PROVE  c \in Anchored(ix)
  <2>1. i \in DOMAIN P /\ P[i].tier = "MANDATORY" /\ c \in P[i].cats
    BY DEF Anchors
  <2>2. OfSection(ix, P[i])
    BY <1>1, <2>1, ItemsAreOfSections
  <2>3. TierOf(ix[P[i].section], c) = "MANDATORY" /\ P[i].section \in DOMAIN ix
    BY <2>1, <2>2 DEF OfSection
  <2> QED
    BY <2>3 DEF TierOf, Anchored
<1>3. ASSUME c \in Anchored(ix)
      PROVE  \E i \in Anchors(P, c) : TRUE
  <2>1. PICK n \in DOMAIN ix : LocalMandatory(ix[n], c)
    BY <1>3 DEF Anchored
  <2>2. c \in Routed(ix[n]) /\ TierOf(ix[n], c) = "MANDATORY"
    BY <2>1 DEF LocalMandatory, Routed, TierOf
  <2> DEFINE a == RoutedItem(ix, n, c)
  <2>3. a \in AllItems(ix)
    BY <2>2, ItemsAre DEF AllItems
  <2>4. a.cats = Chunk(ix, n, c) /\ a.tier = "MANDATORY"
    BY <2>2, ItemFields DEF RoutedItem
  <2>5. c \in a.cats
    BY <2>2, <2>4, ChunkOfMember
  <2> HIDE DEF a
  <2>6. PICK i \in DOMAIN P : P[i] = a
    BY <1>1, <2>3
  <2> QED
    BY <2>4, <2>5, <2>6 DEF Anchors
<1> QED
  BY <1>2, <1>3

\* Why an item that is not mandatory may be activated.
LEMMA ReasonsAre ==
  ASSUME NEW ix, NEW s, NEW c, ~ LocalMandatory(s, c), s.global \in BOOLEAN, s.ref \in BOOLEAN,
         NEW R, R = ActivationReasons(ix, s, c)
  PROVE  /\ R \subseteq Reasons
         /\ "NO_SUPPORTED_ANCHOR" \in R /\ c \in Anchored(ix) => ~ s.ref /\ ~ s.global
         /\ s.global => ("NO_SUPPORTED_ANCHOR" \in R <=> c \notin Anchored(ix))
<1> DEFINE found ==
        {r \in Reasons :
           \/ r = "INCOMPLETE_CONTEXT" /\ ~s.complete
           \/ r = "NO_SUPPORTED_ANCHOR" /\ c \notin Anchored(ix)
           \/ r \in {"RULE_LIKE_FALLBACK", "ROUTING_UNCERTAIN"} /\ s.ruleLike /\ c \in s.hints
           \/ r = "EXPLICIT_REFERENCE" /\ s.ref
           \/ r = "GLOBAL_CONTEXT" /\ s.global}
<1>1. R = IF found = {} THEN {"NO_SUPPORTED_ANCHOR"} ELSE found
  BY DEF ActivationReasons
<1>2. /\ "NO_SUPPORTED_ANCHOR" \in found <=> c \notin Anchored(ix)
      /\ s.ref => "EXPLICIT_REFERENCE" \in found
      /\ s.global => "GLOBAL_CONTEXT" \in found
      /\ found \subseteq Reasons /\ "NO_SUPPORTED_ANCHOR" \in Reasons
  BY DEF Reasons
<1> HIDE DEF found
<1> QED
  BY <1>1, <1>2

\* How the items of a plan are routed: a reserve item is alone in its section,
\* and what may still be activated when the anchors of its category fail refers
\* to nothing.
IsRouted(P) ==
  /\ \A i, j \in DOMAIN P : i # j /\ P[j].tier = "RESERVE" => P[i].section # P[j].section
  /\ \A k \in DOMAIN P : P[k].tier = "CONDITIONAL" =>
       /\ P[k].reasons \subseteq Reasons
       /\ "NO_SUPPORTED_ANCHOR" \in P[k].reasons /\ (\E c \in P[k].cats : Anchors(P, c) # {})
            => ~ P[k].ref /\ ~ P[k].global
       /\ P[k].global =>
            \/ \A c \in P[k].cats : Anchors(P, c) # {}
            \/ /\ "NO_SUPPORTED_ANCHOR" \in P[k].reasons
               /\ \A c \in P[k].cats : Anchors(P, c) = {}

LEMMA PlanIsRouted ==
  ASSUME NEW ix, IsIndex(ix), NEW P, P = BuildPlan(ix)
  PROVE  IsRouted(P)
<1>1. IsPlan(P) /\ \A i \in DOMAIN P : OfSection(ix, P[i])
  BY BuildsPlan, PlanOfItems, ItemsAreOfSections
<1>3. ASSUME NEW i \in DOMAIN P, NEW j \in DOMAIN P, i # j, P[j].tier = "RESERVE",
             P[i].section = P[j].section
      PROVE  FALSE
  <2>1. IsItem(P[j]) /\ (P[i].cats # {} \/ P[j].cats # {})
    BY <1>1, <1>3 DEF IsPlan
  <2>2. P[j].cats = {} /\ P[i].cats # {}
    BY <1>3, <2>1 DEF IsItem
  <2> QED
    BY <1>1, <1>3, <2>2 DEF OfSection
<1>4. ASSUME NEW k \in DOMAIN P, P[k].tier = "CONDITIONAL"
      PROVE  /\ P[k].reasons \subseteq Reasons
             /\ "NO_SUPPORTED_ANCHOR" \in P[k].reasons /\ (\E c \in P[k].cats : Anchors(P, c) # {})
                  => ~ P[k].ref /\ ~ P[k].global
             /\ P[k].global =>
                  \/ \A c \in P[k].cats : Anchors(P, c) # {}
                  \/ /\ "NO_SUPPORTED_ANCHOR" \in P[k].reasons
                     /\ \A c \in P[k].cats : Anchors(P, c) = {}
  <2> DEFINE s == ix[P[k].section]
  <2>1. /\ P[k].cats # {} /\ P[k].ref = s.ref /\ P[k].global = s.global
        /\ \A c \in P[k].cats : /\ TierOf(s, c) = "CONDITIONAL"
                                /\ P[k].reasons = ActivationReasons(ix, s, c)
        /\ P[k].section \in DOMAIN ix
    BY <1>1, <1>4 DEF OfSection
  <2>2. s.global \in BOOLEAN /\ s.ref \in BOOLEAN
    BY <2>1, IndexFacts DEF Section
  <2>3. P[k].cats \subseteq Categories
    BY <1>1 DEF IsPlan, IsItem
  <2> HIDE DEF s
  <2>4. ASSUME NEW c \in P[k].cats
        PROVE  /\ P[k].reasons \subseteq Reasons
               /\ "NO_SUPPORTED_ANCHOR" \in P[k].reasons /\ Anchors(P, c) # {}
                    => ~ s.ref /\ ~ s.global
               /\ s.global => ("NO_SUPPORTED_ANCHOR" \in P[k].reasons <=> Anchors(P, c) = {})
    <3>1. ~ LocalMandatory(s, c)
      BY <2>1 DEF TierOf
    <3>2. Anchors(P, c) # {} <=> c \in Anchored(ix)
      BY <2>3, AnchorsAreAnchored
    <3> QED
      BY <2>1, <2>2, <3>1, <3>2, ReasonsAre
  <2> QED
    BY <2>1, <2>4
<1> QED
  BY <1>1, <1>3, <1>4 DEF IsRouted

\* What is global governs every other section that has items.
Governed(P) ==
  \A i, j \in DOMAIN P :
    P[j].global /\ P[i].section # P[j].section => P[j].section \in P[i].context

\* So it is in the plan of a source none of whose contexts was cut short of it.
LEMMA GlobalsGovernItems ==
  ASSUME NEW ix, IsIndex(ix), GlobalsGovern(ix), NEW P, P = BuildPlan(ix)
  PROVE  Governed(P)
<1>1. \A i \in DOMAIN P : OfSection(ix, P[i])
  BY PlanOfItems, ItemsAreOfSections
<1> QED
  BY <1>1 DEF Governed, GlobalsGovern, OfSection

-----------------------------------------------------------------------------
(* What later activations can still reach.                                 *)

Running(P, A, i) == P[i].tier = "MANDATORY" \/ Activated(A, i)

\* Whatever runs has activated what it links to, a reserve item with its own
\* categories.
Follows(P, A) ==
  \A i, j \in DOMAIN P : Running(P, A, i) /\ Links(P, i, j) =>
    /\ P[j].tier = "CONDITIONAL" => <<j, P[j].cats>> \in A
    /\ P[j].tier = "RESERVE" => <<j, P[i].cats>> \in A

GlobalReserve(P, j) == P[j].tier = "RESERVE" /\ P[j].global

\* A global reserve item is promoted with any other.
GlobalsFollow(P, A) ==
  \A a \in A : P[a[1]].tier = "RESERVE" =>
    \A j \in DOMAIN P : GlobalReserve(P, j) => <<j, a[2]>> \in A

Settled(P, A) ==
  Follows(P, A) /\ GlobalsFollow(P, A) /\ InitialActivations(P) \subseteq A

\* Closing activations over their context settles them, and activates nothing
\* but what a closed set of items links to.
LEMMA ContextSettles ==
  ASSUME NEW P, IsPlan(P), IsRouted(P), Governed(P), NEW A,
         \A a \in A : IsActivation(P, a), GlobalsFollow(P, A), NEW C, C = CloseContext(P, A)
  PROVE  /\ A \subseteq C /\ Follows(P, C) /\ GlobalsFollow(P, C)
         /\ \A T \in SUBSET DOMAIN P :
              /\ \A i \in DOMAIN P : Running(P, A, i) => i \in T
              /\ \A i \in T, j \in DOMAIN P : Links(P, i, j) => j \in T
              => \A c \in C \ A :
                   \/ c[1] \in T /\ P[c[1]].tier = "CONDITIONAL" /\ c = <<c[1], P[c[1]].cats>>
                   \/ \E i \in T : /\ c[1] \in DOMAIN P /\ P[c[1]].tier = "RESERVE"
                                   /\ Links(P, i, c[1]) /\ c = <<c[1], P[i].cats>>
<1> DEFINE S == {i \in DOMAIN P : P[i].tier = "MANDATORY"} \cup {a[1] : a \in A}
           active == Reached(P, S)
           C1 == {<<j, P[j].cats>> : j \in {k \in active : P[k].tier = "CONDITIONAL"}}
           C2 == {<<e[2], P[e[1]].cats>> :
                    e \in {p \in active \X (DOMAIN P) :
                             P[p[2]].tier = "RESERVE" /\ Links(P, p[1], p[2])}}
<1>1. C = (A \cup C1) \cup C2
  BY DEF CloseContext
<1>2. S \in SUBSET DOMAIN P
  BY DEF IsActivation
<1>3. \A i \in DOMAIN P : i \in S <=> Running(P, A, i)
  BY DEF Running, Activated
<1> HIDE DEF S
<1>4. /\ S \subseteq active /\ active \subseteq DOMAIN P
      /\ \A i \in active, j \in DOMAIN P : Links(P, i, j) => j \in active
      /\ \A T \in SUBSET DOMAIN P :
           /\ S \subseteq T
           /\ \A i \in T, j \in DOMAIN P : Links(P, i, j) => j \in T
           => active \subseteq T
  BY <1>2, ReachedIsClosed
<1> HIDE DEF active
<1>5. ASSUME NEW c \in C1
      PROVE  c[1] \in active /\ P[c[1]].tier = "CONDITIONAL" /\ c = <<c[1], P[c[1]].cats>>
  OBVIOUS
<1>6. ASSUME NEW c \in C2
      PROVE  \E i \in active : /\ c[1] \in DOMAIN P /\ P[c[1]].tier = "RESERVE"
                               /\ Links(P, i, c[1]) /\ c = <<c[1], P[i].cats>>
  <2>1. PICK e \in active \X (DOMAIN P) :
          P[e[2]].tier = "RESERVE" /\ Links(P, e[1], e[2]) /\ c = <<e[2], P[e[1]].cats>>
    OBVIOUS
  <2> QED
    BY <2>1
<1>7. \A j \in active : P[j].tier = "CONDITIONAL" => <<j, P[j].cats>> \in C1
  OBVIOUS
<1>8. ASSUME NEW i \in active, NEW j \in DOMAIN P, P[j].tier = "RESERVE", Links(P, i, j)
      PROVE  <<j, P[i].cats>> \in C2
  <2> DEFINE e == <<i, j>>
  <2>1. e \in {p \in active \X (DOMAIN P) : P[p[2]].tier = "RESERVE" /\ Links(P, p[1], p[2])}
    BY <1>8
  <2>2. <<e[2], P[e[1]].cats>> = <<j, P[i].cats>>
    OBVIOUS
  <2> HIDE DEF e
  <2> QED
    BY <2>1, <2>2
<1> HIDE DEF C1, C2
<1>9. Follows(P, C)
  <2> SUFFICES ASSUME NEW i \in DOMAIN P, NEW j \in DOMAIN P, Running(P, C, i), Links(P, i, j)
               PROVE  /\ P[j].tier = "CONDITIONAL" => <<j, P[j].cats>> \in C
                      /\ P[j].tier = "RESERVE" => <<j, P[i].cats>> \in C
    BY DEF Follows
  <2>1. i \in active
    <3>1. CASE P[i].tier = "MANDATORY"
      BY <1>3, <1>4, <3>1 DEF Running
    <3>2. CASE \E a \in A : a[1] = i
      BY <1>3, <1>4, <3>2 DEF Running, Activated
    <3>3. CASE \E a \in C1 : a[1] = i
      BY <1>5, <3>3
    <3>4. CASE \E a \in C2 : a[1] = i
      <4>1. PICK a \in C2 : a[1] = i
        BY <3>4
      <4>2. \E k \in active : Links(P, k, i)
        BY <1>6, <4>1
      <4> QED
        BY <1>4, <4>2
    <3> QED
      BY <1>1, <3>1, <3>2, <3>3, <3>4 DEF Running, Activated
  <2>2. j \in active
    BY <1>4, <2>1
  <2> QED
    BY <1>1, <1>7, <1>8, <2>1, <2>2
<1>10. GlobalsFollow(P, C)
  <2> SUFFICES ASSUME NEW a \in C, P[a[1]].tier = "RESERVE",
                      NEW j \in DOMAIN P, GlobalReserve(P, j)
               PROVE  <<j, a[2]>> \in C
    BY DEF GlobalsFollow
  <2>1. CASE a \in A
    BY <1>1, <2>1 DEF GlobalsFollow
  <2>2. CASE a \in C2
    <3>1. PICK i \in active : Links(P, i, a[1]) /\ a[2] = P[i].cats
      BY <1>6, <2>2
    <3>2. P[i].cats # {} /\ i \in DOMAIN P
      BY <1>4, <3>1 DEF Links
    <3>3. P[j].tier = "RESERVE" /\ P[j].cats = {} /\ P[j].global
      BY DEF GlobalReserve, IsPlan, IsItem
    <3>4. P[j].section \in P[i].context
      <4>1. i # j
        BY <3>2, <3>3
      <4> QED
        BY <3>2, <3>3, <4>1 DEF Governed, IsRouted
    <3>5. Links(P, i, j)
      BY <3>2, <3>3, <3>4 DEF Links
    <3> QED
      BY <1>1, <1>8, <3>1, <3>3, <3>5
  <2> QED
    BY <1>1, <1>5, <2>1, <2>2
<1>11. ASSUME NEW T \in SUBSET DOMAIN P,
              \A i \in DOMAIN P : Running(P, A, i) => i \in T,
              \A i \in T, j \in DOMAIN P : Links(P, i, j) => j \in T,
              NEW c \in C \ A
       PROVE  \/ c[1] \in T /\ P[c[1]].tier = "CONDITIONAL" /\ c = <<c[1], P[c[1]].cats>>
              \/ \E i \in T : /\ c[1] \in DOMAIN P /\ P[c[1]].tier = "RESERVE"
                              /\ Links(P, i, c[1]) /\ c = <<c[1], P[i].cats>>
  <2>1. S \subseteq T
    BY <1>2, <1>3, <1>11
  <2>2. active \subseteq T
    BY <1>4, <1>11, <2>1
  <2>3. CASE c \in C1
    BY <1>5, <2>2, <2>3
  <2>4. CASE c \in C2
    BY <1>6, <2>2, <2>4
  <2> QED
    BY <1>1, <2>3, <2>4
<1> QED
  BY <1>1, <1>9, <1>10, <1>11

LEMMA InitiallySettled ==
  ASSUME NEW P, IsPlan(P), IsRouted(P), Governed(P)
  PROVE  Settled(P, InitialActivations(P))
<1>1. PICK T \in SUBSET {j \in DOMAIN P : P[j].tier = "CONDITIONAL"} :
        InitialActivations(P) = CloseContext(P, {<<i, P[i].cats>> : i \in T})
  BY DEF InitialActivations
<1> DEFINE A == {<<i, P[i].cats>> : i \in T}
<1>2. \A a \in A : IsActivation(P, a) /\ P[a[1]].tier # "RESERVE"
  BY DEF IsActivation, IsPlan, IsItem
<1> HIDE DEF A
<1>3. GlobalsFollow(P, A)
  BY <1>2 DEF GlobalsFollow
<1>4. Follows(P, CloseContext(P, A)) /\ GlobalsFollow(P, CloseContext(P, A))
  BY <1>2, <1>3, ContextSettles
<1> QED
  BY <1>1, <1>4 DEF Settled, A

\* An item none of whose categories has an anchor, for want of one, is
\* activated from the start.
LEMMA UnanchoredStarts ==
  ASSUME NEW P, IsPlan(P), NEW k \in DOMAIN P, P[k].tier = "CONDITIONAL",
         "NO_SUPPORTED_ANCHOR" \in P[k].reasons, \A c \in P[k].cats : Anchors(P, c) = {}
  PROVE  <<k, P[k].cats>> \in InitialActivations(P)
<1> DEFINE anchored == UNION {P[i].cats : i \in {j \in DOMAIN P : P[j].tier = "MANDATORY"}}
           static(i) == {"INCOMPLETE_CONTEXT", "RULE_LIKE_FALLBACK", "ROUTING_UNCERTAIN"}
                        \cup IF P[i].cats \cap anchored = {} THEN {"NO_SUPPORTED_ANCHOR"} ELSE {}
           A == {<<i, P[i].cats>> :
                   i \in {j \in DOMAIN P : P[j].tier = "CONDITIONAL"
                                           /\ P[j].reasons \cap static(j) # {}}}
<1>1. InitialActivations(P) = CloseContext(P, A)
  BY DEF InitialActivations
<1>2. P[k].cats \cap anchored = {}
  BY DEF Anchors
<1> HIDE DEF anchored
<1>3. P[k].reasons \cap static(k) # {}
  BY <1>2
<1> HIDE DEF static
<1>4. <<k, P[k].cats>> \in A
  BY <1>3
<1>5. \A a \in A : IsActivation(P, a)
  BY DEF IsActivation, IsPlan, IsItem
<1> HIDE DEF A
<1> QED
  BY <1>1, <1>4, <1>5, ContextCloses

\* Reconciliation keeps activations settled, and promotes at most global items.
LEMMA RequestSettles ==
  ASSUME NEW P, IsPlan(P), IsRouted(P), Governed(P), NEW L,
         \A a \in L.activations : IsActivation(P, a), Settled(P, L.activations),
         NEW A, A = Activate(P, L.activations, Requested(P, L))
  PROVE  /\ Settled(P, A)
         /\ \A a \in A \ L.activations : P[a[1]].tier = "CONDITIONAL" \/ GlobalReserve(P, a[1])
<1> DEFINE B == L.activations
           K == {k \in DOMAIN P : P[k].tier = "CONDITIONAL"
                   /\ \E r \in Requested(P, L) : r[1] \in P[k].reasons /\ r[2] \in P[k].cats}
           D == B \cup {<<k, P[k].cats>> : k \in K}
           T == {i \in DOMAIN P : Running(P, B, i)} \cup K
<1>1. A = CloseContext(P, D)
  BY DEF Activate
<1>2. \A a \in D : IsActivation(P, a) /\ (a \in B \/ P[a[1]].tier # "RESERVE")
  BY DEF IsActivation, IsPlan, IsItem
<1>3. GlobalsFollow(P, D)
  BY <1>2 DEF GlobalsFollow, Settled
<1>4. /\ D \subseteq A /\ Follows(P, A) /\ GlobalsFollow(P, A)
      /\ \A U \in SUBSET DOMAIN P :
           /\ \A i \in DOMAIN P : Running(P, D, i) => i \in U
           /\ \A i \in U, j \in DOMAIN P : Links(P, i, j) => j \in U
           => \A a \in A \ D :
                \/ a[1] \in U /\ P[a[1]].tier = "CONDITIONAL" /\ a = <<a[1], P[a[1]].cats>>
                \/ \E i \in U : /\ a[1] \in DOMAIN P /\ P[a[1]].tier = "RESERVE"
                                /\ Links(P, i, a[1]) /\ a = <<a[1], P[i].cats>>
  <2> HIDE DEF D
  <2> QED
    BY <1>1, <1>2, <1>3, ContextSettles
<1>5. Settled(P, A)
  BY <1>4 DEF Settled
<1>6. ASSUME NEW k \in K
      PROVE  /\ ~ P[k].ref /\ ~ P[k].global /\ k \in DOMAIN P
             /\ \E c \in P[k].cats : Anchors(P, c) # {}
  <2>1. PICK r \in Requested(P, L) : r[1] \in P[k].reasons /\ r[2] \in P[k].cats
    OBVIOUS
  <2>2. P[k].reasons \subseteq Reasons
    BY DEF IsRouted
  <2>3. r[1] = "NO_SUPPORTED_ANCHOR"
    BY <2>1, <2>2 DEF Requested, Reasons
  <2>4. Anchors(P, r[2]) # {}
    BY <2>3 DEF Requested
  <2> QED
    BY <2>1, <2>3, <2>4 DEF IsRouted
<1>7. ASSUME NEW j \in DOMAIN P, P[j].global, P[j].tier # "MANDATORY",
             NEW c, NEW a \in Anchors(P, c), P[j].cats = {} \/ c \in P[j].cats
      PROVE  Links(P, a, j) /\ Running(P, B, a) /\ a \in DOMAIN P
  <2>1. a \in DOMAIN P /\ P[a].tier = "MANDATORY" /\ c \in P[a].cats
    BY DEF Anchors
  <2>2. P[a].section # P[j].section
    <3>1. CASE P[j].cats = {}
      <4>1. P[j].tier = "RESERVE"
        BY <3>1 DEF IsPlan, IsItem
      <4> QED
        BY <2>1, <4>1 DEF IsRouted
    <3>2. CASE c \in P[j].cats
      BY <1>7, <2>1, <3>2 DEF IsPlan
    <3> QED
      BY <1>7, <3>1, <3>2
  <2>3. P[j].section \in P[a].context
    BY <1>7, <2>1, <2>2 DEF Governed
  <2>4. P[j].cats = {} \/ P[j].cats \cap P[a].cats # {}
    BY <1>7, <2>1
  <2> QED
    BY <1>7, <2>1, <2>3, <2>4 DEF Links, Running
<1> HIDE DEF K
<1>8. ASSUME NEW i \in T, NEW j \in DOMAIN P, Links(P, i, j)
      PROVE  Running(P, B, j)
  <2>1. P[j].tier \in {"CONDITIONAL", "RESERVE"}
    BY <1>8 DEF Links, IsPlan, IsItem, Tiers
  <2>2. CASE Running(P, B, i) /\ i \in DOMAIN P
    <3>1. <<j, P[j].cats>> \in B \/ <<j, P[i].cats>> \in B
      BY <1>8, <2>1, <2>2 DEF Settled, Follows
    <3> QED
      BY <3>1 DEF Running, Activated
  <2>3. CASE i \in K
    <3>1. P[j].global /\ P[j].tier # "MANDATORY"
      BY <1>6, <1>8, <2>3 DEF Links
    <3>2. PICK c \in P[i].cats : Anchors(P, c) # {}
      BY <1>6, <2>3
    <3>3. CASE P[j].tier = "RESERVE"
      <4>1. PICK a \in Anchors(P, c) : TRUE
        BY <3>2
      <4>2. P[j].cats = {}
        BY <3>3 DEF IsPlan, IsItem
      <4>3. Links(P, a, j) /\ Running(P, B, a) /\ a \in DOMAIN P
        BY <1>7, <3>1, <4>2
      <4>4. <<j, P[a].cats>> \in B
        BY <3>3, <4>3 DEF Settled, Follows
      <4> QED
        BY <4>4 DEF Running, Activated
    <3>4. CASE P[j].tier = "CONDITIONAL"
      <4>1. <<j, P[j].cats>> \in B
        <5>1. CASE \A d \in P[j].cats : Anchors(P, d) # {}
          <6>1. PICK d \in P[j].cats : TRUE
            BY <3>4 DEF IsPlan, IsItem
          <6>2. PICK a \in Anchors(P, d) : TRUE
            BY <5>1
          <6>3. Links(P, a, j) /\ Running(P, B, a) /\ a \in DOMAIN P
            BY <1>7, <3>1, <6>1, <6>2
          <6> QED
            BY <3>4, <6>3 DEF Settled, Follows
        <5>2. CASE /\ "NO_SUPPORTED_ANCHOR" \in P[j].reasons
                   /\ \A d \in P[j].cats : Anchors(P, d) = {}
          BY <3>4, <5>2, UnanchoredStarts DEF Settled
        <5> QED
          BY <3>1, <3>4, <5>1, <5>2 DEF IsRouted
      <4> QED
        BY <4>1 DEF Running, Activated
    <3> QED
      BY <2>1, <3>3, <3>4
  <2> QED
    BY <2>2, <2>3
<1>9. T \in SUBSET DOMAIN P
  BY <1>6
<1>10. \A i \in DOMAIN P : Running(P, D, i) => i \in T
  BY DEF Running, Activated
<1>11. ASSUME NEW a \in A \ B
       PROVE  P[a[1]].tier = "CONDITIONAL" \/ GlobalReserve(P, a[1])
  <2>1. CASE a \in D
    <3>1. P[a[1]].tier # "RESERVE" /\ IsActivation(P, a)
      BY <1>2, <1>11, <2>1
    <3> QED
      BY <3>1 DEF IsActivation
  <2>2. CASE a \notin D
    <3>1. \A i \in T, j \in DOMAIN P : Links(P, i, j) => j \in T
      BY <1>8
    <3> HIDE DEF T, D
    <3>2. \/ P[a[1]].tier = "CONDITIONAL"
          \/ \E i \in T : /\ a[1] \in DOMAIN P /\ P[a[1]].tier = "RESERVE"
                          /\ Links(P, i, a[1]) /\ a = <<a[1], P[i].cats>>
      BY <1>4, <1>9, <1>10, <2>2, <3>1
    <3>3. ASSUME NEW i \in T, a[1] \in DOMAIN P, P[a[1]].tier = "RESERVE",
                 Links(P, i, a[1]), a = <<a[1], P[i].cats>>
          PROVE  P[a[1]].global
      <4>1. CASE Running(P, B, i) /\ i \in DOMAIN P
        <5>1. <<a[1], P[i].cats>> \in B
          BY <3>3, <4>1 DEF Settled, Follows
        <5> QED
          BY <1>11, <3>3, <5>1
      <4>2. CASE i \in K
        BY <1>6, <3>3, <4>2 DEF Links
      <4> QED
        BY <4>1, <4>2 DEF T
    <3> QED
      BY <3>2, <3>3 DEF GlobalReserve
  <2> QED
    BY <2>1, <2>2
<1> QED
  BY <1>5, <1>11

-----------------------------------------------------------------------------
(* What governs an item.                                                   *)

\* The sections that govern a section are the least set closed under context.
LEMMA GoverningCloses ==
  ASSUME NEW ix, IsIndex(ix), NEW n \in DOMAIN ix
  PROVE  /\ n \in Governing(ix, n) /\ Governing(ix, n) \subseteq DOMAIN ix
         /\ \A m \in Governing(ix, n) : ix[m].context \subseteq Governing(ix, n)
         /\ \A T \in SUBSET DOMAIN ix :
              n \in T /\ (\A m \in T : ix[m].context \subseteq T) => Governing(ix, n) \subseteq T
<1> DEFINE len == Len(ix)
           dom == DOMAIN ix
           Grow(g) == [k \in 0 .. len |->
                         IF k = 0 THEN {n}
                         ELSE g[k - 1] \cup UNION {ix[m].context : m \in g[k - 1]}]
           grow == CHOOSE g : g = Grow(g)
           next == [T \in SUBSET dom |-> UNION {ix[m].context : m \in T}]
<1>1. len \in Nat /\ IsFiniteSet(dom) /\ Cardinality(dom) <= len
  <2>1. len \in Nat /\ dom = 1 .. len
    BY DEF IsIndex
  <2> QED
    BY <2>1, FS_Interval
<1>2. Governing(ix, n) = grow[len]
  BY DEF Governing
<1>3. \A m \in dom : ix[m].context \in SUBSET dom
  BY DEF IsIndex
<1>4. next \in [SUBSET dom -> SUBSET dom]
  BY <1>3
<1>5. \A T \in SUBSET dom : next[T] = UNION {ix[m].context : m \in T}
  OBVIOUS
<1> HIDE DEF len, next
<1>6. PICK f : Growth(f, len, dom, {n}, next)
  BY <1>1, <1>4, GrowthExists
<1>7. \A k \in 0 .. len : k # 0 => k \in 1 .. len /\ k - 1 \in 0 .. len
  BY <1>1
<1>8. f = Grow(f)
  <2>1. \A k \in 1 .. len : f[k] = f[k - 1] \cup UNION {ix[m].context : m \in f[k - 1]}
    BY <1>5, <1>6, <1>7 DEF Growth
  <2> QED
    BY <1>6, <1>7, <2>1 DEF Growth
<1>9. grow = Grow(grow)
  <2> HIDE DEF Grow
  <2> QED
    BY <1>8
<1> HIDE DEF grow
<1>10. /\ DOMAIN grow = 0 .. len /\ grow = [k \in 0 .. len |-> grow[k]] /\ grow[0] = {n}
       /\ \A k \in 1 .. len :
            grow[k] = grow[k - 1] \cup UNION {ix[m].context : m \in grow[k - 1]}
  <2>1. 0 \in 0 .. len /\ \A k \in 1 .. len : k \in 0 .. len /\ k # 0
    BY <1>1
  <2>2. /\ DOMAIN Grow(grow) = 0 .. len /\ Grow(grow) = [k \in 0 .. len |-> Grow(grow)[k]]
        /\ Grow(grow)[0] = {n}
    BY <2>1
  <2>3. \A k \in 1 .. len :
          Grow(grow)[k] = grow[k - 1] \cup UNION {ix[m].context : m \in grow[k - 1]}
    BY <2>1
  <2> HIDE DEF Grow
  <2> QED
    BY <1>9, <2>2, <2>3
<1>11. \A k \in 0 .. len : grow[k] \in SUBSET dom
  <2> DEFINE G == {k \in 0 .. len : grow[k] \in SUBSET dom}
  <2>1. 0 \in G
    BY <1>1, <1>10
  <2>2. ASSUME NEW k \in 1 .. len, k - 1 \in G PROVE k \in G
    BY <1>3, <1>7, <1>10, <2>2
  <2> HIDE DEF G
  <2>3. 0 .. len \subseteq G
    BY <1>1, <2>1, <2>2, UpTo
  <2> QED
    BY <2>3 DEF G
<1>12. Growth(grow, len, dom, {n}, next)
  <2>1. grow \in [0 .. len -> SUBSET dom]
    BY <1>10, <1>11
  <2>2. \A k \in 1 .. len : grow[k] = grow[k - 1] \cup next[grow[k - 1]]
    BY <1>5, <1>7, <1>10, <1>11
  <2> QED
    BY <1>10, <2>1, <2>2 DEF Growth
<1>13. {n} \subseteq grow[len] /\ grow[len] \subseteq dom /\ next[grow[len]] \subseteq grow[len]
  <2> DEFINE S == {n}
  <2>1. S \in SUBSET dom /\ Growth(grow, len, dom, S, next)
    BY <1>12
  <2> HIDE DEF dom, S
  <2>2. S \subseteq grow[len] /\ grow[len] \subseteq dom /\ next[grow[len]] \subseteq grow[len]
    BY <1>1, <1>4, <2>1, GrowthCloses
  <2> QED
    BY <2>2 DEF S
<1>14. ASSUME NEW T \in SUBSET dom, n \in T, \A m \in T : ix[m].context \subseteq T
       PROVE  grow[len] \subseteq T
  <2> DEFINE G == {k \in 0 .. len : grow[k] \subseteq T}
  <2>1. 0 \in G
    BY <1>1, <1>10, <1>14
  <2>2. ASSUME NEW k \in 1 .. len, k - 1 \in G PROVE k \in G
    BY <1>7, <1>10, <1>14, <2>2
  <2> HIDE DEF G
  <2>3. 0 .. len \subseteq G
    BY <1>1, <2>1, <2>2, UpTo
  <2> QED
    BY <1>1, <2>3 DEF G
<1>15. next[grow[len]] = UNION {ix[m].context : m \in grow[len]}
  BY <1>5, <1>13
<1> QED
  BY <1>2, <1>13, <1>14, <1>15

\* A context that fits one job holds the context of each of its sections, which
\* fits as well.
LEMMA ContextFitsOn ==
  ASSUME NEW ix, IsIndex(ix), NEW n \in DOMAIN ix, ContextFits(ix, n), NEW m \in ix[n].context
  PROVE  ContextFits(ix, m)
<1> DEFINE N == Governing(ix, n)
           M == Governing(ix, m)
<1>1. m \in DOMAIN ix
  BY DEF IsIndex
<1>2. /\ n \in N /\ N \subseteq DOMAIN ix /\ \A k \in N : ix[k].context \subseteq N
      /\ M \subseteq DOMAIN ix
      /\ \A T \in SUBSET DOMAIN ix :
           m \in T /\ (\A k \in T : ix[k].context \subseteq T) => M \subseteq T
  BY <1>1, GoverningCloses
<1> HIDE DEF N, M
<1>3. M \subseteq N
  BY <1>2
<1> DEFINE f == [k \in N |-> ix[k].spans]
           g == [k \in M |-> ix[k].spans]
<1>4. IsFiniteSet(N) /\ IsFiniteSet(M) /\ f \in [N -> Nat] /\ g \in [M -> Nat]
  <2>1. \A k \in DOMAIN ix : ix[k].spans \in Nat
    BY IndexFacts DEF Section
  <2>2. IsFiniteSet(DOMAIN ix)
    BY IndexFacts
  <2> QED
    BY <1>2, <2>1, <2>2, FS_Subset
<1>5. UnitsOn(g, M) \in SUBSET UnitsOn(f, N)
  BY <1>3 DEF UnitsOn
<1> HIDE DEF f, g
<1>6. /\ SumFunction(f) = Cardinality(UnitsOn(f, N)) /\ SumFunction(g) = Cardinality(UnitsOn(g, M))
      /\ IsFiniteSet(UnitsOn(f, N))
  BY <1>4, SumCounts, UnitsFinite
<1>7. /\ SumFunction(g) <= SumFunction(f) /\ SumFunction(g) \in Nat /\ SumFunction(f) \in Nat
  BY <1>5, <1>6, FS_Subset, FS_CardinalityType
<1>8. SpanTotal(ix, N) = SumFunction(f) /\ SpanTotal(ix, M) = SumFunction(g)
  BY DEF SpanTotal, f, g
<1>9. SpanTotal(ix, N) <= MaxSpans /\ \A k \in N : ix[k].complete /\ ix[k].spans > 0
  BY DEF ContextFits, N
<1>10. SpanTotal(ix, M) <= MaxSpans
  BY <1>7, <1>8, <1>9, PlanConstants
<1> QED
  BY <1>3, <1>9, <1>10 DEF ContextFits, M

\* Where what is global governs every other item, one that can be asked leaves no
\* global item without its context.
LEMMA GlobalsAreSafe ==
  ASSUME IsIndex(index), plan = BuildPlan(index), Governed(plan),
         NEW i \in DOMAIN plan, Safe(i), NEW j \in DOMAIN plan, j # i, GlobalReserve(plan, j)
  PROVE  Safe(j)
<1>1. IsRouted(plan) /\ OfSection(index, plan[i])
  BY PlanIsRouted, PlanOfItems, ItemsAreOfSections
<1>2. plan[j].section \in index[plan[i].section].context /\ plan[i].section \in DOMAIN index
  BY <1>1 DEF GlobalReserve, IsRouted, Governed, OfSection
<1> QED
  BY <1>2, ContextFitsOn DEF Safe

-----------------------------------------------------------------------------
(* Ends stand.                                                             *)

\* From L to M what has its end keeps it, with the outcome retained for it.
Stands(L, M) ==
  \A o \in DOMAIN L.state :
    /\ L.state[o] \in Terminal => M.state[o] = L.state[o]
    /\ HasOutcome(L, o) => HasOutcome(M, o) /\ M.outcomes[o] = L.outcomes[o]

\* Nothing of a global reserve item that governs was attempted or has its end.
Undone(P, L) == Governed(P) =>
  \A o \in DOMAIN L.state : GlobalReserve(P, o[1]) => L.state[o] \in {"INACTIVE", "ACTIVE"}

\* What is started of a reserve item was activated by name.
Promotions(P, L) ==
  \A o \in StartedOf(L) : P[o[1]].tier = "RESERVE" =>
    \E a \in L.activations : o \in Obligations(a[1], a[2])

Retained(L) == \A o \in DOMAIN L.outcomes : Holds(L, o, {"ACCOUNTED"})

EndsOK(P, L) ==
  Retained(L) /\ (Governed(P) => Settled(P, L.activations) /\ Promotions(P, L))

\* Either what is global governs the plan, or nothing was promoted yet.
Apart(P, L) == Governed(P) \/ Unpromoted(P, L)

\* A change of what has no end, to the end of a job or to none, lets ends stand.
LEMMA ChangesStand ==
  ASSUME NEW P, NEW L, EndsOK(P, L), NEW X, NEW s \in States \ {"INACTIVE"}, NEW M,
         Changed(L, M, X, s), X \subseteq StartedOf(L),
         \A o \in X : L.state[o] \notin Terminal
  PROVE  EndsOK(P, M) /\ Stands(L, M)
<1>1. Retained(M)
  BY DEF EndsOK, Retained, Holds, Changed, Terminal
<1>2. StartedOf(M) = StartedOf(L)
  BY DEF StartedOf, Changed
<1>3. Governed(P) => Promotions(P, M)
  BY <1>2 DEF EndsOK, Promotions, Changed
<1>4. Stands(L, M)
  BY DEF Stands, Changed, HasOutcome
<1> QED
  BY <1>1, <1>3, <1>4 DEF EndsOK, Changed

\* A reconciliation starts nothing that has its end.
LEMMA ReconcileStands ==
  ASSUME NEW P, IsPlan(P), IsRouted(P), NEW L, IsCoverage(P, L), EndsOK(P, L), Undone(P, L),
         Apart(P, L), NEW M, M = Reconcile(P, L)
  PROVE  EndsOK(P, M) /\ Undone(P, M) /\ Stands(L, M)
<1> DEFINE A == Activate(P, L.activations, Requested(P, L))
           X == FreshOf(L, A)
<1>1. \A a \in L.activations : IsActivation(P, a)
  BY DEF IsCoverage
<1>2. /\ L.activations \subseteq A /\ \A a \in A : IsActivation(P, a)
      /\ Governed(P) =>
           /\ Settled(P, A)
           /\ \A a \in A \ L.activations : P[a[1]].tier = "CONDITIONAL" \/ GlobalReserve(P, a[1])
  BY <1>1, RequestCloses, RequestSettles DEF EndsOK
<1>3. M = Apply(L, A)
  BY DEF Reconcile
<1> HIDE DEF A
<1>4. /\ M.activations = A /\ M.outcomes = L.outcomes
      /\ DOMAIN M.state = DOMAIN L.state \cup X
      /\ \A o \in DOMAIN M.state : M.state[o] = IF o \in X THEN "ACTIVE" ELSE L.state[o]
  BY <1>2, <1>3, ApplyStarts
<1>5. ASSUME NEW o \in X
      PROVE  \E a \in A \ L.activations : o \in Obligations(a[1], a[2]) /\ o[1] = a[1]
  <2>1. PICK a \in A \ L.activations : o \in Obligations(a[1], a[2])
    BY DEF FreshOf
  <2> QED
    BY <2>1 DEF Obligations
<1> HIDE DEF X
<1>6. ASSUME NEW o \in X, o \in DOMAIN L.state
      PROVE  L.state[o] \in {"INACTIVE", "ACTIVE"}
  <2>1. PICK a \in A \ L.activations : o \in Obligations(a[1], a[2]) /\ o[1] = a[1]
    BY <1>5
  <2>2. CASE Governed(P) /\ GlobalReserve(P, a[1])
    BY <1>6, <2>1, <2>2 DEF Undone
  <2>3. CASE P[a[1]].tier = "CONDITIONAL"
    <3>1. ASSUME NEW b \in L.activations, b[1] = o[1] PROVE FALSE
      <4>1. IsActivation(P, a) /\ IsActivation(P, b)
        BY <1>1, <1>2
      <4>2. a = b
        BY <2>1, <2>3, <3>1, <4>1 DEF IsActivation
      <4> QED
        BY <2>1, <4>2
    <3>2. o \notin StartedOf(L)
      BY <2>1, <2>3, <3>1 DEF IsCoverage, Activated
    <3> QED
      BY <1>6, <3>2 DEF StartedOf
  <2>4. CASE P[a[1]].tier = "RESERVE" /\ Unpromoted(P, L)
    <3>1. o \notin Addressed(P)
      BY <2>1, <2>4 DEF Addressed, IsPlan, IsItem
    <3>2. \A b \in L.activations : b[1] # o[1]
      BY <2>1, <2>4 DEF Unpromoted
    <3> QED
      BY <1>6, <2>1, <2>4, <3>1, <3>2 DEF IsCoverage, Activated, StartedOf
  <2>5. P[a[1]].tier \in {"CONDITIONAL", "RESERVE"}
    BY <1>2, <2>1 DEF IsActivation
  <2> QED
    BY <1>2, <2>1, <2>2, <2>3, <2>4, <2>5 DEF Apart
<1>7. Stands(L, M)
  BY <1>4, <1>6 DEF Stands, HasOutcome, Terminal
<1>8. Undone(P, M)
  BY <1>4 DEF Undone
<1>9. Retained(M)
  BY <1>4, <1>6 DEF EndsOK, Retained, Holds
<1>10. Governed(P) => Promotions(P, M)
  <2> SUFFICES ASSUME Governed(P), NEW o \in StartedOf(M), P[o[1]].tier = "RESERVE"
               PROVE  \E a \in M.activations : o \in Obligations(a[1], a[2])
    BY DEF Promotions
  <2>1. CASE o \in X
    BY <1>4, <1>5, <2>1
  <2>2. CASE o \notin X
    <3>1. o \in StartedOf(L)
      BY <1>4, <2>2 DEF StartedOf
    <3> QED
      BY <1>2, <1>4, <3>1 DEF EndsOK, Promotions
  <2> QED
    BY <2>1, <2>2
<1> QED
  BY <1>2, <1>4, <1>7, <1>8, <1>9, <1>10 DEF EndsOK

LEMMA StandsTwice ==
  ASSUME NEW L, NEW M, NEW N, DOMAIN L.state \subseteq DOMAIN M.state, Stands(L, M), Stands(M, N)
  PROVE  Stands(L, N)
BY DEF Stands

LEMMA StandsStill ==
  ASSUME NEW L
  PROVE  Stands(L, L)
BY DEF Stands

\* The scheduler, or the job in hand, may still reconcile the ledger.
Open ==
  \/ pc \in {"drain", "selected", "dispatched"}
  \/ pc = "planner" /\ term = "NONE" /\ calls < MaxCalls

EndsInv ==
  /\ IsIndex(index) /\ plan = BuildPlan(index)
  /\ EndsOK(plan, ledger)
  /\ Open => Undone(plan, ledger)
  /\ pc = "dispatched" =>
       /\ job.cats = plan[job.item].cats
       /\ \A o \in Obligations(job.item, job.cats) : Holds(ledger, o, {"EXTRACTION_ATTEMPTED"})

\* While the ledger stays as it is, a run that may reconcile it could before.
LEMMA EndsStay ==
  ASSUME EndsInv, UNCHANGED <<index, plan, ledger>>, Open' => Open, pc' # "dispatched"
  PROVE  EndsInv' /\ Stands(ledger, ledger')
BY StandsStill DEF EndsInv

LEMMA EndsInit == Init => EndsInv
<1> SUFFICES ASSUME Init PROVE EndsInv
  OBVIOUS
<1>1. IsIndex(index) /\ plan = BuildPlan(index) /\ ledger = NewLedger(plan) /\ pc = "drain"
  BY Bounds DEF Init
<1>2. IsPlan(plan) /\ IsRouted(plan)
  BY <1>1, BuildsPlan, PlanIsRouted
<1> DEFINE K == Addressed(plan)
           f == [o \in K |-> IF plan[o[1]].tier = "MANDATORY" THEN "ACTIVE" ELSE "INACTIVE"]
           E == [state |-> f, activations |-> {}, attempts |-> {}, outcomes |-> <<>>]
           A == InitialActivations(plan)
<1>3. ledger = Apply(E, A)
  BY <1>1 DEF NewLedger, Addressed
<1>4. DOMAIN f = K /\ \A o \in K : f[o] = IF plan[o[1]].tier = "MANDATORY" THEN "ACTIVE" ELSE "INACTIVE"
  OBVIOUS
<1> HIDE DEF f
<1>5. E.state = f /\ E.activations = {} /\ E.outcomes = <<>> /\ IsLedger(E)
  BY DEF IsLedger
<1> HIDE DEF E
<1>6. IsCoverage(plan, E)
  BY <1>2, <1>4, <1>5 DEF IsCoverage, StartedOf, States, Addressed
<1>7. \A a \in A : IsActivation(plan, a)
  BY <1>2, InitiallyClosed
<1>8. Governed(plan) => Settled(plan, A)
  BY <1>2, InitiallySettled
<1> HIDE DEF A
<1>9. /\ ledger.activations = A /\ ledger.outcomes = <<>>
      /\ DOMAIN ledger.state = DOMAIN E.state \cup FreshOf(E, A)
      /\ \A o \in DOMAIN ledger.state :
           ledger.state[o] = IF o \in FreshOf(E, A) THEN "ACTIVE" ELSE E.state[o]
  BY <1>3, <1>5, <1>6, <1>7, ApplyStarts
<1> HIDE DEF K
<1>10. \A o \in DOMAIN ledger.state : ledger.state[o] \in {"INACTIVE", "ACTIVE"}
  BY <1>4, <1>5, <1>9
<1>11. Promotions(plan, ledger)
  <2> SUFFICES ASSUME NEW o \in StartedOf(ledger), plan[o[1]].tier = "RESERVE"
               PROVE  \E a \in A : o \in Obligations(a[1], a[2])
    BY <1>9 DEF Promotions
  <2>1. o \in FreshOf(E, A)
    BY <1>4, <1>5, <1>9 DEF StartedOf
  <2> QED
    BY <1>5, <2>1 DEF FreshOf
<1>12. Retained(ledger)
  BY <1>9 DEF Retained
<1> QED
  BY <1>1, <1>8, <1>9, <1>10, <1>11, <1>12 DEF EndsInv, EndsOK, Undone

\* What the job in hand addresses has no end.
LEMMA JobHasNoEnd ==
  ASSUME CoverageInv, EndsInv, Apart(plan, ledger), pc = "dispatched"
  PROVE  /\ IsPlan(plan) /\ IsRouted(plan) /\ IsCoverage(plan, ledger) /\ Undone(plan, ledger)
         /\ EndsOK(plan, ledger)
         /\ \A o \in Obligations(job.item, job.cats) :
              /\ o \in StartedOf(ledger) /\ ledger.state[o] \notin Terminal
              /\ Governed(plan) => ~ GlobalReserve(plan, o[1])
              /\ ~ HasOutcome(ledger, o)
<1>1. IsPlan(plan) /\ IsRouted(plan) /\ IsCoverage(plan, ledger) /\ Undone(plan, ledger)
      /\ EndsOK(plan, ledger)
  BY PlanIsRouted DEF CoverageInv, CoverageOK, EndsInv, Open
<1>2. ASSUME NEW o \in Obligations(job.item, job.cats)
      PROVE  /\ o \in StartedOf(ledger) /\ ledger.state[o] \notin Terminal
             /\ Governed(plan) => ~ GlobalReserve(plan, o[1])
             /\ ~ HasOutcome(ledger, o)
  <2>1. o \in DOMAIN ledger.state /\ ledger.state[o] = "EXTRACTION_ATTEMPTED"
    BY DEF EndsInv, Holds
  <2>2. Governed(plan) => ~ GlobalReserve(plan, o[1])
    BY <1>1, <2>1 DEF Undone
  <2>3. ~ HasOutcome(ledger, o)
    BY <1>1, <2>1 DEF EndsOK, Retained, Holds, HasOutcome
  <2> QED
    BY <2>1, <2>2, <2>3 DEF StartedOf, Terminal
<1> QED
  BY <1>1, <1>2

\* A scan marks what is active, and reconciles first.
LEMMA ScanStands ==
  ASSUME CoverageInv, EndsInv, Apart(plan, ledger), pc = "drain", UNCHANGED <<plan, entered>>,
         NEW items, ledger' = MarkContext(Reconcile(plan, ledger), items)
  PROVE  /\ Stands(ledger, ledger') /\ EndsOK(plan, ledger')
         /\ IsCoverage(plan, Reconcile(plan, ledger)) /\ EndsOK(plan, Reconcile(plan, ledger))
         /\ Undone(plan, Reconcile(plan, ledger))
         /\ (Governed(plan) => \A j \in items : ~ GlobalReserve(plan, j)) => Undone(plan, ledger')
<1> DEFINE L == Reconcile(plan, ledger)
           X == ActiveOf(L, items)
<1>1. /\ IsPlan(plan) /\ IsRouted(plan) /\ IsCoverage(plan, ledger)
      /\ EndsOK(plan, ledger) /\ Undone(plan, ledger)
  BY PlanIsRouted DEF CoverageInv, CoverageOK, EndsInv, Open
<1>2. EndsOK(plan, L) /\ Undone(plan, L) /\ Stands(ledger, L)
  BY <1>1, ReconcileStands
<1>3. IsCoverage(plan, L) /\ Changed(L, ledger', X, "CONTEXT_UNRESOLVED")
  BY Scan
<1>4. DOMAIN ledger.state \subseteq DOMAIN L.state
  BY <1>1, ReconcileCloses
<1> HIDE DEF L
<1>5. X \subseteq StartedOf(L) /\ \A o \in X : L.state[o] \notin Terminal /\ o[1] \in items
  BY DEF ActiveOf, StartedOf, Terminal
<1> HIDE DEF X
<1>6. EndsOK(plan, ledger') /\ Stands(L, ledger')
  BY <1>2, <1>3, <1>5, ChangesStand DEF States, Terminal
<1>7. Stands(ledger, ledger')
  BY <1>2, <1>4, <1>6, StandsTwice
<1>8. (Governed(plan) => \A j \in items : ~ GlobalReserve(plan, j)) => Undone(plan, ledger')
  BY <1>2, <1>3, <1>5 DEF Undone, Changed
<1> QED
  BY <1>2, <1>3, <1>6, <1>7, <1>8 DEF L

\* Where one item is too wide for a job every global reserve item is.
LEMMA WideTogether ==
  ASSUME NEW P, IsPlan(P), Governed(P), NEW L, IsCoverage(P, L), EndsOK(P, L), Undone(P, L),
         NEW i, Wide(L, i), NEW j \in DOMAIN P, GlobalReserve(P, j)
  PROVE  Wide(L, j)
<1>1. ASSUME NEW c \in ActiveCats(L, i)
      PROVE  /\ <<i, c>> \in DOMAIN L.state /\ L.state[<<i, c>>] = "ACTIVE"
             /\ c \in Categories /\ i \in DOMAIN P
             /\ c \in P[i].cats \/ P[i].tier = "RESERVE"
  <2>1. <<i, c>> \in DOMAIN L.state /\ L.state[<<i, c>>] = "ACTIVE" /\ c \in Categories
    BY DEF ActiveCats, Holds
  <2> QED
    BY <2>1 DEF IsCoverage, Addressed
<1>2. ActiveCats(L, i) \in SUBSET Categories /\ ActiveCats(L, j) \in SUBSET Categories
  BY DEF ActiveCats
<1>3. /\ IsFiniteSet(ActiveCats(L, i)) /\ Cardinality(ActiveCats(L, i)) \in Nat
      /\ IsFiniteSet(ActiveCats(L, j)) /\ Cardinality(ActiveCats(L, j)) \in Nat
      /\ Cardinality(ActiveCats(L, i)) > 2
  BY <1>2, CategoriesFinite DEF Wide
<1>4. P[i].tier = "RESERVE"
  <2> SUFFICES ASSUME P[i].tier # "RESERVE" PROVE FALSE
    OBVIOUS
  <2>1. ActiveCats(L, i) # {}
    BY <1>3, FS_EmptySet
  <2>2. i \in DOMAIN P /\ ActiveCats(L, i) \in SUBSET P[i].cats
    BY <1>1, <2>1
  <2>3. P[i].cats \in SUBSET Categories /\ Cardinality(P[i].cats) <= 2
    BY <2>2 DEF IsPlan, IsItem
  <2>4. IsFiniteSet(P[i].cats) /\ Cardinality(P[i].cats) \in Nat
    BY <2>3, CategoriesFinite
  <2>5. Cardinality(ActiveCats(L, i)) <= Cardinality(P[i].cats)
    BY <2>2, <2>4, FS_Subset
  <2> QED
    BY <1>3, <2>3, <2>4, <2>5
<1>5. ASSUME NEW c \in ActiveCats(L, i)
      PROVE  c \in ActiveCats(L, j)
  <2>1. <<i, c>> \in StartedOf(L)
    BY <1>1 DEF StartedOf
  <2>2. PICK a \in L.activations : <<i, c>> \in Obligations(a[1], a[2])
    BY <1>4, <2>1 DEF EndsOK, Promotions
  <2>3. a[1] = i /\ c \in a[2]
    BY <2>2 DEF Obligations
  <2>4. <<j, a[2]>> \in L.activations
    BY <1>4, <2>3 DEF EndsOK, Settled, GlobalsFollow
  <2>5. Obligations(j, a[2]) \subseteq StartedOf(L)
    BY <2>4 DEF IsCoverage
  <2>6. <<j, c>> \in StartedOf(L)
    BY <2>3, <2>5 DEF Obligations
  <2>7. <<j, c>> \in DOMAIN L.state /\ L.state[<<j, c>>] = "ACTIVE"
    BY <2>6 DEF StartedOf, Undone
  <2> QED
    BY <1>1, <2>7 DEF ActiveCats, Holds
<1>6. Cardinality(ActiveCats(L, i)) <= Cardinality(ActiveCats(L, j))
  BY <1>3, <1>5, FS_Subset
<1> QED
  BY <1>3, <1>6 DEF Wide

\* A selected job that can be asked leaves no global item behind.
LEMMA SelectJobStands ==
  ASSUME CoverageInv, EndsInv, Apart(plan, ledger), SelectJob
  PROVE  EndsInv' /\ Stands(ledger, ledger')
<1> DEFINE L == Reconcile(plan, ledger)
           active == ActiveItems(plan, L)
           found == Firsts(L, active)
           items == PassedBefore(active, found)
<1>1. /\ UNCHANGED <<index, plan, entered>> /\ pc' = "selected" /\ pc = "drain"
      /\ ledger' = MarkContext(L, items)
  BY DEF SelectJob, MayDraw, run
<1>2. PICK i \in found : (\A j \in found : i <= j) /\ ~ Wide(L, i)
  BY DEF SelectJob
<1>3. i \in DOMAIN plan /\ Safe(i)
  BY <1>2 DEF Firsts, ActiveItems
<1>4. ASSUME Governed(plan), NEW j \in items, GlobalReserve(plan, j) PROVE FALSE
  <2>1. j \in active /\ j < i
    BY <1>2 DEF PassedBefore
  <2>2. j \in DOMAIN plan /\ i \in Int
    BY <1>3, <2>1 DEF ActiveItems, CoverageInv, CoverageOK, IsPlan
  <2>3. j # i
    BY <2>1, <2>2
  <2>4. Safe(j)
    BY <1>3, <1>4, <2>2, <2>3, GlobalsAreSafe DEF EndsInv
  <2>5. j \in found
    BY <2>1, <2>4 DEF Firsts
  <2>6. j < j /\ j \in Int
    BY <2>2, <2>5 DEF PassedBefore, CoverageInv, CoverageOK, IsPlan
  <2> QED
    BY <2>6
<1> HIDE DEF items
<1>5. Stands(ledger, ledger') /\ EndsOK(plan, ledger') /\ Undone(plan, ledger')
  BY <1>1, <1>4, ScanStands
<1> QED
  BY <1>1, <1>5 DEF EndsInv

\* Nor does a scan that stops at an item too wide.
LEMMA SelectRaisesStands ==
  ASSUME CoverageInv, EndsInv, Apart(plan, ledger), SelectRaises
  PROVE  EndsInv' /\ Stands(ledger, ledger')
<1> DEFINE L == Reconcile(plan, ledger)
           active == ActiveItems(plan, L)
           found == Firsts(L, active)
           items == PassedBefore(active, found)
<1>1. /\ UNCHANGED <<index, plan, entered>> /\ pc' = "planner" /\ pc = "drain"
      /\ ledger' = MarkContext(L, items)
  BY DEF SelectRaises, MayDraw, Raised
<1>2. PICK i \in found : Wide(L, i)
  BY DEF SelectRaises
<1>3. IsPlan(plan)
  BY DEF CoverageInv, CoverageOK
<1>4. /\ Stands(ledger, ledger') /\ EndsOK(plan, ledger')
      /\ IsCoverage(plan, L) /\ EndsOK(plan, L) /\ Undone(plan, L)
      /\ (Governed(plan) => \A j \in items : ~ GlobalReserve(plan, j)) => Undone(plan, ledger')
  <2> HIDE DEF items
  <2> QED
    BY <1>1, ScanStands
<1>5. ASSUME Governed(plan), NEW j \in items, GlobalReserve(plan, j) PROVE FALSE
  <2>1. j \in active
    BY DEF PassedBefore
  <2>2. j \in DOMAIN plan
    BY <2>1 DEF ActiveItems
  <2> HIDE DEF L
  <2>3. Wide(L, j)
    BY <1>2, <1>3, <1>4, <1>5, <2>2, WideTogether
  <2>4. j \in found
    BY <2>1, <2>3 DEF Firsts
  <2>5. j < j /\ j \in Int
    BY <1>3, <2>2, <2>4 DEF PassedBefore, IsPlan
  <2> QED
    BY <2>5
<1> HIDE DEF items
<1>6. Undone(plan, ledger')
  BY <1>4, <1>5
<1> QED
  BY <1>1, <1>4, <1>6 DEF EndsInv

LEMMA NothingToSelectStands ==
  ASSUME CoverageInv, EndsInv, Apart(plan, ledger), NothingToSelect
  PROVE  EndsInv' /\ Stands(ledger, ledger')
<1>1. /\ UNCHANGED <<index, plan, entered>> /\ pc' = "planner" /\ pc = "drain" /\ term' # "NONE"
      /\ \E items : ledger' = MarkContext(Reconcile(plan, ledger), items)
  BY StopStops DEF NothingToSelect, Drained, MayDraw, run
<1>2. Stands(ledger, ledger') /\ EndsOK(plan, ledger')
  BY <1>1, ScanStands
<1> QED
  BY <1>1, <1>2 DEF EndsInv, Open

\* What is left at capacity was active, and no call is left to return to it.
LEMMA OverflowStands ==
  ASSUME CoverageInv, EndsInv, Apart(plan, ledger), PlanFull \/ PlanFullRaises
  PROVE  EndsInv' /\ Stands(ledger, ledger')
<1>1. /\ UNCHANGED <<index, plan, calls, base>> /\ pc' = "planner" /\ pc = "drain"
      /\ calls - base = PlanCap
      /\ \E items : ledger' = MarkOverflow(plan, ledger, items)
  BY DEF PlanFull, PlanFullRaises, Drained, Raised, CapReached, budget
<1>2. PICK items : ledger' = MarkOverflow(plan, ledger, items)
  BY <1>1
<1>3. IsPlan(plan) /\ IsCoverage(plan, ledger) /\ EndsOK(plan, ledger)
  BY DEF CoverageInv, CoverageOK, EndsInv
<1> DEFINE X == ActiveOf(ledger, items)
<1>4. Changed(ledger, ledger', X, "OVERFLOW_UNDISPATCHED")
  BY <1>2, <1>3, MarksActive DEF MarkOverflow, States, Terminal
<1>5. X \subseteq StartedOf(ledger) /\ \A o \in X : ledger.state[o] \notin Terminal
  BY DEF ActiveOf, StartedOf, Terminal
<1> HIDE DEF X
<1>6. EndsOK(plan, ledger') /\ Stands(ledger, ledger')
  BY <1>3, <1>4, <1>5, ChangesStand DEF States, Terminal
<1>7. ~ (calls' < MaxCalls)
  BY <1>1, Bounds DEF CoverageInv, Counted
<1> QED
  BY <1>1, <1>6, <1>7 DEF EndsInv, Open

LEMMA BeginJobStands ==
  ASSUME CoverageInv, EndsInv, Apart(plan, ledger), BeginJob
  PROVE  EndsInv' /\ Stands(ledger, ledger')
<1> DEFINE X == Obligations(job.item, job.cats)
           M == SetStates(ledger, X, "EXTRACTION_ATTEMPTED")
<1>1. /\ UNCHANGED <<index, plan, job>> /\ pc = "selected" /\ pc' = "dispatched"
      /\ ledger' = [M EXCEPT !.attempts = M.attempts \cup X]
      /\ job.cats = plan[job.item].cats
  BY DEF BeginJob, BeginItem, CanBegin
<1>2. IsPlan(plan) /\ IsCoverage(plan, ledger) /\ EndsOK(plan, ledger) /\ Undone(plan, ledger)
  BY <1>1 DEF CoverageInv, CoverageOK, EndsInv, Open
<1>3. \A o \in X : o \in DOMAIN ledger.state /\ ledger.state[o] = "ACTIVE"
  BY DEF BeginJob, CanBegin, Holds
<1>4. X \subseteq StartedOf(ledger) /\ \A o \in X : ledger.state[o] \notin Terminal
  BY <1>3 DEF StartedOf, Terminal
<1>5. IsCoverage(plan, M) /\ Changed(ledger, M, X, "EXTRACTION_ATTEMPTED")
  BY <1>2, <1>4, StatesMove DEF States
<1> HIDE DEF M
<1>6. /\ ledger'.state = M.state /\ ledger'.activations = M.activations
      /\ ledger'.outcomes = M.outcomes
  BY <1>1, <1>5 DEF IsCoverage, IsLedger
<1>7. \A o \in X : ~ GlobalReserve(plan, o[1])
  <2> SUFFICES ASSUME NEW o \in X PROVE ~ GlobalReserve(plan, o[1])
    OBVIOUS
  <2>1. o[1] = job.item /\ o[2] \in plan[job.item].cats
    BY <1>1 DEF Obligations
  <2>2. o[1] \in DOMAIN plan
    BY <1>2, <1>3 DEF IsCoverage
  <2> QED
    BY <1>2, <2>1, <2>2 DEF GlobalReserve, IsPlan, IsItem
<1> HIDE DEF X
<1>8. EndsOK(plan, M) /\ Stands(ledger, M)
  BY <1>2, <1>4, <1>5, ChangesStand DEF States
<1>9. EndsOK(plan, ledger') /\ Stands(ledger, ledger')
  BY <1>6, <1>8
     DEF EndsOK, Promotions, Retained, StartedOf, Holds, Stands, HasOutcome
<1>10. Undone(plan, ledger')
  BY <1>2, <1>5, <1>6, <1>7 DEF Undone, Changed
<1>11. \A o \in X : Holds(ledger', o, {"EXTRACTION_ATTEMPTED"})
  BY <1>3, <1>5, <1>6 DEF Holds, Changed
<1> QED
  BY <1>1, <1>9, <1>10, <1>11 DEF EndsInv, X

LEMMA DispatchDeniedStands ==
  ASSUME CoverageInv, EndsInv, Apart(plan, ledger), DispatchDenied
  PROVE  EndsInv' /\ Stands(ledger, ledger')
<1> DEFINE X == Obligations(job.item, job.cats)
           M == SetStates(ledger, X, "ACTIVE")
<1>1. /\ UNCHANGED <<index, plan>> /\ pc = "dispatched" /\ pc' = "planner" /\ term' # "NONE"
      /\ ledger' = [M EXCEPT !.attempts = M.attempts \ X]
  BY StopStops DEF DispatchDenied, BudgetBlocked, Continue
<1>2. /\ IsPlan(plan) /\ IsCoverage(plan, ledger) /\ EndsOK(plan, ledger)
      /\ \A o \in X : o \in StartedOf(ledger) /\ ledger.state[o] \notin Terminal
  BY <1>1, JobHasNoEnd
<1>3. IsCoverage(plan, M) /\ Changed(ledger, M, X, "ACTIVE")
  BY <1>2, StatesMove DEF States
<1> HIDE DEF M, X
<1>4. /\ ledger'.state = M.state /\ ledger'.activations = M.activations
      /\ ledger'.outcomes = M.outcomes
  BY <1>1, <1>3 DEF IsCoverage, IsLedger
<1>5. EndsOK(plan, M) /\ Stands(ledger, M)
  BY <1>2, <1>3, ChangesStand DEF States
<1>6. EndsOK(plan, ledger') /\ Stands(ledger, ledger')
  BY <1>4, <1>5
     DEF EndsOK, Promotions, Retained, StartedOf, Holds, Stands, HasOutcome
<1> QED
  BY <1>1, <1>6 DEF EndsInv, Open

\* The outcomes it adds are its own.
JobOutcomes(L, N) ==
  /\ DOMAIN L.outcomes \subseteq DOMAIN N.outcomes
  /\ DOMAIN N.outcomes \subseteq DOMAIN L.outcomes \cup Obligations(job.item, job.cats)
  /\ \A o \in DOMAIN L.outcomes \ Obligations(job.item, job.cats) :
       N.outcomes[o] = L.outcomes[o]

\* A job that is over has its ends, and those before it stand.
LEMMA JobOverStands ==
  ASSUME CoverageInv, EndsInv, Apart(plan, ledger), pc = "dispatched", UNCHANGED <<index, plan>>,
         pc' \in {"drain", "planner"},
         NEW N, JobAccounted(ledger, N), JobOutcomes(ledger, N), ledger' = Reconcile(plan, N)
  PROVE  EndsInv' /\ Stands(ledger, ledger')
<1> DEFINE X == Obligations(job.item, job.cats)
           M == SetStates(ledger, X, "ACCOUNTED")
           K == [ledger EXCEPT !.outcomes = N.outcomes]
<1>1. /\ IsPlan(plan) /\ IsRouted(plan) /\ IsCoverage(plan, ledger) /\ Undone(plan, ledger)
      /\ EndsOK(plan, ledger)
      /\ \A o \in X : /\ o \in StartedOf(ledger) /\ ledger.state[o] \notin Terminal
                      /\ Governed(plan) => ~ GlobalReserve(plan, o[1])
                      /\ ~ HasOutcome(ledger, o)
  BY JobHasNoEnd
<1>2. K.state = ledger.state /\ K.activations = ledger.activations /\ K.attempts = ledger.attempts
  BY <1>1 DEF IsCoverage, IsLedger
<1> HIDE DEF K
<1>3. /\ IsLedger(N) /\ N.activations = ledger.activations
      /\ DOMAIN N.state = DOMAIN ledger.state
      /\ \A o \in DOMAIN ledger.state :
           N.state[o] = IF o \in X THEN "ACCOUNTED" ELSE ledger.state[o]
  BY <1>2 DEF JobAccounted, Changed, K
<1> HIDE DEF X
<1>4. StartedOf(N) = StartedOf(ledger)
  BY <1>1, <1>3 DEF StartedOf
<1>5. IsCoverage(plan, N)
  BY <1>1, <1>3, <1>4 DEF IsCoverage, States, Terminal
<1>6. Undone(plan, N)
  BY <1>1, <1>3 DEF Undone
<1>7. Retained(N)
  <2> SUFFICES ASSUME NEW o \in DOMAIN N.outcomes PROVE Holds(N, o, {"ACCOUNTED"})
    BY DEF Retained
  <2>1. HasOutcome(ledger, o) \/ o \in X
    BY DEF HasOutcome, JobOutcomes, X
  <2>2. CASE o \in X
    BY <1>1, <1>3, <2>2 DEF StartedOf, Holds
  <2>3. CASE HasOutcome(ledger, o)
    BY <1>1, <1>3, <2>3 DEF EndsOK, Retained, HasOutcome, Holds
  <2> QED
    BY <2>1, <2>2, <2>3
<1>8. EndsOK(plan, N)
  BY <1>1, <1>3, <1>4, <1>7 DEF EndsOK, Promotions
<1>9. Stands(ledger, N)
  <2> SUFFICES ASSUME NEW o \in DOMAIN ledger.state
               PROVE  /\ ledger.state[o] \in Terminal => N.state[o] = ledger.state[o]
                      /\ HasOutcome(ledger, o) => /\ HasOutcome(N, o)
                                                  /\ N.outcomes[o] = ledger.outcomes[o]
    BY DEF Stands
  <2>1. ledger.state[o] \in Terminal => N.state[o] = ledger.state[o]
    BY <1>1, <1>3
  <2>2. HasOutcome(ledger, o) => o \notin X
    BY <1>1
  <2>3. HasOutcome(ledger, o) => HasOutcome(N, o) /\ N.outcomes[o] = ledger.outcomes[o]
    BY <2>2 DEF HasOutcome, JobOutcomes, X
  <2> QED
    BY <2>1, <2>3
<1>10. EndsOK(plan, ledger') /\ Undone(plan, ledger') /\ Stands(N, ledger')
  <2>1. Apart(plan, N)
    BY <1>3 DEF Apart, Unpromoted
  <2> QED
    BY <1>1, <1>5, <1>6, <1>8, <2>1, ReconcileStands
<1>11. Stands(ledger, ledger')
  BY <1>3, <1>9, <1>10, StandsTwice
<1> QED
  BY <1>10, <1>11 DEF EndsInv

LEMMA DispatchFailsStands ==
  ASSUME CoverageInv, EndsInv, Apart(plan, ledger), DispatchFails
  PROVE  EndsInv' /\ Stands(ledger, ledger')
<1> DEFINE N == SetStates(ledger, Obligations(job.item, job.cats), "ACCOUNTED")
<1>1. /\ UNCHANGED <<index, plan>> /\ pc = "dispatched" /\ pc' \in {"drain", "planner"}
      /\ ledger' = Reconcile(plan, N)
  BY DEF DispatchFails, Continue, OperationalFailure
<1>2. IsCoverage(plan, ledger) /\ Obligations(job.item, job.cats) \subseteq StartedOf(ledger)
  BY <1>1, JobHasNoEnd
<1>3. IsCoverage(plan, N) /\ Changed(ledger, N, Obligations(job.item, job.cats), "ACCOUNTED")
  BY <1>2, StatesMove DEF States, Terminal
<1> HIDE DEF N
<1>4. [ledger EXCEPT !.outcomes = N.outcomes] = ledger
  BY <1>2, <1>3 DEF IsCoverage, IsLedger, Changed
<1>5. JobAccounted(ledger, N)
  BY <1>3, <1>4 DEF JobAccounted, IsCoverage
<1>6. JobOutcomes(ledger, N)
  BY <1>3 DEF JobOutcomes, Changed
<1> QED
  BY <1>1, <1>5, <1>6, JobOverStands

LEMMA DispatchCompletesStands ==
  ASSUME CoverageInv, EndsInv, Apart(plan, ledger), DispatchCompletes
  PROVE  EndsInv' /\ Stands(ledger, ledger')
<1> DEFINE X == Obligations(job.item, job.cats)
           M == SetStates(ledger, X, "ACCOUNTED")
<1>1. UNCHANGED <<index, plan>> /\ pc = "dispatched" /\ pc' \in {"drain", "planner"}
  BY DEF DispatchCompletes, Continue
<1>2. PICK what : DOMAIN what = job.cats /\ ledger' = CompleteItem(plan, ledger, job.item, what)
  <2>1. PICK r \in Results : \E complete \in SUBSET {c \in job.cats : r[c] # {}} :
          ledger' = CompleteItem(plan, ledger, job.item,
                      [c \in job.cats |-> OutcomeOf(r[c],
                         c \in Conflicts(observations \cup Observed(r)), c \in complete)])
    BY DEF DispatchCompletes
  <2> QED
    BY <2>1
<1> DEFINE out == [o \in DOMAIN ledger.outcomes \cup X |->
                     IF o \in X THEN what[o[2]] ELSE ledger.outcomes[o]]
           N == [M EXCEPT !.outcomes = out]
<1>3. ledger' = Reconcile(plan, N)
  BY <1>2 DEF CompleteItem
<1>4. IsCoverage(plan, ledger) /\ X \subseteq StartedOf(ledger)
  BY <1>1, JobHasNoEnd
<1>5. IsCoverage(plan, M) /\ Changed(ledger, M, X, "ACCOUNTED")
  BY <1>4, StatesMove DEF States, Terminal
<1> HIDE DEF M
<1>6. IsLedger(ledger) /\ IsLedger(M)
  BY <1>4, <1>5 DEF IsCoverage
<1>7. /\ DOMAIN out = DOMAIN ledger.outcomes \cup X
      /\ \A o \in DOMAIN ledger.outcomes \ X : out[o] = ledger.outcomes[o]
  OBVIOUS
<1> HIDE DEF out
<1>8. /\ IsLedger(N) /\ N.state = M.state /\ N.activations = M.activations
      /\ N.attempts = M.attempts /\ N.outcomes = out
  BY <1>6 DEF IsLedger
<1> HIDE DEF N
<1>9. JobOutcomes(ledger, N)
  BY <1>7, <1>8 DEF JobOutcomes, X
<1> DEFINE K == [ledger EXCEPT !.outcomes = N.outcomes]
<1>10. /\ K.state = ledger.state /\ K.activations = ledger.activations
       /\ K.attempts = ledger.attempts /\ K.outcomes = N.outcomes
  BY <1>6 DEF IsLedger
<1> HIDE DEF K, X
<1>11. Changed(K, N, X, "ACCOUNTED")
  BY <1>5, <1>8, <1>10 DEF Changed
<1>12. JobAccounted(ledger, N)
  BY <1>8, <1>11 DEF JobAccounted, K, X
<1> QED
  BY <1>1, <1>3, <1>9, <1>12, JobOverStands

\* Every other step leaves the ledger as it is.
LEMMA OthersStand ==
  ASSUME EndsInv,
         \/ StepBound \/ BudgetBound \/ RepeatedJob \/ BeginRaises
         \/ RunEnds \/ PlannerTurn \/ UNCHANGED vars
  PROVE  EndsInv' /\ Stands(ledger, ledger')
<1>1. CASE StepBound \/ BudgetBound
  <2>1. UNCHANGED <<index, plan, ledger>> /\ pc' = "planner" /\ pc = "drain"
    BY <1>1 DEF StepBound, BudgetBound, Drained
  <2> QED
    BY <2>1, EndsStay DEF Open
<1>2. CASE RepeatedJob \/ BeginRaises
  <2>1. UNCHANGED <<index, plan, ledger>> /\ pc' = "planner" /\ pc = "selected"
    BY <1>2 DEF RepeatedJob, BeginRaises, Raised
  <2> QED
    BY <2>1, EndsStay DEF Open
<1>3. CASE RunEnds
  <2>1. UNCHANGED <<index, plan, ledger>> /\ pc' = "done"
    BY <1>3 DEF RunEnds, Finish
  <2> QED
    BY <2>1, EndsStay DEF Open
<1>4. CASE PlannerTurn
  <2>1. UNCHANGED <<index, plan, ledger>> /\ pc = "planner" /\ term = "NONE" /\ calls < MaxCalls
        /\ pc' \in {"done", "drain", "planner"}
    BY <1>4 DEF PlannerTurn, Finish, Reserve
  <2> QED
    BY <2>1, EndsStay DEF Open
<1>5. CASE UNCHANGED vars
  <2>1. UNCHANGED <<index, plan, ledger, pc, term, calls, job>>
    BY <1>5 DEF vars, budget
  <2> QED
    BY <2>1, StandsStill DEF EndsInv, Open
<1> QED
  BY <1>1, <1>2, <1>3, <1>4, <1>5

LEMMA EndsStep ==
  CoverageInv /\ EndsInv /\ Apart(plan, ledger) /\ [Next]_vars =>
    EndsInv' /\ Stands(ledger, ledger')
BY SelectJobStands, SelectRaisesStands, NothingToSelectStands, OverflowStands, BeginJobStands,
   DispatchDeniedStands, DispatchFailsStands, DispatchCompletesStands, OthersStand DEF Next

\* A reconciliation only adds activations.
LEMMA ReconcileAdds ==
  ASSUME NEW P, NEW L, IsLedger(L)
  PROVE  L.activations \subseteq Reconcile(P, L).activations
<1> DEFINE A == Activate(P, L.activations, Requested(P, L))
<1>1. L.activations \subseteq A
  BY DEF Activate, CloseContext
<1>2. Reconcile(P, L) = Apply(L, A)
  BY DEF Reconcile
<1> HIDE DEF A
<1>3. Apply(L, A).activations = A
  <2> DEFINE M == SetStates(L, UNION {Obligations(a[1], a[2]) : a \in A \ L.activations}, "ACTIVE")
  <2>1. IsLedger(M)
    BY SetStatesKeeps
  <2>2. Apply(L, A) = [M EXCEPT !.activations = A]
    BY DEF Apply
  <2> HIDE DEF M
  <2> QED
    BY <2>1, <2>2 DEF IsLedger
<1> QED
  BY <1>1, <1>2, <1>3

\* The ledger keeps every activation it has.
LEMMA ActivationsStay ==
  ASSUME CoverageInv, [Next]_vars
  PROVE  UNCHANGED <<index, plan>> /\ ledger.activations \subseteq ledger'.activations
<1>1. IsPlan(plan) /\ IsCoverage(plan, ledger) /\ IsLedger(ledger)
  BY DEF CoverageInv, CoverageOK, IsCoverage
<1>2. ASSUME NEW L, IsLedger(L), NEW X, NEW s
      PROVE  /\ SetStates(L, X, s).activations = L.activations
             /\ IsLedger(SetStates(L, X, s))
  BY <1>2, SetStatesKeeps DEF SetStates, IsLedger
<1>3. /\ IsLedger(Reconcile(plan, ledger))
      /\ ledger.activations \subseteq Reconcile(plan, ledger).activations
  BY <1>1, ReconcileAdds, ReconcileKeeps
<1>4. CASE SelectJob \/ SelectRaises \/ NothingToSelect
  <2>1. UNCHANGED <<index, plan>> /\ \E items : ledger' = MarkContext(Reconcile(plan, ledger), items)
    BY <1>4 DEF SelectJob, SelectRaises, NothingToSelect, MayDraw, Raised, Drained, run
  <2> QED
    BY <1>2, <1>3, <2>1 DEF MarkContext
<1>5. CASE PlanFull \/ PlanFullRaises
  <2>1. UNCHANGED <<index, plan>> /\ \E items : ledger' = MarkOverflow(plan, ledger, items)
    BY <1>5 DEF PlanFull, PlanFullRaises, Drained, Raised
  <2> QED
    BY <1>1, <1>2, <2>1 DEF MarkOverflow
<1>6. CASE BeginJob
  <2>1. UNCHANGED <<index, plan>> /\ ledger' = BeginItem(ledger, job.item, job.cats)
    BY <1>6 DEF BeginJob
  <2> QED
    BY <1>1, <2>1 DEF BeginItem, SetStates, IsLedger
<1>7. CASE DispatchDenied
  <2>1. UNCHANGED <<index, plan>> /\ ledger' = BudgetBlocked(ledger, job.item, job.cats)
    BY <1>7 DEF DispatchDenied
  <2> QED
    BY <1>1, <2>1 DEF BudgetBlocked, SetStates, IsLedger
<1>8. CASE DispatchFails
  <2> DEFINE N == SetStates(ledger, Obligations(job.item, job.cats), "ACCOUNTED")
  <2>1. UNCHANGED <<index, plan>> /\ ledger' = Reconcile(plan, N)
    BY <1>8 DEF DispatchFails, OperationalFailure
  <2>2. IsLedger(N) /\ N.activations = ledger.activations
    BY <1>1, <1>2
  <2> HIDE DEF N
  <2> QED
    BY <2>1, <2>2, ReconcileAdds
<1>9. CASE DispatchCompletes
  <2>1. PICK what : UNCHANGED <<index, plan>> /\ ledger' = CompleteItem(plan, ledger, job.item, what)
    <3>1. PICK r \in Results : \E complete \in SUBSET {c \in job.cats : r[c] # {}} :
            ledger' = CompleteItem(plan, ledger, job.item,
                        [c \in job.cats |-> OutcomeOf(r[c],
                           c \in Conflicts(observations \cup Observed(r)), c \in complete)])
      BY <1>9 DEF DispatchCompletes
    <3> QED
      BY <1>9, <3>1 DEF DispatchCompletes
  <2> DEFINE X == Obligations(job.item, DOMAIN what)
             M == SetStates(ledger, X, "ACCOUNTED")
             N == [M EXCEPT !.outcomes =
                     [o \in DOMAIN ledger.outcomes \cup X |->
                        IF o \in X THEN what[o[2]] ELSE ledger.outcomes[o]]]
  <2>2. ledger' = Reconcile(plan, N)
    BY <2>1 DEF CompleteItem
  <2>3. IsLedger(M) /\ M.activations = ledger.activations
    BY <1>1, <1>2
  <2> HIDE DEF M
  <2>4. IsLedger(N) /\ N.activations = M.activations
    BY <2>3 DEF IsLedger
  <2> HIDE DEF N
  <2> QED
    BY <2>1, <2>2, <2>3, <2>4, ReconcileAdds
<1>10. CASE \/ StepBound \/ BudgetBound \/ RepeatedJob \/ BeginRaises
            \/ RunEnds \/ PlannerTurn \/ UNCHANGED vars
  BY <1>10 DEF StepBound, BudgetBound, RepeatedJob, BeginRaises, RunEnds, PlannerTurn, Drained,
               Raised, Finish, vars
<1> QED
  BY <1>4, <1>5, <1>6, <1>7, <1>8, <1>9, <1>10 DEF Next

\* The inductive invariant: ends are in order as long as the two are apart.
EndsApart ==
  /\ IsIndex(index) /\ plan = BuildPlan(index)
  /\ Apart(plan, ledger) => EndsInv

\* No failure, late activation or promotion reopens an obligation that has its
\* end, or replaces the outcome retained for it (acquisition_coverage.py,
\* _apply_activations and complete_item).  Where no context was cut short of a
\* global section this holds of every source: what is activated late refers to
\* nothing, and the global sections, which govern it, are drawn or found wanting
\* with everything else they govern.  Where one was (sections.py, index_source,
\* past MAX_CONTEXT_SECTION_IDS) it holds until a reserve item is promoted.
THEOREM NothingReopens == AcquisitionSpec => EndsStand
<1>1. Init => EndsApart
  BY EndsInit DEF EndsInv, EndsApart
<1>2. CoverageInv /\ EndsApart /\ [Next]_vars => EndsApart'
  <2> SUFFICES ASSUME CoverageInv, EndsApart, [Next]_vars PROVE EndsApart'
    OBVIOUS
  <2>1. UNCHANGED <<index, plan>> /\ ledger.activations \subseteq ledger'.activations
    BY ActivationsStay
  <2>2. Apart(plan, ledger)' => Apart(plan, ledger)
    BY <2>1 DEF Apart, Unpromoted
  <2>3. Apart(plan, ledger) => EndsInv'
    BY EndsStep DEF EndsApart
  <2> QED
    BY <2>1, <2>2, <2>3 DEF EndsApart
<1>3. EndsApart /\ (GlobalsGovern(index) \/ ~ ReservePromoted) => Apart(plan, ledger)
  BY GlobalsGovernItems DEF EndsApart, Apart, Unpromoted, ReservePromoted
<1>4. CoverageInv /\ EndsApart /\ [Next]_vars =>
        [GlobalsGovern(index) \/ ~ ReservePromoted =>
           \A o \in DOMAIN ledger.state :
             /\ ledger.state[o] \in Terminal => ledger'.state[o] = ledger.state[o]
             /\ HasOutcome(ledger, o) => HasOutcome(ledger', o)
                                           /\ ledger'.outcomes[o] = ledger.outcomes[o]]_vars
  BY <1>3, EndsStep DEF EndsApart, Stands
<1> QED
  BY <1>1, <1>2, <1>4, AcquisitionInvariant, PTL DEF AcquisitionSpec, EndsStand
=============================================================================
