---------------------------- MODULE ResearchProofs ----------------------------
(***************************************************************************)
(* Theorems of a live research run, for every limit, price and bound that    *)
(* meets BudgetAssumption, RunAssumption and NoneAssumption.                 *)
(*                                                                         *)
(* The argument rests on what is true while a model call is in flight: the   *)
(* run has no reason to stop yet, the receipt of the call is the last one,   *)
(* and its reservation is still open for what it was estimated to cost.      *)
(* That is what makes the settlement of the call well defined, the reason of *)
(* the run final, and the number of receipts at most one more than the       *)
(* calls.                                                                    *)
(***************************************************************************)
EXTENDS ResearchRun, SequenceTheorems, DataInduction, TLAPS

USE DEF guard, ledger, limits, progress, found, authority, decision, budget

-----------------------------------------------------------------------------
(* The guard and the ledger.                                                *)

GuardInv ==
    /\ calls \in [Kind -> Nat]
    /\ \A k \in Kind : calls[k] <= Limit[k]
    /\ reserved \in Nat /\ reserved <= CostCap
    /\ \A n \in DOMAIN open : n \in Nat \ {0} /\ open[n] \in Nat

LedgerInv ==
    /\ receipts \in Seq(Receipt)
    /\ dispatched \in 0..MaxDispatched

LEMMA OneMoreCall ==
  ASSUME GuardInv, NEW kind \in Kind, calls[kind] < Limit[kind],
         calls' = [calls EXCEPT ![kind] = @ + 1]
  PROVE  calls' \in [Kind -> Nat] /\ \A k \in Kind : calls'[k] <= Limit[k]
<1>1. calls[kind] \in Nat /\ Limit[kind] \in Nat
  <2>1. Limit \in [Kind -> Nat]
    BY BudgetAssumption
  <2> QED
    BY <2>1 DEF GuardInv
<1>2. calls'[kind] = calls[kind] + 1 /\ \A k \in Kind \ {kind} : calls'[k] = calls[k]
  BY DEF GuardInv
<1>3. ASSUME NEW k \in Kind PROVE calls'[k] \in Nat /\ calls'[k] <= Limit[k]
  BY <1>1, <1>2 DEF GuardInv
<1> QED
  BY <1>3 DEF GuardInv

\* A call is reserved within the limit of its kind and the cap of the run.
LEMMA ReserveKeepsGuard ==
  ASSUME GuardInv, NEW kind \in Kind, NEW cost \in Nat, Reserve(kind, cost)
  PROVE  /\ GuardInv'
         /\ calls' = [calls EXCEPT ![kind] = @ + 1]
         /\ cost <= reserved'
         /\ NextReservation \in DOMAIN open' /\ open'[NextReservation] = cost
<1>1. /\ calls' = [calls EXCEPT ![kind] = @ + 1] /\ calls[kind] < Limit[kind]
      /\ reserved' = reserved + cost /\ reserved + cost <= CostCap
  BY DEF Reserve, Allowed
<1>2. /\ calls' \in [Kind -> Nat]
      /\ \A k \in Kind : calls'[k] <= Limit[k]
  BY <1>1, OneMoreCall
<1>3. /\ reserved' \in Nat /\ reserved' <= CostCap /\ cost <= reserved'
  BY <1>1 DEF GuardInv
<1>4. NextReservation \in Nat \ {0}
  BY DEF GuardInv, NextReservation, Kind
<1>5. /\ DOMAIN open' = DOMAIN open \cup {NextReservation}
      /\ \A n \in DOMAIN open' : open'[n] = IF n = NextReservation THEN cost ELSE open[n]
  BY DEF Reserve
<1> QED
  BY <1>1, <1>2, <1>3, <1>4, <1>5 DEF GuardInv

LEMMA PurchaseKeepsGuard ==
  ASSUME GuardInv, NEW kind \in Kind, NEW cost \in Nat, Purchase(kind, cost)
  PROVE  GuardInv' /\ calls' = [calls EXCEPT ![kind] = @ + 1]
<1>1. /\ calls' = [calls EXCEPT ![kind] = @ + 1] /\ calls[kind] < Limit[kind]
      /\ reserved' = reserved + cost /\ reserved + cost <= CostCap /\ open' = open
  BY DEF Purchase, Allowed
<1>2. /\ calls' \in [Kind -> Nat]
      /\ \A k \in Kind : calls'[k] <= Limit[k]
  BY <1>1, OneMoreCall
<1> QED
  BY <1>1, <1>2 DEF GuardInv

\* A reservation gives back what it was not charged, and never more.
LEMMA ReconcileKeepsGuard ==
  ASSUME GuardInv, NEW n \in DOMAIN open, open[n] <= reserved, NEW actual \in Nat,
         Reconcile(n, actual)
  PROVE  GuardInv' /\ calls' = calls
<1>1. /\ reserved' = reserved - (open[n] - actual) /\ actual <= open[n] /\ calls' = calls
      /\ open' = [m \in DOMAIN open \ {n} |-> open[m]]
  BY DEF Reconcile, Closing
<1>2. reserved' \in Nat /\ reserved' <= CostCap
  BY <1>1, BudgetAssumption DEF GuardInv
<1> QED
  BY <1>1, <1>2 DEF GuardInv

LEMMA PlannedIsReceipt ==
  ASSUME NEW role \in {"PLANNING", "EXTRACTION"}
  PROVE  /\ Planned(role) \in Receipt /\ Planned(role).role = role
         /\ Planned(role).state = "PLANNED"
         /\ [Planned(role) EXCEPT !.state = "BUDGET_BLOCKED"] \in Receipt
  BY DEF Planned, Receipt, ReceiptState

\* A denied call spends nothing; it leaves a receipt.
LEMMA DeniedCall ==
  ASSUME LedgerInv, NEW role \in {"PLANNING", "EXTRACTION"}, NEW cost \in Nat,
         CallDenied(role, cost)
  PROVE  LedgerInv' /\ UNCHANGED guard /\ Len(receipts') = Len(receipts) + 1
  BY PlannedIsReceipt, AppendProperties DEF CallDenied, LedgerInv

\* A call that cannot be recorded is reserved all the same.
LEMMA UnrecordedCall ==
  ASSUME GuardInv, LedgerInv, NEW role \in {"PLANNING", "EXTRACTION"}, NEW cost \in Nat,
         CallUnrecorded(role, cost)
  PROVE  /\ GuardInv' /\ LedgerInv'
         /\ calls' = [calls EXCEPT !["INFERENCE"] = @ + 1]
         /\ Len(receipts') = Len(receipts) + 1
         /\ receipts'[Len(receipts')].role = role
         /\ receipts'[Len(receipts')].state = "PLANNED"
<1>1. Reserve("INFERENCE", cost) /\ receipts' = Append(receipts, Planned(role))
  BY DEF CallUnrecorded
<1>2. GuardInv' /\ calls' = [calls EXCEPT !["INFERENCE"] = @ + 1]
  BY <1>1, ReserveKeepsGuard DEF Kind
<1>3. dispatched' \in 0..MaxDispatched
  BY BudgetAssumption DEF CallUnrecorded, LedgerInv
<1> QED
  BY <1>1, <1>2, <1>3, PlannedIsReceipt, AppendProperties DEF LedgerInv

LEMMA DispatchedCall ==
  ASSUME GuardInv, LedgerInv, NEW role \in {"PLANNING", "EXTRACTION"}, NEW cost \in Nat,
         CallDispatched(role, cost)
  PROVE  /\ GuardInv' /\ LedgerInv'
         /\ calls' = [calls EXCEPT !["INFERENCE"] = @ + 1]
         /\ cost <= reserved'
         /\ NextReservation \in DOMAIN open' /\ open'[NextReservation] = cost
         /\ Len(receipts') = Len(receipts) + 1
         /\ receipts'[Len(receipts) + 1].role = role
<1> DEFINE r == [Planned(role) EXCEPT !.state = "DISPATCHED", !.index = dispatched + 1,
                                      !.cost = cost]
<1>1. Reserve("INFERENCE", cost) /\ receipts' = Append(receipts, r) /\ dispatched' = dispatched + 1
  BY DEF CallDispatched
<1>2. dispatched' \in 0..MaxDispatched
  BY <1>1, BudgetAssumption DEF CallDispatched, Recordable, LedgerInv
<1>3. dispatched + 1 \in Nat
  BY <1>2 DEF LedgerInv
<1>4. r \in Receipt /\ r.role = role
  BY <1>3 DEF Planned, Receipt, ReceiptState
<1> QED
  BY <1>1, <1>2, <1>4, ReserveKeepsGuard, AppendProperties DEF LedgerInv, Kind

\* However a call in flight is settled, its receipt keeps its role.
LEMMA FailedCall ==
  ASSUME LedgerInv, NEW slot \in 1..Len(receipts), CallFails(slot)
  PROVE  /\ LedgerInv' /\ UNCHANGED guard /\ Len(receipts') = Len(receipts)
         /\ receipts'[slot].role = receipts[slot].role
         /\ receipts'[slot].state = "FAILED"
<1> DEFINE r == [receipts[slot] EXCEPT !.state = "FAILED"]
<1>1. receipts' = [receipts EXCEPT ![slot] = r] /\ dispatched' = dispatched /\ UNCHANGED guard
  BY DEF CallFails
<1>2. receipts[slot] \in Receipt
  BY DEF LedgerInv
<1>3. r \in Receipt /\ r.role = receipts[slot].role /\ r.state = "FAILED"
  BY <1>2 DEF Receipt, ReceiptState
<1> QED
  BY <1>1, <1>3, ExceptSeq DEF LedgerInv

LEMMA ReturnedCall ==
  ASSUME GuardInv, LedgerInv, NEW slot \in 1..Len(receipts), NEW n \in DOMAIN open,
         open[n] <= reserved, NEW actual \in Nat, NEW state \in ReceiptState,
         CallReturns(slot, n, actual, state)
  PROVE  /\ GuardInv' /\ LedgerInv' /\ calls' = calls /\ Len(receipts') = Len(receipts)
<1> DEFINE r == [receipts[slot] EXCEPT !.state = state, !.reconciled = actual]
<1>1. /\ receipts' = [receipts EXCEPT ![slot] = r] /\ dispatched' = dispatched
      /\ Reconcile(n, actual)
  BY DEF CallReturns, LedgerInv
<1>2. receipts[slot] \in Receipt
  BY DEF LedgerInv
<1>3. r \in Receipt
  BY <1>2 DEF Receipt, ReceiptState
<1> QED
  BY <1>1, <1>3, ExceptSeq, ReconcileKeepsGuard DEF LedgerInv

-----------------------------------------------------------------------------
(* What a run knows of its call in flight, and of its reason.               *)

\* A call in flight has the last receipt and an open reservation, and the run
\* has no reason to stop; when no call is in flight, none is remembered.
InFlight ==
    IF phase = "WAIT"
    THEN /\ reason = None
         /\ call.from \in {"PLANNER", "SECTION", "EXTRACT"}
         /\ call.slot = Len(receipts) /\ Len(receipts) > 0
         /\ receipts[Len(receipts)].role = IF call.from = "SECTION" THEN "EXTRACTION" ELSE "PLANNING"
         /\ call.cost \in Nat /\ call.cost <= reserved
         /\ call.reservation \in DOMAIN open /\ open[call.reservation] = call.cost
    ELSE call = NoCall

\* A denied call is the last one a run plans.
ReceiptsBounded ==
    Len(receipts) <= calls["INFERENCE"] + IF reason = None THEN 0 ELSE 1

CallInv ==
    /\ GuardInv /\ LedgerInv
    /\ phase \in Phase /\ reason \in Reason \cup {None}
    /\ InFlight /\ ReceiptsBounded

LEMMA CallInvInit == Init => CallInv
  BY BudgetAssumption
     DEF Init, BudgetInit, CallInv, GuardInv, LedgerInv, InFlight, ReceiptsBounded, Phase, Kind

LEMMA LengthsNat ==
  ASSUME CallInv
  PROVE  Len(receipts) \in Nat /\ calls["INFERENCE"] \in Nat
  BY DEF CallInv, GuardInv, LedgerInv, Kind

\* A step that makes no call, and is not the settlement of one.
LEMMA QuietStep ==
  ASSUME CallInv, phase # "WAIT", phase' \in Phase \ {"WAIT"}, call' = call,
         UNCHANGED budget,
         reason' = reason \/ (reason = None /\ reason' \in Reason)
  PROVE  CallInv'
<1>1. GuardInv' /\ LedgerInv'
  BY DEF CallInv, GuardInv, LedgerInv
<1>2. InFlight'
  BY DEF CallInv, InFlight
<1>3. ReceiptsBounded'
  BY LengthsNat DEF CallInv, ReceiptsBounded
<1> QED
  BY <1>1, <1>2, <1>3 DEF CallInv

\* A step that only searches or fetches.
LEMMA BuyingStep ==
  ASSUME CallInv, phase # "WAIT", phase' \in Phase \ {"WAIT"}, call' = call,
         NEW kind \in {"SEARCH", "FETCH"}, NEW cost \in Nat,
         Reserve(kind, cost) \/ Purchase(kind, cost), UNCHANGED ledger,
         reason' = reason \/ (reason = None /\ reason' \in Reason)
  PROVE  CallInv'
<1>1. GuardInv' /\ calls' = [calls EXCEPT ![kind] = @ + 1]
  BY ReserveKeepsGuard, PurchaseKeepsGuard DEF CallInv, Kind
<1>2. calls'["INFERENCE"] = calls["INFERENCE"]
  BY <1>1 DEF CallInv, GuardInv, Kind
<1>3. LedgerInv' /\ InFlight'
  BY DEF CallInv, LedgerInv, InFlight
<1>4. ReceiptsBounded'
  BY <1>2, LengthsNat DEF CallInv, ReceiptsBounded
<1> QED
  BY <1>1, <1>3, <1>4 DEF CallInv

\* A call that the budget denies gives the run its reason.
LEMMA DeniedStep ==
  ASSUME CallInv, phase # "WAIT", phase' \in Phase \ {"WAIT"}, call' = call,
         NEW role \in {"PLANNING", "EXTRACTION"}, NEW cost \in Costs, CallDenied(role, cost),
         reason = None, reason' \in Reason
  PROVE  CallInv'
<1>1. LedgerInv' /\ UNCHANGED guard /\ Len(receipts') = Len(receipts) + 1
  BY DeniedCall, RunAssumption DEF CallInv
<1>2. reason' # None
  BY NoneAssumption
<1>3. Len(receipts) \in Nat /\ calls["INFERENCE"] \in Nat
  BY LengthsNat
<1> QED
  BY <1>1, <1>2, <1>3 DEF CallInv, GuardInv, InFlight, ReceiptsBounded

\* A call that is reserved and never made.
LEMMA UnrecordedStep ==
  ASSUME CallInv, phase # "WAIT", phase' \in Phase \ {"WAIT"}, call' = call,
         NEW role \in {"PLANNING", "EXTRACTION"}, NEW cost \in Costs,
         CallUnrecorded(role, cost), reason = None, reason' \in Reason \cup {None}
  PROVE  CallInv'
<1>1. /\ GuardInv' /\ LedgerInv' /\ Len(receipts') = Len(receipts) + 1
      /\ calls' = [calls EXCEPT !["INFERENCE"] = @ + 1]
  BY UnrecordedCall, RunAssumption DEF CallInv
<1>2. /\ Len(receipts) \in Nat /\ calls["INFERENCE"] \in Nat
      /\ calls'["INFERENCE"] = calls["INFERENCE"] + 1
  BY <1>1 DEF CallInv, GuardInv, LedgerInv, Kind
<1> QED
  BY <1>1, <1>2 DEF CallInv, InFlight, ReceiptsBounded

\* A call that is made.
LEMMA CallingStep ==
  ASSUME CallInv, phase # "WAIT", NEW role \in {"PLANNING", "EXTRACTION"}, NEW cost \in Costs,
         CallDispatched(role, cost), reason = None, reason' = reason,
         NEW from \in {"PLANNER", "SECTION", "EXTRACT"}, Waiting(from, cost),
         role = IF from = "SECTION" THEN "EXTRACTION" ELSE "PLANNING"
  PROVE  CallInv'
<1>1. cost \in Nat
  BY RunAssumption
<1>2. /\ GuardInv' /\ LedgerInv' /\ Len(receipts') = Len(receipts) + 1
      /\ calls' = [calls EXCEPT !["INFERENCE"] = @ + 1]
      /\ receipts'[Len(receipts) + 1].role = role
      /\ cost <= reserved'
      /\ NextReservation \in DOMAIN open' /\ open'[NextReservation] = cost
  BY <1>1, DispatchedCall DEF CallInv
<1>3. /\ Len(receipts) \in Nat /\ calls["INFERENCE"] \in Nat
      /\ calls'["INFERENCE"] = calls["INFERENCE"] + 1
  BY <1>2 DEF CallInv, GuardInv, LedgerInv, Kind
<1>4. /\ phase' = "WAIT" /\ call'.from = from /\ call'.slot = Len(receipts) + 1
      /\ call'.reservation = NextReservation /\ call'.cost = cost
  BY DEF Waiting, Goto
<1>5. InFlight'
  BY <1>1, <1>2, <1>3, <1>4 DEF InFlight
<1>6. ReceiptsBounded'
  BY <1>2, <1>3 DEF CallInv, ReceiptsBounded
<1> QED
  BY <1>2, <1>4, <1>5, <1>6 DEF CallInv, Phase

\* A call in flight that is settled, one way or the other.
LEMMA SettledStep ==
  ASSUME CallInv, NEW from, Answered(from), phase' \in Phase \ {"WAIT"},
         reason' \in Reason \cup {None},
         \/ CallFails(call.slot)
         \/ \E actual \in Actuals, state \in ReceiptState :
                CallReturns(call.slot, call.reservation, actual, state)
  PROVE  CallInv'
<1>1. /\ phase = "WAIT" /\ reason = None /\ call' = NoCall /\ call.slot \in 1..Len(receipts)
      /\ call.reservation \in DOMAIN open /\ open[call.reservation] <= reserved
      /\ call.cost \in Nat
  BY DEF Answered, CallInv, InFlight, LedgerInv
<1>2. Actuals \subseteq Nat
  <2>1. Savings \subseteq Nat
    BY RunAssumption
  <2> QED
    BY <1>1, <2>1 DEF Actuals
<1>3. GuardInv' /\ LedgerInv' /\ calls' = calls /\ Len(receipts') = Len(receipts)
  <2>1. CASE CallFails(call.slot)
    BY <2>1, <1>1, FailedCall DEF CallInv, GuardInv
  <2>2. CASE \E actual \in Actuals, state \in ReceiptState :
                CallReturns(call.slot, call.reservation, actual, state)
    BY <2>2, <1>1, <1>2, ReturnedCall DEF CallInv
  <2> QED
    BY <2>1, <2>2
<1>4. Len(receipts) \in Nat /\ calls["INFERENCE"] \in Nat
  BY LengthsNat
<1> QED
  BY <1>1, <1>3, <1>4 DEF CallInv, InFlight, ReceiptsBounded

-----------------------------------------------------------------------------
(* Every action is one of these steps.                                      *)

LEMMA PlannerKeepsCalls == CallInv /\ Planner => CallInv'
<1> SUFFICES ASSUME CallInv, Planner PROVE CallInv'
  OBVIOUS
<1> USE DEF Goto, Stop, Phase, Reason
<1>1. CASE PlannerCalled
  BY <1>1, CallingStep DEF PlannerCalled, Turn
<1>2. CASE PlannerDenied
  BY <1>2, DeniedStep DEF PlannerDenied, Turn
<1>3. CASE PlannerUnrecorded
  BY <1>3, UnrecordedStep DEF PlannerUnrecorded, Turn, PlannerLost
<1>4. CASE PlannerFails
  BY <1>4, SettledStep DEF PlannerFails, PlannerLost, CallInv
<1>5. CASE PlannerAnswers
  BY <1>5, SettledStep DEF PlannerAnswers, ReceiptState, CallInv
<1>6. CASE PlannerStops
  BY <1>6, QuietStep DEF PlannerStops
<1> QED
  BY <1>1, <1>2, <1>3, <1>4, <1>5, <1>6 DEF Planner

LEMMA ToolKeepsCalls == CallInv /\ Tool => CallInv'
<1> SUFFICES ASSUME CallInv, Tool PROVE CallInv'
  OBVIOUS
<1> USE DEF Goto, Stop, Phase, Reason
<1>1. CASE NoMoreTools
  BY <1>1, QuietStep DEF NoMoreTools
<1>2. CASE ToolLimit
  BY <1>2, QuietStep DEF ToolLimit
<1>3. CASE ToolReturns
  BY <1>3, QuietStep DEF ToolReturns, Fail
<1>4. CASE ToolRejected
  BY <1>4, QuietStep DEF ToolRejected, BeforeTool, Fail
<1> QED
  BY <1>1, <1>2, <1>3, <1>4 DEF Tool

LEMMA RefusedIsQuiet ==
  ASSUME CallInv, NEW repeated, ToolRefused(repeated)
  PROVE  CallInv'
  BY QuietStep DEF ToolRefused, BeforeTool, Refused, NoProgress, Goto, Stop, Phase, Reason

LEMMA SearchKeepsCalls == CallInv /\ Search => CallInv'
<1> SUFFICES ASSUME CallInv, Search PROVE CallInv'
  OBVIOUS
<1> USE DEF Goto, Stop, Phase, Reason, BeforeTool
<1>1. CASE SearchRefused
  BY <1>1, RefusedIsQuiet DEF SearchRefused
<1>2. CASE SearchDenied
  BY <1>2, QuietStep DEF SearchDenied, EnteredAndDenied
<1>3. CASE SearchFails
  BY <1>3, QuietStep, BuyingStep, BudgetAssumption DEF SearchFails, EnteredAndFails
<1>4. CASE SearchReturns
  BY <1>4, BuyingStep, BudgetAssumption DEF SearchReturns, EnteredAndServed
<1> QED
  BY <1>1, <1>2, <1>3, <1>4 DEF Search

LEMMA FetchKeepsCalls == CallInv /\ Fetch => CallInv'
<1> SUFFICES ASSUME CallInv, Fetch PROVE CallInv'
  OBVIOUS
<1> USE DEF Goto, Stop, Phase, Reason, BeforeTool
<1>1. CASE FetchRefused
  BY <1>1, RefusedIsQuiet DEF FetchRefused
<1>2. CASE FetchDenied
  BY <1>2, QuietStep DEF FetchDenied, EnteredAndDenied
<1>3. CASE FetchFails
  BY <1>3, QuietStep, BuyingStep DEF FetchFails, EnteredAndFails
<1>4. CASE FetchReturns
  BY <1>4, BuyingStep DEF FetchReturns, EnteredAndServed
<1>5. CASE FetchKnown
  BY <1>5, QuietStep DEF FetchKnown, EnteredAndServed
<1>6. CASE FetchUnreadable
  BY <1>6, BuyingStep DEF FetchUnreadable, EnteredAndFails
<1> QED
  BY <1>1, <1>2, <1>3, <1>4, <1>5, <1>6 DEF Fetch

LEMMA DrainKeepsCalls == CallInv /\ Drain => CallInv'
<1> SUFFICES ASSUME CallInv, Drain PROVE CallInv'
  OBVIOUS
<1> USE DEF Goto, Stop, Phase, Reason
<1>1. CASE AcquireBegins
  BY <1>1, QuietStep DEF AcquireBegins
<1>2. CASE AcquireFails
  BY <1>2, QuietStep DEF AcquireFails, Fail
<1>3. CASE DrainEnds
  BY <1>3, QuietStep DEF DrainEnds, NoJob
<1>4. CASE JobRefused
  BY <1>4, QuietStep DEF JobRefused, Job, EnteredAndFails
<1>5. CASE JobRepeated
  BY <1>5, QuietStep DEF JobRepeated, Job, Refused, NoProgress
<1>6. CASE SectionCalled
  BY <1>6, CallingStep DEF SectionCalled, SectionEntered, Job, Entered
<1>7. CASE SectionDenied
  BY <1>7, DeniedStep DEF SectionDenied, SectionEntered, Job, Entered
<1>8. CASE SectionUnrecorded
  BY <1>8, UnrecordedStep DEF SectionUnrecorded, Job, EnteredAndFails, Entered
<1>9. CASE SectionFails
  BY <1>9, SettledStep DEF SectionFails, Fail, CallInv
<1>10. CASE SectionRejected
  BY <1>10, SettledStep DEF SectionRejected, Fail, ReceiptState, CallInv
<1>11. CASE SectionKnown
  BY <1>11, SettledStep DEF SectionKnown, NoProgress, ReceiptState, CallInv
<1>12. CASE SectionAdmitted
  BY <1>12, SettledStep DEF SectionAdmitted, Evaluates, ReceiptState, CallInv
<1> QED
  BY <1>1, <1>2, <1>3, <1>4, <1>5, <1>6, <1>7, <1>8, <1>9, <1>10, <1>11, <1>12 DEF Drain

LEMMA ExtractKeepsCalls == CallInv /\ ExtractTool => CallInv'
<1> SUFFICES ASSUME CallInv, ExtractTool PROVE CallInv'
  OBVIOUS
<1> USE DEF Goto, Stop, Phase, Reason, BeforeTool
<1>1. CASE ExtractSections
  BY <1>1, QuietStep DEF ExtractSections, Fail
<1>2. CASE ExtractInvalid
  BY <1>2, QuietStep DEF ExtractInvalid, Fail, EnteredAndFails
<1>3. CASE ExtractRefused
  BY <1>3, RefusedIsQuiet DEF ExtractRefused
<1>4. CASE ExtractCalled
  BY <1>4, CallingStep DEF ExtractCalled, Extract, EnteredAndServed
<1>5. CASE ExtractDenied
  BY <1>5, DeniedStep DEF ExtractDenied, Extract, EnteredAndDenied
<1>6. CASE ExtractUnrecorded
  BY <1>6, UnrecordedStep DEF ExtractUnrecorded, Extract, EnteredAndFails
<1>7. CASE ExtractFails
  BY <1>7, SettledStep DEF ExtractFails, Fail, ReceiptState, CallInv
<1>8. CASE ExtractReturns
  BY <1>8, SettledStep DEF ExtractReturns, ReceiptState, CallInv
<1> QED
  BY <1>1, <1>2, <1>3, <1>4, <1>5, <1>6, <1>7, <1>8 DEF ExtractTool

LEMMA OtherKeepsCalls == CallInv /\ (Record \/ Evaluate \/ Finish) => CallInv'
<1> SUFFICES ASSUME CallInv, Record \/ Evaluate \/ Finish PROVE CallInv'
  OBVIOUS
<1> USE DEF Goto, Stop, Phase, Reason, NextClaim
<1>1. CASE ClaimRefused
  BY <1>1, QuietStep DEF ClaimRefused, Refused, NoProgress
<1>2. CASE ClaimUnsupported \/ ClaimAdmitted
  BY <1>2, QuietStep DEF ClaimUnsupported, ClaimAdmitted, EnteredAndServed
<1>3. CASE ClaimFails
  BY <1>3, QuietStep DEF ClaimFails, EnteredAndFails
<1>4. CASE ClaimsRecorded
  BY <1>4, QuietStep DEF ClaimsRecorded
<1>5. CASE EvaluateRefused
  BY <1>5, RefusedIsQuiet DEF EvaluateRefused
<1>6. CASE EvaluateReturns
  BY <1>6, QuietStep DEF EvaluateReturns, EvaluateEntered, BeforeTool, Evaluates
<1>7. CASE EvaluateFails
  BY <1>7, QuietStep DEF EvaluateFails, EvaluateEntered, BeforeTool
<1>8. CASE FinishReturns
  BY <1>8, QuietStep DEF FinishReturns
<1>9. CASE FinishRaises
  BY <1>9, QuietStep DEF FinishRaises
<1> QED
  BY <1>1, <1>2, <1>3, <1>4, <1>5, <1>6, <1>7, <1>8, <1>9 DEF Record, Evaluate, Finish

LEMMA CallInvStep == CallInv /\ [Next]_vars => CallInv'
<1>1. CASE UNCHANGED vars
  BY <1>1 DEF vars, CallInv, GuardInv, LedgerInv, InFlight, ReceiptsBounded
<1> QED
  BY <1>1, PlannerKeepsCalls, ToolKeepsCalls, SearchKeepsCalls, FetchKeepsCalls,
     DrainKeepsCalls, ExtractKeepsCalls, OtherKeepsCalls DEF Next

-----------------------------------------------------------------------------
(* What a run does once it has its reason.                                  *)

\* It ends the tool it is in, and evaluates once more.
LEMMA AfterStop ==
  ASSUME CallInv, reason # None, [Next]_vars
  PROVE  /\ UNCHANGED <<budget, reason, limits, steps, authority>>
         /\ failures' \in {failures, failures + 1}
<1> USE DEF Stop
<1>1. phase # "WAIT"
  BY DEF CallInv, InFlight
<1>2. CASE UNCHANGED vars
  BY <1>2 DEF vars
<1>3. CASE Planner
  BY <1>1, <1>3 DEF Planner, PlannerCalled, PlannerDenied, PlannerUnrecorded, PlannerFails,
     PlannerAnswers, PlannerStops, Turn, Answered
<1>4. CASE Tool
  BY <1>4 DEF Tool, NoMoreTools, ToolLimit, ToolReturns, ToolRejected, BeforeTool, Fail
<1>5. CASE Search
  BY <1>5 DEF Search, SearchRefused, SearchDenied, SearchFails, SearchReturns, ToolRefused,
     BeforeTool
<1>6. CASE Fetch
  BY <1>6 DEF Fetch, FetchRefused, FetchDenied, FetchFails, FetchReturns, FetchKnown,
     FetchUnreadable, ToolRefused, BeforeTool
<1>7. CASE Drain
  <2>1. CASE AcquireBegins \/ AcquireFails \/ DrainEnds
    BY <2>1 DEF AcquireBegins, AcquireFails, DrainEnds, Fail
  <2>2. CASE JobRefused \/ JobRepeated
    BY <2>2 DEF JobRefused, JobRepeated, EnteredAndFails, Entered
  <2>3. CASE SectionCalled \/ SectionDenied \/ SectionUnrecorded
    BY <2>3 DEF SectionCalled, SectionDenied, SectionUnrecorded, SectionEntered, EnteredAndFails,
       Entered
  <2>4. CASE SectionFails \/ SectionRejected \/ SectionKnown \/ SectionAdmitted
    BY <1>1, <2>4 DEF SectionFails, SectionRejected, SectionKnown, SectionAdmitted, Answered
  <2> QED
    BY <1>7, <2>1, <2>2, <2>3, <2>4 DEF Drain
<1>8. CASE ExtractTool
  BY <1>1, <1>8 DEF ExtractTool, ExtractSections, ExtractInvalid, ExtractRefused, ExtractCalled,
     ExtractDenied, ExtractUnrecorded, ExtractFails, ExtractReturns, Extract, ToolRefused,
     BeforeTool, Answered
<1>9. CASE Record
  BY <1>9 DEF Record, ClaimRefused, ClaimUnsupported, ClaimFails, ClaimAdmitted, ClaimsRecorded,
     NextClaim, Refused, EnteredAndServed, EnteredAndFails, Entered
<1>10. CASE Evaluate
  BY <1>10 DEF Evaluate, EvaluateRefused, EvaluateReturns, EvaluateFails, EvaluateEntered,
     ToolRefused, BeforeTool
<1>11. CASE Finish
  BY <1>11 DEF Finish, FinishReturns, FinishRaises
<1> QED
  BY <1>2, <1>3, <1>4, <1>5, <1>6, <1>7, <1>8, <1>9, <1>10, <1>11 DEF Next

LEMMA CallInvariant == Spec => []CallInv
  BY CallInvInit, CallInvStep, PTL DEF Spec

\* Once a run has its reason to stop, whatever its limits and however its calls
\* fail, it makes no paid call and keeps the reason.
THEOREM StoppedRunsSpendNothing == Spec => NoSpendAfterStop
<1>1. CallInv /\ [Next]_vars => [reason # None => calls' = calls /\ reason' = reason]_vars
  BY AfterStop
<1> QED
  BY <1>1, CallInvariant, PTL DEF Spec, NoSpendAfterStop

-----------------------------------------------------------------------------
(* The report.                                                              *)

LEMMA FlushKeepsReceipts ==
  ASSUME CallInv, NEW events \in 0..(TraceLimit - 1)
  PROVE  /\ Flushed(events).receipts = Len(receipts)
         /\ Flushed(events).events + Flushed(events).receipts + 1 <= TraceLimit
<1>1. /\ calls["INFERENCE"] <= Limit["INFERENCE"] /\ Limit["INFERENCE"] \in Nat
      /\ Limit["INFERENCE"] < MaxSlots /\ MaxSlots \in Nat /\ MaxSlots < TraceLimit
      /\ TraceLimit \in Nat
  BY BudgetAssumption, RunAssumption DEF CallInv, GuardInv, Kind
<1>2. Len(receipts) \in Nat /\ Len(receipts) <= MaxSlots
  BY <1>1, LengthsNat DEF CallInv, ReceiptsBounded
<1> DEFINE n == Len(receipts)
           kept == Lesser(events, TraceLimit - 1 - Lesser(n, MaxSlots))
<1>3. Lesser(n, MaxSlots) = n
  BY <1>1, <1>2 DEF Lesser
<1>4. kept \in Int /\ kept <= TraceLimit - 1 - n
  BY <1>1, <1>2, <1>3 DEF Lesser
<1>5. Lesser(n, TraceLimit - 1 - kept) = n
  BY <1>1, <1>2, <1>4 DEF Lesser
<1> HIDE DEF kept, n
<1>6. Flushed(events) = [events |-> kept, receipts |-> n]
  BY <1>5 DEF Flushed, kept, n
<1> QED
  BY <1>1, <1>2, <1>4, <1>6 DEF n

\* An ended run does nothing.
LEMMA EndedStays ==
  ASSUME phase \in Ended, Next
  PROVE  FALSE
<1> USE DEF Ended
<1>1. ~ Planner
  BY DEF Planner, PlannerCalled, PlannerDenied, PlannerUnrecorded, PlannerFails,
     PlannerAnswers, PlannerStops, Turn, Answered
<1>2. ~ (Tool \/ Search \/ Fetch)
  BY DEF Tool, NoMoreTools, ToolLimit, ToolReturns, ToolRejected, Search, SearchRefused,
     SearchDenied, SearchFails, SearchReturns, Fetch, FetchRefused, FetchDenied, FetchFails,
     FetchReturns, FetchKnown, FetchUnreadable, ToolRefused, BeforeTool
<1>3. ~ Drain
  BY DEF Drain, AcquireBegins, AcquireFails, DrainEnds, JobRefused, JobRepeated, SectionCalled,
     SectionDenied, SectionUnrecorded, SectionFails, SectionRejected, SectionKnown,
     SectionAdmitted, SectionEntered, Job, Answered
<1>4. ~ ExtractTool
  BY DEF ExtractTool, ExtractSections, ExtractInvalid, ExtractRefused, ExtractCalled,
     ExtractDenied, ExtractUnrecorded, ExtractFails, ExtractReturns, Extract, ToolRefused,
     BeforeTool, Answered
<1>5. ~ (Record \/ Evaluate \/ Finish)
  BY DEF Record, ClaimRefused, ClaimUnsupported, ClaimFails, ClaimAdmitted, ClaimsRecorded,
     NextClaim, Evaluate, EvaluateRefused, EvaluateReturns, EvaluateFails, EvaluateEntered,
     ToolRefused, BeforeTool, Finish, FinishReturns, FinishRaises
<1> QED
  BY <1>1, <1>2, <1>3, <1>4, <1>5 DEF Next

\* Only the evaluation at the end ends a run.
LEMMA FinishEnds ==
  ASSUME CallInv, Next, phase \notin Ended, phase' \in Ended
  PROVE  Finish
<1> USE DEF Ended, Goto
<1>1. ~ Planner
  BY DEF Planner, PlannerCalled, PlannerDenied, PlannerUnrecorded, PlannerFails,
     PlannerAnswers, PlannerStops, Waiting, PlannerLost
<1>2. ~ (Tool \/ Search \/ Fetch)
  BY DEF Tool, NoMoreTools, ToolLimit, ToolReturns, ToolRejected, Search, SearchRefused,
     SearchDenied, SearchFails, SearchReturns, Fetch, FetchRefused, FetchDenied, FetchFails,
     FetchReturns, FetchKnown, FetchUnreadable, ToolRefused
<1>3. ~ Drain
  BY DEF Drain, AcquireBegins, AcquireFails, DrainEnds, JobRefused, JobRepeated, SectionCalled,
     SectionDenied, SectionUnrecorded, SectionFails, SectionRejected, SectionKnown,
     SectionAdmitted, Waiting
<1>4. ~ ExtractTool
  BY DEF ExtractTool, ExtractSections, ExtractInvalid, ExtractRefused, ExtractCalled,
     ExtractDenied, ExtractUnrecorded, ExtractFails, ExtractReturns, ToolRefused, Waiting
<1>5. ~ (Record \/ Evaluate)
  BY DEF Record, ClaimRefused, ClaimUnsupported, ClaimFails, ClaimAdmitted, ClaimsRecorded,
     NextClaim, Evaluate, EvaluateRefused, EvaluateReturns, EvaluateFails, ToolRefused
<1> QED
  BY <1>1, <1>2, <1>3, <1>4, <1>5 DEF Next

LEMMA AccountingInit == Init => AccountingIsReported
  BY DEF Init, AccountingIsReported, Ended

LEMMA AccountingStep ==
  CallInv /\ AccountingIsReported /\ [Next]_vars => AccountingIsReported'
<1> SUFFICES ASSUME CallInv, AccountingIsReported, [Next]_vars PROVE AccountingIsReported'
  OBVIOUS
<1>1. CASE UNCHANGED vars
  BY <1>1 DEF vars, AccountingIsReported
<1>2. CASE Next
  <2>1. CASE phase' \notin Ended
    BY <2>1 DEF AccountingIsReported
  <2>2. CASE phase' \in Ended
    <3>1. Finish
      BY <1>2, <2>2, EndedStays, FinishEnds
    <3>2. PICK events \in 0..(TraceLimit - 1) : trace' = Flushed(events) /\ receipts' = receipts
      BY <3>1 DEF Finish, FinishReturns, FinishRaises
    <3> QED
      BY <3>2, FlushKeepsReceipts DEF AccountingIsReported
  <2> QED
    BY <2>1, <2>2
<1> QED
  BY <1>1, <1>2

-----------------------------------------------------------------------------
(* The counters of a run.                                                   *)

ProgressInv ==
    /\ turns \in 0..MaxTurns /\ tools \in 0..MaxTools /\ steps \in 0..MaxSteps
    /\ {repeats, failures, sources, source, index, base, batch, claims, sections, revision}
           \subseteq Nat

LEMMA ProgressInit == Init => ProgressInv
  BY RunAssumption DEF Init, ProgressInv

LEMMA ProgressStep == CallInv /\ ProgressInv /\ [Next]_vars => ProgressInv'
<1> SUFFICES ASSUME CallInv, ProgressInv, [Next]_vars PROVE ProgressInv'
  OBVIOUS
<1> USE RunAssumption DEF ProgressInv
<1>1. CASE UNCHANGED vars
  BY <1>1 DEF vars
<1>2. CASE Planner
  BY <1>2 DEF Planner, PlannerCalled, PlannerDenied, PlannerUnrecorded, PlannerFails,
     PlannerAnswers, PlannerStops, Turn, PlannerLost
<1>3. CASE Tool
  BY <1>3 DEF Tool, NoMoreTools, ToolLimit, ToolReturns, ToolRejected, BeforeTool, Fail
<1>4. ASSUME NEW repeated, Refused(repeated)
      PROVE  steps' \in 0..MaxSteps /\ repeats' \in Nat /\ failures' = failures
  BY <1>4 DEF Refused, NoProgress
<1>5. ASSUME NEW repeated, ToolRefused(repeated) PROVE ProgressInv'
  BY <1>4, <1>5 DEF ToolRefused, BeforeTool
<1>6. CASE Search
  <2>1. CASE SearchRefused
    BY <1>5, <2>1 DEF SearchRefused
  <2>2. CASE SearchDenied
    BY <2>2 DEF SearchDenied, BeforeTool, Entered, EnteredAndDenied
  <2>3. CASE SearchFails
    BY <2>3 DEF SearchFails, BeforeTool, Entered, EnteredAndFails
  <2>4. CASE SearchReturns
    BY <2>4 DEF SearchReturns, BeforeTool, Entered, EnteredAndServed
  <2> QED
    BY <1>6, <2>1, <2>2, <2>3, <2>4 DEF Search
<1>7. CASE Fetch
  BY <1>5, <1>7 DEF Fetch, FetchRefused, FetchDenied, FetchFails, FetchReturns, FetchKnown,
     FetchUnreadable, BeforeTool, Entered, EnteredAndServed, EnteredAndFails, EnteredAndDenied
<1>8. CASE Drain
  <2>1. CASE AcquireBegins
    BY <2>1 DEF AcquireBegins, CallInv, GuardInv, Kind
  <2>2. CASE AcquireFails \/ DrainEnds
    BY <2>2 DEF AcquireFails, DrainEnds, Fail
  <2>3. CASE JobRefused \/ JobRepeated
    BY <1>4, <2>3 DEF JobRefused, JobRepeated, EnteredAndFails, Entered
  <2>4. CASE SectionCalled \/ SectionDenied \/ SectionUnrecorded
    BY <2>4 DEF SectionCalled, SectionDenied, SectionUnrecorded, SectionEntered, EnteredAndFails,
       Entered
  <2>5. CASE SectionFails \/ SectionRejected \/ SectionKnown
    BY <2>5 DEF SectionFails, SectionRejected, SectionKnown, Fail, NoProgress
  <2>6. CASE SectionAdmitted
    BY <2>6 DEF SectionAdmitted
  <2> QED
    BY <1>8, <2>1, <2>2, <2>3, <2>4, <2>5, <2>6 DEF Drain
<1>9. CASE ExtractTool
  BY <1>5, <1>9 DEF ExtractTool, ExtractSections, ExtractInvalid, ExtractRefused, ExtractCalled,
     ExtractDenied, ExtractUnrecorded, ExtractFails, ExtractReturns, Extract, Fail,
     BeforeTool, Entered, EnteredAndServed, EnteredAndFails, EnteredAndDenied
<1>10. CASE Record
  BY <1>4, <1>10 DEF Record, ClaimRefused, ClaimUnsupported, ClaimFails, ClaimAdmitted,
     ClaimsRecorded, NextClaim, EnteredAndServed, EnteredAndFails, Entered
<1>11. CASE Evaluate
  BY <1>5, <1>11 DEF Evaluate, EvaluateRefused, EvaluateReturns, EvaluateFails, EvaluateEntered,
     BeforeTool
<1>12. CASE Finish
  BY <1>12 DEF Finish, FinishReturns, FinishRaises
<1> QED
  BY <1>1, <1>2, <1>3, <1>6, <1>7, <1>8, <1>9, <1>10, <1>11, <1>12 DEF Next

-----------------------------------------------------------------------------
(* The decision of a run.                                                   *)

VerdictReason == {"HARD_FAIL_CONFIRMED", "SUFFICIENT_CRITICAL_EVIDENCE"}

\* A decision of the current revision was compiled from everything admitted; a
\* run that stops on a verdict, or is done, has one.
DecisionInv ==
    /\ bundleRevision \in Int /\ bundleRevision <= revision
    /\ bundle # None => bundle \in Bundle
    /\ bundleRevision = revision =>
          bundle \in Bundle /\ bundle.claims = claims /\ bundle.sections = sections
    /\ reason \in VerdictReason \/ phase = "DONE" => bundleRevision = revision
    /\ reason = "HARD_FAIL_CONFIRMED" => bundle.verdict = "FAIL"
    /\ reason = "SUFFICIENT_CRITICAL_EVIDENCE" => bundle.verdict = "PASS"

LEMMA DecisionInit == Init => DecisionInv
  BY NoneAssumption DEF Init, DecisionInv, VerdictReason, Reason

\* Everything else leaves the decision and what it was compiled from alone.
LEMMA DecidedElsewhere ==
  ASSUME Next
  PROVE  \/ SectionAdmitted \/ ClaimAdmitted \/ EvaluateReturns \/ FinishReturns
         \/ /\ UNCHANGED <<authority, decision>>
            /\ phase' # "DONE"
            /\ reason' = reason \/ reason' \notin VerdictReason
<1> USE DEF Goto, Stop, VerdictReason
<1>1. CASE Planner
  BY <1>1 DEF Planner, PlannerCalled, PlannerDenied, PlannerUnrecorded, PlannerFails,
     PlannerAnswers, PlannerStops, Turn, PlannerLost, Waiting
<1>2. CASE Tool
  BY <1>2 DEF Tool, NoMoreTools, ToolLimit, ToolReturns, ToolRejected, BeforeTool, Fail
<1>3. ASSUME NEW repeated, Refused(repeated) PROVE reason' = reason \/ reason' \notin VerdictReason
  BY <1>3 DEF Refused, NoProgress
<1>4. CASE Search
  BY <1>3, <1>4 DEF Search, SearchRefused, SearchDenied, SearchFails, SearchReturns, ToolRefused,
     EnteredAndServed, EnteredAndFails, EnteredAndDenied
<1>5. CASE Fetch
  BY <1>3, <1>5 DEF Fetch, FetchRefused, FetchDenied, FetchFails, FetchReturns, FetchKnown,
     FetchUnreadable, ToolRefused, EnteredAndServed, EnteredAndFails, EnteredAndDenied
<1>6. CASE Drain
  <2>1. CASE AcquireBegins \/ AcquireFails \/ DrainEnds
    BY <2>1 DEF AcquireBegins, AcquireFails, DrainEnds, NoJob, Fail
  <2>2. CASE JobRefused \/ JobRepeated
    BY <1>3, <2>2 DEF JobRefused, JobRepeated, EnteredAndFails
  <2>3. CASE SectionCalled \/ SectionDenied \/ SectionUnrecorded
    BY <2>3 DEF SectionCalled, SectionDenied, SectionUnrecorded, SectionEntered, Job, Waiting,
       EnteredAndFails
  <2>4. CASE SectionFails \/ SectionRejected \/ SectionKnown
    BY <2>4 DEF SectionFails, SectionRejected, SectionKnown, Fail, NoProgress
  <2> QED
    BY <1>6, <2>1, <2>2, <2>3, <2>4 DEF Drain
<1>7. CASE ExtractTool
  BY <1>3, <1>7 DEF ExtractTool, ExtractSections, ExtractInvalid, ExtractRefused, ExtractCalled,
     ExtractDenied, ExtractUnrecorded, ExtractFails, ExtractReturns, ToolRefused, Waiting, Fail,
     EnteredAndServed, EnteredAndFails, EnteredAndDenied
<1>8. CASE Record
  BY <1>3, <1>8 DEF Record, ClaimRefused, ClaimUnsupported, ClaimFails, ClaimsRecorded,
     NextClaim, EnteredAndServed, EnteredAndFails
<1>9. CASE Evaluate
  BY <1>3, <1>9 DEF Evaluate, EvaluateRefused, EvaluateFails, ToolRefused
<1>10. CASE Finish
  BY <1>10 DEF Finish, FinishRaises
<1> QED
  BY <1>1, <1>2, <1>4, <1>5, <1>6, <1>7, <1>8, <1>9, <1>10 DEF Next

LEMMA DecisionStep == CallInv /\ ProgressInv /\ DecisionInv /\ [Next]_vars => DecisionInv'
<1> SUFFICES ASSUME CallInv, ProgressInv, DecisionInv, [Next]_vars PROVE DecisionInv'
  OBVIOUS
<1>1. {claims, sections, revision, steps} \subseteq Nat
  BY RunAssumption DEF ProgressInv
<1>2. CASE UNCHANGED vars
  BY <1>2 DEF vars, DecisionInv
<1>3. CASE Next
  <2>1. CASE SectionAdmitted
    <3>1. reason = None /\ claims' = claims /\ sections' = steps /\ revision' = revision + 1
      BY <2>1 DEF SectionAdmitted, Answered, CallInv, InFlight
    <3>2. ~ Current(revision + 1)
      BY <1>1 DEF Current, DecisionInv
    <3>3. PICK v \in Verdict :
            /\ bundle' = [claims |-> claims, sections |-> steps, verdict |-> v]
            /\ bundleRevision' = revision + 1
            /\ reason' = CASE v = "FAIL" -> "HARD_FAIL_CONFIRMED"
                           [] v = "PASS" -> "SUFFICIENT_CRITICAL_EVIDENCE"
                           [] OTHER -> None
      BY <2>1, <3>1, <3>2 DEF SectionAdmitted, Evaluates, Compiles, Compiled, Stop
    <3> QED
      BY <1>1, <3>1, <3>3, NoneAssumption DEF DecisionInv, Bundle, Verdict, Reason
  <2>2. CASE ClaimAdmitted
    <3>1. /\ claims' = claims + 1 /\ sections' = sections /\ revision' = revision + 1
          /\ UNCHANGED decision /\ reason = None /\ reason' = None /\ phase' # "DONE"
      BY <2>2 DEF ClaimAdmitted, NextClaim, EnteredAndServed, Entered
    <3> QED
      BY <1>1, <3>1, NoneAssumption DEF DecisionInv, VerdictReason, Reason
  <2>3. CASE EvaluateReturns \/ FinishReturns
    <3>1. PICK v \in Verdict :
            /\ Compiles(sections, revision, v)
            /\ \/ reason' = reason
               \/ reason = None /\ reason' = "HARD_FAIL_CONFIRMED" /\ v = "FAIL"
               \/ reason = None /\ reason' = "SUFFICIENT_CRITICAL_EVIDENCE" /\ v = "PASS"
               \/ reason = None /\ reason' = "NO_PROGRESS"
      BY <2>3 DEF EvaluateReturns, FinishReturns, Evaluates, Stop
    <3>2. UNCHANGED authority
      BY <2>3 DEF EvaluateReturns, FinishReturns
    <3>3. bundle' \in Bundle /\ bundle'.claims = claims /\ bundle'.sections = sections
          /\ bundle'.verdict = v /\ bundleRevision' = revision
      <4>1. CASE Current(revision)
        BY <3>1, <4>1 DEF Compiles, Current, DecisionInv
      <4>2. CASE ~ Current(revision)
        BY <1>1, <3>1, <4>2 DEF Compiles, Compiled, Bundle
      <4> QED
        BY <4>1, <4>2
    <3>4. reason \in VerdictReason => bundle' = bundle
      BY <3>1, NoneAssumption DEF Compiles, Current, DecisionInv
    <3>5. /\ reason' = "HARD_FAIL_CONFIRMED" => bundle'.verdict = "FAIL"
          /\ reason' = "SUFFICIENT_CRITICAL_EVIDENCE" => bundle'.verdict = "PASS"
      <4>1. CASE reason = None
        BY <3>1, <3>3, <4>1, NoneAssumption DEF Reason
      <4>2. CASE reason # None
        BY <3>1, <3>4, <4>2 DEF DecisionInv, VerdictReason
      <4> QED
        BY <4>1, <4>2
    <3> QED
      BY <1>1, <3>2, <3>3, <3>5 DEF DecisionInv
  <2>4. CASE /\ UNCHANGED <<authority, decision>>
             /\ phase' # "DONE"
             /\ reason' = reason \/ reason' \notin VerdictReason
    BY <2>4 DEF DecisionInv, VerdictReason
  <2> QED
    BY <1>3, <2>1, <2>2, <2>3, <2>4, DecidedElsewhere
<1> QED
  BY <1>2, <1>3

\* Whatever claims and sections a run admitted in whatever order, and however
\* long it was, it reports a decision on all of them and every call it made.
THEOREM ReportsAreTrue == Spec => []ReportIsTrue
<1>1. CallInv /\ AccountingIsReported /\ DecisionInv => ReportIsTrue
  BY DEF ReportIsTrue, DecisionIsCurrent, DecisionInv, VerdictReason
<1> QED
  BY <1>1, CallInvInit, CallInvStep, AccountingInit, AccountingStep, ProgressInit, ProgressStep,
     DecisionInit, DecisionStep, PTL DEF Spec

\* Type correctness; a run plans at most MaxSlots receipts.
THEOREM ResearchTypeCorrect == Spec => []ResearchTypeOK
<1>1. CallInv /\ ProgressInv /\ DecisionInv => ResearchTypeOK
  <2> SUFFICES ASSUME CallInv, ProgressInv, DecisionInv PROVE ResearchTypeOK
    OBVIOUS
  <2>1. Len(receipts) <= MaxSlots
    <3>1. /\ calls["INFERENCE"] <= Limit["INFERENCE"] /\ Limit["INFERENCE"] \in Nat
          /\ Limit["INFERENCE"] < MaxSlots /\ MaxSlots \in Nat
      BY BudgetAssumption DEF CallInv, GuardInv, Kind
    <3> QED
      BY <3>1, LengthsNat DEF CallInv, ReceiptsBounded
  <2>2. call = NoCall \/ (call.slot \in DOMAIN receipts /\ call.reservation \in DOMAIN open)
    BY DEF CallInv, InFlight, LedgerInv
  <2>3. bundle # None => bundle.verdict \in Verdict
    BY DEF DecisionInv, Bundle
  <2> QED
    BY <2>1, <2>2, <2>3 DEF ResearchTypeOK, CallInv, GuardInv, LedgerInv, ProgressInv
<1> QED
  BY <1>1, CallInvInit, CallInvStep, ProgressInit, ProgressStep,
     DecisionInit, DecisionStep, PTL DEF Spec

-----------------------------------------------------------------------------
(* The reason of a run.                                                     *)

OutOfSteps == steps = MaxSteps \/ tools = MaxTools \/ turns = MaxTurns

OutOfBudget ==
    \/ \E k \in Kind : calls[k] = Limit[k]
    \/ \E c \in Costs \cup {SearchPrice} : reserved + c > CostCap

LastReceipt == receipts[Len(receipts)]

OutOfLuck ==
    \/ failures >= FailureBound
    \/ LastReceipt.role = "PLANNING" /\ LastReceipt.state \in {"FAILED", "PLANNED"}

StopInv ==
    /\ reason = "MAX_STEPS" => OutOfSteps
    /\ reason = "BUDGET_EXHAUSTED" => OutOfBudget
    /\ reason = "TOOL_FAILURE_BOUND_REACHED" => OutOfLuck

LEMMA StopInit == Init => StopInv
  BY NoneAssumption DEF Init, StopInv, Reason

\* The guard denies a call at the limit of its kind, or for its cost.
LEMMA DenialIsGrounded ==
  ASSUME GuardInv, NEW kind \in Kind, NEW c \in Costs \cup {SearchPrice, 0},
         ~ Allowed(kind, c), UNCHANGED guard
  PROVE  OutOfBudget'
<1>1. Limit \in [Kind -> Nat] /\ calls[kind] \in Nat /\ calls[kind] <= Limit[kind]
      /\ reserved \in Nat /\ CostCap \in Nat /\ reserved <= CostCap /\ c \in Nat
  BY BudgetAssumption, RunAssumption DEF GuardInv
<1>2. CASE calls[kind] < Limit[kind]
  <2>1. reserved + c > CostCap /\ c # 0
    BY <1>1, <1>2 DEF Allowed
  <2> QED
    BY <2>1 DEF OutOfBudget
<1>3. CASE ~ (calls[kind] < Limit[kind])
  <2>1. calls[kind] = Limit[kind]
    BY <1>1, <1>3
  <2> QED
    BY <2>1 DEF OutOfBudget
<1> QED
  BY <1>2, <1>3

\* A refusal that stops the run was out of steps, or made no progress.
LEMMA RefusalIsGrounded ==
  ASSUME ProgressInv, NEW repeated, Refused(repeated), reason' # reason
  PROVE  reason' = "NO_PROGRESS" \/ (reason' = "MAX_STEPS" /\ OutOfSteps')
  BY RunAssumption DEF Refused, NoProgress, Stop, ProgressInv, OutOfSteps

LEMMA FailureIsGrounded ==
  ASSUME ProgressInv, failures' = failures + 1, reason' # reason,
         IF failures + 1 >= FailureBound THEN Stop("TOOL_FAILURE_BOUND_REACHED")
                                         ELSE UNCHANGED reason
  PROVE  reason' = "TOOL_FAILURE_BOUND_REACHED" /\ OutOfLuck'
  BY DEF Stop, OutOfLuck

\* Why the run stops, in the step in which it does.
LEMMA StopIsGrounded ==
  ASSUME CallInv, ProgressInv, reason = None, reason' # None, Next
  PROVE  \/ reason' \in VerdictReason \cup {"NO_PROGRESS"}
         \/ reason' = "MAX_STEPS" /\ OutOfSteps'
         \/ reason' = "BUDGET_EXHAUSTED" /\ OutOfBudget'
         \/ reason' = "TOOL_FAILURE_BOUND_REACHED" /\ OutOfLuck'
<1> USE DEF Stop, VerdictReason
<1>1. CASE Planner
  <2>1. CASE PlannerCalled \/ PlannerAnswers
    BY <2>1 DEF PlannerCalled, PlannerAnswers
  <2>2. CASE PlannerDenied
    BY <2>2, DenialIsGrounded DEF PlannerDenied, CallDenied, CallInv, Kind
  <2>3. CASE PlannerUnrecorded
    <3>1. receipts'[Len(receipts')].role = "PLANNING" /\ receipts'[Len(receipts')].state = "PLANNED"
      BY <2>3, UnrecordedCall, RunAssumption DEF PlannerUnrecorded, CallInv
    <3> QED
      BY <2>3, <3>1 DEF PlannerUnrecorded, PlannerLost, OutOfLuck, LastReceipt
  <2>4. CASE PlannerFails
    <3>1. /\ call.slot = Len(receipts) /\ call.slot \in 1..Len(receipts)
          /\ receipts[call.slot].role = "PLANNING"
      BY <2>4 DEF PlannerFails, Answered, CallInv, InFlight, LedgerInv
    <3>2. /\ Len(receipts') = call.slot
          /\ receipts'[call.slot].role = "PLANNING" /\ receipts'[call.slot].state = "FAILED"
      BY <2>4, <3>1, FailedCall DEF PlannerFails, CallInv
    <3> QED
      BY <2>4, <3>2 DEF PlannerFails, PlannerLost, OutOfLuck, LastReceipt
  <2>5. CASE PlannerStops
    BY <2>5, RunAssumption DEF PlannerStops, ProgressInv, OutOfSteps
  <2> QED
    BY <1>1, <2>1, <2>2, <2>3, <2>4, <2>5 DEF Planner
<1>2. CASE Tool
  <2>1. CASE NoMoreTools
    BY <2>1 DEF NoMoreTools
  <2>2. CASE ToolLimit
    BY <2>2, RunAssumption DEF ToolLimit, ProgressInv, OutOfSteps
  <2>3. CASE ToolReturns \/ ToolRejected
    BY <2>3, FailureIsGrounded DEF ToolReturns, ToolRejected, Fail
  <2> QED
    BY <1>2, <2>1, <2>2, <2>3 DEF Tool
<1>3. ASSUME NEW repeated, ToolRefused(repeated)
      PROVE  reason' = "NO_PROGRESS" \/ (reason' = "MAX_STEPS" /\ OutOfSteps')
  BY <1>3, RefusalIsGrounded DEF ToolRefused
<1>4. CASE Search
  <2>1. CASE SearchRefused
    BY <1>3, <2>1 DEF SearchRefused
  <2>2. CASE SearchDenied
    BY <2>2, DenialIsGrounded DEF SearchDenied, EnteredAndDenied, CallInv, Kind
  <2>3. CASE SearchFails
    BY <2>3, FailureIsGrounded DEF SearchFails, EnteredAndFails
  <2>4. CASE SearchReturns
    BY <2>4 DEF SearchReturns, EnteredAndServed
  <2> QED
    BY <1>4, <2>1, <2>2, <2>3, <2>4 DEF Search
<1>5. CASE Fetch
  <2>1. CASE FetchRefused
    BY <1>3, <2>1 DEF FetchRefused
  <2>2. CASE FetchDenied
    BY <2>2, DenialIsGrounded DEF FetchDenied, EnteredAndDenied, CallInv, Kind
  <2>3. CASE FetchFails \/ FetchUnreadable
    BY <2>3, FailureIsGrounded DEF FetchFails, FetchUnreadable, EnteredAndFails
  <2>4. CASE FetchReturns \/ FetchKnown
    BY <2>4 DEF FetchReturns, FetchKnown, EnteredAndServed
  <2> QED
    BY <1>5, <2>1, <2>2, <2>3, <2>4 DEF Fetch
<1>6. CASE Drain
  <2>1. CASE AcquireBegins
    BY <2>1 DEF AcquireBegins
  <2>2. CASE AcquireFails \/ SectionFails \/ SectionRejected
    BY <2>2, FailureIsGrounded DEF AcquireFails, SectionFails, SectionRejected, Fail
  <2>3. CASE DrainEnds
    <3>1. UNCHANGED <<calls, steps>>
      BY <2>3 DEF DrainEnds
    <3>2. NoJob = "MAX_STEPS" => steps' = MaxSteps
      BY <3>1, RunAssumption DEF NoJob, ProgressInv
    <3>3. NoJob = "BUDGET_EXHAUSTED" => calls'["INFERENCE"] = Limit["INFERENCE"]
      BY <3>1, BudgetAssumption DEF NoJob, BudgetSpent, CallInv, GuardInv, Kind
    <3>4. NoJob \in {"MAX_STEPS", "BUDGET_EXHAUSTED", "NO_PROGRESS"}
      BY DEF NoJob
    <3> QED
      BY <2>3, <3>2, <3>3, <3>4 DEF DrainEnds, OutOfSteps, OutOfBudget, Kind
  <2>4. CASE JobRefused \/ SectionUnrecorded
    BY <2>4, FailureIsGrounded DEF JobRefused, SectionUnrecorded, EnteredAndFails
  <2>5. CASE JobRepeated
    BY <2>5, RefusalIsGrounded DEF JobRepeated
  <2>6. CASE SectionCalled
    BY <2>6 DEF SectionCalled
  <2>7. CASE SectionDenied
    BY <2>7, DenialIsGrounded DEF SectionDenied, CallDenied, CallInv, Kind
  <2>8. CASE SectionKnown
    BY <2>8 DEF SectionKnown, NoProgress
  <2>9. CASE SectionAdmitted
    BY <2>9 DEF SectionAdmitted, Evaluates, Verdict
  <2> QED
    BY <1>6, <2>1, <2>2, <2>3, <2>4, <2>5, <2>6, <2>7, <2>8, <2>9 DEF Drain
<1>7. CASE ExtractTool
  <2>1. CASE ExtractSections \/ ExtractInvalid \/ ExtractUnrecorded \/ ExtractFails
    BY <2>1, FailureIsGrounded DEF ExtractSections, ExtractInvalid, ExtractUnrecorded, ExtractFails,
       Fail, EnteredAndFails
  <2>2. CASE ExtractRefused
    BY <1>3, <2>2 DEF ExtractRefused
  <2>3. CASE ExtractCalled \/ ExtractReturns
    BY <2>3 DEF ExtractCalled, ExtractReturns, EnteredAndServed
  <2>4. CASE ExtractDenied
    BY <2>4, DenialIsGrounded DEF ExtractDenied, EnteredAndDenied, CallDenied, CallInv, Kind
  <2> QED
    BY <1>7, <2>1, <2>2, <2>3, <2>4 DEF ExtractTool
<1>8. CASE Record
  <2>1. CASE ClaimRefused
    BY <2>1, RefusalIsGrounded DEF ClaimRefused
  <2>2. CASE ClaimUnsupported \/ ClaimAdmitted \/ ClaimsRecorded
    BY <2>2 DEF ClaimUnsupported, ClaimAdmitted, ClaimsRecorded, EnteredAndServed
  <2>3. CASE ClaimFails
    BY <2>3, FailureIsGrounded DEF ClaimFails, EnteredAndFails
  <2> QED
    BY <1>8, <2>1, <2>2, <2>3 DEF Record
<1>9. CASE Evaluate
  <2>1. CASE EvaluateRefused
    BY <1>3, <2>1 DEF EvaluateRefused
  <2>2. CASE EvaluateReturns
    BY <2>2 DEF EvaluateReturns, Evaluates, Verdict
  <2>3. CASE EvaluateFails
    BY <2>3, FailureIsGrounded DEF EvaluateFails
  <2> QED
    BY <1>9, <2>1, <2>2, <2>3 DEF Evaluate
<1>10. CASE Finish
  BY <1>10 DEF Finish, FinishReturns, FinishRaises
<1> QED
  BY <1>1, <1>2, <1>4, <1>5, <1>6, <1>7, <1>8, <1>9, <1>10 DEF Next

LEMMA StopStep == CallInv /\ ProgressInv /\ StopInv /\ [Next]_vars => StopInv'
<1> SUFFICES ASSUME CallInv, ProgressInv, StopInv, [Next]_vars PROVE StopInv'
  OBVIOUS
<1>1. CASE reason # None
  <2>1. /\ UNCHANGED <<calls, reserved, receipts, reason, turns, tools, steps>>
        /\ failures' \in {failures, failures + 1}
    BY <1>1, AfterStop
  <2>2. failures \in Nat /\ FailureBound \in Nat
    BY RunAssumption DEF ProgressInv
  <2>3. failures >= FailureBound => failures' >= FailureBound
    BY <2>1, <2>2
  <2> QED
    BY <2>1, <2>3 DEF StopInv, OutOfSteps, OutOfBudget, OutOfLuck, LastReceipt
<1>2. CASE reason = None /\ Next
  <2>1. CASE reason' = None
    BY <2>1, NoneAssumption DEF StopInv, Reason
  <2>2. CASE reason' # None
    BY <1>2, <2>2, StopIsGrounded DEF StopInv, VerdictReason
  <2> QED
    BY <2>1, <2>2
<1>3. CASE UNCHANGED vars
  BY <1>3 DEF vars, StopInv, OutOfSteps, OutOfBudget, OutOfLuck, LastReceipt
<1> QED
  BY <1>1, <1>2, <1>3

\* The first reason is a true one, and stays true: no later failure, denial or
\* repetition replaces it, whatever the limits and prices.
THEOREM StopsAreGrounded == Spec => []StopsForItsReason
<1>1. StopInv => StopsForItsReason
  BY DEF StopInv, StopsForItsReason, OutOfSteps, OutOfBudget, OutOfLuck, LastReceipt
<1> QED
  BY <1>1, CallInvInit, CallInvStep, ProgressInit, ProgressStep, StopInit, StopStep,
     PTL DEF Spec

-----------------------------------------------------------------------------
(* The account of a run.                                                    *)

Price(kind) == IF kind = "SEARCH" THEN SearchPrice ELSE 0

\* What a step may do to the budget while the run goes on.
Quiet ==
    /\ UNCHANGED budget
    /\ phase # "WAIT" /\ phase' # "WAIT"

Bought ==
    /\ \E kind \in {"SEARCH", "FETCH"} :
           Reserve(kind, Price(kind)) \/ Purchase(kind, Price(kind))
    /\ UNCHANGED ledger
    /\ phase # "WAIT" /\ phase' # "WAIT"

Denied ==
    /\ \E role \in {"PLANNING", "EXTRACTION"}, cost \in Costs : CallDenied(role, cost)
    /\ reason' = "BUDGET_EXHAUSTED"
    /\ phase # "WAIT" /\ phase' # "WAIT"

Unanswerable ==
    /\ \E role \in {"PLANNING", "EXTRACTION"}, cost \in Costs : CallUnrecorded(role, cost)
    /\ phase # "WAIT" /\ phase' # "WAIT"

Calling ==
    /\ \E role \in {"PLANNING", "EXTRACTION"}, cost \in Costs,
          from \in {"PLANNER", "SECTION", "EXTRACT"} :
              CallDispatched(role, cost) /\ Waiting(from, cost)
    /\ reason' = reason /\ phase # "WAIT"

Settling ==
    /\ \/ CallFails(call.slot)
       \/ \E actual \in Actuals, state \in {"COMPLETED", "FAILED"} :
              CallReturns(call.slot, call.reservation, actual, state)
    /\ phase = "WAIT" /\ phase' # "WAIT"

Spending == Quiet \/ Bought \/ Denied \/ Unanswerable \/ Calling \/ Settling

LEMMA ToolsSpend ==
  ASSUME reason = None, Tool \/ Search \/ Fetch
  PROVE  Spending
<1> USE DEF Spending, Goto, BeforeTool
<1>1. CASE Tool
  BY <1>1 DEF Tool, NoMoreTools, ToolLimit, ToolReturns, ToolRejected, Quiet
<1>2. CASE SearchRefused \/ SearchDenied \/ FetchRefused \/ FetchDenied \/ FetchKnown
  BY <1>2 DEF SearchRefused, SearchDenied, FetchRefused, FetchDenied, FetchKnown, ToolRefused,
     Quiet
<1>3. CASE SearchFails \/ SearchReturns
  BY <1>3 DEF SearchFails, SearchReturns, Quiet, Bought, Price
<1>4. CASE FetchFails \/ FetchReturns \/ FetchUnreadable
  BY <1>4 DEF FetchFails, FetchReturns, FetchUnreadable, Quiet, Bought, Price
<1> QED
  BY <1>1, <1>2, <1>3, <1>4 DEF Search, Fetch

LEMMA PlannerSpends ==
  ASSUME CallInv, reason = None, Planner
  PROVE  Spending
<1> USE DEF Spending, Goto, Stop, PlannerLost, Turn
<1>1. CASE PlannerCalled
  BY <1>1 DEF PlannerCalled, Calling
<1>2. CASE PlannerDenied
  BY <1>2 DEF PlannerDenied, Denied
<1>3. CASE PlannerUnrecorded
  BY <1>3 DEF PlannerUnrecorded, Unanswerable
<1>4. CASE PlannerFails \/ PlannerAnswers
  BY <1>4 DEF PlannerFails, PlannerAnswers, Answered, Settling
<1>5. CASE PlannerStops
  BY <1>5 DEF PlannerStops, Quiet
<1> QED
  BY <1>1, <1>2, <1>3, <1>4, <1>5 DEF Planner

LEMMA DrainSpends ==
  ASSUME CallInv, reason = None, Drain
  PROVE  Spending
<1> USE DEF Spending, Goto, Stop, Job, SectionEntered
<1>1. CASE AcquireBegins \/ AcquireFails \/ DrainEnds \/ JobRefused \/ JobRepeated
  BY <1>1 DEF AcquireBegins, AcquireFails, DrainEnds, JobRefused, JobRepeated, Quiet
<1>2. CASE SectionCalled
  BY <1>2 DEF SectionCalled, Calling
<1>3. CASE SectionDenied
  BY <1>3 DEF SectionDenied, Denied
<1>4. CASE SectionUnrecorded
  BY <1>4 DEF SectionUnrecorded, Unanswerable
<1>5. CASE SectionFails \/ SectionRejected \/ SectionKnown \/ SectionAdmitted
  BY <1>5 DEF SectionFails, SectionRejected, SectionKnown, SectionAdmitted, Answered, Settling
<1> QED
  BY <1>1, <1>2, <1>3, <1>4, <1>5 DEF Drain

LEMMA ExtractSpends ==
  ASSUME CallInv, reason = None, ExtractTool
  PROVE  Spending
<1> USE DEF Spending, Goto, Stop, BeforeTool, Extract
<1>1. CASE ExtractSections \/ ExtractInvalid \/ ExtractRefused
  BY <1>1 DEF ExtractSections, ExtractInvalid, ExtractRefused, ToolRefused, Quiet
<1>2. CASE ExtractCalled
  BY <1>2 DEF ExtractCalled, EnteredAndServed, Calling
<1>3. CASE ExtractDenied
  BY <1>3 DEF ExtractDenied, EnteredAndDenied, Denied
<1>4. CASE ExtractUnrecorded
  BY <1>4 DEF ExtractUnrecorded, Unanswerable
<1>5. CASE ExtractFails \/ ExtractReturns
  BY <1>5 DEF ExtractFails, ExtractReturns, Answered, Settling
<1> QED
  BY <1>1, <1>2, <1>3, <1>4, <1>5 DEF ExtractTool

LEMMA OthersSpendNothing ==
  ASSUME Record \/ Evaluate \/ Finish
  PROVE  Quiet
<1> USE DEF Goto, BeforeTool, NextClaim, Quiet
<1>1. CASE Record
  BY <1>1 DEF Record, ClaimRefused, ClaimUnsupported, ClaimFails, ClaimAdmitted, ClaimsRecorded
<1>2. CASE Evaluate \/ Finish
  BY <1>2 DEF Evaluate, EvaluateRefused, EvaluateReturns, EvaluateFails, EvaluateEntered,
     ToolRefused, Finish, FinishReturns, FinishRaises
<1> QED
  BY <1>1, <1>2

LEMMA EveryStepSpends ==
  ASSUME CallInv, reason = None, Next
  PROVE  Spending
  BY ToolsSpend, PlannerSpends, DrainSpends, ExtractSpends, OthersSpendNothing DEF Next, Spending

\* What the receipts of the ledger say of their calls, one by one and in order.
Dispatchable == {"DISPATCHED", "COMPLETED", "FAILED"}
Undispatched == {"PLANNED", "BUDGET_BLOCKED"}

OneReceiptOK(r) ==
    IF r.index = None
    THEN r.state \in Undispatched /\ r.cost = None /\ r.reconciled = None
    ELSE /\ r.state \in Dispatchable /\ r.cost # None
         /\ r.index <= dispatched
         /\ r.state = "DISPATCHED" => r.reconciled = None

ReceiptsInv ==
    /\ \A i \in DOMAIN receipts : OneReceiptOK(receipts[i])
    /\ \A i, j \in DOMAIN receipts :
           Made(i) /\ Made(j) /\ i < j => receipts[i].index < receipts[j].index
    /\ \A i \in DOMAIN receipts : receipts[i].state = "DISPATCHED" <=> i = call.slot
    /\ \A i \in DOMAIN receipts : receipts[i].state = "BUDGET_BLOCKED" =>
           i = Len(receipts) /\ reason = "BUDGET_EXHAUSTED"
    /\ dispatched <= calls["INFERENCE"]
    /\ phase = "WAIT" => receipts[call.slot].cost = call.cost /\ call.cost <= MaxModelCost

\* Reservations are numbered afresh, so that none replaces another.
ReservationsInv == IsFiniteSet(DOMAIN open) /\ \A n \in DOMAIN open : n < NextReservation

MadeSlots == {i \in DOMAIN receipts : Made(i)}
PlannedSlots == {i \in DOMAIN receipts : receipts[i].state = "PLANNED"}

CountInv ==
    /\ calls["INFERENCE"] = Cardinality(MadeSlots) + Cardinality(PlannedSlots)
    /\ Cardinality(PlannedSlots) = Cardinality(Unrecorded)

Charges == [i \in DOMAIN receipts |-> Charged(receipts[i])]
Lost == [n \in Unrecorded |-> open[n]]

SumInv ==
    reserved = SumFunction(Charges) + SearchPrice * calls["SEARCH"] + SumFunction(Lost)

AccountInv == ReceiptsInv /\ ReservationsInv /\ CountInv /\ SumInv

LEMMA AccountInit == Init => AccountInv
<1> SUFFICES ASSUME Init PROVE AccountInv
  OBVIOUS
<1> USE DEF Init, BudgetInit
<1>1. ReceiptsInv
  BY DEF ReceiptsInv, Kind
<1>2. ReservationsInv
  BY FS_EmptySet DEF ReservationsInv
<1>3. MadeSlots = {} /\ PlannedSlots = {} /\ Unrecorded = {}
  BY DEF MadeSlots, PlannedSlots, Unrecorded
<1>4. CountInv
  BY <1>3, FS_EmptySet DEF CountInv, Kind
<1>5. SumFunction(Charges) = 0 /\ SumFunction(Lost) = 0
  BY <1>3, SumEmpty DEF Charges, Lost
<1>6. SumInv
  BY <1>5, BudgetAssumption DEF SumInv, Kind
<1> QED
  BY <1>1, <1>2, <1>4, <1>6 DEF AccountInv

LEMMA ChargesAreNumbers ==
  ASSUME NEW rs \in Seq(Receipt)
  PROVE  [i \in DOMAIN rs |-> Charged(rs[i])] \in [DOMAIN rs -> Nat]
<1>1. \A r \in Receipt : Charged(r) \in Nat
  BY DEF Charged, Receipt
<1> QED
  BY <1>1

LEMMA ChargesType ==
  ASSUME LedgerInv
  PROVE  /\ IsFiniteSet(DOMAIN receipts) /\ DOMAIN receipts = 1..Len(receipts)
         /\ Len(receipts) \in Nat
         /\ Charges \in [DOMAIN receipts -> Nat] /\ SumFunction(Charges) \in Nat
         /\ \A r \in Receipt : Charged(r) \in Nat
         /\ IsFiniteSet(MadeSlots) /\ IsFiniteSet(PlannedSlots)
         /\ Cardinality(MadeSlots) \in Nat /\ Cardinality(PlannedSlots) \in Nat
<1>1. DOMAIN receipts = 1..Len(receipts) /\ Len(receipts) \in Nat
  BY DEF LedgerInv
<1>2. IsFiniteSet(DOMAIN receipts)
  BY <1>1, FS_Interval
<1>3. \A r \in Receipt : Charged(r) \in Nat
  BY DEF Charged, Receipt
<1>4. Charges \in [DOMAIN receipts -> Nat]
  BY <1>3 DEF Charges, LedgerInv
<1>5. SumFunction(Charges) \in Nat
  BY <1>2, <1>4, SumIsNat
<1>6. MadeSlots \in SUBSET DOMAIN receipts /\ PlannedSlots \in SUBSET DOMAIN receipts
  BY DEF MadeSlots, PlannedSlots
<1> QED
  BY <1>1, <1>2, <1>3, <1>4, <1>5, <1>6, FS_Subset, FS_CardinalityType

LEMMA LostType ==
  ASSUME GuardInv, ReservationsInv
  PROVE  /\ IsFiniteSet(Unrecorded) /\ Cardinality(Unrecorded) \in Nat
         /\ Lost \in [Unrecorded -> Nat] /\ SumFunction(Lost) \in Nat
         /\ NextReservation \in Nat /\ NextReservation \notin DOMAIN open
<1>1. Unrecorded \in SUBSET DOMAIN open
  BY DEF Unrecorded
<1>2. IsFiniteSet(Unrecorded) /\ Cardinality(Unrecorded) \in Nat
  BY <1>1, FS_Subset, FS_CardinalityType DEF ReservationsInv
<1>3. Lost \in [Unrecorded -> Nat]
  BY DEF Lost, Unrecorded, GuardInv
<1>4. NextReservation \in Nat
  BY DEF NextReservation, GuardInv, Kind
<1>5. NextReservation \notin DOMAIN open
  BY <1>4 DEF ReservationsInv
<1> QED
  BY <1>2, <1>3, <1>4, <1>5, SumIsNat

\* A receipt more.
LEMMA AppendedReceipt ==
  ASSUME LedgerInv, LedgerInv', NEW r \in Receipt, receipts' = Append(receipts, r)
  PROVE  /\ SumFunction(Charges') = SumFunction(Charges) + Charged(r)
         /\ Cardinality(MadeSlots') = Cardinality(MadeSlots) + (IF r.index # None THEN 1 ELSE 0)
         /\ Cardinality(PlannedSlots') =
                Cardinality(PlannedSlots) + (IF r.state = "PLANNED" THEN 1 ELSE 0)
         /\ DOMAIN receipts' = DOMAIN receipts \cup {Len(receipts) + 1}
         /\ Len(receipts) + 1 \notin DOMAIN receipts
         /\ \A i \in DOMAIN receipts : receipts'[i] = receipts[i]
         /\ receipts'[Len(receipts) + 1] = r
<1> DEFINE n == Len(receipts) + 1
<1>1. /\ DOMAIN receipts = 1..Len(receipts) /\ Len(receipts) \in Nat
      /\ DOMAIN receipts' = 1..n
      /\ \A i \in DOMAIN receipts : receipts'[i] = receipts[i]
      /\ receipts'[n] = r
  BY AppendProperties DEF LedgerInv
<1>2. DOMAIN receipts' = DOMAIN receipts \cup {n} /\ n \notin DOMAIN receipts
  BY <1>1
<1> HIDE DEF n
<1>3. /\ IsFiniteSet(DOMAIN receipts) /\ Charges \in [DOMAIN receipts -> Nat]
      /\ IsFiniteSet(MadeSlots) /\ IsFiniteSet(PlannedSlots)
      /\ Charges' \in [DOMAIN receipts' -> Nat]
  BY ChargesType, ChargesAreNumbers DEF Charges, LedgerInv
<1>4. Charges' \in [DOMAIN receipts \cup {n} -> Nat]
  BY <1>2, <1>3
<1>5. (\A i \in DOMAIN receipts : Charges'[i] = Charges[i]) /\ Charges'[n] = Charged(r)
  BY <1>1, <1>2 DEF Charges
<1>6. SumFunction(Charges') = SumFunction(Charges) + Charged(r)
  <2>1. SumFunction(Charges') = SumFunction(Charges) + Charges'[n]
    <3>1. Extends(Charges', Charges, DOMAIN receipts, n)
      BY <1>2, <1>3, <1>4, <1>5 DEF Extends
    <3> QED
      BY <3>1, SumExtend
  <2> QED
    BY <1>5, <2>1
<1>7. MadeSlots' = IF r.index # None THEN MadeSlots \cup {n} ELSE MadeSlots
  BY <1>1, <1>2 DEF MadeSlots, Made
<1>8. PlannedSlots' = IF r.state = "PLANNED" THEN PlannedSlots \cup {n} ELSE PlannedSlots
  BY <1>1, <1>2 DEF PlannedSlots
<1>9. n \notin MadeSlots /\ n \notin PlannedSlots
  BY <1>2 DEF MadeSlots, PlannedSlots
<1>10. Cardinality(MadeSlots) \in Nat /\ Cardinality(PlannedSlots) \in Nat
  BY ChargesType
<1>11. /\ Cardinality(MadeSlots \cup {n}) = Cardinality(MadeSlots) + 1
       /\ Cardinality(PlannedSlots \cup {n}) = Cardinality(PlannedSlots) + 1
  BY <1>3, <1>9, FS_AddElement
<1> QED
  BY <1>1, <1>2, <1>6, <1>7, <1>8, <1>10, <1>11 DEF n

\* A receipt that changes, and was and is neither planned nor without its index.
LEMMA ChangedReceipt ==
  ASSUME LedgerInv, LedgerInv', NEW i \in DOMAIN receipts, NEW r \in Receipt,
         receipts' = [receipts EXCEPT ![i] = r],
         r.index = receipts[i].index, receipts[i].state # "PLANNED", r.state # "PLANNED"
  PROVE  /\ SumFunction(Charges') =
                SumFunction(Charges) - Charged(receipts[i]) + Charged(r)
         /\ MadeSlots' = MadeSlots /\ PlannedSlots' = PlannedSlots
         /\ DOMAIN receipts' = DOMAIN receipts /\ receipts'[i] = r
         /\ \A j \in DOMAIN receipts \ {i} : receipts'[j] = receipts[j]
<1>1. /\ DOMAIN receipts' = DOMAIN receipts /\ receipts'[i] = r
      /\ \A j \in DOMAIN receipts \ {i} : receipts'[j] = receipts[j]
  BY DEF LedgerInv
<1>2. /\ IsFiniteSet(DOMAIN receipts) /\ Charges \in [DOMAIN receipts -> Nat]
      /\ Charges' \in [DOMAIN receipts -> Nat]
  BY <1>1, ChargesType, ChargesAreNumbers DEF Charges, LedgerInv
<1>3. /\ \A j \in DOMAIN receipts \ {i} : Charges'[j] = Charges[j]
      /\ Charges[i] = Charged(receipts[i]) /\ Charges'[i] = Charged(r)
  BY <1>1 DEF Charges
<1>4. SumFunction(Charges') = SumFunction(Charges) - Charges[i] + Charges'[i]
  BY <1>2, <1>3, SumUpdate
<1>5. MadeSlots' = MadeSlots
  BY <1>1 DEF MadeSlots, Made
<1>6. PlannedSlots' = PlannedSlots
  BY <1>1 DEF PlannedSlots
<1> QED
  BY <1>1, <1>3, <1>4, <1>5, <1>6

\* A reservation more is one that can be recorded, or a loss.
LEMMA ReservedLoss ==
  ASSUME GuardInv, ReservationsInv, NEW kind \in Kind, NEW cost \in Nat, Reserve(kind, cost)
  PROVE  /\ ReservationsInv'
         /\ SumFunction(Lost') = SumFunction(Lost) + (IF cost > MaxModelCost THEN cost ELSE 0)
         /\ Cardinality(Unrecorded') =
                Cardinality(Unrecorded) + (IF cost > MaxModelCost THEN 1 ELSE 0)
<1> DEFINE n == NextReservation
<1>1. n \in Nat /\ n \notin DOMAIN open /\ MaxModelCost \in Nat
  BY LostType, BudgetAssumption
<1>2. NextReservation' = n + 1
  <2>1. calls' = [calls EXCEPT ![kind] = @ + 1] /\ calls \in [Kind -> Nat]
    BY DEF Reserve, GuardInv
  <2> QED
    BY <2>1 DEF NextReservation, Kind
<1>3. open' = [m \in DOMAIN open \cup {n} |-> IF m = n THEN cost ELSE open[m]]
  BY DEF Reserve
<1>4. IsFiniteSet(Unrecorded) /\ Cardinality(Unrecorded) \in Nat /\ SumFunction(Lost) \in Nat
      /\ Lost \in [Unrecorded -> Nat] /\ n \notin Unrecorded
  BY <1>1, LostType DEF Unrecorded
<1> HIDE DEF n
<1>5. ReservationsInv'
  <2>1. IsFiniteSet(DOMAIN open')
    BY <1>1, <1>3, FS_AddElement DEF ReservationsInv
  <2>2. \A m \in DOMAIN open' : m < n + 1
    BY <1>1, <1>3 DEF ReservationsInv, n, GuardInv
  <2> QED
    BY <1>2, <2>1, <2>2 DEF ReservationsInv
<1>6. CASE cost > MaxModelCost
  <2>1. Unrecorded' = Unrecorded \cup {n}
    BY <1>1, <1>3, <1>6 DEF Unrecorded
  <2>2. Lost' \in [Unrecorded \cup {n} -> Nat] /\ Lost'[n] = cost
        /\ \A m \in Unrecorded : Lost'[m] = Lost[m]
    BY <1>3, <1>4, <2>1 DEF Lost, Unrecorded, GuardInv
  <2>3. SumFunction(Lost') = SumFunction(Lost) + cost
    <3>1. Extends(Lost', Lost, Unrecorded, n)
      BY <1>4, <2>2 DEF Extends
    <3>2. SumFunction(Lost') = SumFunction(Lost) + Lost'[n]
      BY <3>1, SumExtend
    <3> QED
      BY <2>2, <3>2
  <2>4. Cardinality(Unrecorded') = Cardinality(Unrecorded) + 1
    BY <1>4, <2>1, FS_AddElement
  <2> QED
    BY <1>5, <1>6, <2>3, <2>4
<1>7. CASE ~ (cost > MaxModelCost)
  <2>1. Unrecorded' = Unrecorded
    BY <1>1, <1>3, <1>7 DEF Unrecorded
  <2>2. Lost' = Lost
    BY <1>1, <1>3, <2>1 DEF Lost, Unrecorded
  <2> QED
    BY <1>4, <1>5, <1>7, <2>1, <2>2
<1> QED
  BY <1>6, <1>7

\* A purchase leaves no reservation open.
LEMMA PurchasedLoss ==
  ASSUME GuardInv, ReservationsInv, NEW kind \in Kind, NEW cost \in Nat, Purchase(kind, cost)
  PROVE  ReservationsInv' /\ Unrecorded' = Unrecorded /\ Lost' = Lost
<1>1. open' = open
  BY DEF Purchase
<1>2. NextReservation' = NextReservation + 1 /\ NextReservation \in Nat
  <2>1. calls' = [calls EXCEPT ![kind] = @ + 1] /\ calls \in [Kind -> Nat]
    BY DEF Purchase, GuardInv
  <2> QED
    BY <2>1 DEF NextReservation, Kind
<1>3. \A m \in DOMAIN open : m < NextReservation' 
  BY <1>2 DEF ReservationsInv, GuardInv
<1> QED
  BY <1>1, <1>3 DEF ReservationsInv, Unrecorded, Lost

\* A reservation that was recorded is no loss when it is reconciled.
LEMMA ReconciledLoss ==
  ASSUME GuardInv, ReservationsInv, NEW n \in DOMAIN open, open[n] <= MaxModelCost,
         Closing(n), UNCHANGED calls
  PROVE  ReservationsInv' /\ Unrecorded' = Unrecorded /\ Lost' = Lost
<1>1. open' = [m \in DOMAIN open \ {n} |-> open[m]]
  BY DEF Closing
<1>2. IsFiniteSet(DOMAIN open') /\ NextReservation' = NextReservation
  BY <1>1, FS_RemoveElement DEF ReservationsInv, NextReservation
<1>3. n \notin Unrecorded
  BY BudgetAssumption DEF Unrecorded, GuardInv
<1>4. Unrecorded' = Unrecorded
  BY <1>1, <1>3 DEF Unrecorded
<1>5. Lost' = Lost
  BY <1>1, <1>3, <1>4 DEF Lost, Unrecorded
<1> QED
  BY <1>1, <1>2, <1>4, <1>5 DEF ReservationsInv

\* A receipt more, whose call was denied, lost or dispatched.
LEMMA LedgerGrows ==
  ASSUME CallInv, CallInv', ReceiptsInv, phase # "WAIT", reason = None,
         NEW r \in Receipt, receipts' = Append(receipts, r),
         dispatched' >= dispatched, dispatched' <= calls'["INFERENCE"],
         IF r.index = None
         THEN r.state \in Undispatched /\ r.cost = None /\ r.reconciled = None
         ELSE /\ r.state \in Dispatchable /\ r.cost # None /\ r.index = dispatched + 1
              /\ r.index <= dispatched'
              /\ r.state = "DISPATCHED" => r.reconciled = None,
         r.state = "BUDGET_BLOCKED" => reason' = "BUDGET_EXHAUSTED",
         IF r.state = "DISPATCHED"
         THEN phase' = "WAIT" /\ r.cost = call'.cost /\ call'.cost <= MaxModelCost
         ELSE phase' # "WAIT"
  PROVE  ReceiptsInv'
<1> DEFINE n == Len(receipts) + 1
<1>1. /\ DOMAIN receipts' = DOMAIN receipts \cup {n} /\ n \notin DOMAIN receipts
      /\ \A i \in DOMAIN receipts : receipts'[i] = receipts[i]
      /\ receipts'[n] = r
      /\ DOMAIN receipts = 1..Len(receipts) /\ Len(receipts) \in Nat /\ Len(receipts') = n
  BY AppendedReceipt, AppendProperties DEF CallInv, LedgerInv
<1>2. /\ \A i \in DOMAIN receipts : receipts[i] \in Receipt
      /\ dispatched \in Nat /\ dispatched' \in Nat /\ None \notin Nat
  BY BudgetAssumption DEF CallInv, LedgerInv
<1>3. call = NoCall /\ (call'.slot = IF r.state = "DISPATCHED" THEN n ELSE 0)
  BY <1>1 DEF CallInv, InFlight, NoCall
<1>4. \A i \in DOMAIN receipts : receipts[i].state # "DISPATCHED"
  BY <1>1, <1>3 DEF ReceiptsInv, NoCall
<1>5. \A i \in DOMAIN receipts : receipts[i].state # "BUDGET_BLOCKED"
  BY NoneAssumption DEF ReceiptsInv, Reason
<1>6. \A i \in DOMAIN receipts : receipts[i].index # None =>
          receipts[i].index \in Nat /\ receipts[i].index <= dispatched
  BY <1>2 DEF ReceiptsInv, OneReceiptOK, Receipt
<1> HIDE DEF n
<1>7. (\A i \in DOMAIN receipts : OneReceiptOK(receipts[i]))'
  <2>1. ASSUME NEW i \in DOMAIN receipts' PROVE (OneReceiptOK(receipts[i]))'
    <3>1. CASE i = n
      BY <1>1, <3>1 DEF OneReceiptOK
    <3>2. CASE i \in DOMAIN receipts
      <4>1. OneReceiptOK(receipts[i]) /\ receipts'[i] = receipts[i]
        BY <1>1, <3>2 DEF ReceiptsInv
      <4>2. receipts[i].index # None => receipts[i].index <= dispatched'
        BY <1>2, <1>6, <3>2
      <4> QED
        BY <4>1, <4>2 DEF OneReceiptOK
    <3> QED
      BY <1>1, <2>1, <3>1, <3>2
  <2> QED
    BY <2>1
<1>8. \A i, j \in DOMAIN receipts' :
          Made(i)' /\ Made(j)' /\ i < j => receipts'[i].index < receipts'[j].index
  <2> SUFFICES ASSUME NEW i \in DOMAIN receipts', NEW j \in DOMAIN receipts',
                      Made(i)', Made(j)', i < j
               PROVE  receipts'[i].index < receipts'[j].index
    OBVIOUS
  <2>1. CASE j = n
    <3>1. i \in DOMAIN receipts /\ receipts'[j].index = dispatched + 1
      BY <1>1, <2>1 DEF Made
    <3> QED
      BY <1>1, <1>2, <1>6, <3>1 DEF Made
  <2>2. CASE j # n
    <3>1. i \in DOMAIN receipts /\ j \in DOMAIN receipts
      BY <1>1, <2>2 DEF n
    <3> QED
      BY <1>1, <3>1 DEF Made, ReceiptsInv
  <2> QED
    BY <2>1, <2>2
<1>9. \A i \in DOMAIN receipts' : receipts'[i].state = "DISPATCHED" <=> i = call'.slot
  BY <1>1, <1>3, <1>4
<1>10. \A i \in DOMAIN receipts' : receipts'[i].state = "BUDGET_BLOCKED" =>
           i = Len(receipts') /\ reason' = "BUDGET_EXHAUSTED"
  BY <1>1, <1>5
<1>11. phase' = "WAIT" => receipts'[call'.slot].cost = call'.cost /\ call'.cost <= MaxModelCost
  BY <1>1, <1>3
<1> QED
  BY <1>7, <1>8, <1>9, <1>10, <1>11 DEF ReceiptsInv

\* The slots and the reservations of a step that makes no model call.
LEMMA LedgerKept ==
  ASSUME CallInv, CallInv', ReceiptsInv, phase # "WAIT", phase' # "WAIT", reason = None,
         UNCHANGED ledger, calls'["INFERENCE"] = calls["INFERENCE"]
  PROVE  /\ ReceiptsInv' /\ Charges' = Charges
         /\ MadeSlots' = MadeSlots /\ PlannedSlots' = PlannedSlots
<1>1. receipts' = receipts /\ dispatched' = dispatched
  BY DEF ledger
<1>2. call = NoCall /\ call' = NoCall
  BY DEF CallInv, InFlight
<1>3. \A i \in DOMAIN receipts : receipts[i].state # "BUDGET_BLOCKED"
  BY NoneAssumption DEF ReceiptsInv, Reason
<1> QED
  BY <1>1, <1>2, <1>3 DEF ReceiptsInv, OneReceiptOK, Made, Charges, MadeSlots, PlannedSlots

LEMMA QuietAccount ==
  ASSUME CallInv, CallInv', AccountInv, reason = None, Quiet
  PROVE  AccountInv'
<1>1. UNCHANGED <<calls, reserved, open>> /\ UNCHANGED ledger
  BY DEF Quiet, budget, guard
<1>2. /\ ReceiptsInv' /\ Charges' = Charges
      /\ MadeSlots' = MadeSlots /\ PlannedSlots' = PlannedSlots
  BY <1>1, LedgerKept DEF Quiet, AccountInv
<1>3. ReservationsInv' /\ Unrecorded' = Unrecorded /\ Lost' = Lost
  BY <1>1 DEF AccountInv, ReservationsInv, NextReservation, Unrecorded, Lost
<1> QED
  BY <1>1, <1>2, <1>3 DEF AccountInv, CountInv, SumInv

LEMMA BoughtAccount ==
  ASSUME CallInv, CallInv', AccountInv, reason = None, Bought
  PROVE  AccountInv'
<1>1. PICK kind \in {"SEARCH", "FETCH"} :
          Reserve(kind, Price(kind)) \/ Purchase(kind, Price(kind))
  BY DEF Bought
<1>2. kind \in Kind /\ Price(kind) \in Nat /\ Price(kind) <= MaxModelCost /\ SearchPrice \in Nat
  BY BudgetAssumption DEF Kind, Price
<1>3. /\ calls' = [calls EXCEPT ![kind] = @ + 1] /\ reserved' = reserved + Price(kind)
      /\ calls \in [Kind -> Nat] /\ reserved \in Nat
  BY <1>1 DEF Reserve, Purchase, CallInv, GuardInv
<1>4. /\ calls'["INFERENCE"] = calls["INFERENCE"]
      /\ calls'["SEARCH"] = IF kind = "SEARCH" THEN calls["SEARCH"] + 1 ELSE calls["SEARCH"]
      /\ calls["SEARCH"] \in Nat
  BY <1>3 DEF Kind
<1>5. /\ ReceiptsInv' /\ Charges' = Charges
      /\ MadeSlots' = MadeSlots /\ PlannedSlots' = PlannedSlots
  BY <1>4, LedgerKept DEF Bought, AccountInv
<1>6. GuardInv /\ ReservationsInv /\ LedgerInv
  BY DEF CallInv, AccountInv
<1>7. /\ SumFunction(Lost) \in Nat /\ SumFunction(Charges) \in Nat
      /\ Cardinality(Unrecorded) \in Nat
  BY <1>6, LostType, ChargesType
<1>8. /\ ReservationsInv' /\ SumFunction(Lost') = SumFunction(Lost)
      /\ Cardinality(Unrecorded') = Cardinality(Unrecorded)
  <2>1. CASE Reserve(kind, Price(kind))
    <3>1. ~ (Price(kind) > MaxModelCost)
      BY <1>2, BudgetAssumption
    <3> QED
      BY <1>2, <1>6, <1>7, <2>1, <3>1, ReservedLoss
  <2>2. CASE Purchase(kind, Price(kind))
    BY <1>2, <1>6, <2>2, PurchasedLoss
  <2> QED
    BY <1>1, <2>1, <2>2
<1>9. SearchPrice * calls'["SEARCH"] = SearchPrice * calls["SEARCH"] + Price(kind)
  BY <1>2, <1>4 DEF Price
<1>10. SearchPrice * calls["SEARCH"] \in Nat
  BY <1>2, <1>4
<1>11. SumInv'
  BY <1>2, <1>3, <1>5, <1>7, <1>8, <1>9, <1>10 DEF SumInv, AccountInv
<1>12. CountInv'
  BY <1>4, <1>5, <1>8 DEF CountInv, AccountInv
<1> QED
  BY <1>5, <1>8, <1>11, <1>12 DEF AccountInv

LEMMA DeniedAccount ==
  ASSUME CallInv, CallInv', AccountInv, reason = None, Denied
  PROVE  AccountInv'
<1>1. PICK role \in {"PLANNING", "EXTRACTION"}, cost \in Costs : CallDenied(role, cost)
  BY DEF Denied
<1> DEFINE r == [Planned(role) EXCEPT !.state = "BUDGET_BLOCKED"]
<1>2. /\ r \in Receipt /\ r.state = "BUDGET_BLOCKED"
      /\ r.index = None /\ r.cost = None /\ r.reconciled = None
  BY PlannedIsReceipt DEF Planned
<1>3. /\ receipts' = Append(receipts, r)
      /\ UNCHANGED <<calls, reserved, open, dispatched>>
  BY <1>1 DEF CallDenied, guard
<1> HIDE DEF r
<1>4. dispatched <= calls["INFERENCE"] /\ dispatched \in Nat
  BY BudgetAssumption DEF AccountInv, ReceiptsInv, CallInv, LedgerInv
<1>5. ReceiptsInv'
  BY <1>2, <1>3, <1>4, LedgerGrows DEF Denied, AccountInv, Undispatched
<1>6. /\ SumFunction(Charges') = SumFunction(Charges) + Charged(r)
      /\ Cardinality(MadeSlots') = Cardinality(MadeSlots)
      /\ Cardinality(PlannedSlots') = Cardinality(PlannedSlots)
      /\ SumFunction(Charges) \in Nat
  <2>1. Cardinality(MadeSlots) \in Nat /\ Cardinality(PlannedSlots) \in Nat
        /\ SumFunction(Charges) \in Nat
    BY ChargesType DEF CallInv
  <2> QED
    BY <1>2, <1>3, <2>1, AppendedReceipt DEF CallInv
<1>7. Charged(r) = 0
  BY <1>2 DEF Charged
<1>8. ReservationsInv' /\ Unrecorded' = Unrecorded /\ Lost' = Lost
  BY <1>3 DEF AccountInv, ReservationsInv, NextReservation, Unrecorded, Lost
<1> QED
  BY <1>3, <1>5, <1>6, <1>7, <1>8 DEF AccountInv, CountInv, SumInv

\* The guard's side of a model call: one call and one reservation more.
LEMMA InferenceReserved ==
  ASSUME CallInv, AccountInv, NEW cost \in Nat, Reserve("INFERENCE", cost)
  PROVE  /\ calls'["INFERENCE"] = calls["INFERENCE"] + 1 /\ calls["INFERENCE"] \in Nat
         /\ calls'["SEARCH"] = calls["SEARCH"] /\ SearchPrice * calls["SEARCH"] \in Nat
         /\ reserved' = reserved + cost
         /\ dispatched < MaxDispatched /\ dispatched \in Nat
         /\ dispatched + 1 <= calls'["INFERENCE"]
         /\ SumFunction(Lost) \in Nat /\ Cardinality(Unrecorded) \in Nat
         /\ SumFunction(Charges) \in Nat
         /\ Cardinality(MadeSlots) \in Nat /\ Cardinality(PlannedSlots) \in Nat
<1>1. /\ calls' = [calls EXCEPT !["INFERENCE"] = @ + 1] /\ reserved' = reserved + cost
      /\ calls["INFERENCE"] < Limit["INFERENCE"] /\ calls \in [Kind -> Nat]
  BY DEF Reserve, Allowed, CallInv, GuardInv
<1>2. SearchPrice \in Nat /\ Limit["INFERENCE"] \in Nat /\ MaxDispatched \in Nat
      /\ Limit["INFERENCE"] <= MaxDispatched
  <2>1. Limit \in [Kind -> Nat]
    BY BudgetAssumption
  <2> QED
    BY <2>1, BudgetAssumption DEF Kind
<1>3. dispatched <= calls["INFERENCE"] /\ dispatched \in Nat
  BY <1>2 DEF AccountInv, ReceiptsInv, CallInv, LedgerInv
<1>4. calls["INFERENCE"] \in Nat /\ calls["SEARCH"] \in Nat
  BY <1>1 DEF Kind
<1>5. SearchPrice * calls["SEARCH"] \in Nat
  BY <1>2, <1>4
<1>6. /\ SumFunction(Lost) \in Nat /\ Cardinality(Unrecorded) \in Nat
      /\ SumFunction(Charges) \in Nat
      /\ Cardinality(MadeSlots) \in Nat /\ Cardinality(PlannedSlots) \in Nat
  BY LostType, ChargesType DEF CallInv, AccountInv
<1> QED
  BY <1>1, <1>2, <1>3, <1>4, <1>5, <1>6 DEF Kind

LEMMA UnanswerableAccount ==
  ASSUME CallInv, CallInv', AccountInv, reason = None, Unanswerable
  PROVE  AccountInv'
<1>1. PICK role \in {"PLANNING", "EXTRACTION"}, cost \in Costs : CallUnrecorded(role, cost)
  BY DEF Unanswerable
<1> DEFINE r == Planned(role)
<1>2. /\ r \in Receipt /\ r.state = "PLANNED"
      /\ r.index = None /\ r.cost = None /\ r.reconciled = None
  BY PlannedIsReceipt DEF Planned
<1>3. /\ receipts' = Append(receipts, r) /\ Reserve("INFERENCE", cost) /\ ~ Recordable(cost)
      /\ dispatched' = (IF dispatched < MaxDispatched THEN dispatched + 1 ELSE dispatched)
      /\ cost \in Nat
  BY <1>1, RunAssumption DEF CallUnrecorded
<1> HIDE DEF r
<1>4. /\ calls'["INFERENCE"] = calls["INFERENCE"] + 1 /\ calls["INFERENCE"] \in Nat
      /\ calls'["SEARCH"] = calls["SEARCH"] /\ SearchPrice * calls["SEARCH"] \in Nat
      /\ reserved' = reserved + cost
      /\ dispatched < MaxDispatched /\ dispatched \in Nat
      /\ dispatched + 1 <= calls'["INFERENCE"]
      /\ SumFunction(Lost) \in Nat /\ Cardinality(Unrecorded) \in Nat
      /\ SumFunction(Charges) \in Nat
      /\ Cardinality(MadeSlots) \in Nat /\ Cardinality(PlannedSlots) \in Nat
  BY <1>3, InferenceReserved
<1>5. cost > MaxModelCost
  BY <1>3, <1>4, BudgetAssumption DEF Recordable
<1>6. ReceiptsInv'
  BY <1>2, <1>3, <1>4, LedgerGrows DEF Unanswerable, AccountInv, Undispatched
<1>7. /\ SumFunction(Charges') = SumFunction(Charges) + Charged(r)
      /\ Cardinality(MadeSlots') = Cardinality(MadeSlots)
      /\ Cardinality(PlannedSlots') = Cardinality(PlannedSlots) + 1
  BY <1>2, <1>3, <1>4, AppendedReceipt DEF CallInv
<1>8. Charged(r) = 0
  BY <1>2 DEF Charged
<1>9. /\ ReservationsInv' /\ SumFunction(Lost') = SumFunction(Lost) + cost
      /\ Cardinality(Unrecorded') = Cardinality(Unrecorded) + 1
  BY <1>3, <1>5, ReservedLoss DEF CallInv, AccountInv, Kind
<1>10. SumInv'
  <2> DEFINE search == SearchPrice * calls["SEARCH"]
  <2>1. cost \in Nat /\ search \in Nat /\ SearchPrice * calls'["SEARCH"] = search
    BY <1>3, <1>4
  <2>2. reserved = SumFunction(Charges) + search + SumFunction(Lost)
    BY DEF SumInv, AccountInv
  <2> HIDE DEF search
  <2>3. /\ reserved' = reserved + cost /\ SumFunction(Charges') = SumFunction(Charges) + 0
        /\ SumFunction(Lost') = SumFunction(Lost) + cost
        /\ SumFunction(Charges) \in Nat /\ SumFunction(Lost) \in Nat
    BY <1>4, <1>7, <1>8, <1>9
  <2>4. reserved' = SumFunction(Charges') + search + SumFunction(Lost')
    BY <2>1, <2>2, <2>3
  <2> QED
    BY <2>1, <2>4 DEF SumInv
<1>11. CountInv'
  BY <1>4, <1>7, <1>9 DEF CountInv, AccountInv
<1> QED
  BY <1>6, <1>9, <1>10, <1>11 DEF AccountInv

LEMMA CallingAccount ==
  ASSUME CallInv, CallInv', AccountInv, reason = None, Calling
  PROVE  AccountInv'
<1>1. PICK role \in {"PLANNING", "EXTRACTION"}, cost \in Costs,
           from \in {"PLANNER", "SECTION", "EXTRACT"} :
               CallDispatched(role, cost) /\ Waiting(from, cost)
  BY DEF Calling
<1> DEFINE r == [Planned(role) EXCEPT !.state = "DISPATCHED", !.index = dispatched + 1,
                                      !.cost = cost]
<1>2. /\ receipts' = Append(receipts, r) /\ Reserve("INFERENCE", cost) /\ Recordable(cost)
      /\ dispatched' = dispatched + 1 /\ cost \in Nat
      /\ call'.cost = cost /\ phase' = "WAIT"
  BY <1>1, RunAssumption DEF CallDispatched, Waiting, Goto
<1>3. /\ calls'["INFERENCE"] = calls["INFERENCE"] + 1 /\ calls["INFERENCE"] \in Nat
      /\ calls'["SEARCH"] = calls["SEARCH"] /\ SearchPrice * calls["SEARCH"] \in Nat
      /\ reserved' = reserved + cost
      /\ dispatched < MaxDispatched /\ dispatched \in Nat
      /\ dispatched + 1 <= calls'["INFERENCE"]
      /\ SumFunction(Lost) \in Nat /\ Cardinality(Unrecorded) \in Nat
      /\ SumFunction(Charges) \in Nat
      /\ Cardinality(MadeSlots) \in Nat /\ Cardinality(PlannedSlots) \in Nat
  BY <1>2, InferenceReserved
<1>4. /\ r \in Receipt /\ r.state = "DISPATCHED" /\ r.index = dispatched + 1
      /\ r.cost = cost /\ r.reconciled = None
  <2>1. cost \in Nat /\ dispatched + 1 \in Nat
    BY <1>2, <1>3
  <2> QED
    BY <2>1 DEF Planned, Receipt, ReceiptState
<1>5. cost # None /\ r.index # None /\ cost <= MaxModelCost
  <2>1. cost \in Nat /\ r.index \in Nat
    BY <1>2, <1>3, <1>4
  <2>2. cost <= MaxModelCost
    BY <1>2 DEF Recordable
  <2> QED
    BY <2>1, <2>2, BudgetAssumption
<1> HIDE DEF r
<1>6. ReceiptsInv'
  BY <1>2, <1>3, <1>4, <1>5, LedgerGrows DEF Calling, AccountInv, Dispatchable
<1>7. /\ SumFunction(Charges') = SumFunction(Charges) + Charged(r)
      /\ Cardinality(MadeSlots') = Cardinality(MadeSlots) + 1
      /\ Cardinality(PlannedSlots') = Cardinality(PlannedSlots)
  BY <1>2, <1>3, <1>4, <1>5, AppendedReceipt DEF CallInv
<1>8. Charged(r) = cost
  BY <1>4, <1>5 DEF Charged
<1>9. /\ ReservationsInv' /\ SumFunction(Lost') = SumFunction(Lost)
      /\ Cardinality(Unrecorded') = Cardinality(Unrecorded)
  <2>1. ~ (cost > MaxModelCost)
    BY <1>2, <1>5, BudgetAssumption
  <2> QED
    BY <1>2, <1>3, <2>1, ReservedLoss DEF CallInv, AccountInv, Kind
<1>10. SumInv'
  <2> DEFINE search == SearchPrice * calls["SEARCH"]
  <2>1. cost \in Nat /\ search \in Nat /\ SearchPrice * calls'["SEARCH"] = search
    BY <1>2, <1>3
  <2>2. reserved = SumFunction(Charges) + search + SumFunction(Lost)
    BY DEF SumInv, AccountInv
  <2> HIDE DEF search
  <2>3. /\ reserved' = reserved + cost /\ SumFunction(Charges') = SumFunction(Charges) + cost
        /\ SumFunction(Lost') = SumFunction(Lost)
        /\ SumFunction(Charges) \in Nat /\ SumFunction(Lost) \in Nat
    BY <1>3, <1>7, <1>8, <1>9
  <2>4. reserved' = SumFunction(Charges') + search + SumFunction(Lost')
    BY <2>1, <2>2, <2>3
  <2> QED
    BY <2>1, <2>4 DEF SumInv
<1>11. CountInv'
  BY <1>3, <1>7, <1>9 DEF CountInv, AccountInv
<1> QED
  BY <1>6, <1>9, <1>10, <1>11 DEF AccountInv

\* The call in flight is the last receipt, and it charges what was reserved.
LEMMA InFlightAccount ==
  ASSUME CallInv, AccountInv, phase = "WAIT"
  PROVE  /\ call.slot = Len(receipts) /\ call.slot \in DOMAIN receipts
         /\ receipts[call.slot] \in Receipt
         /\ receipts[call.slot].state = "DISPATCHED" /\ receipts[call.slot].index # None
         /\ receipts[call.slot].cost = call.cost /\ receipts[call.slot].reconciled = None
         /\ Charged(receipts[call.slot]) = call.cost
         /\ call.cost \in Nat /\ call.cost <= MaxModelCost
         /\ call.reservation \in DOMAIN open /\ open[call.reservation] = call.cost
<1>1. /\ call.slot = Len(receipts) /\ call.slot \in DOMAIN receipts
      /\ receipts[call.slot] \in Receipt
      /\ call.cost \in Nat
      /\ call.reservation \in DOMAIN open /\ open[call.reservation] = call.cost
  BY DEF CallInv, InFlight, LedgerInv
<1>2. /\ receipts[call.slot].state = "DISPATCHED"
      /\ receipts[call.slot].cost = call.cost /\ call.cost <= MaxModelCost
  BY <1>1 DEF AccountInv, ReceiptsInv
<1>3. receipts[call.slot].index # None /\ receipts[call.slot].reconciled = None
  BY <1>1, <1>2 DEF AccountInv, ReceiptsInv, OneReceiptOK, Undispatched
<1>4. call.cost # None
  BY <1>1, BudgetAssumption
<1> QED
  BY <1>1, <1>2, <1>3, <1>4 DEF Charged

\* A receipt that is settled keeps its place in the order of the calls.
LEMMA LedgerSettles ==
  ASSUME CallInv, CallInv', AccountInv, phase = "WAIT", phase' # "WAIT",
         NEW r \in Receipt, receipts' = [receipts EXCEPT ![call.slot] = r],
         r.state \in {"COMPLETED", "FAILED"},
         r.index = receipts[call.slot].index, r.cost = call.cost,
         dispatched' = dispatched, calls' = calls
  PROVE  /\ ReceiptsInv'
         /\ CountInv' <=> Cardinality(PlannedSlots) = Cardinality(Unrecorded')
         /\ SumFunction(Charges') = SumFunction(Charges) - call.cost + Charged(r)
<1> DEFINE s == call.slot
<1>1. /\ s = Len(receipts) /\ s \in DOMAIN receipts /\ receipts[s] \in Receipt
      /\ receipts[s].state = "DISPATCHED" /\ receipts[s].index # None
      /\ Charged(receipts[s]) = call.cost /\ call.cost \in Nat /\ call.cost # None
  BY InFlightAccount, BudgetAssumption
<1>2. /\ SumFunction(Charges') = SumFunction(Charges) - Charged(receipts[s]) + Charged(r)
      /\ MadeSlots' = MadeSlots /\ PlannedSlots' = PlannedSlots
      /\ DOMAIN receipts' = DOMAIN receipts /\ receipts'[s] = r
      /\ \A j \in DOMAIN receipts \ {s} : receipts'[j] = receipts[j]
  BY <1>1, ChangedReceipt DEF CallInv
<1> HIDE DEF s
<1>3. call'.slot = 0 /\ 0 \notin DOMAIN receipts /\ DOMAIN receipts = 1..Len(receipts)
  BY DEF CallInv, InFlight, NoCall, LedgerInv
<1>4. (\A i \in DOMAIN receipts : OneReceiptOK(receipts[i]))'
  BY <1>1, <1>2 DEF AccountInv, ReceiptsInv, OneReceiptOK, Dispatchable, s
<1>5. \A i, j \in DOMAIN receipts' :
          Made(i)' /\ Made(j)' /\ i < j => receipts'[i].index < receipts'[j].index
  <2>1. \A i \in DOMAIN receipts : receipts'[i].index = receipts[i].index
    BY <1>2 DEF s
  <2> QED
    BY <1>2, <2>1 DEF AccountInv, ReceiptsInv, Made
<1>6. \A i \in DOMAIN receipts' :
          receipts'[i].state \notin {"DISPATCHED", "BUDGET_BLOCKED"}
  <2>1. \A i \in DOMAIN receipts \ {s} :
            receipts[i].state \notin {"DISPATCHED", "BUDGET_BLOCKED"}
    <3>1. reason = None
      BY DEF CallInv, InFlight
    <3> QED
      BY <3>1, NoneAssumption DEF AccountInv, ReceiptsInv, Reason, s
  <2> QED
    BY <1>2, <2>1
<1>7. ReceiptsInv'
  BY <1>2, <1>3, <1>4, <1>5, <1>6 DEF ReceiptsInv, AccountInv
<1> QED
  BY <1>1, <1>2, <1>7 DEF CountInv, AccountInv, s

LEMMA SettlingAccount ==
  ASSUME CallInv, CallInv', AccountInv, Settling
  PROVE  AccountInv'
<1> DEFINE s == call.slot
<1>1. phase = "WAIT" /\ phase' # "WAIT"
  BY DEF Settling
<1>2. /\ s \in DOMAIN receipts /\ receipts[s] \in Receipt
      /\ receipts[s].index # None /\ receipts[s].cost = call.cost
      /\ receipts[s].reconciled = None
      /\ call.cost \in Nat /\ call.cost # None /\ call.cost <= MaxModelCost
      /\ call.reservation \in DOMAIN open /\ open[call.reservation] = call.cost
  BY <1>1, InFlightAccount, BudgetAssumption
<1>3. GuardInv /\ ReservationsInv /\ LedgerInv
  BY DEF CallInv, AccountInv
<1>4. CASE CallFails(s)
  <2> DEFINE r == [receipts[s] EXCEPT !.state = "FAILED"]
  <2>1. /\ r \in Receipt /\ r.state = "FAILED" /\ r.index = receipts[s].index
        /\ r.cost = call.cost /\ r.reconciled = None
    BY <1>2 DEF Receipt, ReceiptState
  <2>2. /\ receipts' = [receipts EXCEPT ![s] = r] /\ dispatched' = dispatched
        /\ calls' = calls /\ reserved' = reserved /\ open' = open
    BY <1>4 DEF CallFails, guard
  <2> HIDE DEF r
  <2>3. Unrecorded' = Unrecorded /\ Lost' = Lost /\ ReservationsInv'
    BY <1>3, <2>2 DEF Unrecorded, Lost, ReservationsInv, NextReservation
  <2>4. ReceiptsInv' /\ CountInv'
        /\ SumFunction(Charges') = SumFunction(Charges) - call.cost + Charged(r)
    BY <1>1, <2>1, <2>2, <2>3, LedgerSettles DEF AccountInv, CountInv
  <2>5. Charged(r) = call.cost /\ SumFunction(Charges) \in Nat
    BY <1>2, <1>3, <2>1, ChargesType DEF Charged
  <2> QED
    BY <1>2, <2>2, <2>3, <2>4, <2>5 DEF AccountInv, SumInv
<1>5. ASSUME NEW actual \in Actuals, NEW state \in {"COMPLETED", "FAILED"},
             CallReturns(s, call.reservation, actual, state)
      PROVE  AccountInv'
  <2> DEFINE r == [receipts[s] EXCEPT !.state = state, !.reconciled = actual]
  <2>1. actual \in Nat /\ actual <= call.cost /\ actual # None
    BY <1>2, RunAssumption, BudgetAssumption DEF Actuals
  <2>2. /\ r \in Receipt /\ r.state = state /\ r.index = receipts[s].index
        /\ r.cost = call.cost /\ r.reconciled = actual
    BY <1>2, <2>1 DEF Receipt, ReceiptState
  <2>3. /\ receipts' = [receipts EXCEPT ![s] = r] /\ dispatched' = dispatched
        /\ calls' = calls /\ reserved' = reserved - (call.cost - actual)
        /\ Closing(call.reservation)
    BY <1>2, <1>5 DEF CallReturns, Reconcile
  <2> HIDE DEF r
  <2>4. Unrecorded' = Unrecorded /\ Lost' = Lost /\ ReservationsInv'
    BY <1>2, <1>3, <2>3, ReconciledLoss
  <2>5. ReceiptsInv' /\ CountInv'
        /\ SumFunction(Charges') = SumFunction(Charges) - call.cost + Charged(r)
    BY <1>1, <1>5, <2>2, <2>3, <2>4, LedgerSettles DEF AccountInv, CountInv
  <2>6. Charged(r) = actual
    BY <2>1, <2>2 DEF Charged
  <2>7. /\ SumFunction(Charges) \in Nat /\ SumFunction(Lost) \in Nat
        /\ SearchPrice * calls["SEARCH"] \in Nat
    <3>1. SearchPrice \in Nat /\ calls["SEARCH"] \in Nat
      BY <1>3, BudgetAssumption DEF GuardInv, Kind
    <3> QED
      BY <1>3, <3>1, ChargesType, LostType
  <2> QED
    BY <1>2, <2>1, <2>3, <2>4, <2>5, <2>6, <2>7 DEF AccountInv, SumInv
<1> QED
  BY <1>4, <1>5 DEF Settling

LEMMA AccountStep == CallInv /\ AccountInv /\ [Next]_vars => AccountInv'
<1> SUFFICES ASSUME CallInv, AccountInv, [Next]_vars PROVE AccountInv'
  OBVIOUS
<1>1. CallInv'
  BY CallInvStep
<1>2. CASE reason # None \/ UNCHANGED vars
  <2>1. UNCHANGED <<calls, reserved, open, receipts, dispatched, reason>>
    BY <1>2, AfterStop DEF vars, budget, guard, ledger
  <2>2. CASE UNCHANGED vars
    BY <2>1, <2>2
       DEF vars, AccountInv, ReceiptsInv, OneReceiptOK, Made, ReservationsInv, NextReservation,
           Unrecorded, CountInv, MadeSlots, PlannedSlots, SumInv, Charges, Lost
  <2>3. CASE reason # None
    <3>1. call = NoCall /\ call' = NoCall /\ phase' # "WAIT"
      BY <1>1, <2>1, <2>3 DEF CallInv, InFlight
    <3> QED
      BY <2>1, <3>1
         DEF AccountInv, ReceiptsInv, OneReceiptOK, Made, ReservationsInv, NextReservation,
             Unrecorded, CountInv, MadeSlots, PlannedSlots, SumInv, Charges, Lost
  <2> QED
    BY <1>2, <2>2, <2>3
<1>3. CASE reason = None /\ Next
  <2>1. Spending
    BY <1>3, EveryStepSpends
  <2> QED
    BY <1>1, <1>3, <2>1, QuietAccount, BoughtAccount, DeniedAccount, UnanswerableAccount,
       CallingAccount, SettlingAccount DEF Spending
<1> QED
  BY <1>2, <1>3

\* What a run reserved, called and recorded is one account, through every
\* failure between a reservation and its reconciliation, for every limit, price
\* and cap: the guard holds exactly what the receipts charge, the searches cost
\* and the unrecorded calls reserve, each call has its receipt in its order, and
\* the cap is never passed.
THEOREM SpendsAreAccounted == Spec => []SpendIsAccounted
<1>1. CallInv /\ AccountInv => SpendIsAccounted
  <2> SUFFICES ASSUME CallInv, AccountInv PROVE SpendIsAccounted
    OBVIOUS
  <2>1. LedgersAgree
    BY DEF LedgersAgree, CallInv, GuardInv, AccountInv, SumInv, Charges, Lost
  <2>2. \A i \in DOMAIN receipts : Made(i) =>
            receipts[i].index <= dispatched /\ receipts[i].index \in Nat
    <3>1. \A i \in DOMAIN receipts : receipts[i] \in Receipt /\ OneReceiptOK(receipts[i])
      BY DEF AccountInv, ReceiptsInv, CallInv, LedgerInv
    <3>2. \A i \in DOMAIN receipts : receipts[i].index \in Nat \cup {None}
      BY <3>1 DEF Receipt
    <3> QED
      BY <3>1, <3>2 DEF OneReceiptOK, Made
  <2>3. /\ dispatched \in Nat /\ calls["INFERENCE"] \in Nat /\ dispatched <= calls["INFERENCE"]
    BY BudgetAssumption DEF CallInv, LedgerInv, GuardInv, Kind, AccountInv, ReceiptsInv
  <2>4. \A i \in DOMAIN receipts : Made(i) => receipts[i].index <= calls["INFERENCE"]
    BY <2>2, <2>3
  <2>5. CallsHaveReceipts
    BY <2>4 DEF CallsHaveReceipts, AccountInv, CountInv, MadeSlots, PlannedSlots, ReceiptsInv
  <2> QED
    BY <2>1, <2>5 DEF SpendIsAccounted
<1> QED
  BY <1>1, CallInvInit, CallInvStep, AccountInit, AccountStep, PTL DEF Spec

=============================================================================
