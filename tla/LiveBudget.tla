----------------------------- MODULE LiveBudget -----------------------------
(***************************************************************************)
(* The spend of one live run: the guard that reserves every paid call before *)
(* it is made (runtime/budget.py), the receipt ledger that records every     *)
(* model call (runtime/model_receipts.py), and the two sides of a budgeted   *)
(* model call, before and after the provider answers (converse of            *)
(* runtime/agent.py).  Costs are whole units.                                *)
(***************************************************************************)
EXTENDS Integers, Sequences, FiniteSets

CONSTANTS
    None,          \* no value
    Limit,         \* the call limit of each kind
    CostCap,       \* cost_cap_usd
    SearchPrice,   \* WEB_SEARCH_RESERVED_COST_USD
    MaxModelCost,  \* MAX_MODEL_COST_USD: what one receipt can record
    MaxSlots,      \* MAX_PLANNED_SLOTS
    MaxDispatched  \* MAX_DISPATCHED_MODEL_CALLS

Kind == {"INFERENCE", "SEARCH", "FETCH"}

ASSUME BudgetAssumption ==
    /\ None \notin Nat
    /\ Limit \in [Kind -> Nat]
    /\ {CostCap, SearchPrice, MaxModelCost, MaxSlots, MaxDispatched} \subseteq Nat
    /\ Limit["INFERENCE"] <= MaxDispatched /\ MaxDispatched < MaxSlots
    /\ SearchPrice <= MaxModelCost

VARIABLES
    calls,         \* _calls: the reservations made of each kind
    reserved,      \* _reserved_cost_usd
    open,          \* _reservations: those neither reconciled nor committed
    receipts,      \* the ledger: one receipt per model call that was planned
    dispatched     \* _dispatched

guard == <<calls, reserved, open>>
ledger == <<receipts, dispatched>>

ReceiptState == {"PLANNED", "DISPATCHED", "COMPLETED", "FAILED", "BUDGET_BLOCKED"}
Receipt == [role: {"PLANNING", "EXTRACTION"}, state: ReceiptState,
            index: Nat \cup {None}, cost: Nat \cup {None}, reconciled: Nat \cup {None}]

BudgetInit ==
    /\ calls = [k \in Kind |-> 0]
    /\ reserved = 0
    /\ open = [n \in {} |-> 0]
    /\ receipts = <<>>
    /\ dispatched = 0

-----------------------------------------------------------------------------
(* LiveBudgetGuard.                                                         *)

Allowed(kind, cost) == calls[kind] < Limit[kind] /\ reserved + cost <= CostCap

(* Reservations are numbered as they are made, whatever their kind.         *)
NextReservation == calls["INFERENCE"] + calls["SEARCH"] + calls["FETCH"] + 1

Closing(n) == open' = [m \in DOMAIN open \ {n} |-> open[m]]

Reserve(kind, cost) ==
    /\ Allowed(kind, cost)
    /\ calls' = [calls EXCEPT ![kind] = @ + 1]
    /\ reserved' = reserved + cost
    /\ open' = [n \in DOMAIN open \cup {NextReservation} |->
                   IF n = NextReservation THEN cost ELSE open[n]]

(* A fixed-price call that succeeds is reserved and committed.              *)
Purchase(kind, cost) ==
    /\ Allowed(kind, cost)
    /\ calls' = [calls EXCEPT ![kind] = @ + 1]
    /\ reserved' = reserved + cost
    /\ UNCHANGED open

(* Mutant: what was reserved is given back, not what was left of it.        *)
ReconcileAll(n, actual) ==
    /\ actual <= open[n]
    /\ reserved' = reserved - open[n]
    /\ Closing(n)
    /\ UNCHANGED calls

(* A cost above the reservation is refused, and the reservation stays.      *)
Reconcile(n, actual) ==
    /\ actual <= open[n]
    /\ reserved' = reserved - (open[n] - actual)
    /\ Closing(n)
    /\ UNCHANGED calls

-----------------------------------------------------------------------------
(* ReceiptLedger and converse.                                              *)

Planned(role) ==
    [role |-> role, state |-> "PLANNED", index |-> None, cost |-> None, reconciled |-> None]

Recordable(cost) == cost <= MaxModelCost /\ dispatched < MaxDispatched

(* Mutant: the receipt is dispatched before the guard is asked.             *)
CallDeniedLate(role, cost) ==
    /\ ~ Allowed("INFERENCE", cost)
    /\ receipts' = Append(receipts, [Planned(role) EXCEPT !.state = "FAILED",
                                        !.index = dispatched + 1, !.cost = cost])
    /\ dispatched' = dispatched + 1
    /\ UNCHANGED guard

(* The call is planned and denied: nothing is spent.                        *)
CallDenied(role, cost) ==
    /\ ~ Allowed("INFERENCE", cost)
    /\ receipts' = Append(receipts, [Planned(role) EXCEPT !.state = "BUDGET_BLOCKED"])
    /\ UNCHANGED <<guard, dispatched>>

(* The call is reserved, but its receipt cannot hold the cost: dispatch      *)
(* raises outside the handler of converse, so that the call is never made,  *)
(* its reservation stays, and the receipt stays planned.                    *)
CallUnrecorded(role, cost) ==
    /\ ~ Recordable(cost)
    /\ Reserve("INFERENCE", cost)
    /\ receipts' = Append(receipts, Planned(role))
    /\ dispatched' = IF dispatched < MaxDispatched THEN dispatched + 1 ELSE dispatched

CallDispatched(role, cost) ==
    /\ Recordable(cost)
    /\ Reserve("INFERENCE", cost)
    /\ dispatched' = dispatched + 1
    /\ receipts' = Append(receipts,
           [Planned(role) EXCEPT !.state = "DISPATCHED", !.index = dispatched + 1, !.cost = cost])

(* The provider fails, its usage cannot be verified, or it charges more than *)
(* was reserved: the receipt fails and the reservation stays.               *)
CallFails(slot) ==
    /\ receipts' = [receipts EXCEPT ![slot].state = "FAILED"]
    /\ UNCHANGED <<guard, dispatched>>

(* The provider answers; what happens to the answer settles the receipt.    *)
CallReturns(slot, reservation, actual, state) ==
    /\ Reconcile(reservation, actual)
    /\ receipts' = [receipts EXCEPT ![slot].state = state, ![slot].reconciled = actual]
    /\ UNCHANGED dispatched

=============================================================================
