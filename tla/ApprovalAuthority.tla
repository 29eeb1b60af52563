------------------------- MODULE ApprovalAuthority -------------------------
(***************************************************************************)
(* The human approval boundary (workspace/approval.py): an approval binds  *)
(* one decision and one runtime mode, is requested, confirmed and consumed *)
(* once, expires, and is revoked when the graph it is bound to moves.      *)
(*                                                                         *)
(* Every action is one BEGIN IMMEDIATE transaction.  Its instant "now" was *)
(* read from the clock before the transaction got the write lock, so it is *)
(* any of the last MaxLag instants.  A call that is denied without a       *)
(* revocation, or answered from a receipt, changes nothing.                *)
(***************************************************************************)
EXTENDS WorkspaceGraph

CONSTANTS
  Approvals,        \* approval ids
  Keys,             \* idempotency keys of the callers
  NoApproval,       \* an id not yet minted, a key without a receipt
  ApprovalTtl       \* the 24 hours of approval_expiry

Bindings    == Decisions \X Modes
Unspent     == -1
States      == {"PENDING", "APPROVED", "REVOKED"}
Approval ==
  [binding : Bindings, state : States, created : Instants, updated : Instants,
   expires : 0..(MaxClock + ApprovalTtl), consumedAt : Instants \cup {Unspent}]

ASSUME AuthorityAssumption ==
  /\ ApprovalTtl \in Nat
  /\ DefaultTtl <= ApprovalTtl
  /\ NoApproval \notin Approvals
  /\ NoApproval \notin Approval

VARIABLES
  approvals,        \* approvals[a]: latest version of record a
  confirmReceipt,   \* confirmReceipt[k]: the approval key k confirmed
  consumeReceipt    \* consumeReceipt[k]: the approval key k consumed

authorityVars == <<approvals, confirmReceipt, consumeReceipt>>
vars == <<graphVars, authorityVars>>

Minted == {a \in Approvals : approvals[a] # NoApproval}
Spent(a) == approvals[a].consumedAt # Unspent
Void(a) == approvals[a].state = "REVOKED" /\ ~ Spent(a)

TypeOK ==
  /\ GraphTypeOK
  /\ approvals \in [Approvals -> Approval \cup {NoApproval}]
  /\ confirmReceipt \in [Keys -> Approvals \cup {NoApproval}]
  /\ consumeReceipt \in [Keys -> Approvals \cup {NoApproval}]

-----------------------------------------------------------------------------
\* approval_expiry with an exact deadline.
Expiry(now, deadline) ==
  IF deadline < now + ApprovalTtl THEN deadline ELSE now + ApprovalTtl

\* Mutant: _inspect without the consumed_at check.
InspectIgnoringSpend(a, e, now, pendingAllowed) ==
  LET r == approvals[a]
      graph == GraphReason(e[1], now, e[2], FALSE)
  IN IF r = NoApproval THEN "NOT_FOUND"
     ELSE IF r.binding # e THEN "BINDING_MISMATCH"
     ELSE IF now < r.updated THEN "TIME_INVALID"
     ELSE IF r.state = "REVOKED" THEN "REVOKED"
     ELSE IF now >= r.expires THEN "EXPIRED"
     ELSE IF graph # "VALID" THEN graph
     ELSE IF r.state = "PENDING" /\ ~ pendingAllowed THEN "PENDING"
     ELSE "VALID"

\* Mutant: _inspect trusts any instant.
InspectAnyInstant(a, e, now, pendingAllowed) ==
  LET r == approvals[a]
      graph == GraphReason(e[1], now, e[2], FALSE)
  IN IF r = NoApproval THEN "NOT_FOUND"
     ELSE IF r.binding # e THEN "BINDING_MISMATCH"
     ELSE IF r.state = "REVOKED" THEN "REVOKED"
     ELSE IF now >= r.expires THEN "EXPIRED"
     ELSE IF r.consumedAt # Unspent THEN "CONSUMED"
     ELSE IF graph # "VALID" THEN graph
     ELSE IF r.state = "PENDING" /\ ~ pendingAllowed THEN "PENDING"
     ELSE "VALID"

\* _inspect of the approval the caller expects to have binding e.
Inspect(a, e, now, pendingAllowed) ==
  LET r == approvals[a]
      graph == GraphReason(e[1], now, e[2], FALSE)
  IN IF r = NoApproval THEN "NOT_FOUND"
     ELSE IF r.binding # e THEN "BINDING_MISMATCH"
     ELSE IF now < r.updated THEN "TIME_INVALID"
     ELSE IF r.state = "REVOKED" THEN "REVOKED"
     ELSE IF now >= r.expires THEN "EXPIRED"
     ELSE IF r.consumedAt # Unspent THEN "CONSUMED"
     ELSE IF graph # "VALID" THEN graph
     ELSE IF r.state = "PENDING" /\ ~ pendingAllowed THEN "PENDING"
     ELSE "VALID"

RevokingReasons == {"EXPIRED", "VERSION_MISMATCH", "POLICY_MISMATCH",
                    "GRAPH_MISMATCH", "EVIDENCE_CHANGED"}

\* Mutant: only spent approvals are reused.
ReusableOnlySpent(e, now) ==
  {a \in Minted : approvals[a].binding = e /\ Spent(a)}

\* Mutant: only live approvals are reused.
ReusableOnlyLive(e, now) ==
  {a \in Minted : /\ approvals[a].binding = e
                  /\ approvals[a].state # "REVOKED"
                  /\ now < approvals[a].expires}

\* request_approval reuses a spent or a live approval of the same binding.
Reusable(e, now) ==
  {a \in Minted : /\ approvals[a].binding = e
                  /\ \/ Spent(a)
                     \/ /\ approvals[a].state # "REVOKED"
                        /\ now < approvals[a].expires}

NewApproval(e, now) ==
  [binding |-> e, state |-> "PENDING", created |-> now, updated |-> now,
   expires |-> Expiry(now, Deadline[oppV]), consumedAt |-> Unspent]

-----------------------------------------------------------------------------
AuthorityInit ==
  /\ approvals = [a \in Approvals |-> NoApproval]
  /\ confirmReceipt = [k \in Keys |-> NoApproval]
  /\ consumeReceipt = [k \in Keys |-> NoApproval]

\* request_approval under the authority for_workspace_request resolved.
Request(a, e, now) ==
  /\ GraphReason(e[1], now, e[2], TRUE) = "VALID"
  /\ Reusable(e, now) = {}
  /\ approvals[a] = NoApproval
  /\ approvals' = [approvals EXCEPT ![a] = NewApproval(e, now)]
  /\ UNCHANGED <<confirmReceipt, consumeReceipt>>

\* confirm_approval: the human's confirmation of a pending approval.
Confirm(a, k, e, now) ==
  /\ confirmReceipt[k] = NoApproval
  /\ Inspect(a, e, now, TRUE) = "VALID"
  /\ approvals[a].state = "PENDING"
  /\ approvals' = [approvals EXCEPT ![a] =
                    [@ EXCEPT !.state = "APPROVED", !.updated = now]]
  /\ confirmReceipt' = [confirmReceipt EXCEPT ![k] = a]
  /\ UNCHANGED consumeReceipt

\* Mutant: a pending approval can be consumed.
ConsumePending(a, k, e, now) ==
  /\ consumeReceipt[k] = NoApproval
  /\ Inspect(a, e, now, TRUE) = "VALID"
  /\ approvals' = [approvals EXCEPT ![a] =
                    [@ EXCEPT !.consumedAt = now, !.updated = now]]
  /\ consumeReceipt' = [consumeReceipt EXCEPT ![k] = a]
  /\ UNCHANGED confirmReceipt

\* consume_in_transaction, in its own transaction or in the caller's.
Consume(a, k, e, now) ==
  /\ consumeReceipt[k] = NoApproval
  /\ Inspect(a, e, now, FALSE) = "VALID"
  /\ approvals' = [approvals EXCEPT ![a] =
                    [@ EXCEPT !.consumedAt = now, !.updated = now]]
  /\ consumeReceipt' = [consumeReceipt EXCEPT ![k] = a]
  /\ UNCHANGED confirmReceipt

\* A denied validate, confirm or consume_approval commits its revocation.
Deny(a, e, now) ==
  /\ Inspect(a, e, now, TRUE) \in RevokingReasons
  /\ approvals' = [approvals EXCEPT ![a] =
                    [@ EXCEPT !.state = "REVOKED", !.updated = now]]
  /\ UNCHANGED <<confirmReceipt, consumeReceipt>>

\* The decisions an ApprovalChange can name: by opportunity or founder, by
\* project, by decision, or as bound to other policies than the given ones.
Recordeds == {d \in Decisions : Recorded(d)}
Scopes ==
  {Recordeds}
  \cup {{d \in Recordeds : d[2] = p} : p \in Projects}
  \cup {{d} : d \in Recordeds}
  \cup {{d \in Recordeds : evals[d[1]].policy # q} : q \in Policies}

\* revoke_invalid_approvals: one transaction over every matching record.
RevokeInvalid(scope, now) ==
  LET hit == {a \in Minted : /\ approvals[a].state # "REVOKED"
                             /\ approvals[a].binding[1] \in scope}
  IN /\ hit # {}
     /\ \A a \in hit : approvals[a].created <= now    \* timestamps_ordered
     /\ approvals' = [a \in Approvals |->
          IF a \in hit
            THEN [approvals[a] EXCEPT !.state = "REVOKED", !.updated = now]
            ELSE approvals[a]]
     /\ UNCHANGED <<confirmReceipt, consumeReceipt>>

AuthorityNext ==
  \E now \in Recent :
    \/ \E a \in Approvals, e \in Bindings :
         \/ Request(a, e, now)
         \/ Deny(a, e, now)
         \/ \E k \in Keys : Confirm(a, k, e, now) \/ Consume(a, k, e, now)
    \/ \E scope \in Scopes : RevokeInvalid(scope, now)

Init == GraphInit /\ AuthorityInit

Next ==
  \/ GraphNext /\ UNCHANGED authorityVars
  \/ AuthorityNext /\ UNCHANGED graphVars

Spec == Init /\ [][Next]_vars

-----------------------------------------------------------------------------
(* Properties. *)

\* Requests converge (approval.py:528): of two approvals minted for the same
\* decision and mode, one is revoked without having been spent, even when the
\* requests, confirmations and expiries race with stale instants.
OneLiveApproval ==
  \A a, b \in Minted :
    a # b /\ approvals[a].binding = approvals[b].binding => Void(a) \/ Void(b)

\* Single use at the level that matters: a decision snapshot is spent at most
\* once, whichever approvals were minted, expired or revoked for it.
OneSpendPerBinding ==
  \A a, b \in Minted :
    Spent(a) /\ Spent(b) /\ approvals[a].binding = approvals[b].binding => a = b

\* consume_in_transaction: a spent approval has exactly one consumption receipt
\* and an unspent one has none, so a replayed key never stands for new work.
OneReceiptPerSpend ==
  \A a \in Minted :
    Cardinality({k \in Keys : consumeReceipt[k] = a}) = IF Spent(a) THEN 1 ELSE 0

\* Nothing is spent without the human: a spent approval was confirmed by some
\* key, and was spent between its request and its expiry.
SpentWithConsent ==
  \A a \in Minted : Spent(a) =>
    /\ \E k \in Keys : confirmReceipt[k] = a
    /\ approvals[a].created <= approvals[a].consumedAt
    /\ approvals[a].consumedAt < approvals[a].expires

\* Every spend is on record: the receipts of its confirmation and of its one
\* consumption, whatever was retried, replayed or revoked around it.
SpentOnRecord == OneReceiptPerSpend /\ SpentWithConsent

\* The life of an approval: PENDING, APPROVED, REVOKED in that order, a revoked
\* one never revives and is never spent, and no transition but a revocation
\* goes back in time (the TIME_INVALID check against stale instants).
Rank(state) == CASE state = "PENDING" -> 0 [] state = "APPROVED" -> 1
                 [] state = "REVOKED" -> 2
LifecycleStep(a) ==
  LET r == approvals[a]  s == approvals'[a]
  IN /\ s.binding = r.binding /\ s.created = r.created /\ s.expires = r.expires
     /\ Rank(r.state) <= Rank(s.state)
     /\ s.consumedAt # r.consumedAt =>
          r.consumedAt = Unspent /\ s.state = "APPROVED"
     /\ s.state # "REVOKED" => r.updated <= s.updated
LifecycleOrder == [][\A a \in Minted : LifecycleStep(a)]_vars

\* Confirmations and spends act on the graph as it is at that moment, never on
\* what the request saw: the versions are the latest, no evaluation at least as
\* recent covers the project, the one source run completed, no refresh failed
\* and no proof was replaced.
OnCurrentGraph(d) ==
  LET e == evals[d[1]] IN
  /\ e.policy = policy /\ e.opp = oppV /\ e.founder = founderV
  /\ e.projV[d[2]] = projV[d[2]]
  /\ \A b \in Batches \ {d[1]} :
       evals[b] # NoEval =>
         evals[b].opp # oppV \/ evals[b].projV[d[2]] = 0 \/ evals[b].created < e.created
  /\ \E r \in runs : r.state = "COMPLETED" /\ {s \in runs : s.decision = d} = {r}
  /\ oppV \notin refreshFailed /\ d[1] \notin proofReplaced

ActsOnCurrentGraph ==
  [][\A a \in Minted :
       \/ approvals'[a].state = "APPROVED" /\ approvals[a].state # "APPROVED"
       \/ approvals'[a].consumedAt # approvals[a].consumedAt
       => OnCurrentGraph(approvals[a].binding[1])]_vars
=============================================================================
