--------------------------- MODULE ApprovalProofs ---------------------------
(***************************************************************************)
(* Theorems of the approval authority, for every value of the constants    *)
(* that meets GraphAssumption and AuthorityAssumption.                     *)
(*                                                                         *)
(* OneLiveApproval is not inductive: that an expired but never inspected   *)
(* approval is not minted a second time rests on its proof being older     *)
(* than the approval (Grounded).  Evidence fresh at the first mint is      *)
(* stale once ApprovalTtl has passed, whatever instant a request works     *)
(* with, and an approval cut short by the deadline leaves no later one.    *)
(*                                                                         *)
(* SpentOnRecord needs the confirm receipt as well as the state (a spent   *)
(* record is no longer APPROVED), and the order of its instants: the       *)
(* transactions refuse a clock behind the last update (Receipted).         *)
(***************************************************************************)
EXTENDS ApprovalAuthority, FiniteSetTheorems, TLAPS

USE DEF graphVars, authorityVars

-----------------------------------------------------------------------------
(* Type correctness. *)

\* Every instant a transaction works with is an instant of the model.
LEMMA RecentInstants ==
  ASSUME GraphTypeOK
  PROVE  Recent \subseteq Instants
  BY DEF Recent

\* A run commits a well-formed evaluation, for an opportunity version that is
\* the latest or the next one.
LEMMA EvaluationsTyped ==
  ASSUME GraphTypeOK
  PROVE  Evaluations \subseteq Evaluation
<1> SUFFICES ASSUME NEW e \in Evaluations PROVE e \in Evaluation
  OBVIOUS
<1>1. PICK v \in {oppV, oppV + 1} \cap Versions,
           f \in (1..founderV + 1) \cap Versions,
           t \in Recent, t0 \in Recent, g \in CandidateVersions,
           good \in SUBSET Projects, p \in Projects,
           mode \in Modes, state \in RunStates :
         e = [opp |-> v, founder |-> f, policy |-> policy, created |-> t,
              retrieved |-> {t0}, projV |-> g, actionable |-> good,
              selected |-> p, mode |-> mode, state |-> state]
  BY SMT DEF Evaluations
<1>2. g \in [Projects -> 0..MaxVersion]
  BY DEF CandidateVersions
<1>3. v \in Versions /\ f \in Versions /\ policy \in Policies
      /\ t \in Instants /\ {t0} \in SUBSET Instants
  BY RecentInstants DEF GraphTypeOK
<1> QED
  BY <1>1, <1>2, <1>3, Zenon DEF Evaluation

\* The row a commit adds is a run row.
LEMMA RowTyped ==
  ASSUME GraphTypeOK, NEW r \in Runs, NEW b \in Batches, NEW e \in Evaluation,
         NEW started \in Instants, AppendRun(r, b, e, started)
  PROVE  runs' \in SUBSET RunRow
<1> DEFINE row == [id |-> r, opp |-> e.opp, decision |-> <<b, e.selected>>,
                   mode |-> e.mode, state |-> e.state,
                   created |-> started, completed |-> clock]
<1>1. /\ e.opp \in Versions /\ e.selected \in Projects
      /\ e.mode \in Modes /\ e.state \in RunStates
  BY DEF Evaluation
<1>2. <<b, e.selected>> \in Decisions
  BY <1>1 DEF Decisions
<1>3. row \in RunRow
  BY <1>1, <1>2 DEF RunRow, GraphTypeOK
<1>4. runs' = runs \cup {row}
  BY DEF AppendRun
<1> QED
  BY <1>3, <1>4 DEF GraphTypeOK

\* Every writer of the graph keeps the types.
LEMMA GraphTyped ==
  ASSUME GraphTypeOK, GraphNext
  PROVE  GraphTypeOK'
<1> USE GraphAssumption
<1>1. CASE Tick
  BY <1>1 DEF Tick, GraphTypeOK, Instants
<1>2. CASE ChangePolicy
  BY <1>2 DEF ChangePolicy, GraphTypeOK
<1>3. CASE PersistObservation
  BY <1>3 DEF PersistObservation, GraphTypeOK, Versions
<1>4. CASE MarkRefreshFailed
  BY <1>4 DEF MarkRefreshFailed, GraphTypeOK
<1>5. CASE UpdateProfile
  BY <1>5 DEF UpdateProfile, GraphTypeOK, Versions
<1>6. CASE \E p \in Projects : UpdateProject(p)
  BY <1>6 DEF UpdateProject, GraphTypeOK, Versions
<1>7. CASE \E b \in Batches : ReplaceProof(b)
  BY <1>7 DEF ReplaceProof, GraphTypeOK
<1>8. ASSUME NEW r \in Runs, NEW b \in Batches, CommitRun(r, b)
      PROVE  GraphTypeOK'
  <2>1. PICK e \in Evaluations, started \in Recent :
          /\ evals' = [evals EXCEPT ![b] = e]
          /\ oppV' = e.opp
          /\ founderV' = Later(founderV, e.founder)
          /\ projV' = [p \in Projects |-> Later(projV[p], e.projV[p])]
          /\ AppendRun(r, b, e, started)
    BY <1>8 DEF CommitRun
  <2>2. e \in Evaluation
    BY EvaluationsTyped
  <2>3. runs' \in SUBSET RunRow
    BY <2>1, <2>2, RecentInstants, RowTyped
  <2>4. oppV' \in Versions /\ founderV' \in Versions
    BY <2>1, <2>2 DEF Evaluation, Later, GraphTypeOK
  <2>5. projV' \in [Projects -> Versions]
    <3>1. ASSUME NEW p \in Projects PROVE Later(projV[p], e.projV[p]) \in Versions
      <4>1. projV[p] \in Versions /\ e.projV[p] \in 0..MaxVersion
        BY <2>2 DEF Evaluation, GraphTypeOK
      <4> QED BY <4>1 DEF Later, Versions
    <3> QED BY <2>1, <3>1
  <2>6. evals' \in [Batches -> Evaluation \cup {NoEval}]
    BY <2>1, <2>2 DEF GraphTypeOK
  <2> QED
    BY <1>8, <2>3, <2>4, <2>5, <2>6 DEF CommitRun, GraphTypeOK
<1>9. ASSUME NEW r \in Runs, NEW b \in Batches, CommitRerun(r, b)
      PROVE  GraphTypeOK'
  <2>1. PICK started \in Recent : AppendRun(r, b, evals[b], started)
    BY <1>9 DEF CommitRerun
  <2>2. evals[b] \in Evaluation
    BY <1>9 DEF CommitRerun, GraphTypeOK
  <2>3. runs' \in SUBSET RunRow
    BY <2>1, <2>2, RecentInstants, RowTyped
  <2> QED
    BY <1>9, <2>3 DEF CommitRerun, GraphTypeOK
<1> QED
  BY <1>1, <1>2, <1>3, <1>4, <1>5, <1>6, <1>7, <1>8, <1>9 DEF GraphNext

\* An expiry lies between its instant and ApprovalTtl later.
LEMMA ExpiryTyped ==
  ASSUME NEW now \in Instants, NEW deadline \in Nat
  PROVE  Expiry(now, deadline) \in 0..(MaxClock + ApprovalTtl)
  BY GraphAssumption, AuthorityAssumption DEF Expiry, Instants

\* A changed state, timestamp or consumption leaves an approval well formed.
LEMMA ApprovalTyped ==
  ASSUME NEW r \in Approval, NEW now \in Instants
  PROVE  /\ [r EXCEPT !.state = "APPROVED", !.updated = now] \in Approval
         /\ [r EXCEPT !.state = "REVOKED", !.updated = now] \in Approval
         /\ [r EXCEPT !.consumedAt = now, !.updated = now] \in Approval
  BY DEF Approval, States

\* Every transaction of the authority keeps the types.
LEMMA AuthorityTyped ==
  ASSUME TypeOK, AuthorityNext, UNCHANGED graphVars
  PROVE  TypeOK'
<1> USE GraphAssumption, AuthorityAssumption
<1>1. PICK now \in Recent :
        \/ \E a \in Approvals, e \in Bindings :
             \/ Request(a, e, now)
             \/ Deny(a, e, now)
             \/ \E k \in Keys : Confirm(a, k, e, now) \/ Consume(a, k, e, now)
        \/ \E scope \in Scopes : RevokeInvalid(scope, now)
  BY DEF AuthorityNext
<1>2. now \in Instants
  BY RecentInstants DEF TypeOK
<1>3. GraphTypeOK'
  BY DEF TypeOK, GraphTypeOK
<1>4. ASSUME NEW a \in Approvals, NEW e \in Bindings, Request(a, e, now)
      PROVE  TypeOK'
  <2>1. Deadline[oppV] \in Nat
    BY DEF TypeOK, GraphTypeOK
  <2>2. NewApproval(e, now) \in Approval
    BY <1>2, <2>1, ExpiryTyped DEF NewApproval, Approval, States
  <2> QED
    BY <1>3, <1>4, <2>2 DEF Request, TypeOK
<1>5. ASSUME NEW a \in Approvals, NEW e \in Bindings, Deny(a, e, now)
      PROVE  TypeOK'
  <2>1. approvals[a] \in Approval
    BY <1>5 DEF Deny, Inspect, RevokingReasons, TypeOK
  <2> QED
    BY <1>2, <1>3, <1>5, <2>1, ApprovalTyped DEF Deny, TypeOK
<1>6. ASSUME NEW a \in Approvals, NEW e \in Bindings, NEW k \in Keys,
             Confirm(a, k, e, now)
      PROVE  TypeOK'
  <2>1. approvals[a] \in Approval
    BY <1>6 DEF Confirm, Inspect, TypeOK
  <2> QED
    BY <1>2, <1>3, <1>6, <2>1, ApprovalTyped DEF Confirm, TypeOK
<1>7. ASSUME NEW a \in Approvals, NEW e \in Bindings, NEW k \in Keys,
             Consume(a, k, e, now)
      PROVE  TypeOK'
  <2>1. approvals[a] \in Approval
    BY <1>7 DEF Consume, Inspect, TypeOK
  <2> QED
    BY <1>2, <1>3, <1>7, <2>1, ApprovalTyped DEF Consume, TypeOK
<1>8. ASSUME NEW scope \in Scopes, RevokeInvalid(scope, now)
      PROVE  TypeOK'
  <2>1. approvals' \in [Approvals -> Approval \cup {NoApproval}]
    BY <1>2, <1>8, ApprovalTyped DEF RevokeInvalid, Minted, TypeOK
  <2> QED
    BY <1>3, <1>8, <2>1 DEF RevokeInvalid, TypeOK
<1> QED
  BY <1>1, <1>4, <1>5, <1>6, <1>7, <1>8

LEMMA TypeOKInit == Init => TypeOK
  BY GraphAssumption DEF Init, GraphInit, AuthorityInit, TypeOK, GraphTypeOK,
     Instants, Versions

LEMMA TypeOKStep == TypeOK /\ [Next]_vars => TypeOK'
<1> SUFFICES ASSUME TypeOK, [Next]_vars PROVE TypeOK'
  OBVIOUS
<1>1. CASE GraphNext /\ UNCHANGED authorityVars
  BY <1>1, GraphTyped DEF TypeOK
<1>2. CASE AuthorityNext /\ UNCHANGED graphVars
  BY <1>2, AuthorityTyped
<1>3. CASE UNCHANGED vars
  BY <1>3 DEF vars, TypeOK, GraphTypeOK
<1> QED
  BY <1>1, <1>2, <1>3 DEF Next

\* The graph and the approval records keep their types on every behaviour.
THEOREM TypeCorrect == Spec => []TypeOK
  BY TypeOKInit, TypeOKStep, PTL DEF Spec

-----------------------------------------------------------------------------
(* Requests converge, and a binding is spent at most once. *)

\* An approval rests on proof that was retrieved before it was minted, and
\* expires after ApprovalTtl or at its deadline.
Grounded(a) ==
  LET r == approvals[a]
      ev == evals[r.binding[1][1]]
  IN /\ ev # NoEval
     /\ \E t \in ev.retrieved : t <= r.created
     /\ r.expires = Expiry(r.created, Deadline[ev.opp])

IInv ==
  /\ TypeOK
  /\ \A a \in Minted : Grounded(a)
  /\ OneLiveApproval

\* The record of a minted approval, and the evaluation it is bound to.
LEMMA MintedTyped ==
  ASSUME TypeOK, NEW a \in Minted
  PROVE  /\ a \in Approvals /\ approvals[a] \in Approval
         /\ approvals[a].binding \in Bindings
         /\ approvals[a].binding[1] \in Decisions
         /\ approvals[a].binding[1][1] \in Batches
         /\ approvals[a].created \in Instants
  BY DEF TypeOK, Minted, Approval, Bindings, Decisions

\* What a VALID _graph_reason says about the decision's proof and deadline.
LEMMA ValidGraph ==
  ASSUME TypeOK, NEW d \in Decisions, NEW now \in Instants, NEW mode \in Modes, NEW current \in BOOLEAN,
         GraphReason(d, now, mode, current) = "VALID"
  PROVE  /\ evals[d[1]] \in Evaluation
         /\ evals[d[1]] # NoEval
         /\ evals[d[1]].opp = oppV
         /\ now < Deadline[oppV]
         /\ evals[d[1]].retrieved # {}
         /\ \A t \in evals[d[1]].retrieved :
              t \in Instants /\ t <= now /\ now < t + DefaultTtl
<1> USE GraphAssumption
<1>1. /\ Recorded(d) /\ VersionsCurrent(d)
      /\ ~ (Deadline[oppV] <= now)
      /\ evals[d[1]].retrieved # {}
      /\ \A t \in evals[d[1]].retrieved : Fresh(t, now, Deadline[oppV])
  BY DEF GraphReason
<1>2. d[1] \in Batches
  BY DEF Decisions
<1>3. evals[d[1]] \in Evaluation /\ evals[d[1]] # NoEval
  BY <1>1, <1>2 DEF Recorded, TypeOK, GraphTypeOK
<1>4. evals[d[1]].retrieved \subseteq Instants
  BY <1>3 DEF Evaluation
<1>5. Deadline[oppV] \in Nat
  BY DEF TypeOK, GraphTypeOK
<1>6. ASSUME NEW t \in evals[d[1]].retrieved
      PROVE  t \in Instants /\ t <= now /\ now < t + DefaultTtl
  BY <1>1, <1>4, <1>5, <1>6 DEF Fresh, Ttl, Instants
<1> QED
  BY <1>1, <1>3, <1>5, <1>6 DEF VersionsCurrent, Instants

\* While a graph is VALID, no approval minted for it has expired: a request
\* cannot go past an expired approval that nobody revoked.
LEMMA ValidGraphIsUnexpired ==
  ASSUME TypeOK, NEW a \in Minted, Grounded(a), NEW now \in Instants,
         NEW mode \in Modes, NEW current \in BOOLEAN,
         GraphReason(approvals[a].binding[1], now, mode, current) = "VALID"
  PROVE  now < approvals[a].expires
<1> DEFINE d == approvals[a].binding[1]
<1>1. d \in Decisions /\ approvals[a].created \in Instants
  BY MintedTyped
<1>2. /\ evals[d[1]].opp = oppV /\ now < Deadline[oppV]
      /\ \A t \in evals[d[1]].retrieved :
           t \in Instants /\ t <= now /\ now < t + DefaultTtl
  BY <1>1, ValidGraph
<1>3. PICK t \in evals[d[1]].retrieved : t <= approvals[a].created
  BY DEF Grounded
<1>4. now < approvals[a].created + ApprovalTtl
  BY <1>1, <1>2, <1>3, GraphAssumption, AuthorityAssumption DEF Instants
<1>5. approvals[a].expires = Expiry(approvals[a].created, Deadline[oppV])
  BY <1>2 DEF Grounded
<1> QED
  BY <1>2, <1>4, <1>5 DEF Expiry

\* A committed evaluation is immutable.
LEMMA EvaluationsStay ==
  ASSUME TypeOK, GraphNext, NEW b \in Batches, evals[b] # NoEval
  PROVE  evals'[b] = evals[b]
<1>1. ASSUME NEW r \in Runs, NEW c \in Batches, CommitRun(r, c)
      PROVE  evals'[b] = evals[b]
  BY <1>1 DEF CommitRun, TypeOK, GraphTypeOK
<1> QED
  BY <1>1 DEF GraphNext, Tick, ChangePolicy, PersistObservation,
     MarkRefreshFailed, UpdateProfile, UpdateProject, ReplaceProof, CommitRerun

\* A write of the graph disturbs no approval.
LEMMA GraphKeepsInv ==
  ASSUME IInv, GraphNext, UNCHANGED authorityVars
  PROVE  IInv'
<1>1. TypeOK'
  BY GraphTyped DEF IInv, TypeOK
<1>2. ASSUME NEW a \in Minted' PROVE Grounded(a)'
  <2>1. a \in Minted /\ approvals'[a] = approvals[a] /\ Grounded(a)
    BY DEF IInv, Minted
  <2>2. approvals[a].binding[1][1] \in Batches
    BY <2>1, MintedTyped DEF IInv
  <2> QED
    BY <2>1, <2>2, EvaluationsStay DEF IInv, Grounded
<1>3. OneLiveApproval'
  BY DEF IInv, OneLiveApproval, Minted, Void, Spent
<1> QED
  BY <1>1, <1>2, <1>3 DEF IInv

\* A transaction that mints nothing, keeps what approvals are bound to, and lets
\* no void approval come back keeps the invariant.
LEMMA NoMintKeepsInv ==
  ASSUME IInv, TypeOK', UNCHANGED graphVars, Minted' = Minted,
         \A a \in Minted :
           /\ approvals'[a].binding = approvals[a].binding
           /\ approvals'[a].created = approvals[a].created
           /\ approvals'[a].expires = approvals[a].expires
           /\ Void(a) => Void(a)'
  PROVE  IInv'
<1>1. ASSUME NEW a \in Minted' PROVE Grounded(a)'
  BY DEF IInv, Grounded
<1>2. OneLiveApproval'
  BY DEF IInv, OneLiveApproval
<1> QED
  BY <1>1, <1>2 DEF IInv

LEMMA DenyKeepsInv ==
  ASSUME IInv, TypeOK', UNCHANGED graphVars,
         NEW a \in Approvals, NEW e \in Bindings, NEW now \in Instants, Deny(a, e, now)
  PROVE  IInv'
<1>1. a \in Minted
  BY DEF Deny, Inspect, RevokingReasons, Minted
<1>2. ASSUME NEW x \in Minted
      PROVE  /\ approvals'[x] \in Approval
             /\ approvals'[x].binding = approvals[x].binding
             /\ approvals'[x].created = approvals[x].created
             /\ approvals'[x].expires = approvals[x].expires
             /\ Void(x) => Void(x)'
  BY <1>1, MintedTyped, ApprovalTyped DEF Deny, IInv, TypeOK, Approval, Void, Spent
<1>3. Minted' = Minted
  BY <1>1, <1>2, AuthorityAssumption DEF Deny, Minted, IInv, TypeOK
<1> QED
  BY <1>2, <1>3, NoMintKeepsInv

LEMMA ConfirmKeepsInv ==
  ASSUME IInv, TypeOK', UNCHANGED graphVars, NEW a \in Approvals, NEW e \in Bindings,
         NEW k \in Keys, NEW now \in Instants, Confirm(a, k, e, now)
  PROVE  IInv'
<1>1. a \in Minted /\ ~ Void(a)
  BY DEF Confirm, Inspect, Minted, Void
<1>2. ASSUME NEW x \in Minted
      PROVE  /\ approvals'[x] \in Approval
             /\ approvals'[x].binding = approvals[x].binding
             /\ approvals'[x].created = approvals[x].created
             /\ approvals'[x].expires = approvals[x].expires
             /\ Void(x) => Void(x)'
  BY <1>1, MintedTyped, ApprovalTyped DEF Confirm, IInv, TypeOK, Approval, Void, Spent
<1>3. Minted' = Minted
  BY <1>1, <1>2, AuthorityAssumption DEF Confirm, Minted, IInv, TypeOK
<1> QED
  BY <1>2, <1>3, NoMintKeepsInv

LEMMA ConsumeKeepsInv ==
  ASSUME IInv, TypeOK', UNCHANGED graphVars, NEW a \in Approvals, NEW e \in Bindings,
         NEW k \in Keys, NEW now \in Instants, Consume(a, k, e, now)
  PROVE  IInv'
<1>1. a \in Minted /\ ~ Void(a)
  BY DEF Consume, Inspect, Minted, Void
<1>2. ASSUME NEW x \in Minted
      PROVE  /\ approvals'[x] \in Approval
             /\ approvals'[x].binding = approvals[x].binding
             /\ approvals'[x].created = approvals[x].created
             /\ approvals'[x].expires = approvals[x].expires
             /\ Void(x) => Void(x)'
  BY <1>1, MintedTyped, ApprovalTyped DEF Consume, IInv, TypeOK, Approval, Void, Spent
<1>3. Minted' = Minted
  BY <1>1, <1>2, AuthorityAssumption DEF Consume, Minted, IInv, TypeOK
<1> QED
  BY <1>2, <1>3, NoMintKeepsInv

LEMMA RevokeInvalidKeepsInv ==
  ASSUME IInv, TypeOK', UNCHANGED graphVars, NEW scope \in Scopes,
         NEW now \in Instants, RevokeInvalid(scope, now)
  PROVE  IInv'
<1>1. ASSUME NEW x \in Minted
      PROVE  /\ approvals'[x] \in Approval
             /\ approvals'[x].binding = approvals[x].binding
             /\ approvals'[x].created = approvals[x].created
             /\ approvals'[x].expires = approvals[x].expires
             /\ Void(x) => Void(x)'
  BY MintedTyped, ApprovalTyped
     DEF RevokeInvalid, IInv, TypeOK, Approval, Void, Spent
<1>2. ASSUME NEW x \in Approvals \ Minted PROVE x \notin Minted'
  BY <1>2 DEF RevokeInvalid, Minted
<1>3. Minted' = Minted
  <2>1. Minted \subseteq Minted'
    BY <1>1, AuthorityAssumption DEF Minted
  <2> QED
    BY <2>1, <1>2 DEF Minted
<1> QED
  BY <1>1, <1>3, NoMintKeepsInv

\* The one transaction that mints: every earlier approval of the binding is
\* void, because the graph is VALID and so none of them has merely expired.
LEMMA RequestKeepsInv ==
  ASSUME IInv, TypeOK', UNCHANGED graphVars, NEW a \in Approvals, NEW e \in Bindings,
         NEW now \in Instants, Request(a, e, now)
  PROVE  IInv'
<1>1. /\ approvals[a] = NoApproval /\ e[1] \in Decisions
      /\ \A x \in Approvals :
           approvals'[x] = IF x = a THEN NewApproval(e, now) ELSE approvals[x]
  BY DEF Request, IInv, TypeOK, Bindings
<1>2. Minted' \subseteq Minted \cup {a} /\ a \notin Minted
  BY <1>1 DEF Minted
<1>3. ASSUME NEW x \in Minted, approvals[x].binding = e
      PROVE  Void(x)
  <2>1. GraphReason(approvals[x].binding[1], now, e[2], TRUE) = "VALID"
    BY <1>3 DEF Request
  <2>2. TypeOK /\ Grounded(x) /\ e[2] \in Modes
    BY DEF IInv, Bindings
  <2>3. now < approvals[x].expires
    BY <2>1, <2>2, ValidGraphIsUnexpired
  <2> QED
    BY <1>3, <2>3 DEF Request, Reusable, Void
<1>4. Grounded(a)'
  <2>1. /\ evals[e[1][1]] # NoEval /\ evals[e[1][1]].opp = oppV
        /\ \E t \in evals[e[1][1]].retrieved : t <= now
    BY <1>1, ValidGraph DEF Request, IInv, Bindings
  <2>2. approvals'[a] = NewApproval(e, now)
    BY <1>1
  <2> QED
    BY <2>1, <2>2 DEF Grounded, NewApproval
<1>5. ASSUME NEW x \in Minted' PROVE Grounded(x)'
  <2>1. CASE x = a
    BY <2>1, <1>4
  <2>2. CASE x # a
    <3>1. x \in Minted /\ approvals'[x] = approvals[x]
      BY <2>2, <1>1, <1>2 DEF Minted
    <3> QED
      BY <3>1 DEF IInv, Grounded
  <2> QED
    BY <2>1, <2>2
<1>6. OneLiveApproval'
  <2> SUFFICES ASSUME NEW x \in Minted', NEW y \in Minted', x # y,
                      approvals'[x].binding = approvals'[y].binding
               PROVE  Void(x)' \/ Void(y)'
    BY DEF OneLiveApproval
  <2>1. NewApproval(e, now).binding = e
    BY DEF NewApproval
  <2>2. CASE x = a
    <3>1. y \in Minted /\ approvals'[y] = approvals[y] /\ approvals[y].binding = e
      BY <2>1, <2>2, <1>1, <1>2 DEF Minted
    <3> QED
      BY <3>1, <1>3 DEF Void, Spent
  <2>3. CASE y = a
    <3>1. x \in Minted /\ approvals'[x] = approvals[x] /\ approvals[x].binding = e
      BY <2>1, <2>3, <1>1, <1>2 DEF Minted
    <3> QED
      BY <3>1, <1>3 DEF Void, Spent
  <2>4. CASE x # a /\ y # a
    BY <2>4, <1>1, <1>2 DEF IInv, OneLiveApproval, Minted, Void, Spent
  <2> QED
    BY <2>2, <2>3, <2>4
<1> QED
  BY <1>5, <1>6 DEF IInv

LEMMA IInvInit == Init => IInv
  BY TypeOKInit DEF Init, AuthorityInit, IInv, OneLiveApproval, Minted

LEMMA IInvStep == IInv /\ [Next]_vars => IInv'
<1> SUFFICES ASSUME IInv, [Next]_vars PROVE IInv'
  OBVIOUS
<1>1. TypeOK'
  BY TypeOKStep DEF IInv
<1>2. CASE GraphNext /\ UNCHANGED authorityVars
  BY <1>2, GraphKeepsInv
<1>3. CASE AuthorityNext /\ UNCHANGED graphVars
  <2>1. Recent \subseteq Instants
    BY RecentInstants DEF IInv, TypeOK
  <2> QED
    BY <1>1, <1>3, <2>1, RequestKeepsInv, DenyKeepsInv, ConfirmKeepsInv,
       ConsumeKeepsInv, RevokeInvalidKeepsInv DEF AuthorityNext
<1>4. CASE UNCHANGED vars
  BY <1>1, <1>4 DEF vars, IInv, Grounded, OneLiveApproval, Minted, Void, Spent
<1> QED
  BY <1>2, <1>3, <1>4 DEF Next

\* Requests converge: at most one approval of a decision and mode is not void.
THEOREM RequestsConverge == Spec => []OneLiveApproval
<1>1. IInv => OneLiveApproval
  BY DEF IInv
<1> QED
  BY <1>1, IInvInit, IInvStep, PTL DEF Spec

\* Single use: a decision snapshot is spent by at most one approval, for every
\* number of approvals, keys, evaluations and runs, any lifetimes with
\* DefaultTtl <= ApprovalTtl, and any lag of the instants.
THEOREM SingleUse == Spec => []OneSpendPerBinding
<1>1. IInv => OneSpendPerBinding
  BY DEF IInv, OneLiveApproval, OneSpendPerBinding, Void
<1> QED
  BY <1>1, IInvInit, IInvStep, PTL DEF Spec

-----------------------------------------------------------------------------
(* Every spend is on record. *)

\* The receipts and the instants of an approval agree with its state.
Receipted(a) ==
  /\ approvals[a].created <= approvals[a].updated
  /\ approvals[a].state = "APPROVED" \/ Spent(a) => \E k \in Keys : confirmReceipt[k] = a
  /\ Spent(a) <=> \E k \in Keys : consumeReceipt[k] = a
  /\ Spent(a) => /\ approvals[a].created <= approvals[a].consumedAt
                 /\ approvals[a].consumedAt < approvals[a].expires

\* No key stands for an approval that was not minted, and no two for one spend.
ReceiptInv ==
  /\ TypeOK
  /\ \A a \in Minted : Receipted(a)
  /\ \A k \in Keys : consumeReceipt[k] # NoApproval => consumeReceipt[k] \in Minted
  /\ \A k, l \in Keys :
       consumeReceipt[k] # NoApproval /\ consumeReceipt[k] = consumeReceipt[l] => k = l

\* What a transaction that inspected an approval as VALID knows of its record.
LEMMA ValidRecord ==
  ASSUME NEW a, NEW e, NEW now, NEW pendingAllowed \in BOOLEAN,
         Inspect(a, e, now, pendingAllowed) = "VALID"
  PROVE  /\ approvals[a] # NoApproval /\ approvals[a].state # "REVOKED"
         /\ ~ pendingAllowed => approvals[a].state # "PENDING"
         /\ ~ (now < approvals[a].updated) /\ ~ (now >= approvals[a].expires)
         /\ ~ Spent(a)
  BY DEF Inspect, Spent

LEMMA RequestKeepsReceipts ==
  ASSUME ReceiptInv, TypeOK', NEW a \in Approvals, NEW e \in Bindings,
         NEW now \in Instants, Request(a, e, now)
  PROVE  ReceiptInv'
<1>1. a \notin Minted /\ UNCHANGED <<confirmReceipt, consumeReceipt>>
  BY DEF Request, Minted
<1>2. /\ \A x \in Minted : approvals'[x] = approvals[x] /\ x \in Minted'
      /\ Minted' \subseteq Minted \cup {a}
  BY <1>1 DEF Request, Minted, ReceiptInv, TypeOK
<1>3. \A k \in Keys : consumeReceipt[k] # a
  BY <1>1, AuthorityAssumption DEF ReceiptInv
<1>4. /\ approvals'[a].created = now /\ approvals'[a].updated = now
      /\ approvals'[a].state = "PENDING" /\ approvals'[a].consumedAt = Unspent
  BY DEF Request, NewApproval, ReceiptInv, TypeOK
<1>5. Receipted(a)'
  BY <1>1, <1>3, <1>4 DEF Receipted, Spent, Instants
<1>6. ASSUME NEW x \in Minted PROVE Receipted(x)'
  BY <1>1, <1>2 DEF ReceiptInv, Receipted, Spent
<1> QED
  BY <1>1, <1>2, <1>5, <1>6 DEF ReceiptInv

\* A transaction that moves the state and the update of some records only.
LEMMA RevisionKeepsReceipts ==
  ASSUME ReceiptInv, TypeOK', Minted' = Minted, UNCHANGED <<confirmReceipt, consumeReceipt>>,
         \A x \in Minted :
           /\ approvals'[x].created = approvals[x].created
           /\ approvals'[x].expires = approvals[x].expires
           /\ approvals'[x].consumedAt = approvals[x].consumedAt
           /\ approvals'[x].created <= approvals'[x].updated
           /\ approvals'[x].state = "APPROVED" => approvals[x].state = "APPROVED"
  PROVE  ReceiptInv'
<1>1. ASSUME NEW x \in Minted PROVE Receipted(x)'
  BY DEF ReceiptInv, Receipted, Spent
<1> QED
  BY <1>1 DEF ReceiptInv

LEMMA DenyKeepsReceipts ==
  ASSUME ReceiptInv, TypeOK', NEW a \in Approvals, NEW e \in Bindings,
         NEW now \in Instants, Deny(a, e, now)
  PROVE  ReceiptInv'
<1>1. a \in Minted /\ ~ (now < approvals[a].updated)
  BY DEF Deny, Inspect, RevokingReasons, Minted
<1>2. approvals[a].created <= now
  BY <1>1, MintedTyped DEF ReceiptInv, Receipted, Approval, Instants
<1>3. ASSUME NEW x \in Minted
      PROVE  /\ approvals'[x] \in Approval
             /\ approvals'[x].created = approvals[x].created
             /\ approvals'[x].expires = approvals[x].expires
             /\ approvals'[x].consumedAt = approvals[x].consumedAt
             /\ approvals'[x].created <= approvals'[x].updated
             /\ approvals'[x].state = "APPROVED" => approvals[x].state = "APPROVED"
  <2>1. approvals[x] \in Approval /\ approvals[x].created <= approvals[x].updated
    BY MintedTyped DEF ReceiptInv, Receipted
  <2>2. \/ approvals'[x] = approvals[x]
        \/ /\ approvals'[x] = [approvals[x] EXCEPT !.state = "REVOKED", !.updated = now]
           /\ approvals[x].created <= now
    BY <1>2 DEF Deny, ReceiptInv, TypeOK, Minted
  <2> QED
    BY <2>1, <2>2 DEF Approval, States
<1>4. Minted' = Minted
  BY <1>1, <1>3, AuthorityAssumption DEF Deny, Minted, ReceiptInv, TypeOK
<1> QED
  BY <1>3, <1>4, RevisionKeepsReceipts DEF Deny

LEMMA RevokeInvalidKeepsReceipts ==
  ASSUME ReceiptInv, TypeOK', NEW scope \in Scopes, NEW now \in Instants,
         RevokeInvalid(scope, now)
  PROVE  ReceiptInv'
<1>1. ASSUME NEW x \in Minted
      PROVE  /\ approvals'[x] \in Approval
             /\ approvals'[x].created = approvals[x].created
             /\ approvals'[x].expires = approvals[x].expires
             /\ approvals'[x].consumedAt = approvals[x].consumedAt
             /\ approvals'[x].created <= approvals'[x].updated
             /\ approvals'[x].state = "APPROVED" => approvals[x].state = "APPROVED"
  <2>1. approvals[x] \in Approval /\ approvals[x].created <= approvals[x].updated
    BY MintedTyped DEF ReceiptInv, Receipted
  <2>2. \/ approvals'[x] = approvals[x]
        \/ /\ approvals'[x] = [approvals[x] EXCEPT !.state = "REVOKED", !.updated = now]
           /\ approvals[x].created <= now
    BY DEF RevokeInvalid, Minted
  <2> QED
    BY <2>1, <2>2 DEF Approval, States
<1>2. ASSUME NEW x \in Approvals \ Minted PROVE x \notin Minted'
  BY <1>2 DEF RevokeInvalid, Minted
<1>3. Minted \subseteq Minted'
  BY <1>1, AuthorityAssumption DEF Minted
<1>4. Minted' = Minted
  BY <1>2, <1>3 DEF Minted
<1> QED
  BY <1>1, <1>4, RevisionKeepsReceipts DEF RevokeInvalid

LEMMA ConfirmKeepsReceipts ==
  ASSUME ReceiptInv, TypeOK', NEW a \in Approvals, NEW e \in Bindings,
         NEW k \in Keys, NEW now \in Instants, Confirm(a, k, e, now)
  PROVE  ReceiptInv'
<1>1. a \in Minted /\ ~ (now < approvals[a].updated) /\ ~ Spent(a)
  BY ValidRecord DEF Confirm, Minted
<1>2. approvals[a].created <= now
  BY <1>1, MintedTyped DEF ReceiptInv, Receipted, Approval, Instants
<1>3. ASSUME NEW x \in Minted
      PROVE  /\ approvals'[x] \in Approval
             /\ approvals'[x].created = approvals[x].created
             /\ approvals'[x].expires = approvals[x].expires
             /\ approvals'[x].consumedAt = approvals[x].consumedAt
             /\ approvals'[x].created <= approvals'[x].updated
             /\ x # a => approvals'[x] = approvals[x]
  <2>1. approvals[x] \in Approval /\ approvals[x].created <= approvals[x].updated
    BY MintedTyped DEF ReceiptInv, Receipted
  <2>2. \/ approvals'[x] = approvals[x]
        \/ /\ x = a
           /\ approvals'[x] = [approvals[x] EXCEPT !.state = "APPROVED", !.updated = now]
           /\ approvals[x].created <= now
    BY <1>2 DEF Confirm, ReceiptInv, TypeOK, Minted
  <2> QED
    BY <2>1, <2>2 DEF Approval, States
<1>4. Minted' = Minted
  BY <1>1, <1>3, AuthorityAssumption DEF Confirm, Minted, ReceiptInv, TypeOK
<1>5. /\ confirmReceipt'[k] = a /\ consumeReceipt' = consumeReceipt
      /\ \A l \in Keys : confirmReceipt[l] # NoApproval => confirmReceipt'[l] = confirmReceipt[l]
  BY DEF Confirm, ReceiptInv, TypeOK
<1>6. ASSUME NEW x \in Minted PROVE Receipted(x)'
  <2>1. CASE x = a
    BY <2>1, <1>1, <1>3, <1>5 DEF ReceiptInv, Receipted, Spent
  <2>2. CASE x # a
    <3>1. x # NoApproval
      BY AuthorityAssumption DEF Minted
    <3> QED
      BY <2>2, <3>1, <1>3, <1>5 DEF ReceiptInv, Receipted, Spent
  <2> QED
    BY <2>1, <2>2
<1> QED
  BY <1>4, <1>5, <1>6 DEF ReceiptInv

LEMMA ConsumeKeepsReceipts ==
  ASSUME ReceiptInv, TypeOK', NEW a \in Approvals, NEW e \in Bindings,
         NEW k \in Keys, NEW now \in Instants, Consume(a, k, e, now)
  PROVE  ReceiptInv'
<1>1. /\ a \in Minted /\ ~ Spent(a)
      /\ ~ (now < approvals[a].updated) /\ ~ (now >= approvals[a].expires)
      /\ approvals[a].state # "PENDING" /\ approvals[a].state # "REVOKED"
  BY ValidRecord DEF Consume, Minted
<1>2. approvals[a] \in Approval /\ approvals[a].state = "APPROVED"
  BY <1>1, MintedTyped DEF ReceiptInv, Approval, States
<1>3. approvals[a].created <= now /\ now < approvals[a].expires /\ now # Unspent
  BY <1>1, <1>2, GraphAssumption, AuthorityAssumption
     DEF ReceiptInv, Receipted, Approval, Instants, Unspent
<1>4. /\ approvals'[a] = [approvals[a] EXCEPT !.consumedAt = now, !.updated = now]
      /\ \A x \in Minted \ {a} : approvals'[x] = approvals[x]
  BY <1>1 DEF Consume, ReceiptInv, TypeOK, Minted
<1>5. /\ approvals'[a].created = approvals[a].created
      /\ approvals'[a].expires = approvals[a].expires
      /\ approvals'[a].consumedAt = now /\ approvals'[a].updated = now
      /\ approvals'[a] \in Approval
  BY <1>2, <1>4 DEF Approval, Instants
<1>6. Minted' = Minted
  BY <1>1, <1>4, <1>5, AuthorityAssumption DEF Consume, Minted, ReceiptInv, TypeOK
<1>7. /\ consumeReceipt'[k] = a /\ confirmReceipt' = confirmReceipt
      /\ consumeReceipt[k] = NoApproval
      /\ \A l \in Keys \ {k} : consumeReceipt'[l] = consumeReceipt[l]
  BY DEF Consume, ReceiptInv, TypeOK
<1>8. \A l \in Keys : consumeReceipt[l] # a
  BY <1>1 DEF ReceiptInv, Receipted
<1>9. ASSUME NEW x \in Minted PROVE Receipted(x)'
  <2>1. CASE x = a
    <3>1. \E l \in Keys : confirmReceipt[l] = a
      BY <1>1, <1>2 DEF ReceiptInv, Receipted
    <3> QED
      BY <2>1, <3>1, <1>3, <1>5, <1>7 DEF Receipted, Spent
  <2>2. CASE x # a
    <3>1. x # NoApproval
      BY AuthorityAssumption DEF Minted
    <3> QED
      BY <2>2, <3>1, <1>4, <1>7 DEF ReceiptInv, Receipted, Spent
  <2> QED
    BY <2>1, <2>2
<1>10. \A l \in Keys : consumeReceipt'[l] # NoApproval => consumeReceipt'[l] \in Minted'
  BY <1>1, <1>6, <1>7 DEF ReceiptInv
<1>11. \A l, m \in Keys :
         consumeReceipt'[l] # NoApproval /\ consumeReceipt'[l] = consumeReceipt'[m] => l = m
  BY <1>7, <1>8 DEF ReceiptInv
<1> QED
  BY <1>6, <1>9, <1>10, <1>11 DEF ReceiptInv

LEMMA ReceiptInit == Init => ReceiptInv
  BY TypeOKInit DEF Init, AuthorityInit, ReceiptInv, Minted

LEMMA ReceiptStep == ReceiptInv /\ [Next]_vars => ReceiptInv'
<1> SUFFICES ASSUME ReceiptInv, [Next]_vars PROVE ReceiptInv'
  OBVIOUS
<1>1. TypeOK'
  BY TypeOKStep DEF ReceiptInv
<1>2. CASE UNCHANGED authorityVars
  BY <1>1, <1>2 DEF authorityVars, ReceiptInv, Receipted, Minted, Spent
<1>3. CASE AuthorityNext
  <2>1. Recent \subseteq Instants
    BY RecentInstants DEF ReceiptInv, TypeOK
  <2> QED
    BY <1>1, <1>3, <2>1, RequestKeepsReceipts, DenyKeepsReceipts, ConfirmKeepsReceipts,
       ConsumeKeepsReceipts, RevokeInvalidKeepsReceipts DEF AuthorityNext
<1> QED
  BY <1>2, <1>3 DEF Next, vars

LEMMA ReceiptsSuffice == ReceiptInv => SpentOnRecord
<1> SUFFICES ASSUME ReceiptInv PROVE SpentOnRecord
  OBVIOUS
<1>1. SpentWithConsent
  BY DEF ReceiptInv, Receipted, SpentWithConsent
<1>2. ASSUME NEW a \in Minted
      PROVE  Cardinality({k \in Keys : consumeReceipt[k] = a}) = IF Spent(a) THEN 1 ELSE 0
  <2>1. CASE Spent(a)
    <3>1. PICK k \in Keys : consumeReceipt[k] = a
      BY <2>1 DEF ReceiptInv, Receipted
    <3>2. a # NoApproval
      BY AuthorityAssumption DEF Minted
    <3>3. {l \in Keys : consumeReceipt[l] = a} = {k}
      BY <3>1, <3>2 DEF ReceiptInv
    <3> QED
      BY <2>1, <3>3, FS_Singleton
  <2>2. CASE ~ Spent(a)
    <3>1. {k \in Keys : consumeReceipt[k] = a} = {}
      BY <2>2 DEF ReceiptInv, Receipted
    <3> QED
      BY <2>2, <3>1, FS_EmptySet
  <2> QED
    BY <2>1, <2>2
<1> QED
  BY <1>1, <1>2 DEF SpentOnRecord, OneReceiptPerSpend

\* Every spend is on record: for every number of approvals and keys, and any
\* race of confirmations, retries, expiries and revocations, a spent approval has
\* one consumption receipt, was confirmed, and was spent before it expired.
THEOREM SpendsAreRecorded == Spec => []SpentOnRecord
  BY ReceiptInit, ReceiptStep, ReceiptsSuffice, PTL DEF Spec

-----------------------------------------------------------------------------
(* What a step may do to an approval. *)

\* A record whose state and update change: it moves forward, and is refused
\* when its instant is behind the update, unless it is revoked.
LEMMA RevisionIsForward ==
  ASSUME TypeOK, NEW a \in Minted, NEW now \in Instants, NEW s \in States,
         approvals'[a] = [approvals[a] EXCEPT !.state = s, !.updated = now],
         Rank(approvals[a].state) <= Rank(s),
         s = "REVOKED" \/ ~ (now < approvals[a].updated)
  PROVE  LifecycleStep(a)
<1>1. approvals[a] \in Approval
  BY MintedTyped
<1> DEFINE next == [approvals[a] EXCEPT !.state = s, !.updated = now]
<1>2. /\ next.binding = approvals[a].binding /\ next.created = approvals[a].created
      /\ next.expires = approvals[a].expires /\ next.consumedAt = approvals[a].consumedAt
      /\ next.state = s /\ next.updated = now
  BY <1>1 DEF Approval
<1>3. approvals[a].updated \in Nat /\ now \in Nat
  BY <1>1 DEF Approval, Instants
<1>4. approvals'[a] = next
  OBVIOUS
<1> HIDE DEF next
<1> QED
  BY <1>2, <1>3, <1>4 DEF LifecycleStep

LEMMA SameRecord ==
  ASSUME TypeOK, NEW a \in Minted, approvals'[a] = approvals[a]
  PROVE  LifecycleStep(a)
<1>1. approvals[a].state \in States /\ approvals[a].updated \in Nat
  BY MintedTyped DEF Approval, Instants
<1> QED
  BY <1>1 DEF LifecycleStep, Rank, States

\* Every transaction moves an approval along its life.
LEMMA StepIsForward ==
  ASSUME TypeOK, [Next]_vars, NEW a \in Minted
  PROVE  LifecycleStep(a)
<1>1. CASE UNCHANGED authorityVars
  BY <1>1, SameRecord
<1>2. ASSUME NEW now \in Recent, NEW x \in Approvals, NEW e \in Bindings, Request(x, e, now)
      PROVE  LifecycleStep(a)
  BY <1>2, SameRecord DEF Request, Minted, TypeOK
<1>3. approvals[a] \in Approval /\ a \in Approvals
  BY MintedTyped
<1>4. \A now \in Recent : now \in Instants
  BY RecentInstants DEF TypeOK
<1>5. Rank(approvals[a].state) <= Rank("REVOKED")
  BY <1>3 DEF Approval, States, Rank
<1>6. ASSUME NEW now \in Recent, NEW x \in Approvals, NEW e \in Bindings, Deny(x, e, now)
      PROVE  LifecycleStep(a)
  <2>1. CASE x = a
    <3>1. approvals'[a] = [approvals[a] EXCEPT !.state = "REVOKED", !.updated = now]
      BY <1>3, <1>6, <2>1 DEF Deny, TypeOK
    <3> QED
      BY <1>4, <1>5, <3>1, RevisionIsForward DEF States
  <2>2. CASE x # a
    BY <1>3, <1>6, <2>2, SameRecord DEF Deny, TypeOK
  <2> QED
    BY <2>1, <2>2
<1>7. ASSUME NEW now \in Recent, NEW scope \in Scopes, RevokeInvalid(scope, now)
      PROVE  LifecycleStep(a)
  <2>1. \/ approvals'[a] = approvals[a]
        \/ approvals'[a] = [approvals[a] EXCEPT !.state = "REVOKED", !.updated = now]
    BY <1>3, <1>7 DEF RevokeInvalid
  <2> QED
    BY <1>4, <1>5, <2>1, SameRecord, RevisionIsForward DEF States
<1>8. ASSUME NEW now \in Recent, NEW x \in Approvals, NEW e \in Bindings, NEW k \in Keys,
             Confirm(x, k, e, now)
      PROVE  LifecycleStep(a)
  <2>1. CASE x = a
    <3>1. approvals'[a] = [approvals[a] EXCEPT !.state = "APPROVED", !.updated = now]
      BY <1>3, <1>8, <2>1 DEF Confirm, TypeOK
    <3>2. ~ (now < approvals[a].updated) /\ approvals[a].state = "PENDING"
      BY <1>8, <2>1, ValidRecord DEF Confirm
    <3>3. Rank(approvals[a].state) <= Rank("APPROVED")
      BY <3>2 DEF Rank
    <3> QED
      BY <1>4, <3>1, <3>2, <3>3, RevisionIsForward DEF States
  <2>2. CASE x # a
    BY <1>3, <1>8, <2>2, SameRecord DEF Confirm, TypeOK
  <2> QED
    BY <2>1, <2>2
<1>9. ASSUME NEW now \in Recent, NEW x \in Approvals, NEW e \in Bindings, NEW k \in Keys,
             Consume(x, k, e, now)
      PROVE  LifecycleStep(a)
  <2>1. CASE x = a
    <3> DEFINE next == [approvals[a] EXCEPT !.consumedAt = now, !.updated = now]
    <3>1. approvals'[a] = next
      BY <1>3, <1>9, <2>1 DEF Consume, TypeOK
    <3>2. /\ ~ (now < approvals[a].updated) /\ approvals[a].state = "APPROVED"
          /\ approvals[a].consumedAt = Unspent
      BY <1>3, <1>9, <2>1, ValidRecord DEF Consume, Spent, Approval, States
    <3>3. /\ next.binding = approvals[a].binding /\ next.created = approvals[a].created
          /\ next.expires = approvals[a].expires /\ next.state = approvals[a].state
          /\ next.updated = now
      BY <1>3 DEF Approval
    <3>4. approvals[a].updated \in Nat /\ now \in Nat
      BY <1>3, <1>4 DEF Approval, Instants
    <3> HIDE DEF next
    <3> QED
      BY <3>1, <3>2, <3>3, <3>4 DEF LifecycleStep, Rank
  <2>2. CASE x # a
    BY <1>3, <1>9, <2>2, SameRecord DEF Consume, TypeOK
  <2> QED
    BY <2>1, <2>2
<1> QED
  BY <1>1, <1>2, <1>6, <1>7, <1>8, <1>9 DEF Next, AuthorityNext, vars

\* The life of an approval runs one way: whatever instants the transactions
\* work with, a revoked approval never revives and is never spent, and no
\* confirmation or spend goes back in time.
THEOREM LivesRunForward == Spec => LifecycleOrder
<1>1. TypeOK /\ [Next]_vars => [\A a \in Minted : LifecycleStep(a)]_vars
  BY StepIsForward
<1> QED
  BY <1>1, TypeCorrect, PTL DEF Spec, LifecycleOrder

-----------------------------------------------------------------------------
(* Confirmations and spends act on the graph as it is. *)

\* A run row names the opportunity version its decision was evaluated on.
RowsOfEvaluations ==
  \A r \in runs :
    evals[r.decision[1]] # NoEval /\ r.opp = evals[r.decision[1]].opp

LEMMA RowIsOfItsEvaluation ==
  ASSUME NEW r, NEW b, NEW e, NEW started, AppendRun(r, b, e, started)
  PROVE  \A row \in runs' : row \in runs \/ (row.decision[1] = b /\ row.opp = e.opp)
<1> DEFINE new == [id |-> r, opp |-> e.opp, decision |-> <<b, e.selected>>,
                   mode |-> e.mode, state |-> e.state, created |-> started,
                   completed |-> clock]
<1>1. new.decision[1] = b /\ new.opp = e.opp
  OBVIOUS
<1>2. runs' = runs \cup {new}
  BY DEF AppendRun
<1> HIDE DEF new
<1> QED
  BY <1>1, <1>2

LEMMA RowsStep == TypeOK /\ RowsOfEvaluations /\ [Next]_vars => RowsOfEvaluations'
<1> SUFFICES ASSUME TypeOK, RowsOfEvaluations, [Next]_vars PROVE RowsOfEvaluations'
  OBVIOUS
<1>1. CASE UNCHANGED <<runs, evals>>
  BY <1>1 DEF RowsOfEvaluations
<1>2. ASSUME NEW r \in Runs, NEW b \in Batches, CommitRun(r, b)
      PROVE  RowsOfEvaluations'
  <2>1. PICK e \in Evaluations, started \in Recent :
          evals' = [evals EXCEPT ![b] = e] /\ AppendRun(r, b, e, started)
    BY <1>2 DEF CommitRun
  <2>2. e # NoEval
    BY <2>1, EvaluationsTyped, GraphAssumption DEF TypeOK
  <2>3. evals[b] = NoEval
    BY <1>2 DEF CommitRun
  <2>4. evals'[b] = e /\ \A c : c # b => evals'[c] = evals[c]
    BY <2>1 DEF TypeOK, GraphTypeOK
  <2>5. \A row \in runs' : row \in runs \/ (row.decision[1] = b /\ row.opp = e.opp)
    BY <2>1, RowIsOfItsEvaluation
  <2> QED
    BY <2>2, <2>3, <2>4, <2>5 DEF RowsOfEvaluations
<1>3. ASSUME NEW r \in Runs, NEW b \in Batches, CommitRerun(r, b)
      PROVE  RowsOfEvaluations'
  <2>1. evals[b] # NoEval /\ evals' = evals
        /\ \E started \in Recent : AppendRun(r, b, evals[b], started)
    BY <1>3 DEF CommitRerun
  <2>2. \A row \in runs' : row \in runs \/ (row.decision[1] = b /\ row.opp = evals[b].opp)
    BY <2>1, RowIsOfItsEvaluation
  <2> QED
    BY <2>1, <2>2 DEF RowsOfEvaluations
<1> QED
  BY <1>1, <1>2, <1>3 DEF Next, GraphNext, Tick, ChangePolicy, PersistObservation,
     MarkRefreshFailed, UpdateProfile, UpdateProject, ReplaceProof, vars

\* What _graph_reason finds VALID is the current graph, even where it does not
\* ask for the current run.
LEMMA ValidIsCurrent ==
  ASSUME TypeOK, RowsOfEvaluations, NEW d \in Decisions, NEW now, NEW mode,
         GraphReason(d, now, mode, FALSE) = "VALID"
  PROVE  OnCurrentGraph(d)
<1>1. /\ Recorded(d) /\ evals[d[1]].policy = policy /\ VersionsCurrent(d)
      /\ ~ Superseded(d) /\ SourceRunReason(d, now) = "VALID"
      /\ oppV \notin refreshFailed /\ d[1] \notin proofReplaced
  BY DEF GraphReason, RunReason
<1>2. d[1] \in Batches
  BY DEF Decisions
<1>3. \A b \in Batches : evals[b] # NoEval => evals[b].created \in Nat
  BY DEF TypeOK, GraphTypeOK, Evaluation, Instants
<1>4. ASSUME NEW b \in Batches \ {d[1]}, evals[b] # NoEval
      PROVE  \/ evals[b].opp # oppV \/ evals[b].projV[d[2]] = 0
             \/ evals[b].created < evals[d[1]].created
  BY <1>1, <1>2, <1>3, <1>4 DEF Superseded, Recorded, VersionsCurrent
<1>5. SourceRuns(d) = {s \in runs : s.decision = d}
  BY DEF SourceRuns, RowsOfEvaluations
<1>6. \E r \in runs : r.state = "COMPLETED" /\ SourceRuns(d) = {r}
  <2>1. /\ \A r, s \in SourceRuns(d) : r = s
        /\ \E r \in SourceRuns(d) : r.state = "COMPLETED"
    BY <1>1 DEF SourceRunReason
  <2> QED
    BY <2>1 DEF SourceRuns
<1> QED
  BY <1>1, <1>4, <1>5, <1>6 DEF OnCurrentGraph, VersionsCurrent

LEMMA StepActsOnCurrentGraph ==
  ASSUME TypeOK, RowsOfEvaluations, [Next]_vars, NEW a \in Minted,
         \/ approvals'[a].state = "APPROVED" /\ approvals[a].state # "APPROVED"
         \/ approvals'[a].consumedAt # approvals[a].consumedAt
  PROVE  OnCurrentGraph(approvals[a].binding[1])
<1>1. approvals[a] \in Approval /\ a \in Approvals /\ approvals[a].binding[1] \in Decisions
  BY MintedTyped
<1>2. approvals'[a] # approvals[a]
  OBVIOUS
<1>3. ASSUME NEW now \in Recent, NEW x \in Approvals, NEW e \in Bindings, NEW k \in Keys,
             Confirm(x, k, e, now) \/ Consume(x, k, e, now)
      PROVE  OnCurrentGraph(approvals[a].binding[1])
  <2>1. x = a
    BY <1>1, <1>2, <1>3 DEF Confirm, Consume, TypeOK
  <2>2. approvals[a].binding = e /\ GraphReason(e[1], now, e[2], FALSE) = "VALID"
    BY <1>3, <2>1 DEF Confirm, Consume, Inspect
  <2> QED
    BY <1>1, <2>2, ValidIsCurrent
<1>4. \A now \in Recent : now \in Instants
  BY RecentInstants DEF TypeOK
<1>5. ASSUME NEW now \in Recent,
             approvals'[a] = [approvals[a] EXCEPT !.state = "REVOKED", !.updated = now]
      PROVE  FALSE
  BY <1>1, <1>5 DEF Approval
<1>6. ASSUME NEW now \in Recent, NEW x \in Approvals, NEW e \in Bindings,
             Request(x, e, now) \/ Deny(x, e, now)
      PROVE  FALSE
  BY <1>1, <1>2, <1>5, <1>6 DEF Request, Deny, Minted, TypeOK
<1>7. ASSUME NEW now \in Recent, NEW scope \in Scopes, RevokeInvalid(scope, now)
      PROVE  FALSE
  BY <1>1, <1>2, <1>5, <1>7 DEF RevokeInvalid
<1> QED
  BY <1>2, <1>3, <1>6, <1>7 DEF Next, AuthorityNext, vars

\* Whatever moved since the request, a confirmation or a spend acts on the graph
\* as it is in its own transaction: its latest versions and evaluation, its one
\* completed run, no failed refresh and no replaced proof.
THEOREM ActionsAreCurrent == Spec => ActsOnCurrentGraph
<1> DEFINE Acts == \A a \in Minted :
             \/ approvals'[a].state = "APPROVED" /\ approvals[a].state # "APPROVED"
             \/ approvals'[a].consumedAt # approvals[a].consumedAt
             => OnCurrentGraph(approvals[a].binding[1])
<1>1. Init => RowsOfEvaluations
  BY DEF Init, GraphInit, RowsOfEvaluations
<1>2. TypeOK /\ RowsOfEvaluations /\ [Next]_vars => [Acts]_vars
  BY StepActsOnCurrentGraph
<1> QED
  BY <1>1, <1>2, RowsStep, TypeCorrect, PTL DEF Spec, ActsOnCurrentGraph
=============================================================================
