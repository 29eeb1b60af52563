---------------------------- MODULE DraftProofs ----------------------------
(***************************************************************************)
(* Theorems of the drafting workflow, for every number of approvals, keys, *)
(* threads and jobs.  Each step of a thread is a step of the approval      *)
(* authority or leaves it alone, so that what ApprovalProofs says of the   *)
(* authority alone it says of the authority inside the product; the        *)
(* records of the work, and the grant they fulfil, rest on that.           *)
(***************************************************************************)
EXTENDS DraftWorkflow, ApprovalProofs

USE DEF graphVars, authorityVars

-----------------------------------------------------------------------------
(* The authority inside the product *)

\* A call is known by its pc.
LEMMA CallByPc ==
  ASSUME NEW call \in Call
  PROVE  /\ call.pc = "request" => call.binding \in Bindings /\ call.since \in Instants
         /\ call.pc \in {"confirm", "start"} =>
              call.approval \in Approvals /\ call.key \in Keys /\ call.since \in Instants
         /\ call.pc \in {"compose", "persist", "fail"} => call.job \in Jobs
  BY DEF Call, Idle

\* What was inspected and found is a minted record.
LEMMA InspectedIsMinted ==
  ASSUME TypeOK, NEW a \in Approvals, NEW e, NEW now, NEW pendingAllowed \in BOOLEAN,
         Inspect(a, e, now, pendingAllowed) \in {"VALID"} \cup RevokingReasons
  PROVE  a \in Minted /\ approvals[a].binding = e /\ e \in Bindings
  <1>1. approvals[a] # NoApproval /\ approvals[a].binding = e
    BY DEF Inspect, RevokingReasons
  <1>. QED BY <1>1, MintedTyped DEF Minted

\* Every step of the product is a step of the authority, or none.
LEMMA StepOfAuthority ==
  ASSUME WorkTypeOK, [WorkNext]_allVars
  PROVE  [Next]_vars
  <1>1. \A c \in Clients : thread[c] \in Call /\ Nows(c) \subseteq Recent
    BY DEF WorkTypeOK, Nows
  <1>2. ASSUME NEW c \in Clients, RequestTx(c)
        PROVE  [Next]_vars
    <2>1. thread[c].binding \in Bindings
      BY <1>1, <1>2, CallByPc DEF RequestTx
    <2>. QED BY <1>1, <1>2, <2>1 DEF RequestTx, Next, AuthorityNext
  <1>3. ASSUME NEW c \in Clients, ConfirmTx(c)
        PROVE  [Next]_vars
    <2> DEFINE a == thread[c].approval
               k == thread[c].key
               e == approvals[a].binding
    <2>1. a \in Approvals /\ k \in Keys
      BY <1>1, <1>3, CallByPc DEF ConfirmTx
    <2>2. CASE UNCHANGED authorityVars
      BY <1>3, <2>2 DEF ConfirmTx, vars
    <2>3. ASSUME NEW now \in Nows(c), Confirm(a, k, e, now) \/ Deny(a, e, now)
          PROVE  [Next]_vars
      <3>1. Inspect(a, e, now, TRUE) \in {"VALID"} \cup RevokingReasons
        BY <2>3 DEF Confirm, Deny
      <3>3. e \in Bindings
        <4>1. TypeOK /\ TRUE \in BOOLEAN /\ FALSE \in BOOLEAN
          BY DEF WorkTypeOK
        <4> HIDE DEF a, k, e
        <4>. QED BY <2>1, <3>1, <4>1, InspectedIsMinted
      <3>2. now \in Recent
        BY <1>1
      <3> HIDE DEF a, k, e
      <3>. QED BY <1>3, <2>1, <2>3, <3>2, <3>3 DEF ConfirmTx, Next, AuthorityNext
    <2>. QED BY <1>3, <2>2, <2>3 DEF ConfirmTx
  <1>4. ASSUME NEW c \in Clients, StartTx(c)
        PROVE  [Next]_vars
    <2> DEFINE a == thread[c].approval
               k == thread[c].key
               e == approvals[a].binding
    <2>1. a \in Approvals /\ k \in Keys
      BY <1>1, <1>4, CallByPc DEF StartTx
    <2>2. CASE UNCHANGED authorityVars
      BY <1>4, <2>2 DEF StartTx, vars
    <2>3. ASSUME NEW now \in Nows(c), Consume(a, k, e, now)
          PROVE  [Next]_vars
      <3>1. Inspect(a, e, now, FALSE) \in {"VALID"} \cup RevokingReasons
        BY <2>3 DEF Consume
      <3>3. e \in Bindings
        <4>1. TypeOK /\ TRUE \in BOOLEAN /\ FALSE \in BOOLEAN
          BY DEF WorkTypeOK
        <4> HIDE DEF a, k, e
        <4>. QED BY <2>1, <3>1, <4>1, InspectedIsMinted
      <3>2. now \in Recent
        BY <1>1
      <3> HIDE DEF a, k, e
      <3>. QED BY <1>4, <2>1, <2>3, <3>2, <3>3 DEF StartTx, Next, AuthorityNext
    <2>. QED BY <1>4, <2>2, <2>3 DEF StartTx
  <1>5. CASE GraphNext /\ UNCHANGED <<authorityVars, workVars>>
    BY <1>5 DEF Next
  <1>6. CASE UNCHANGED vars
    BY <1>6
  <1>7. CASE \/ Crash
             \/ \E c \in Clients :
                  \/ \E d \in Decisions : CallRequest(c, d)
                  \/ \E a \in Approvals, k \in Keys : CallConfirm(c, a, k)
                  \/ Compose(c) \/ PersistTx(c) \/ FailTx(c)
    <2>1. UNCHANGED vars
      BY <1>7 DEF Crash, CallRequest, CallConfirm, Compose, PersistTx, FailTx
    <2>. QED BY <2>1
  <1>. QED BY <1>2, <1>3, <1>4, <1>5, <1>6, <1>7 DEF WorkNext, Run, allVars

-----------------------------------------------------------------------------
(* The records of the work *)

At(c) == thread[c].pc \in {"compose", "persist", "fail"}

\* A thread that works holds a RUNNING job of its own.
HolderInv ==
  /\ \A c \in Clients : At(c) => Running(thread[c].job)
  /\ \A c, d \in Clients : c # d /\ At(c) /\ At(d) => thread[c].job # thread[d].job

\* A job rests on a spend, under the key that consumed it, and is the only one.
JobInv ==
  /\ \A j \in Started : /\ jobs[j].approval \in Minted /\ Spent(jobs[j].approval)
                        /\ consumeReceipt[jobs[j].key] = jobs[j].approval
  /\ \A j, l \in Started : jobs[j].approval = jobs[l].approval => j = l
  /\ \A k \in Keys : consumeReceipt[k] # NoApproval =>
       \E j \in Started : jobs[j].approval = consumeReceipt[k] /\ jobs[j].key = k

\* A pack is that of a completed job, and each completed job has one.
PackInv ==
  /\ \A p \in packs : /\ p.job \in Started /\ jobs[p.job].state = "COMPLETED"
                      /\ p.approval = jobs[p.job].approval
  /\ \A j \in Started : jobs[j].state = "COMPLETED" =>
       [job |-> j, approval |-> jobs[j].approval] \in packs

WorkInv == WorkTypeOK /\ HolderInv /\ JobInv /\ PackInv

\* A step that spends nothing keeps the approvals and their spends.
SpendsKept ==
  /\ \A a \in Minted : /\ a \in Minted' /\ approvals'[a].binding = approvals[a].binding
                       /\ approvals'[a].consumedAt = approvals[a].consumedAt
  /\ \A a \in Minted' \ Minted : approvals'[a].consumedAt = Unspent
  /\ UNCHANGED consumeReceipt

LEMMA SameSpends ==
  ASSUME UNCHANGED authorityVars
  PROVE  SpendsKept
  BY DEF SpendsKept, Minted

LEMMA RequestKeepsSpends ==
  ASSUME TypeOK, NEW a \in Approvals, NEW e, NEW now, Request(a, e, now)
  PROVE  SpendsKept
  <1>1. approvals' = [approvals EXCEPT ![a] = NewApproval(e, now)] /\ a \notin Minted
        /\ UNCHANGED consumeReceipt
    BY DEF Request, Minted
  <1>2. NewApproval(e, now).consumedAt = Unspent
    BY DEF NewApproval
  <1> HIDE DEF NewApproval
  <1>3. \A b \in Approvals : approvals'[b] = IF b = a THEN NewApproval(e, now) ELSE approvals[b]
    BY <1>1 DEF TypeOK
  <1>. QED BY <1>1, <1>2, <1>3 DEF SpendsKept, Minted

LEMMA RevisionKeepsSpends ==
  ASSUME TypeOK, NEW a \in Minted, NEW s \in States, NEW now \in Instants,
         approvals' = [approvals EXCEPT ![a] = [@ EXCEPT !.state = s, !.updated = now]],
         UNCHANGED consumeReceipt
  PROVE  SpendsKept
  <1>1. approvals[a] \in Approval /\ a \in Approvals
    BY MintedTyped
  <1> DEFINE next == [approvals[a] EXCEPT !.state = s, !.updated = now]
  <1>2. next.binding = approvals[a].binding /\ next.consumedAt = approvals[a].consumedAt
    BY <1>1 DEF Approval
  <1>3. approvals'[a] = next /\ \A b \in Approvals \ {a} : approvals'[b] = approvals[b]
    BY <1>1 DEF TypeOK
  <1>4. next # NoApproval
    <2>1. next \in Approval
      BY <1>1 DEF Approval
    <2>. QED BY <2>1, AuthorityAssumption
  <1>. QED BY <1>1, <1>2, <1>3, <1>4 DEF SpendsKept, Minted

LEMMA ConsumeSpends ==
  ASSUME TypeOK, NEW a \in Approvals, NEW k \in Keys, NEW e, NEW now \in Instants,
         Consume(a, k, e, now)
  PROVE  /\ a \in Minted /\ ~ Spent(a) /\ consumeReceipt[k] = NoApproval
         /\ consumeReceipt' = [consumeReceipt EXCEPT ![k] = a]
         /\ Minted' = Minted /\ Spent(a)'
         /\ \A b \in Minted : approvals'[b].binding = approvals[b].binding
         /\ \A b \in Minted \ {a} : approvals'[b].consumedAt = approvals[b].consumedAt
  <1>1. a \in Minted /\ ~ Spent(a)
    BY ValidRecord DEF Consume, Minted
  <1>2. approvals[a] \in Approval
    BY <1>1, MintedTyped
  <1> DEFINE next == [approvals[a] EXCEPT !.consumedAt = now, !.updated = now]
  <1>3. next \in Approval /\ next.binding = approvals[a].binding /\ next.consumedAt = now
    BY <1>2 DEF Approval
  <1>4. next # NoApproval
    BY <1>3, AuthorityAssumption
  <1>5. approvals' = [approvals EXCEPT ![a] = next]
    BY DEF Consume
  <1> HIDE DEF next
  <1>6. \A b \in Approvals : approvals'[b] = IF b = a THEN next ELSE approvals[b]
    BY <1>5 DEF TypeOK
  <1>7. now # Unspent
    BY DEF Unspent, Instants
  <1>. QED BY <1>1, <1>3, <1>4, <1>6, <1>7 DEF Consume, Minted, Spent

\* A step that keeps the spends and the jobs keeps what relates them.
LEMMA RecordsKept ==
  ASSUME WorkInv, SpendsKept, UNCHANGED <<jobs, packs>>
  PROVE  JobInv' /\ PackInv'
  <1>1. Started' = Started /\ \A j \in Jobs : jobs'[j] = jobs[j]
    BY DEF Started
  <1>2. JobInv'
    BY <1>1 DEF WorkInv, JobInv, SpendsKept, Spent
  <1>3. PackInv'
    BY <1>1 DEF WorkInv, PackInv
  <1>. QED BY <1>2, <1>3

\* A thread whose call changes holds what it held, or nothing.
LEMMA HoldersKept ==
  ASSUME WorkInv, UNCHANGED jobs,
         \A c \in Clients : At(c)' => At(c) /\ thread'[c].job = thread[c].job
  PROVE  HolderInv'
  BY DEF WorkInv, HolderInv, Running, Started

\* Idle calls and calls before the spend work on nothing.
LEMMA GotoBefore ==
  ASSUME WorkTypeOK, NEW c \in Clients, NEW call, Goto(c, call),
         call.pc \notin {"compose", "persist", "fail"}
  PROVE  \A d \in Clients : At(d)' => At(d) /\ thread'[d].job = thread[d].job
  BY DEF Goto, At, WorkTypeOK

LEMMA CallType ==
  ASSUME WorkTypeOK, NEW c \in Clients, NEW call \in Call, Goto(c, call)
  PROVE  thread' \in [Clients -> Call]
  BY DEF Goto, WorkTypeOK

LEMMA IdleCall == Idle \in Call /\ Idle.pc = "idle"
  BY DEF Call, Idle

LEMMA SinceNow ==
  ASSUME WorkTypeOK
  PROVE  clock \in Instants
  BY DEF WorkTypeOK, TypeOK, GraphTypeOK

\* A step that leaves jobs and packs alone and lets c go to a call before the
\* spend keeps the records, whatever it does of requests and confirmations.
LEMMA BeforeTheSpend ==
  ASSUME WorkInv, TypeOK', SpendsKept, NEW c \in Clients, NEW call \in Call, Goto(c, call),
         call.pc \notin {"compose", "persist", "fail"}, UNCHANGED <<jobs, packs>>
  PROVE  WorkInv'
  <1>1. WorkTypeOK'
    BY CallType DEF WorkInv, WorkTypeOK
  <1>2. HolderInv'
    BY GotoBefore, HoldersKept DEF WorkInv
  <1>. QED BY <1>1, <1>2, RecordsKept DEF WorkInv

LEMMA CallsKeep ==
  ASSUME WorkInv, TypeOK', NEW c \in Clients,
         \/ \E d \in Decisions : CallRequest(c, d)
         \/ \E a \in Approvals, k \in Keys : CallConfirm(c, a, k)
  PROVE  WorkInv'
  <1>1. SpendsKept
    BY SameSpends DEF CallRequest, CallConfirm, vars
  <1>2. ASSUME NEW d \in Decisions, CallRequest(c, d)
        PROVE  WorkInv'
    <2>1. PICK r \in SourceRuns(d) :
            Goto(c, [pc |-> "request", binding |-> <<d, r.mode>>, since |-> clock])
      BY <1>2 DEF CallRequest
    <2>2. r.mode \in Modes
      BY DEF SourceRuns, WorkInv, WorkTypeOK, TypeOK, GraphTypeOK, RunRow
    <2> DEFINE call == [pc |-> "request", binding |-> <<d, r.mode>>, since |-> clock]
    <2>3. call \in [pc : {"request"}, binding : Bindings, since : Instants]
      BY <2>2, SinceNow DEF Bindings, WorkInv
    <2>4. call \in Call /\ call.pc = "request"
      BY <2>3 DEF Call
    <2> HIDE DEF call
    <2>. QED BY <1>1, <1>2, <2>1, <2>4, BeforeTheSpend DEF CallRequest, call
  <1>3. ASSUME NEW a \in Approvals, NEW k \in Keys, CallConfirm(c, a, k)
        PROVE  WorkInv'
    <2> DEFINE call == [pc |-> "confirm", approval |-> a, key |-> k, since |-> clock]
    <2>1. call \in [pc : {"confirm", "start"}, approval : Approvals, key : Keys, since : Instants]
      BY SinceNow DEF WorkInv
    <2>2. call \in Call /\ call.pc = "confirm" /\ Goto(c, call)
      BY <1>3, <2>1 DEF Call, CallConfirm
    <2> HIDE DEF call
    <2>. QED BY <1>1, <1>3, <2>2, BeforeTheSpend DEF CallConfirm
  <1>. QED BY <1>2, <1>3

LEMMA RequestTxKeeps ==
  ASSUME WorkInv, TypeOK', NEW c \in Clients, RequestTx(c)
  PROVE  WorkInv'
  <1>1. SpendsKept
    BY RequestKeepsSpends, SameSpends DEF RequestTx, WorkInv, WorkTypeOK, vars
  <1>. QED BY <1>1, IdleCall, BeforeTheSpend DEF RequestTx, Return

LEMMA ConfirmTxKeepsSpends ==
  ASSUME WorkInv, NEW c \in Clients, ConfirmTx(c)
  PROVE  SpendsKept
  <1> DEFINE a == thread[c].approval
             k == thread[c].key
             e == approvals[a].binding
  <1>1. a \in Approvals /\ k \in Keys
    BY CallByPc DEF ConfirmTx, WorkInv, WorkTypeOK
  <1>2. ASSUME NEW now \in Nows(c), Confirm(a, k, e, now) \/ Deny(a, e, now)
        PROVE  SpendsKept
    <2>1. now \in Instants
      BY RecentInstants DEF Nows, WorkInv, WorkTypeOK, TypeOK
    <2>2. Inspect(a, e, now, TRUE) \in {"VALID"} \cup RevokingReasons
      BY <1>2 DEF Confirm, Deny
    <2>3. a \in Minted
      BY <1>1, <2>2, InspectedIsMinted DEF WorkInv, WorkTypeOK
    <2>4. \E s \in States :
            approvals' = [approvals EXCEPT ![a] = [@ EXCEPT !.state = s, !.updated = now]]
      BY <1>2 DEF Confirm, Deny, States
    <2>5. UNCHANGED consumeReceipt
      BY <1>2 DEF Confirm, Deny
    <2> HIDE DEF a, k, e
    <2>. QED BY <2>1, <2>3, <2>4, <2>5, RevisionKeepsSpends DEF WorkInv, WorkTypeOK
  <1>. QED BY <1>2, SameSpends DEF ConfirmTx

LEMMA ConfirmTxKeeps ==
  ASSUME WorkInv, TypeOK', NEW c \in Clients, ConfirmTx(c)
  PROVE  WorkInv'
  <1> DEFINE next == [pc |-> "start", approval |-> thread[c].approval,
                      key |-> thread[c].key, since |-> clock]
  <1>1. thread[c].approval \in Approvals /\ thread[c].key \in Keys
    BY CallByPc DEF ConfirmTx, WorkInv, WorkTypeOK
  <1>2. next \in [pc : {"confirm", "start"}, approval : Approvals, key : Keys, since : Instants]
    BY <1>1, SinceNow DEF WorkInv
  <1>3. next \in Call /\ next.pc = "start"
    BY <1>2 DEF Call
  <1>4. Goto(c, next) \/ Goto(c, Idle)
    BY DEF ConfirmTx, Return
  <1>5. SpendsKept
    BY ConfirmTxKeepsSpends
  <1> HIDE DEF next
  <1>. QED BY <1>3, <1>4, <1>5, IdleCall, BeforeTheSpend DEF ConfirmTx

LEMMA StartTxKeeps ==
  ASSUME WorkInv, TypeOK', NEW c \in Clients, StartTx(c)
  PROVE  WorkInv'
  <1> DEFINE a == thread[c].approval
             k == thread[c].key
             e == approvals[a].binding
  <1>1. a \in Approvals /\ k \in Keys
    BY CallByPc DEF StartTx, WorkInv, WorkTypeOK
  <1>2. CASE UNCHANGED <<authorityVars, jobs>> /\ Return(c)
    BY <1>2, IdleCall, SameSpends, BeforeTheSpend DEF StartTx, Return
  <1>3. ASSUME NEW now \in Nows(c), NEW j \in Jobs \ Started, Consume(a, k, e, now),
               jobs' = [jobs EXCEPT ![j] = [approval |-> a, key |-> k, state |-> "RUNNING"]],
               Goto(c, [pc |-> "compose", job |-> j])
        PROVE  WorkInv'
    <2> DEFINE job == [approval |-> a, key |-> k, state |-> "RUNNING"]
               call == [pc |-> "compose", job |-> j]
    <2> HIDE DEF a, k, e
    <2>1. now \in Instants
      BY RecentInstants DEF Nows, WorkInv, WorkTypeOK, TypeOK
    <2>2. /\ a \in Minted /\ ~ Spent(a) /\ consumeReceipt[k] = NoApproval
          /\ consumeReceipt' = [consumeReceipt EXCEPT ![k] = a]
          /\ Minted' = Minted /\ approvals'[a].consumedAt # Unspent
          /\ \A b \in Minted \ {a} : approvals'[b].consumedAt = approvals[b].consumedAt
      BY <1>1, <1>3, <2>1, ConsumeSpends DEF WorkInv, WorkTypeOK, Spent
    <2>3. job \in Job /\ job # NoJob
      BY <1>1, WorkAssumption DEF Job
    <2>4. job.approval = a /\ job.key = k /\ job.state = "RUNNING"
      OBVIOUS
    <2>5. call \in Call /\ call.pc = "compose" /\ call.job = j
      <3>1. call \in [pc : {"compose", "persist", "fail"}, job : Jobs]
        OBVIOUS
      <3>. QED BY <3>1 DEF Call
    <2> HIDE DEF job, call
    <2>6. \A l \in Jobs : jobs'[l] = IF l = j THEN job ELSE jobs[l]
      BY <1>3 DEF WorkInv, WorkTypeOK, job
    <2>7. Started' = Started \cup {j} /\ j \notin Started
      BY <2>3, <2>6 DEF Started
    <2>8. thread' = [thread EXCEPT ![c] = call] /\ thread \in [Clients -> Call]
      BY <1>3 DEF Goto, call, WorkInv, WorkTypeOK
    <2>9. WorkTypeOK'
      BY <1>3, <2>3, <2>5, <2>8 DEF StartTx, WorkInv, WorkTypeOK, job
    <2>10. HolderInv'
      <3>1. Running(j)' /\ \A l \in Jobs : Running(l) => Running(l)' /\ l # j
        BY <2>4, <2>6, <2>7 DEF Running
      <3>2. \A d \in Clients \ {c} : thread'[d] = thread[d]
        BY <2>8
      <3>3. thread'[c].pc = "compose" /\ thread'[c].job = j
        BY <2>5, <2>8
      <3>4. \A d \in Clients \ {c} : At(d) => thread[d].job \in Jobs
        BY <2>8, CallByPc DEF At
      <3>. QED BY <3>1, <3>2, <3>3, <3>4 DEF HolderInv, WorkInv, At, Running
    <2>11. JobInv'
      <3>1. \A l \in Started : jobs[l].approval # a
        BY <2>2 DEF WorkInv, JobInv
      <3>2. \A l \in Started : /\ jobs'[l] = jobs[l] /\ jobs[l].approval \in Minted
                               /\ approvals'[jobs[l].approval].consumedAt # Unspent
                               /\ jobs[l].key # k
                               /\ consumeReceipt[jobs[l].key] = jobs[l].approval
        <4>1. ASSUME NEW l \in Started
              PROVE  /\ jobs'[l] = jobs[l] /\ jobs[l].approval \in Minted
                     /\ Spent(jobs[l].approval)
                     /\ consumeReceipt[jobs[l].key] = jobs[l].approval
          BY <2>6, <2>7 DEF WorkInv, JobInv, Started
        <4>2. \A l \in Started : jobs[l].approval # NoApproval
          BY <4>1, AuthorityAssumption DEF Minted
        <4>. QED BY <2>2, <3>1, <4>1, <4>2 DEF Spent
      <3>3. jobs'[j].approval = a /\ jobs'[j].key = k
        BY <2>4, <2>6
      <3>4. consumeReceipt'[k] = a /\ \A l \in Keys \ {k} : consumeReceipt'[l] = consumeReceipt[l]
        BY <1>1, <2>2 DEF WorkInv, WorkTypeOK, TypeOK
      <3>5. \A l \in Started : jobs[l].key \in Keys
        BY DEF WorkInv, WorkTypeOK, Started, Job
      <3>6. ASSUME NEW l \in Started'
            PROVE  /\ jobs'[l].approval \in Minted'
                   /\ approvals'[jobs'[l].approval].consumedAt # Unspent
                   /\ consumeReceipt'[jobs'[l].key] = jobs'[l].approval
        <4>1. CASE l = j
          BY <2>2, <3>3, <3>4, <4>1
        <4>2. CASE l \in Started
          BY <2>2, <3>2, <3>4, <3>5, <4>2
        <4>. QED BY <2>7, <4>1, <4>2
      <3>7. \A l, m \in Started' : jobs'[l].approval = jobs'[m].approval => l = m
        BY <2>7, <3>1, <3>2, <3>3 DEF WorkInv, JobInv
      <3>8. \A l \in Keys : consumeReceipt'[l] # NoApproval =>
              \E m \in Started' : jobs'[m].approval = consumeReceipt'[l] /\ jobs'[m].key = l
        BY <2>7, <3>2, <3>3, <3>4 DEF WorkInv, JobInv
      <3>. QED BY <3>6, <3>7, <3>8 DEF JobInv, Spent
    <2>12. PackInv'
      <3>1. packs' = packs
        BY DEF StartTx
      <3>2. jobs'[j].state = "RUNNING"
        BY <2>4, <2>6
      <3>3. \A l \in Started : jobs'[l] = jobs[l]
        BY <2>6, <2>7 DEF Started
      <3>4. \A p \in packs : p.job \in Started
        BY DEF WorkInv, PackInv
      <3>. QED BY <2>7, <3>1, <3>2, <3>3, <3>4 DEF WorkInv, PackInv
    <2>. QED BY <2>9, <2>10, <2>11, <2>12 DEF WorkInv
  <1>. QED BY <1>2, <1>3 DEF StartTx

\* A held job gets its outcome, and its pack when it completed.
LEMMA OutcomeKeeps ==
  ASSUME WorkInv, TypeOK', UNCHANGED vars, NEW c \in Clients, At(c), NEW j, j = thread[c].job,
         NEW outcome \in {"COMPLETED", "FAILED"},
         jobs' = [jobs EXCEPT ![j].state = outcome], Return(c),
         packs' = IF outcome = "COMPLETED"
                    THEN packs \cup {[job |-> j, approval |-> jobs[j].approval]} ELSE packs
  PROVE  WorkInv'
  <1> DEFINE pack == [job |-> j, approval |-> jobs[j].approval]
             next == [jobs[j] EXCEPT !.state = outcome]
  <1>1. Running(j) /\ j \in Started /\ j \in Jobs /\ jobs[j].state = "RUNNING"
    BY DEF WorkInv, HolderInv, Running, Started
  <1>2. jobs[j] \in Job
    BY <1>1 DEF WorkInv, WorkTypeOK, Started
  <1>3. /\ next \in Job /\ next.approval = jobs[j].approval /\ next.key = jobs[j].key
        /\ next.state = outcome
    BY <1>2 DEF Job
  <1>4. next # NoJob
    BY <1>3, WorkAssumption
  <1>5. pack.job = j /\ pack.approval = jobs[j].approval
    OBVIOUS
  <1>6. pack \in [job : Jobs, approval : Approvals]
    BY <1>1, <1>2 DEF Job
  <1> HIDE DEF next, pack
  <1>7. \A l \in Jobs : jobs'[l] = IF l = j THEN next ELSE jobs[l]
    BY <1>1 DEF WorkInv, WorkTypeOK, next
  <1>8. Started' = Started
    BY <1>1, <1>4, <1>7 DEF Started
  <1>9. thread' = [thread EXCEPT ![c] = Idle]
    BY DEF Return, Goto
  <1>10. WorkTypeOK'
    <2>1. jobs' \in [Jobs -> Job \cup {NoJob}]
      BY <1>1, <1>3, <1>7 DEF WorkInv, WorkTypeOK, next
    <2>. QED BY <1>6, <1>9, <2>1, IdleCall DEF WorkInv, WorkTypeOK, pack
  <1>11. HolderInv'
    <2>1. \A d \in Clients : At(d)' => d # c /\ At(d) /\ thread'[d] = thread[d]
      BY <1>9, IdleCall DEF At, WorkInv, WorkTypeOK
    <2>2. \A d \in Clients : At(d)' => thread[d].job # j /\ Running(thread[d].job)
      BY <2>1 DEF WorkInv, HolderInv
    <2>3. \A l \in Started : l # j => jobs'[l] = jobs[l]
      BY <1>7 DEF Started
    <2>4. \A d \in Clients : At(d)' =>
            thread[d].job \in Started' /\ jobs'[thread[d].job].state = "RUNNING"
      BY <1>8, <2>2, <2>3 DEF Running
    <2>5. \A d \in Clients : At(d)' => thread'[d].job = thread[d].job
      BY <2>1
    <2>6. \A d \in Clients : At(d)' =>
            thread'[d].job \in Started' /\ jobs'[thread'[d].job].state = "RUNNING"
      BY <2>4, <2>5
    <2>7. \A d, f \in Clients : d # f /\ At(d)' /\ At(f)' => thread'[d].job # thread'[f].job
      BY <2>1 DEF WorkInv, HolderInv
    <2>. QED BY <2>6, <2>7 DEF HolderInv, Running
  <1>12. JobInv'
    <2>1. \A l \in Started : jobs'[l].approval = jobs[l].approval /\ jobs'[l].key = jobs[l].key
      BY <1>3, <1>7 DEF Started
    <2>. QED BY <1>8, <2>1 DEF WorkInv, JobInv, Minted, Spent, vars
  <1>13. PackInv'
    <2>1. \A l \in Started : jobs'[l].approval = jobs[l].approval
      BY <1>3, <1>7 DEF Started
    <2>2. \A l \in Started \ {j} : jobs'[l] = jobs[l]
      BY <1>7 DEF Started
    <2>3. jobs'[j].state = outcome /\ jobs'[j].approval = jobs[j].approval
      BY <1>1, <1>3, <1>7
    <2>4. \A p \in packs : p.job # j
      BY <1>1 DEF WorkInv, PackInv
    <2>5. \A p \in packs : /\ p.job \in Started /\ jobs'[p.job].state = "COMPLETED"
                           /\ p.approval = jobs'[p.job].approval
      BY <2>2, <2>4 DEF WorkInv, PackInv
    <2>6. CASE outcome = "COMPLETED"
      <3>1. packs' = packs \cup {pack}
        BY <2>6 DEF pack
      <3>2. \A p \in packs' : /\ p.job \in Started' /\ jobs'[p.job].state = "COMPLETED"
                              /\ p.approval = jobs'[p.job].approval
        BY <1>1, <1>5, <1>8, <2>3, <2>5, <2>6, <3>1
      <3>3. \A l \in Started' : jobs'[l].state = "COMPLETED" =>
              [job |-> l, approval |-> jobs'[l].approval] \in packs'
        BY <1>8, <2>2, <2>3, <3>1 DEF WorkInv, PackInv, pack
      <3>. QED BY <3>2, <3>3 DEF PackInv
    <2>7. CASE outcome = "FAILED"
      <3>1. packs' = packs
        BY <2>7
      <3>2. \A l \in Started' : jobs'[l].state = "COMPLETED" =>
              [job |-> l, approval |-> jobs'[l].approval] \in packs'
        BY <1>8, <2>2, <2>3, <2>7, <3>1 DEF WorkInv, PackInv
      <3>. QED BY <1>8, <2>5, <3>1, <3>2 DEF PackInv
    <2>. QED BY <2>6, <2>7
  <1>. QED BY <1>10, <1>11, <1>12, <1>13 DEF WorkInv

\* A thread that works goes on with its job, or lets it go.
LEMMA GoesOn ==
  ASSUME WorkInv, TypeOK', UNCHANGED <<vars, jobs, packs>>, NEW c \in Clients, At(c),
         \/ Return(c)
         \/ \E pc \in {"persist", "fail"} : Goto(c, [pc |-> pc, job |-> thread[c].job])
  PROVE  WorkInv'
  <1>1. SpendsKept
    BY SameSpends DEF vars
  <1>2. CASE Return(c)
    BY <1>1, <1>2, IdleCall, BeforeTheSpend DEF Return
  <1>3. ASSUME NEW pc \in {"persist", "fail"}, Goto(c, [pc |-> pc, job |-> thread[c].job])
        PROVE  WorkInv'
    <2> DEFINE call == [pc |-> pc, job |-> thread[c].job]
    <2>1. thread[c].job \in Jobs
      BY CallByPc DEF At, WorkInv, WorkTypeOK
    <2>2. call \in [pc : {"compose", "persist", "fail"}, job : Jobs]
      BY <2>1
    <2>3. call \in Call /\ call.job = thread[c].job
      BY <2>2 DEF Call
    <2> HIDE DEF call
    <2>4. Goto(c, call)
      BY <1>3 DEF call
    <2>5. WorkTypeOK'
      BY <2>3, <2>4, CallType DEF WorkInv, WorkTypeOK
    <2>6. \A d \in Clients : At(d)' => At(d) /\ thread'[d].job = thread[d].job
      BY <2>3, <2>4 DEF Goto, At, WorkInv, WorkTypeOK
    <2>. QED BY <1>1, <2>5, <2>6, HoldersKept, RecordsKept DEF WorkInv
  <1>. QED BY <1>2, <1>3

LEMMA WorkersKeep ==
  ASSUME WorkInv, TypeOK', NEW c \in Clients, Compose(c) \/ PersistTx(c) \/ FailTx(c)
  PROVE  WorkInv'
  <1>1. CASE Compose(c)
    BY <1>1, GoesOn DEF Compose, At
  <1>2. CASE PersistTx(c)
    <2>1. CASE UNCHANGED <<jobs, packs>>
      <3>1. At(c) /\ UNCHANGED vars
        BY <1>2 DEF PersistTx, At
      <3>2. Return(c) \/ Goto(c, [pc |-> "fail", job |-> thread[c].job])
        BY <1>2 DEF PersistTx
      <3>. QED BY <2>1, <3>1, <3>2, GoesOn
    <2>2. CASE ~ UNCHANGED <<jobs, packs>>
      BY <1>2, <2>2, OutcomeKeeps DEF PersistTx, At
    <2>. QED BY <2>1, <2>2
  <1>3. CASE FailTx(c)
    <2>1. CASE UNCHANGED jobs
      BY <1>3, <2>1, GoesOn DEF FailTx, At
    <2>2. CASE ~ UNCHANGED jobs
      BY <1>3, <2>2, OutcomeKeeps DEF FailTx, At
    <2>. QED BY <2>1, <2>2
  <1>. QED BY <1>1, <1>2, <1>3

LEMMA WorkInvStep == WorkInv /\ [WorkNext]_allVars => WorkInv'
  <1> SUFFICES ASSUME WorkInv, [WorkNext]_allVars PROVE WorkInv'
    OBVIOUS
  <1>1. TypeOK'
    BY StepOfAuthority, TypeOKStep DEF WorkInv, WorkTypeOK
  <1>2. CASE Crash
    <2>1. thread' \in [Clients -> Call] /\ \A c \in Clients : ~ At(c)'
      BY <1>2, IdleCall DEF Crash, At
    <2>2. SpendsKept
      BY <1>2, SameSpends DEF Crash, vars
    <2>. QED BY <1>1, <1>2, <2>1, <2>2, HoldersKept, RecordsKept DEF Crash, WorkInv, WorkTypeOK
  <1>3. CASE UNCHANGED <<authorityVars, workVars>>
    <2>1. SpendsKept
      BY <1>3, SameSpends
    <2>2. WorkTypeOK' /\ \A c \in Clients : At(c)' => At(c) /\ thread'[c].job = thread[c].job
      BY <1>1, <1>3 DEF WorkInv, WorkTypeOK, workVars, At
    <2>. QED BY <1>3, <2>1, <2>2, HoldersKept, RecordsKept DEF WorkInv, workVars
  <1>4. CASE \E c \in Clients : Run(c)
    BY <1>1, <1>4, RequestTxKeeps, ConfirmTxKeeps, StartTxKeeps, WorkersKeep DEF Run
  <1>. QED BY <1>1, <1>2, <1>3, <1>4, CallsKeep DEF WorkNext, allVars, vars

LEMMA WorkInvInit == WorkInit => WorkInv
  <1> SUFFICES ASSUME WorkInit PROVE WorkInv
    OBVIOUS
  <1>1. TypeOK
    BY TypeOKInit DEF WorkInit
  <1>2. /\ thread = [c \in Clients |-> Idle] /\ jobs = [j \in Jobs |-> NoJob] /\ packs = {}
        /\ \A k \in Keys : consumeReceipt[k] = NoApproval
    BY DEF WorkInit, Init, AuthorityInit
  <1>3. Started = {} /\ \A c \in Clients : ~ At(c)
    BY <1>2, IdleCall DEF Started, At
  <1>. QED BY <1>1, <1>2, <1>3, IdleCall DEF WorkInv, WorkTypeOK, HolderInv, JobInv, PackInv

-----------------------------------------------------------------------------
(* Theorems *)

LEMMA WorkAlways == WorkSpec => []WorkInv
  BY WorkInvInit, WorkInvStep, PTL DEF WorkSpec

\* Every behaviour of the product path is one of the approval authority, so
\* that each theorem of ApprovalProofs holds of the product.
THEOREM ProductUsesTheAuthority == WorkSpec => ImplementsAuthority
  <1>2. WorkInit => Init
    BY DEF WorkInit
  <1>3. WorkInv /\ [WorkNext]_allVars => [Next]_vars
    BY StepOfAuthority DEF WorkInv
  <1>. QED BY <1>2, <1>3, WorkAlways, PTL DEF WorkSpec, ImplementsAuthority, Spec

\* Every reachable state of the drafting workflow is well typed.
THEOREM WorkTypeCorrect == WorkSpec => []WorkTypeOK
  <1>1. WorkInv => WorkTypeOK
    BY DEF WorkInv
  <1>. QED BY <1>1, WorkAlways, PTL

LEMMA HolderIsOne ==
  ASSUME WorkInv, NEW j \in Jobs
  PROVE  Cardinality(Holder(j)) <= 1
  <1>1. \A c, d \in Holder(j) : c = d
    BY DEF Holder, WorkInv, HolderInv, At
  <1>2. CASE Holder(j) = {}
    BY <1>2, FS_EmptySet
  <1>3. ASSUME NEW c \in Holder(j)
        PROVE  Cardinality(Holder(j)) <= 1
    <2>1. Holder(j) = {c}
      BY <1>1
    <2>. QED BY <2>1, FS_Singleton
  <1>. QED BY <1>2, <1>3

\* The records _existing insists on.
LEMMA ReceiptIsAnswered ==
  ASSUME WorkInv, NEW k \in Keys, consumeReceipt[k] # NoApproval
  PROVE  Existing(k)
  <1> DEFINE a == consumeReceipt[k]
  <1>1. PICK j \in Started : jobs[j].approval = a /\ jobs[j].key = k
    BY DEF WorkInv, JobInv
  <1>2. JobsOf(a) = {j}
    BY <1>1 DEF JobsOf, WorkInv, JobInv
  <1>3. \A p \in PacksOf(a) : p.job = j /\ p.approval = a /\ jobs[j].state = "COMPLETED"
    BY <1>1 DEF PacksOf, WorkInv, PackInv, JobInv
  <1>4. CASE jobs[j].state = "COMPLETED"
    <2> DEFINE pack == [job |-> j, approval |-> a]
    <2>1. pack \in PacksOf(a)
      BY <1>1, <1>4 DEF PacksOf, WorkInv, PackInv
    <2>2. \A p \in PacksOf(a) : p \in [job : Jobs, approval : Approvals]
      BY DEF PacksOf, WorkInv, WorkTypeOK
    <2>3. \A p \in PacksOf(a) : p = pack
      BY <1>3, <2>1, <2>2
    <2>4. PacksOf(a) = {pack}
      BY <2>1, <2>3
    <2>5. Cardinality(PacksOf(a)) = 1
      BY <2>4, FS_Singleton
    <2>. QED BY <1>1, <1>2, <1>4, <2>5 DEF Existing
  <1>5. CASE jobs[j].state # "COMPLETED"
    <2>1. PacksOf(a) = {}
      BY <1>3, <1>5
    <2>2. Cardinality(PacksOf(a)) = 0
      BY <2>1, FS_EmptySet
    <2>. QED BY <1>1, <1>2, <1>5, <2>2 DEF Existing
  <1>. QED BY <1>4, <1>5

\* At every moment, crashes included, a job has one thread at most, the spend
\* it rests on, and the records a replay asks for: for any number of threads.
THEOREM WorkStaysOnRecord == WorkSpec => []WorkOnRecord
  <1>1. WorkInv => WorkOnRecord
    <2> SUFFICES ASSUME WorkInv PROVE WorkOnRecord
      OBVIOUS
    <2>1. NoWorkWithoutSpend
      BY DEF NoWorkWithoutSpend, JobsOf, PacksOf, WorkInv, JobInv, PackInv
    <2>. QED BY <2>1, HolderIsOne, ReceiptIsAnswered
             DEF WorkOnRecord, ReplayIsAnswerable, OneHolderPerJob
  <1>. QED BY <1>1, WorkAlways, PTL

\* A job nobody holds, interrupted or settled, is never touched again.
THEOREM InterruptedJobsRest == WorkSpec => InterruptedJobIsLeftAlone
  <1> DEFINE Rests == \A j \in Started : Orphan(j) \/ ~ Running(j) => jobs'[j] = jobs[j]
  <1>1. WorkInv /\ [WorkNext]_allVars => [Rests]_allVars
    <2> SUFFICES ASSUME WorkInv, WorkNext, NEW j \in Started, Orphan(j) \/ ~ Running(j)
                 PROVE  jobs'[j] = jobs[j]
      OBVIOUS
    <2>1. \A c \in Clients : At(c) => thread[c].job # j
      <3>1. \A c \in Clients : At(c) /\ thread[c].job = j => c \in Holder(j) /\ Running(j)
        BY DEF At, Holder, WorkInv, HolderInv
      <3>. QED BY <3>1 DEF Orphan
    <2>2. j \in Jobs /\ jobs \in [Jobs -> Job \cup {NoJob}]
      BY DEF Started, WorkInv, WorkTypeOK
    <2>3. ASSUME NEW c \in Clients, StartTx(c)
          PROVE  jobs'[j] = jobs[j]
      BY <2>2, <2>3 DEF StartTx
    <2>4. ASSUME NEW c \in Clients, PersistTx(c) \/ FailTx(c)
          PROVE  jobs'[j] = jobs[j]
      <3>1. At(c)
        BY <2>4 DEF PersistTx, FailTx, At
      <3>. QED BY <2>1, <2>2, <2>4, <3>1 DEF PersistTx, FailTx
    <2>5. CASE ~ \E c \in Clients : StartTx(c) \/ PersistTx(c) \/ FailTx(c)
      BY <2>5 DEF WorkNext, Run, CallRequest, CallConfirm, RequestTx, ConfirmTx, Compose, Crash,
                  workVars
    <2>. QED BY <2>3, <2>4, <2>5
  <1>. QED BY <1>1, WorkAlways, PTL DEF WorkSpec, InterruptedJobIsLeftAlone

-----------------------------------------------------------------------------
(* The grant *)

Stages == [b \in Bindings |-> StageOf(b)]
PacksFor(b) == {p \in packs : approvals[p.approval].binding = b}
Counts == [b \in Bindings |-> Cardinality(PacksFor(b))]

LEMMA GrantStep ==
  ASSUME UNCHANGED <<Stages, Counts>> \/
         \E b \in Bindings :
           \/ /\ Stages[b] = "open" /\ Stages' = [Stages EXCEPT ![b] = "working"]
              /\ UNCHANGED Counts
           \/ /\ Stages[b] = "working" /\ Stages' = [Stages EXCEPT ![b] = "delivered"]
              /\ Counts' = [Counts EXCEPT ![b] = @ + 1]
           \/ /\ Stages[b] = "working" /\ Stages' = [Stages EXCEPT ![b] = "failed"]
              /\ UNCHANGED Counts
  PROVE  [Grant!Next]_(Grant!grantVars)
  BY DEF Grant!Next, Grant!grantVars, Grant!Spend, Grant!Deliver, Grant!Fail, Stages, Counts, PacksFor

\* The approval of a started job, and the binding it spent.
LEMMA JobIsOfASpend ==
  ASSUME WorkInv, OneSpendPerBinding, NEW j \in Started, NEW a, a = jobs[j].approval,
         NEW b, b = approvals[a].binding
  PROVE  a \in Minted /\ b \in Bindings /\ SpentFor(b) = {a} /\ WorkFor(b) = {j}
  <1>1. a \in Minted /\ Spent(a)
    BY DEF WorkInv, JobInv
  <1>2. b \in Bindings
    BY <1>1, MintedTyped DEF WorkInv, WorkTypeOK
  <1>3. SpentFor(b) = {a}
    BY <1>1 DEF SpentFor, OneSpendPerBinding
  <1>4. JobsOf(a) = {j}
    BY DEF JobsOf, WorkInv, JobInv
  <1>5. WorkFor(b) = JobsOf(a)
    BY <1>3 DEF WorkFor
  <1>. QED BY <1>1, <1>2, <1>3, <1>4, <1>5

\* The packs of a binding are of approvals that keep theirs.
LEMMA PacksAreMinted ==
  ASSUME WorkInv, NEW p \in packs
  PROVE  p.approval \in Minted /\ p.job \in Started /\ p.approval = jobs[p.job].approval
  BY DEF WorkInv, PackInv, JobInv

\* Where no approval is spent and no job changes, the grant does not move.
LEMMA NothingGranted ==
  ASSUME WorkInv, SpendsKept, UNCHANGED <<jobs, packs>>
  PROVE  UNCHANGED <<Stages, Counts>>
  <1>1. ASSUME NEW b \in Bindings
        PROVE  StageOf(b)' = StageOf(b) /\ PacksFor(b)' = PacksFor(b)
    <2>1. SpentFor(b)' = SpentFor(b)
      BY DEF SpentFor, SpendsKept, Spent
    <2>2. \A a : JobsOf(a)' = JobsOf(a)
      BY DEF JobsOf, Started
    <2>3. WorkFor(b)' = WorkFor(b)
      BY <2>1, <2>2 DEF WorkFor
    <2>4. StageOf(b)' = StageOf(b)
      BY <2>1, <2>3 DEF StageOf
    <2>5. PacksFor(b)' = PacksFor(b)
      BY PacksAreMinted DEF PacksFor, SpendsKept
    <2>. QED BY <2>4, <2>5
  <1>. QED BY <1>1 DEF Stages, Counts

\* A consumption spends the grant of its binding, which was open.
LEMMA ConsumptionSpendsTheGrant ==
  ASSUME WorkInv, OneSpendPerBinding', NEW a \in Approvals, NEW k \in Keys,
         NEW e, NEW now \in Instants, Consume(a, k, e, now), NEW j \in Jobs \ Started,
         NEW job, job.approval = a, job.state = "RUNNING", job # NoJob,
         jobs' = [jobs EXCEPT ![j] = job], UNCHANGED packs
  PROVE  \E b \in Bindings :
           /\ Stages[b] = "open" /\ Stages' = [Stages EXCEPT ![b] = "working"]
           /\ UNCHANGED Counts
  <1>1. /\ a \in Minted /\ ~ Spent(a) /\ Minted' = Minted /\ approvals'[a].consumedAt # Unspent
        /\ \A x \in Minted : approvals'[x].binding = approvals[x].binding
        /\ \A x \in Minted \ {a} : approvals'[x].consumedAt = approvals[x].consumedAt
    BY ConsumeSpends DEF WorkInv, WorkTypeOK, Spent
  <1> DEFINE b0 == approvals[a].binding
  <1>2. b0 \in Bindings
    BY <1>1, MintedTyped DEF WorkInv, WorkTypeOK
  <1>3. PICK b : b = b0
    OBVIOUS
  <1>4. \A x \in Minted : approvals[x].binding = b /\ approvals'[x].consumedAt # Unspent => x = a
    BY <1>1, <1>3 DEF OneSpendPerBinding, Spent
  <1>5. \A l \in Jobs : jobs'[l] = IF l = j THEN job ELSE jobs[l]
    BY DEF WorkInv, WorkTypeOK
  <1>6. Started' = Started \cup {j}
    BY <1>5 DEF Started
  <1>7. SpentFor(b) = {}
    BY <1>1, <1>4 DEF SpentFor, Spent
  <1>8. SpentFor(b)' = {a}
    BY <1>1, <1>3, <1>4 DEF SpentFor, Spent
  <1>9. \A l \in Started : jobs[l].approval # a
    BY <1>1 DEF WorkInv, JobInv
  <1>10. JobsOf(a)' = {j}
    BY <1>5, <1>6, <1>9 DEF JobsOf, Started
  <1>11. WorkFor(b)' = {j}
    BY <1>8, <1>10 DEF WorkFor
  <1>12. StageOf(b) = "open" /\ StageOf(b)' = "working"
    BY <1>5, <1>7, <1>8, <1>11 DEF StageOf
  <1>13. ASSUME NEW c \in Bindings, c # b
         PROVE  StageOf(c)' = StageOf(c)
    <2>1. SpentFor(c)' = SpentFor(c) /\ a \notin SpentFor(c)
      BY <1>1, <1>3, <1>13 DEF SpentFor, Spent
    <2>2. \A x \in SpentFor(c) : JobsOf(x)' = JobsOf(x)
      BY <1>5, <1>6, <2>1 DEF JobsOf, Started
    <2>3. WorkFor(c)' = WorkFor(c) /\ WorkFor(c) \subseteq Started
      BY <2>1, <2>2 DEF WorkFor, JobsOf
    <2>4. \A l \in WorkFor(c) : jobs'[l] = jobs[l]
      BY <1>5, <2>3 DEF Started
    <2>. QED BY <2>1, <2>3, <2>4 DEF StageOf
  <1>14. \A c \in Bindings : PacksFor(c)' = PacksFor(c)
    BY <1>1, PacksAreMinted DEF PacksFor
  <1>. HIDE DEF b0
  <1>15. Stages' = [Stages EXCEPT ![b] = "working"]
    BY <1>12, <1>13 DEF Stages
  <1>. QED BY <1>2, <1>3, <1>12, <1>14, <1>15 DEF Stages, Counts

\* An outcome ends the work of the binding its job was granted for.
LEMMA OutcomeEndsTheGrant ==
  ASSUME WorkInv, OneSpendPerBinding, UNCHANGED vars, NEW c \in Clients, At(c),
         NEW j, j = thread[c].job, NEW outcome \in {"COMPLETED", "FAILED"},
         jobs' = [jobs EXCEPT ![j].state = outcome],
         packs' = IF outcome = "COMPLETED"
                    THEN packs \cup {[job |-> j, approval |-> jobs[j].approval]} ELSE packs
  PROVE  \E b \in Bindings :
           \/ /\ Stages[b] = "working" /\ Stages' = [Stages EXCEPT ![b] = "delivered"]
              /\ Counts' = [Counts EXCEPT ![b] = @ + 1]
           \/ /\ Stages[b] = "working" /\ Stages' = [Stages EXCEPT ![b] = "failed"]
              /\ UNCHANGED Counts
  <1> DEFINE pack == [job |-> j, approval |-> jobs[j].approval]
             next == [jobs[j] EXCEPT !.state = outcome]
  <1>1. j \in Started /\ j \in Jobs /\ jobs[j].state = "RUNNING" /\ jobs[j] \in Job
    BY DEF WorkInv, HolderInv, Running, Started, WorkTypeOK
  <1>2. next \in Job /\ next.approval = jobs[j].approval /\ next.state = outcome
    BY <1>1 DEF Job
  <1>3. next # NoJob
    BY <1>2, WorkAssumption
  <1>4. pack.approval = jobs[j].approval
    OBVIOUS
  <1>5. packs' = IF outcome = "COMPLETED" THEN packs \cup {pack} ELSE packs
    OBVIOUS
  <1> HIDE DEF pack, next
  <1>6. \A l \in Jobs : jobs'[l] = IF l = j THEN next ELSE jobs[l]
    BY <1>1 DEF WorkInv, WorkTypeOK, next
  <1>7. Started' = Started /\ \A l \in Started : jobs'[l].approval = jobs[l].approval
    BY <1>1, <1>2, <1>3, <1>6 DEF Started
  <1>8. approvals' = approvals
    BY DEF vars
  <1>9. \A b : SpentFor(b)' = SpentFor(b)
    BY <1>8 DEF SpentFor, Minted, Spent
  <1>10. \A x : JobsOf(x)' = JobsOf(x)
    BY <1>7 DEF JobsOf
  <1>11. \A b : WorkFor(b)' = WorkFor(b) /\ WorkFor(b) \subseteq Started
    BY <1>9, <1>10 DEF WorkFor, JobsOf
  <1>12. PICK b : b = approvals[jobs[j].approval].binding
    OBVIOUS
  <1>13. b \in Bindings /\ SpentFor(b) = {jobs[j].approval} /\ WorkFor(b) = {j}
    BY <1>1, <1>12, JobIsOfASpend
  <1>14. /\ StageOf(b) = "working"
         /\ StageOf(b)' = IF outcome = "COMPLETED" THEN "delivered" ELSE "failed"
    <2>1. jobs'[j].state = outcome
      BY <1>1, <1>2, <1>6
    <2>. QED BY <1>1, <1>9, <1>11, <1>13, <2>1 DEF StageOf
  <1>15. ASSUME NEW d \in Bindings, d # b
         PROVE  StageOf(d)' = StageOf(d) /\ PacksFor(d)' = PacksFor(d)
    <2>1. \A l \in WorkFor(d) : approvals[jobs[l].approval].binding = d
      BY DEF WorkFor, JobsOf, SpentFor
    <2>2. \A l \in WorkFor(d) : jobs'[l] = jobs[l]
      BY <1>6, <1>11, <1>12, <1>15, <2>1 DEF Started
    <2>3. StageOf(d)' = StageOf(d)
      BY <1>9, <1>11, <2>2 DEF StageOf
    <2>4. PacksFor(d)' = PacksFor(d)
      BY <1>4, <1>5, <1>8, <1>12, <1>15 DEF PacksFor
    <2>. QED BY <2>3, <2>4
  <1>16. PacksFor(b) = {}
    <2>1. ASSUME NEW p \in PacksFor(b)
          PROVE  FALSE
      <3>1. p \in packs /\ approvals[p.approval].binding = b
        BY DEF PacksFor
      <3>2. p.job \in Started /\ p.approval = jobs[p.job].approval
            /\ jobs[p.job].state = "COMPLETED"
        BY <3>1 DEF WorkInv, PackInv
      <3>3. b = approvals[jobs[p.job].approval].binding
        BY <3>1, <3>2
      <3>4. WorkFor(approvals[jobs[p.job].approval].binding) = {p.job}
        BY <3>2, JobIsOfASpend
      <3>5. WorkFor(b) = {p.job}
        BY <3>3, <3>4
      <3>. QED BY <1>1, <1>13, <3>2, <3>5
    <2>. QED BY <2>1
  <1>17. CASE outcome = "COMPLETED"
    <2>1. PacksFor(b)' = {pack}
      BY <1>4, <1>5, <1>8, <1>12, <1>16, <1>17 DEF PacksFor
    <2>2. Cardinality(PacksFor(b)) = 0 /\ Cardinality(PacksFor(b)') = 1
      BY <1>16, <2>1, FS_EmptySet, FS_Singleton
    <2>3. Counts' = [Counts EXCEPT ![b] = @ + 1]
      <3>1. Counts = [d \in Bindings |-> Counts[d]] /\ Counts[b] = 0
        BY <1>13, <2>2 DEF Counts
      <3>2. Counts' = [d \in Bindings |-> IF d = b THEN 1 ELSE Counts[d]]
        BY <1>13, <1>15, <2>2 DEF Counts
      <3>. QED BY <1>13, <3>1, <3>2
    <2>4. Stages' = [Stages EXCEPT ![b] = "delivered"]
      BY <1>14, <1>15, <1>17 DEF Stages
    <2>. QED BY <1>13, <1>14, <2>3, <2>4 DEF Stages
  <1>18. CASE outcome = "FAILED"
    <2>1. PacksFor(b)' = PacksFor(b)
      BY <1>5, <1>8, <1>18 DEF PacksFor
    <2>2. UNCHANGED Counts
      BY <1>15, <2>1 DEF Counts
    <2>3. Stages' = [Stages EXCEPT ![b] = "failed"]
      BY <1>14, <1>15, <1>18 DEF Stages
    <2>. QED BY <1>13, <1>14, <2>2, <2>3 DEF Stages
  <1>. QED BY <1>17, <1>18

LEMMA StepOfGrant ==
  ASSUME WorkInv, OneSpendPerBinding, OneSpendPerBinding', [WorkNext]_allVars
  PROVE  [Grant!Next]_(Grant!grantVars)
  <1>1. ASSUME SpendsKept, UNCHANGED <<jobs, packs>>
        PROVE  [Grant!Next]_(Grant!grantVars)
    BY <1>1, NothingGranted, GrantStep
  <1>2. ASSUME NEW c \in Clients, RequestTx(c)
        PROVE  [Grant!Next]_(Grant!grantVars)
    BY <1>1, <1>2, RequestKeepsSpends, SameSpends DEF RequestTx, WorkInv, WorkTypeOK, vars
  <1>3. ASSUME NEW c \in Clients, ConfirmTx(c)
        PROVE  [Grant!Next]_(Grant!grantVars)
    BY <1>1, <1>3, ConfirmTxKeepsSpends DEF ConfirmTx
  <1>4. ASSUME NEW c \in Clients, StartTx(c)
        PROVE  [Grant!Next]_(Grant!grantVars)
    <2> DEFINE a == thread[c].approval
               k == thread[c].key
               e == approvals[a].binding
    <2>1. a \in Approvals /\ k \in Keys
      BY <1>4, CallByPc DEF StartTx, WorkInv, WorkTypeOK
    <2>2. CASE UNCHANGED <<authorityVars, jobs>>
      BY <1>1, <1>4, <2>2, SameSpends DEF StartTx
    <2>3. ASSUME NEW now \in Nows(c), NEW j \in Jobs \ Started, Consume(a, k, e, now),
                 jobs' = [jobs EXCEPT ![j] = [approval |-> a, key |-> k, state |-> "RUNNING"]]
          PROVE  [Grant!Next]_(Grant!grantVars)
      <3> DEFINE job == [approval |-> a, key |-> k, state |-> "RUNNING"]
      <3>1. now \in Instants
        BY RecentInstants DEF Nows, WorkInv, WorkTypeOK, TypeOK
      <3>2. job \in Job
        BY <2>1 DEF Job
      <3>3. job.approval = a /\ job.state = "RUNNING" /\ job # NoJob
        BY <3>2, WorkAssumption
      <3>4. jobs' = [jobs EXCEPT ![j] = job]
        BY <2>3
      <3>5. UNCHANGED packs
        BY <1>4 DEF StartTx
      <3> HIDE DEF job, a, k, e
      <3>6. \E b \in Bindings :
              /\ Stages[b] = "open" /\ Stages' = [Stages EXCEPT ![b] = "working"]
              /\ UNCHANGED Counts
        BY <2>1, <2>3, <3>1, <3>3, <3>4, <3>5, ConsumptionSpendsTheGrant
      <3>. QED BY <3>6, GrantStep
    <2>. QED BY <1>4, <2>2, <2>3 DEF StartTx
  <1>5. ASSUME NEW c \in Clients, Compose(c) \/ PersistTx(c) \/ FailTx(c)
        PROVE  [Grant!Next]_(Grant!grantVars)
    <2>1. At(c) /\ UNCHANGED vars
      BY <1>5 DEF At, Compose, PersistTx, FailTx
    <2>2. CASE UNCHANGED <<jobs, packs>>
      BY <1>1, <2>1, <2>2, SameSpends DEF vars
    <2>3. CASE ~ UNCHANGED <<jobs, packs>>
      <3> DEFINE j == thread[c].job
      <3>1. \E outcome \in {"COMPLETED", "FAILED"} :
              /\ jobs' = [jobs EXCEPT ![j].state = outcome]
              /\ packs' = IF outcome = "COMPLETED"
                            THEN packs \cup {[job |-> j, approval |-> jobs[j].approval]} ELSE packs
        BY <1>5, <2>3 DEF Compose, PersistTx, FailTx
      <3>. QED BY <2>1, <3>1, OutcomeEndsTheGrant, GrantStep
    <2>. QED BY <2>2, <2>3
  <1>6. CASE UNCHANGED <<authorityVars, jobs, packs>>
    BY <1>1, <1>6, SameSpends
  <1>. QED BY <1>2, <1>3, <1>4, <1>5, <1>6
         DEF WorkNext, Run, CallRequest, CallConfirm, Crash, allVars, vars, workVars

LEMMA GrantInit == WorkInit => Grant!Init
  <1> SUFFICES ASSUME WorkInit PROVE Grant!Init
    OBVIOUS
  <1>1. \A b : SpentFor(b) = {} /\ PacksFor(b) = {}
    BY DEF WorkInit, Init, AuthorityInit, SpentFor, Minted, PacksFor
  <1>2. \A b : StageOf(b) = "open" /\ Cardinality(PacksFor(b)) = 0
    BY <1>1, FS_EmptySet DEF StageOf
  <1>. QED BY <1>2 DEF Grant!Init, PacksFor

\* The workflow implements the single-use grant of every binding: whatever the
\* threads, replays and crashes, a grant is spent once and ends in one pack at most.
THEOREM WorkKeepsTheGrant == WorkSpec => ImplementsGrant
  <1>1. WorkSpec => []OneSpendPerBinding
    BY ProductUsesTheAuthority, SingleUse DEF ImplementsAuthority
  <1>2. WorkInv /\ OneSpendPerBinding /\ OneSpendPerBinding' /\ [WorkNext]_allVars
          => [Grant!Next]_(Grant!grantVars)
    BY StepOfGrant
  <1>. QED BY <1>1, <1>2, GrantInit, WorkAlways, PTL DEF WorkSpec, ImplementsGrant, Grant!Spec
=============================================================================
