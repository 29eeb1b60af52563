---------------------------- MODULE ServerProofs ----------------------------
(***************************************************************************)
(* What ProductServer.cfg checks of the file of the server, proved for     *)
(* every number of connections, records and requests.                      *)
(***************************************************************************)
EXTENDS ProductServer, SequenceTheorems, DataInduction, FiniteSetTheorems, TLAPS

(* Sessions *)

LEMMA MigrationSet == AllMigrations = 1..2 /\ Len(Migrations) = 2
  BY DEF AllMigrations, Migrations

LEMMA MinOfMigrations ==
  ASSUME NEW S \in SUBSET (1..2), S # {}
  PROVE  Min(S) \in S
  <1>1. CASE 1 \in S
    <2>1. \A y \in S : 1 <= y
      OBVIOUS
    <2>. QED BY <1>1, <2>1 DEF Min
  <1>2. CASE 1 \notin S
    <2>1. \A y \in S : y \in Int /\ y >= 1 /\ y <= 2 /\ y # 1
      BY <1>2
    <2>2. \A y \in S : y = 2
      BY <2>1
    <2>3. 2 \in S
      BY <2>2
    <2>4. \A y \in S : 2 <= y
      BY <2>2
    <2>. QED BY <2>3, <2>4 DEF Min
  <1>. QED BY <1>1, <1>2

\* A session is known by its pc.
LEMMA ByPc ==
  ASSUME NEW s \in Sessions
  PROVE  /\ s.pc = "connected" =>
              s \in [pc : {"connected"}, op : Operations, seen : SUBSET (1..(Len(Migrations) + 1))]
         /\ s.pc = "running" =>
              s \in [pc : {"running"}, op : Captures, resolved : Resolved \cup {NoRow},
                     error : BOOLEAN]
         /\ s.pc = "snapshot" =>
              s \in [pc : {"snapshot"}, op : Captures, resolved : Resolved, current : BOOLEAN]
         /\ s.pc \in {"idle", "connected", "running", "snapshot"}
         /\ s.pc = "idle" <=> s = Idle
         /\ s # Idle => s.op \in Operations
  <1> DEFINE C == [pc : {"connected"}, op : Operations, seen : SUBSET (1..(Len(Migrations) + 1))]
             R == [pc : {"running"}, op : Captures, resolved : Resolved \cup {NoRow},
                   error : BOOLEAN]
             S == [pc : {"snapshot"}, op : Captures, resolved : Resolved, current : BOOLEAN]
  <1>1. s = Idle \/ s \in C \/ s \in R \/ s \in S
    BY DEF Sessions
  <1>2. s = Idle => s.pc = "idle"
    BY DEF Idle
  <1>3. s \in C => s.pc = "connected" /\ s.op \in Operations
    OBVIOUS
  <1>4. s \in R => s.pc = "running" /\ s.op \in Captures
    OBVIOUS
  <1>5. s \in S => s.pc = "snapshot" /\ s.op \in Captures
    OBVIOUS
  <1>6. Captures \subseteq Operations
    BY DEF Operations
  <1> HIDE DEF C, R, S
  <1>7. /\ s.pc = "connected" => s \in C
        /\ s.pc = "running" => s \in R
        /\ s.pc = "snapshot" => s \in S
        /\ s.pc \in {"idle", "connected", "running", "snapshot"}
        /\ s.pc = "idle" <=> s = Idle
        /\ s # Idle => s.op \in Operations
    BY <1>1, <1>2, <1>3, <1>4, <1>5, <1>6
  <1>. QED BY <1>7 DEF C, R, S

\* An operation is known by its kind.
LEMMA ByKind ==
  ASSUME NEW op \in Operations
  PROVE  /\ op.kind \in {"start", "founder", "project", "capture"}
         /\ op.kind = "capture" => op \in Captures
         /\ op.kind = "founder" =>
              op \in [kind : {"founder"}, id : FounderIds, expected : 0..(MaxVersion - 1)]
         /\ op.kind = "project" =>
              op \in [kind : {"project"}, id : ProjectIds, expected : 0..(MaxVersion - 1)]
  BY DEF Operations, Edits, Captures

LEMMA OvertakeType ==
  ASSUME session \in [Clients -> Sessions], NEW c \in Clients, NEW next \in Sessions
  PROVE  Overtake(c, next) \in [Clients -> Sessions]
  <1> SUFFICES ASSUME NEW d \in Clients, d # c, session[d].pc = "snapshot"
               PROVE  [session[d] EXCEPT !.current = FALSE] \in Sessions
    BY DEF Overtake
  <1>1. session[d] \in [pc : {"snapshot"}, op : Captures, resolved : Resolved, current : BOOLEAN]
    BY ByPc
  <1>2. [session[d] EXCEPT !.current = FALSE] \in
          [pc : {"snapshot"}, op : Captures, resolved : Resolved, current : BOOLEAN]
    BY <1>1
  <1>. QED BY <1>2 DEF Sessions

LEMMA IdleType == Idle \in Sessions
  BY DEF Sessions

\* Whatever an exception leaves of a connected session is a session.
LEMMA RaisesType ==
  ASSUME session \in [Clients -> Sessions], NEW c \in Clients,
         session[c].pc = "connected", Raises(c)
  PROVE  session' \in [Clients -> Sessions]
  <1>1. session[c].op \in Operations
    BY ByPc
  <1>2. session[c].op.kind = "capture" => session[c].op \in Captures
    BY <1>1, ByKind
  <1> DEFINE failed == [pc |-> "running", op |-> session[c].op, resolved |-> NoRow, error |-> TRUE]
  <1>3. session[c].op.kind = "capture" => failed \in Sessions
    <2>1. session[c].op.kind = "capture" =>
            failed \in [pc : {"running"}, op : Captures, resolved : Resolved \cup {NoRow},
                        error : BOOLEAN]
      BY <1>2
    <2>. QED BY <2>1 DEF Sessions
  <1>. QED BY <1>3, IdleType DEF Raises

\* A step of the server is a step of its file or leaves the file alone.
LEMMA StepsOfServer ==
  ASSUME StoreTypeOK, [ServerNext]_serverVars
  PROVE  \/ StoreStep
         \/ UNCHANGED <<mode, serving, store, session, edits, told>>
            /\ requests' \in 0..MaxRequests
  <1>1. CASE StoreStep
    BY <1>1
  <1>2. CASE Browse
    BY <1>2, StoreAssumption DEF Browse, StoreTypeOK
  <1>3. CASE UNCHANGED serverVars
    BY <1>3 DEF serverVars, storeVars, StoreTypeOK
  <1>. QED BY <1>1, <1>2, <1>3 DEF ServerNext
------------------------------------------------------------------------------
(* Types *)

\* The sessions of every step; what it keeps of an operation it keeps whole.
OpsKept ==
  \A d \in Clients : session'[d] = Idle \/ (Open(d) /\ session'[d].op = session[d].op)

LEMMA OvertakeKeeps ==
  ASSUME session \in [Clients -> Sessions], NEW c \in Clients, NEW next,
         next = Idle \/ (Open(c) /\ next.op = session[c].op),
         session' = Overtake(c, next)
  PROVE  OpsKept
  <1> SUFFICES ASSUME NEW d \in Clients, d # c
               PROVE  session'[d] = Idle \/ (Open(d) /\ session'[d].op = session[d].op)
    BY DEF Overtake, OpsKept
  <1>1. CASE session[d].pc = "snapshot"
    <2>1. session[d] # Idle
      BY <1>1 DEF Idle
    <2>2. session'[d] = [session[d] EXCEPT !.current = FALSE]
      BY <1>1 DEF Overtake
    <2>3. session[d] \in [pc : {"snapshot"}, op : Captures, resolved : Resolved, current : BOOLEAN]
      BY <1>1, ByPc
    <2>4. session'[d].op = session[d].op
      BY <2>2, <2>3
    <2>. QED BY <2>1, <2>4 DEF Open
  <1>2. CASE session[d].pc # "snapshot"
    BY <1>2 DEF Overtake, Open
  <1>. QED BY <1>1, <1>2

LEMMA OvertakeIdle ==
  ASSUME session \in [Clients -> Sessions], NEW c \in Clients, Ends(c)
  PROVE  session' \in [Clients -> Sessions] /\ OpsKept
  BY OvertakeType, OvertakeKeeps, IdleType DEF Ends

LEMMA EndsIdle ==
  ASSUME session \in [Clients -> Sessions], NEW c \in Clients,
         session' = [session EXCEPT ![c] = Idle]
  PROVE  session' \in [Clients -> Sessions] /\ OpsKept
  <1>1. session' \in [Clients -> Sessions]
    BY IdleType
  <1>2. OpsKept
    BY DEF OpsKept, Open
  <1>. QED BY <1>1, <1>2

LEMMA ConnectTypes ==
  ASSUME StoreTypeOK, NEW c \in Clients, NEW op \in Operations, Connect(c, op)
  PROVE  StoreTypeOK'
  <1>1. session' \in [Clients -> Sessions]
    <2> DEFINE opened == [pc |-> "connected", op |-> op, seen |-> applied]
    <2>1. opened \in [pc : {"connected"}, op : Operations, seen : SUBSET (1..(Len(Migrations) + 1))]
      BY DEF StoreTypeOK
    <2>2. opened \in Sessions
      BY <2>1 DEF Sessions
    <2>. QED BY <2>2, IdleType DEF Connect, StoreTypeOK
  <1>2. requests' \in 0..MaxRequests
    BY StoreAssumption DEF Connect, StoreTypeOK
  <1>. QED BY <1>1, <1>2 DEF Connect, StoreTypeOK, store

LEMMA MigrateTypes ==
  ASSUME StoreTypeOK, NEW c \in Clients, Migrate(c)
  PROVE  StoreTypeOK' /\ OpsKept
  <1> DEFINE version == Min(Missing(c))
             s == session[c]
  <1>1. version \in 1..2
    BY MinOfMigrations, MigrationSet DEF Migrate, Missing
  <1>2. s \in [pc : {"connected"}, op : Operations, seen : SUBSET (1..(Len(Migrations) + 1))]
    BY ByPc DEF Migrate, StoreTypeOK
  <1>3. CASE version \in tables
    <2>1. Raises(c) /\ UNCHANGED <<applied, tables>>
      BY <1>3 DEF Migrate
    <2>2. session' \in [Clients -> Sessions]
      BY <2>1, RaisesType DEF StoreTypeOK, Migrate
    <2>3. OpsKept
      BY <1>2, <2>1 DEF Raises, OpsKept, Open, Idle, StoreTypeOK
    <2>. QED BY <2>1, <2>2, <2>3 DEF StoreTypeOK, Migrate, Fixed
  <1>4. CASE version \notin tables
    <2> DEFINE next == [s EXCEPT !.seen = @ \cup {version}]
    <2>1. /\ tables' = tables \cup {version} /\ applied' = applied \cup {version}
          /\ session' = Overtake(c, next)
      BY <1>4 DEF Migrate
    <2>2. next \in [pc : {"connected"}, op : Operations, seen : SUBSET (1..(Len(Migrations) + 1))]
      BY <1>1, <1>2, MigrationSet
    <2>3. next \in Sessions /\ next.op = s.op
      BY <1>2, <2>2 DEF Sessions
    <2>4. s # Idle
      BY <1>2 DEF Idle
    <2>5. session' \in [Clients -> Sessions] /\ OpsKept
      BY <2>1, <2>3, <2>4, OvertakeType, OvertakeKeeps DEF StoreTypeOK, Open
    <2>6. /\ applied' \subseteq 1..(Len(Migrations) + 1)
          /\ tables' \subseteq 1..(Len(Migrations) + 1)
      BY <1>1, <2>1, MigrationSet DEF StoreTypeOK
    <2>. QED BY <2>5, <2>6 DEF StoreTypeOK, Migrate, Fixed
  <1>. QED BY <1>3, <1>4

LEMMA EditTypes ==
  ASSUME StoreTypeOK, NEW c \in Clients, EditTx(c)
  PROVE  StoreTypeOK' /\ OpsKept
  <1> DEFINE op == session[c].op
             row == [id |-> op.id, version |-> op.expected + 1, text |-> c]
  <1>1. op \in Operations
    BY ByPc DEF EditTx, Connected, StoreTypeOK
  <1>2. /\ op.kind = "founder" => row \in Rows(FounderIds)
        /\ op.kind = "project" => row \in Rows(ProjectIds)
    BY <1>1, ByKind, StoreAssumption DEF Rows
  <1>3. /\ founders' \subseteq Rows(FounderIds) /\ projects' \subseteq Rows(ProjectIds)
        /\ edits' \subseteq [by : Clients, row : Rows(FounderIds) \cup Rows(ProjectIds)]
    BY <1>2 DEF EditTx, StoreTypeOK
  <1>4. session' \in [Clients -> Sessions] /\ OpsKept
    BY OvertakeIdle, EndsIdle DEF EditTx, Ends, StoreTypeOK
  <1>. QED BY <1>3, <1>4 DEF EditTx, StoreTypeOK

\* What a session that is past its connection holds.
LEMMA HeldTypes ==
  ASSUME StoreTypeOK, NEW c \in Clients, session[c].pc \in {"running", "snapshot"}
  PROVE  /\ session[c].op \in Captures
         /\ session[c].pc = "snapshot" \/ Held(c) # NoRow => Held(c) \in Resolved
         /\ session[c].pc = "snapshot" => session[c].current \in BOOLEAN
  <1>1. session[c] \in Sessions
    BY DEF StoreTypeOK
  <1>. QED BY <1>1, ByPc DEF Held

LEMMA ResolveTypes ==
  ASSUME StoreTypeOK, NEW c \in Clients, NEW digest \in Digests, Resolve(c, digest)
  PROVE  StoreTypeOK' /\ OpsKept
  <1> DEFINE latest == Len(opportunity)
             same == latest > 0 /\ opportunity[latest].digest = digest
             op == session[c].op
             resolved == [version |-> IF same THEN latest ELSE latest + 1, digest |-> digest,
                          by |-> IF same THEN opportunity[latest].by ELSE op.run]
             next == [pc |-> "running", op |-> op, error |-> FALSE, resolved |-> resolved]
  <1>1. session[c] \in Sessions /\ session[c] # Idle
    <2>1. session[c].pc = "connected" \/ session[c].pc = "running"
      BY DEF Resolve, Capturing, Connected, Running
    <2>. QED BY <2>1 DEF StoreTypeOK, Idle
  <1>2. op \in Captures
    BY <1>1, ByPc, ByKind DEF Resolve, Capturing, Connected, Running
  <1>3. latest \in 0..MaxVersion /\ (latest > 0 => opportunity[latest] \in [digest : Digests, by : RunIds])
    <2> DEFINE Row == [digest : Digests, by : RunIds]
    <2>1. opportunity \in Seq(Row) /\ latest <= MaxVersion
      BY DEF StoreTypeOK
    <2> HIDE DEF Row
    <2>2. latest \in Nat /\ (latest > 0 => opportunity[latest] \in Row)
      BY <2>1
    <2>. QED BY <2>1, <2>2, StoreAssumption DEF Row
  <1>4. op.run \in RunIds
    BY <1>2 DEF Captures
  <1>5. resolved \in [version : Nat \ {0}, digest : Digests, by : RunIds]
    BY <1>3, <1>4
  <1>6. session' = [session EXCEPT ![c] = next] /\ (same \/ latest < MaxVersion)
    BY DEF Resolve
  <1>7. CASE resolved \in Resolved
    <2>1. next \in [pc : {"running"}, op : Captures, resolved : Resolved \cup {NoRow}, error : BOOLEAN]
      BY <1>2, <1>7
    <2>2. next \in Sessions
      BY <2>1 DEF Sessions
    <2>3. next.op = session[c].op
      OBVIOUS
    <2> HIDE DEF next
    <2>4. session' \in [Clients -> Sessions] /\ OpsKept
      BY <1>1, <1>6, <2>2, <2>3 DEF OpsKept, Open, StoreTypeOK
    <2>. QED BY <2>4 DEF Resolve, StoreTypeOK, Fixed, store
  <1>8. resolved \in Resolved
    <2>1. CASE ~ same
      <3>1. latest + 1 \in 1..MaxVersion
        BY <1>3, <1>6, <2>1, StoreAssumption
      <3>. QED BY <1>4, <2>1, <3>1 DEF Resolved
    <2>2. CASE same
      <3>1. latest \in 1..MaxVersion
        BY <1>3, <2>2, StoreAssumption
      <3>. QED BY <1>3, <2>2, <3>1 DEF Resolved
    <2>. QED BY <2>1, <2>2
  <1>. QED BY <1>7, <1>8

LEMMA RetainTypes ==
  ASSUME StoreTypeOK, NEW c \in Clients, Retain(c)
  PROVE  StoreTypeOK' /\ OpsKept
  <1> DEFINE next == [session[c] EXCEPT !.error = TRUE]
  <1>1. session[c] \in [pc : {"running"}, op : Captures, resolved : Resolved \cup {NoRow},
                        error : BOOLEAN]
    BY ByPc DEF Retain, Running, StoreTypeOK
  <1>2. /\ next \in [pc : {"running"}, op : Captures, resolved : Resolved \cup {NoRow},
                     error : BOOLEAN]
        /\ next.op = session[c].op /\ session[c] # Idle
    <2>1. next \in [pc : {"running"}, op : Captures, resolved : Resolved \cup {NoRow},
                    error : BOOLEAN]
      BY <1>1
    <2>2. next.op = session[c].op
      BY <1>1
    <2>3. session[c] # Idle
      BY DEF Retain, Running, Idle
    <2>. QED BY <2>1, <2>2, <2>3
  <1>3. next \in Sessions
    BY <1>2 DEF Sessions
  <1>4. session' = [session EXCEPT ![c] = next]
    BY DEF Retain
  <1> HIDE DEF next
  <1>5. session' \in [Clients -> Sessions] /\ OpsKept
    BY <1>2, <1>3, <1>4 DEF OpsKept, Open, StoreTypeOK
  <1>. QED BY <1>5 DEF Retain, StoreTypeOK, Fixed, store

LEMMA ReadSnapshotTypes ==
  ASSUME StoreTypeOK, NEW c \in Clients, ReadSnapshot(c)
  PROVE  StoreTypeOK' /\ OpsKept
  <1> DEFINE next == [pc |-> "snapshot", op |-> session[c].op, resolved |-> Held(c),
                      current |-> TRUE]
  <1>1. session[c].op \in Captures /\ Held(c) \in Resolved /\ session[c] # Idle
    BY HeldTypes DEF ReadSnapshot, Running, Idle
  <1>2. next \in [pc : {"snapshot"}, op : Captures, resolved : Resolved, current : BOOLEAN]
    BY <1>1
  <1>3. next \in Sessions /\ next.op = session[c].op
    BY <1>2 DEF Sessions
  <1>4. session' = [session EXCEPT ![c] = next]
    BY DEF ReadSnapshot
  <1> HIDE DEF next
  <1>5. session' \in [Clients -> Sessions] /\ OpsKept
    BY <1>1, <1>3, <1>4 DEF OpsKept, Open, StoreTypeOK
  <1>. QED BY <1>5 DEF ReadSnapshot, StoreTypeOK, Fixed, store

LEMMA ReportFailureTypes ==
  ASSUME StoreTypeOK, NEW c \in Clients, ReportFailure(c)
  PROVE  StoreTypeOK' /\ OpsKept
  <1>1. session[c].op \in Captures
    BY HeldTypes DEF ReportFailure, Running
  <1>2. told' \in [RunIds -> {"nothing", "persisted", "failed"}]
    BY <1>1 DEF ReportFailure, StoreTypeOK
  <1>3. session' \in [Clients -> Sessions] /\ OpsKept
    BY EndsIdle DEF ReportFailure, StoreTypeOK
  <1>. QED BY <1>2, <1>3 DEF ReportFailure, StoreTypeOK, store

\* The version a writable capture stores is the one it resolved.
LEMMA PutsResolved ==
  ASSUME StoreTypeOK, NEW c \in Clients, session[c].pc = "snapshot", Writable(c)
  PROVE  LET next == PutOpportunity(Held(c), session[c].op.run)[2]
         IN /\ next \in Seq([digest : Digests, by : RunIds]) /\ Len(next) <= MaxVersion
            /\ Held(c).version = Len(next) /\ next[Len(next)].digest = Held(c).digest
            /\ Len(opportunity) <= Len(next)
            /\ \A i \in 1..Len(opportunity) : next[i] = opportunity[i]
            /\ next = opportunity
               \/ /\ Len(next) = Len(opportunity) + 1
                  /\ Len(opportunity) > 0 =>
                       next[Len(next)].digest # opportunity[Len(opportunity)].digest
  <1> DEFINE run == session[c].op.run
             held == Held(c)
             latest == Len(opportunity)
             next == PutOpportunity(held, run)[2]
             Row == [digest : Digests, by : RunIds]
             row == [digest |-> held.digest, by |-> run]
  <1>1. opportunity \in Seq(Row) /\ latest \in 0..MaxVersion
    BY StoreAssumption DEF StoreTypeOK
  <1>2. row \in Row /\ held.version \in 1..MaxVersion
    BY HeldTypes DEF Resolved, Captures
  <1>3. CASE latest > 0 /\ opportunity[latest].digest = held.digest
    <2>1. next = opportunity /\ held.version = latest
      BY <1>3 DEF PutOpportunity, Writable
    <2> HIDE DEF held, next, Row
    <2>2. next[Len(next)].digest = held.digest /\ Len(next) = latest
      BY <1>3, <2>1
    <2>. QED BY <1>1, <2>1, <2>2 DEF held, next, Row
  <1>4. CASE ~ (latest > 0 /\ opportunity[latest].digest = held.digest)
    <2>1. next = Append(opportunity, row) /\ held.version = latest + 1
      BY <1>4 DEF PutOpportunity, Writable
    <2> HIDE DEF held, next, Row
    <2>2. /\ next \in Seq(Row) /\ Len(next) = latest + 1 /\ next[latest + 1] = row
          /\ \A i \in 1..latest : next[i] = opportunity[i]
      BY <1>1, <1>2, <2>1
    <2>3. row.digest = held.digest
      OBVIOUS
    <2> HIDE DEF row
    <2>4. /\ Len(next) <= MaxVersion /\ held.version = Len(next)
          /\ next[Len(next)].digest = held.digest /\ latest <= Len(next)
      BY <1>1, <1>2, <2>1, <2>2, <2>3
    <2>5. latest > 0 => next[Len(next)].digest # opportunity[latest].digest
      BY <1>4, <2>4
    <2>. QED BY <2>2, <2>4, <2>5 DEF held, next, Row
  <1>. QED BY <1>3, <1>4

\* The profile rows a capture carries.
LEMMA InputTypes ==
  ASSUME NEW op \in Captures
  PROVE  /\ op.run \in RunIds /\ op.inputs \in Inputs
         /\ op.inputs.founder \in Rows(FounderIds) /\ op.inputs.projects \subseteq Rows(ProjectIds)
         /\ IsFiniteSet(op.inputs.projects) /\ op.inputs.projects # {}
         /\ \A p, q \in op.inputs.projects : p.id = q.id => p = q
  BY StoreAssumption DEF Captures

LEMMA CaptureTypes ==
  ASSUME StoreTypeOK, NEW c \in Clients,
         NEW state \in {"COMPLETED", "PARTIAL", "FAILED"}, CaptureTx(c, state)
  PROVE  StoreTypeOK' /\ OpsKept
  <1> DEFINE op == session[c].op
  <1>1. session[c].pc = "snapshot" /\ op \in Captures /\ Held(c) \in Resolved
    BY HeldTypes DEF CaptureTx
  <1>2. told' \in [RunIds -> {"nothing", "persisted", "failed"}]
    BY <1>1, InputTypes DEF CaptureTx, StoreTypeOK
  <1>3. session' \in [Clients -> Sessions] /\ OpsKept
    BY OvertakeIdle, EndsIdle DEF CaptureTx, StoreTypeOK
  <1>4. CASE ~ Writable(c)
    BY <1>2, <1>3, <1>4 DEF CaptureTx, StoreTypeOK
  <1>5. CASE Writable(c)
    <2>1. PutGraph(c, state)
      BY <1>5 DEF CaptureTx
    <2>2. /\ opportunity' \in Seq([digest : Digests, by : RunIds])
          /\ Len(opportunity') <= MaxVersion
      BY <1>1, <1>5, <2>1, PutsResolved DEF PutGraph
    <2>3. founders' \subseteq Rows(FounderIds) /\ projects' \subseteq Rows(ProjectIds)
      BY <1>1, <2>1, InputTypes DEF PutGraph, StoreTypeOK
    <2>4. DecisionRows(op, Held(c)) \subseteq
            [run : RunIds, version : 1..MaxVersion, digest : Digests,
             founder : Rows(FounderIds), project : Rows(ProjectIds)]
      BY <1>1, InputTypes DEF DecisionRows, Resolved
    <2>5. RunRow(op.run, state, Held(c).version) \in
            [id : RunIds, state : {"COMPLETED", "PARTIAL", "FAILED"}, version : 0..MaxVersion]
      BY <1>1, InputTypes, StoreAssumption DEF RunRow, Resolved
    <2>6. /\ decisions' \subseteq [run : RunIds, version : 1..MaxVersion, digest : Digests,
                                   founder : Rows(FounderIds), project : Rows(ProjectIds)]
          /\ runs' \subseteq [id : RunIds, state : {"COMPLETED", "PARTIAL", "FAILED"},
                              version : 0..MaxVersion]
      BY <2>1, <2>4, <2>5 DEF PutGraph, StoreTypeOK
    <2>. QED BY <1>2, <1>3, <2>2, <2>3, <2>6 DEF CaptureTx, StoreTypeOK
  <1>. QED BY <1>4, <1>5

LEMMA TelemetryTypes ==
  ASSUME StoreTypeOK, NEW c \in Clients,
         NEW state \in {"COMPLETED", "PARTIAL", "FAILED"}, TelemetryTx(c, state)
  PROVE  StoreTypeOK' /\ OpsKept
  <1> DEFINE op == session[c].op
  <1>1. op \in Captures
    <2>1. session[c] \in Sessions
      BY DEF StoreTypeOK
    <2>2. CASE Capturing(c)
      <3>1. session[c] \in [pc : {"connected"}, op : Operations,
                            seen : SUBSET (1..(Len(Migrations) + 1))]
        BY <2>1, <2>2, ByPc DEF Capturing, Connected
      <3>. QED BY <2>2, <3>1, ByKind DEF Capturing
    <2>3. CASE Running(c)
      BY <2>3, HeldTypes DEF Running
    <2>. QED BY <2>2, <2>3 DEF TelemetryTx
  <1>2. op.run \in RunIds
    BY <1>1, InputTypes
  <1>3. told' \in [RunIds -> {"nothing", "persisted", "failed"}]
    BY <1>2 DEF TelemetryTx, StoreTypeOK
  <1>4. session' \in [Clients -> Sessions] /\ OpsKept
    BY OvertakeIdle DEF TelemetryTx, StoreTypeOK
  <1>5. runs' \subseteq [id : RunIds, state : {"COMPLETED", "PARTIAL", "FAILED"},
                         version : 0..MaxVersion]
    BY <1>2, StoreAssumption DEF TelemetryTx, RunRow, StoreTypeOK
  <1>. QED BY <1>3, <1>4, <1>5 DEF TelemetryTx, StoreTypeOK

LEMMA OtherTypes ==
  ASSUME StoreTypeOK,
         \/ \E c \in Clients : Busy(c) \/ Start(c) \/ Die(c)
         \/ \E next \in Modes : Stop(next)
  PROVE  StoreTypeOK' /\ OpsKept
  <1>1. ASSUME NEW c \in Clients, Busy(c)
        PROVE  StoreTypeOK' /\ OpsKept
    <2>1. session' \in [Clients -> Sessions]
      BY <1>1, RaisesType DEF Busy, StoreTypeOK
    <2>2. session[c] # Idle
      BY <1>1 DEF Busy, Idle
    <2>3. OpsKept
      BY <1>1, <2>2 DEF Busy, Raises, OpsKept, Open, StoreTypeOK
    <2>. QED BY <1>1, <2>1, <2>3 DEF Busy, StoreTypeOK, Fixed, store
  <1>2. ASSUME NEW c \in Clients, Start(c)
        PROVE  StoreTypeOK' /\ OpsKept
    <2>1. session' \in [Clients -> Sessions] /\ OpsKept
      BY <1>2, EndsIdle DEF Start, StoreTypeOK
    <2>2. serving' \in BOOLEAN
      BY <1>2 DEF Start
    <2>. QED BY <1>2, <2>1, <2>2 DEF Start, StoreTypeOK, Fixed, store
  <1>3. ASSUME NEW c \in Clients, Die(c)
        PROVE  StoreTypeOK' /\ OpsKept
    <2>1. session' \in [Clients -> Sessions] /\ OpsKept
      BY <1>3, EndsIdle DEF Die, StoreTypeOK
    <2>. QED BY <1>3, <2>1 DEF Die, StoreTypeOK, Fixed, store
  <1>4. ASSUME NEW next \in Modes, Stop(next)
        PROVE  StoreTypeOK' /\ OpsKept
    <2>1. session' \in [Clients -> Sessions]
      BY <1>4, IdleType DEF Stop, StoreTypeOK
    <2>2. OpsKept
      BY <1>4 DEF Stop, OpsKept, Open, StoreTypeOK
    <2>. QED BY <1>4, <2>1, <2>2 DEF Stop, StoreTypeOK, store
  <1>. QED BY <1>1, <1>2, <1>3, <1>4

\* Only a connection brings an operation in.
LEMMA StepTypes ==
  ASSUME StoreTypeOK, StoreStep
  PROVE  /\ StoreTypeOK'
         /\ OpsKept \/ \E c \in Clients, op \in Operations : Connect(c, op)
  BY ConnectTypes, MigrateTypes, EditTypes, ResolveTypes, RetainTypes, ReadSnapshotTypes,
     ReportFailureTypes, CaptureTypes, TelemetryTypes, OtherTypes DEF StoreStep

\* Every reachable state of the file and its connections is well typed.
THEOREM StoreTypeCorrect == ServerSpec => []StoreTypeOK
  <1>1. ServerInit => StoreTypeOK
    <2> SUFFICES ASSUME StoreInit PROVE StoreTypeOK
      BY DEF ServerInit
    <2>1. /\ applied \subseteq 1..(Len(Migrations) + 1) /\ tables \subseteq 1..(Len(Migrations) + 1)
          /\ session \in [Clients -> Sessions]
      BY IdleType, MigrationSet DEF StoreInit
    <2>2. /\ mode \in Modes /\ serving \in BOOLEAN /\ requests \in 0..MaxRequests
          /\ told \in [RunIds -> {"nothing", "persisted", "failed"}]
      <3>1. told \in [RunIds -> {"nothing", "persisted", "failed"}]
        BY DEF StoreInit
      <3>2. requests \in 0..MaxRequests
        BY StoreAssumption DEF StoreInit
      <3>. QED BY <3>1, <3>2 DEF StoreInit
    <2>3. /\ opportunity \in Seq([digest : Digests, by : RunIds])
          /\ Len(opportunity) <= MaxVersion
      <3> DEFINE Row == [digest : Digests, by : RunIds]
      <3> HIDE DEF Row
      <3>1. opportunity = <<>>
        BY DEF StoreInit
      <3>2. opportunity \in Seq(Row) /\ Len(opportunity) = 0
        BY <3>1
      <3>. QED BY <3>2, StoreAssumption DEF Row
    <2>4. founders = {} /\ projects = {} /\ decisions = {} /\ runs = {} /\ edits = {}
      BY DEF StoreInit
    <2>. QED BY <2>1, <2>2, <2>3, <2>4 DEF StoreTypeOK
  <1>2. StoreTypeOK /\ [ServerNext]_serverVars => StoreTypeOK'
    <2> SUFFICES ASSUME StoreTypeOK, [ServerNext]_serverVars PROVE StoreTypeOK'
      OBVIOUS
    <2>1. CASE StoreStep
      BY <2>1, StepTypes
    <2>2. CASE ~ StoreStep
      BY <2>2, StepsOfServer DEF StoreTypeOK, store
    <2>. QED BY <2>1, <2>2
  <1>. QED BY <1>1, <1>2, PTL DEF ServerSpec
------------------------------------------------------------------------------
(* Migrations *)

\* The histories this release supports.
LEMMA SupportedHistories ==
  ASSUME NEW S \in SUBSET (1..3)
  PROVE  Supported(S) <=> S \in {{}, {1}, {1, 2}}
  <1>1. IsFiniteSet(S)
    <2>1. 1 \in Int /\ 3 \in Int
      OBVIOUS
    <2>2. IsFiniteSet(1..3)
      BY ONLY <2>1, FS_Interval
    <2>. QED BY <2>2, FS_Subset
  <1>2. Cardinality(S) \in Nat
    BY <1>1, FS_CardinalityType
  <1>3. \A n \in 0..2 : Cardinality(1..n) = n
    <2> SUFFICES ASSUME NEW n \in 0..2 PROVE Cardinality(1..n) = n
      OBVIOUS
    <2> DEFINE size == Cardinality(1..n)
    <2>1. n \in Int /\ 1 \in Int
      OBVIOUS
    <2>2. size = IF 1 > n THEN 0 ELSE n - 1 + 1
      BY ONLY <2>1, FS_Interval
    <2> HIDE DEF size
    <2>3. size = n
      BY <2>2
    <2>. QED BY <2>3 DEF size
  <1>4. ASSUME NEW n \in Nat, S = 1..n, n <= 2
        PROVE  S \in {{}, {1}, {1, 2}}
    <2>1. n = 0 \/ n = 1 \/ n = 2
      BY <1>4
    <2>. QED BY <1>4, <2>1
  <1>5. S \in {{}, {1}, {1, 2}} => \E n \in 0..2 : S = 1..n
    <2>1. 0 \in 0..2 /\ 1 \in 0..2 /\ 2 \in 0..2
      OBVIOUS
    <2>2. {} = 1..0 /\ {1} = 1..1 /\ {1, 2} = 1..2
      OBVIOUS
    <2>. QED BY ONLY <2>1, <2>2
  <1>6. ASSUME S \in {{}, {1}, {1, 2}}
        PROVE  S = 1..Cardinality(S) /\ Cardinality(S) <= 2
    <2>1. PICK n \in 0..2 : S = 1..n
      BY <1>5, <1>6
    <2>2. Cardinality(S) = n
      BY <1>3, <2>1
    <2>. QED BY <2>1, <2>2
  <1>. QED BY <1>2, <1>4, <1>6, MigrationSet DEF Supported

\* What a connection read is on file, its history has no gap, and whoever is
\* past its connection found or made it complete.
SessionFits(c) ==
  /\ Open(c) => Supported(applied)
  /\ session[c].pc = "connected" => session[c].seen \subseteq applied
  /\ session[c].pc = "running" /\ ~ session[c].error => applied = AllMigrations
  /\ session[c].pc = "snapshot" => applied = AllMigrations

SchemaInv ==
  /\ tables = applied
  /\ serving => applied = AllMigrations
  /\ \A c \in Clients : SessionFits(c)

LEMMA WorksOnWhole ==
  ASSUME StoreTypeOK, SchemaInv, NEW c \in Clients, Works(c)
  PROVE  applied = AllMigrations
  <1>1. CASE Connected(c)
    <2>1. session[c].pc = "connected" /\ AllMigrations \subseteq session[c].seen
      BY <1>1 DEF Connected, Missing
    <2>2. Open(c) /\ session[c].seen \subseteq applied
      BY <2>1 DEF SchemaInv, SessionFits, Open, Idle
    <2>3. Supported(applied) /\ applied \in SUBSET (1..3)
      BY <2>2, MigrationSet DEF SchemaInv, SessionFits, StoreTypeOK
    <2>4. applied \in {{}, {1}, {1, 2}} /\ 1..2 \subseteq applied
      BY <2>1, <2>2, <2>3, SupportedHistories, MigrationSet
    <2>. QED BY <2>4, MigrationSet
  <1>2. CASE ~ Connected(c)
    BY <1>2 DEF Works, SchemaInv, SessionFits
  <1>. QED BY <1>1, <1>2

\* A step that leaves the migrations alone and lets nobody past its connection
\* who has not completed them.
Follows(d) ==
  \/ session'[d] = Idle \/ session'[d] = session[d]
  \/ /\ Open(d) /\ session'[d].pc \in {"running", "snapshot"}
     /\ Works(d) \/ (session'[d].pc = "running" /\ session'[d].error)

LEMMA SchemaRests ==
  ASSUME StoreTypeOK, SchemaInv, UNCHANGED <<applied, tables>>,
         serving' => serving \/ \E c \in Clients : Works(c),
         \A d \in Clients : Follows(d)
  PROVE  SchemaInv'
  <1>1. serving' => applied' = AllMigrations
    BY WorksOnWhole DEF SchemaInv
  <1>2. ASSUME NEW d \in Clients PROVE SessionFits(d)'
    <2>1. CASE session'[d] = Idle
      BY <2>1 DEF SessionFits, Open, Idle
    <2>2. CASE session'[d] = session[d]
      BY <2>2 DEF SchemaInv, SessionFits, Open
    <2>3. CASE Open(d) /\ session'[d].pc \in {"running", "snapshot"}
      <3>1. Supported(applied')
        BY <2>3 DEF SchemaInv, SessionFits
      <3>2. CASE Works(d)
        BY <2>3, <3>1, <3>2, WorksOnWhole DEF SessionFits
      <3>3. CASE session'[d].pc = "running" /\ session'[d].error
        BY <3>1, <3>3 DEF SessionFits
      <3>4. Works(d) \/ (session'[d].pc = "running" /\ session'[d].error)
            \/ session'[d] = Idle \/ session'[d] = session[d]
        BY DEF Follows
      <3>. QED BY <2>1, <2>2, <3>2, <3>3, <3>4
    <2>. QED BY <2>1, <2>2, <2>3 DEF Follows
  <1>. QED BY <1>1, <1>2 DEF SchemaInv

\* The other snapshots stay snapshots when a commit overtakes them.
LEMMA OvertakeFollows ==
  ASSUME session \in [Clients -> Sessions], NEW c \in Clients, NEW next,
         session' = Overtake(c, next)
  PROVE  \A d \in Clients \ {c} :
           \/ session'[d] = session[d]
           \/ session[d].pc = "snapshot" /\ session'[d].pc = "snapshot"
  <1> SUFFICES ASSUME NEW d \in Clients, d # c, session[d].pc = "snapshot"
               PROVE  session'[d].pc = "snapshot"
    BY DEF Overtake
  <1>1. session'[d] = [session[d] EXCEPT !.current = FALSE]
    BY DEF Overtake
  <1>2. session[d] \in [pc : {"snapshot"}, op : Captures, resolved : Resolved, current : BOOLEAN]
    BY ByPc
  <1>. QED BY <1>1, <1>2

LEMMA EndsFollow ==
  ASSUME session \in [Clients -> Sessions], NEW c \in Clients,
         Ends(c) \/ session' = [session EXCEPT ![c] = Idle]
  PROVE  \A d \in Clients : Follows(d)
  <1>1. CASE session' = [session EXCEPT ![c] = Idle]
    BY <1>1 DEF Follows
  <1>2. CASE Ends(c)
    <2>1. session' = Overtake(c, Idle)
      BY <1>2 DEF Ends
    <2>2. session'[c] = Idle
      BY <2>1 DEF Overtake
    <2>3. ASSUME NEW d \in Clients, session[d].pc = "snapshot" PROVE Open(d)
      BY <2>3 DEF Open, Idle
    <2>. QED BY <2>1, <2>2, <2>3, OvertakeFollows DEF Follows, Works
  <1>. QED BY <1>1, <1>2

LEMMA RaisesFollow ==
  ASSUME session \in [Clients -> Sessions], NEW c \in Clients,
         session[c].pc = "connected", Raises(c)
  PROVE  \A d \in Clients : Follows(d)
  <1>1. Open(c)
    BY DEF Open, Idle
  <1>2. \A d \in Clients \ {c} : session'[d] = session[d]
    BY DEF Raises
  <1>3. session'[c] = Idle \/ (session'[c].pc = "running" /\ session'[c].error)
    BY DEF Raises
  <1>. QED BY <1>1, <1>2, <1>3 DEF Follows

LEMMA MigrateFits ==
  ASSUME StoreTypeOK, SchemaInv, NEW c \in Clients, Migrate(c)
  PROVE  SchemaInv'
  <1> DEFINE version == Min(Missing(c))
             next == [session[c] EXCEPT !.seen = @ \cup {version}]
  <1>1. /\ version \in 1..2 /\ version \notin session[c].seen
        /\ version = 2 => 1 \in session[c].seen
    <2>1. Missing(c) \in SUBSET (1..2) /\ Missing(c) # {}
      BY MigrationSet DEF Migrate, Missing
    <2>2. version \in Missing(c) /\ \A m \in Missing(c) : version <= m
      BY <2>1, MinOfMigrations DEF Min
    <2>. QED BY <2>1, <2>2, MigrationSet DEF Missing
  <1>2. CASE version \in tables
    <2>1. Raises(c) /\ UNCHANGED <<applied, tables, serving>> /\ session[c].pc = "connected"
      BY <1>2 DEF Migrate
    <2>. QED BY <2>1, RaisesFollow, SchemaRests DEF StoreTypeOK
  <1>3. CASE version \notin tables
    <2>1. /\ tables' = tables \cup {version} /\ applied' = applied \cup {version}
          /\ session' = Overtake(c, next) /\ serving' = serving
          /\ session[c].pc = "connected"
      BY <1>3 DEF Migrate
    <2>2. Open(c) /\ session[c].seen \subseteq applied /\ tables = applied
      BY <2>1 DEF SchemaInv, SessionFits, Open, Idle
    <2>3. applied \in {{}, {1}, {1, 2}}
      BY <2>2, SupportedHistories, MigrationSet DEF SchemaInv, SessionFits, StoreTypeOK
    <2>4. applied' \in {{}, {1}, {1, 2}} /\ applied # AllMigrations
      BY <1>1, <1>3, <2>1, <2>2, <2>3, MigrationSet
    <2>5. Supported(applied')
      BY <2>4, SupportedHistories
    <2>6. SessionFits(c)'
      <3>1. session[c] \in [pc : {"connected"}, op : Operations,
                            seen : SUBSET (1..(Len(Migrations) + 1))]
        BY <2>1, ByPc DEF StoreTypeOK
      <3>2. session'[c] = next
        BY <2>1 DEF Overtake
      <3>3. session'[c].pc = "connected" /\ session'[c].seen = session[c].seen \cup {version}
        BY <3>1, <3>2
      <3>4. session'[c].seen \subseteq applied'
        BY <2>1, <2>2, <3>3
      <3>. QED BY <2>5, <3>3, <3>4 DEF SessionFits
    <2>7. ASSUME NEW d \in Clients, d # c PROVE SessionFits(d)'
      <3>1. session[d].pc # "snapshot" /\ (session[d].pc = "running" => session[d].error)
        BY <2>4 DEF SchemaInv, SessionFits
      <3>2. session'[d] = session[d]
        BY <2>1, <2>7, <3>1 DEF Overtake
      <3>3. session[d].pc = "connected" => session[d].seen \subseteq applied'
        BY <2>1 DEF SchemaInv, SessionFits
      <3>. QED BY <2>5, <3>1, <3>2, <3>3 DEF SessionFits
    <2>8. ~ serving
      BY <2>4 DEF SchemaInv
    <2>. QED BY <2>1, <2>2, <2>6, <2>7, <2>8 DEF SchemaInv
  <1>. QED BY <1>2, <1>3

LEMMA SchemaKept ==
  ASSUME StoreTypeOK, SchemaInv, [ServerNext]_serverVars
  PROVE  SchemaInv'
  <1> USE DEF StoreTypeOK
  <1>1. ASSUME NEW c \in Clients, NEW op \in Operations, Connect(c, op)
        PROVE  SchemaInv'
    <2> DEFINE opened == [pc |-> "connected", op |-> op, seen |-> applied]
    <2>1. UNCHANGED <<applied, tables, serving>>
      BY <1>1 DEF Connect, store
    <2>2. ASSUME NEW d \in Clients PROVE SessionFits(d)'
      <3>1. CASE session'[d] = session[d]
        BY <2>1, <3>1 DEF SchemaInv, SessionFits, Open
      <3>2. CASE session'[d] = Idle
        BY <3>2 DEF SessionFits, Open, Idle
      <3>3. CASE session'[d] = opened /\ Supported(applied)
        BY <2>1, <3>3 DEF SessionFits
      <3>4. session'[d] = session[d] \/ session'[d] = Idle
            \/ (session'[d] = opened /\ Supported(applied))
        BY <1>1 DEF Connect
      <3>. QED BY <3>1, <3>2, <3>3, <3>4
    <2>. QED BY <2>1, <2>2 DEF SchemaInv
  <1>2. ASSUME NEW c \in Clients, Migrate(c)
        PROVE  SchemaInv'
    BY <1>2, MigrateFits
  <1>3. ASSUME NEW c \in Clients, Busy(c)
        PROVE  SchemaInv'
    BY <1>3, RaisesFollow, SchemaRests DEF Busy, store
  <1>4. ASSUME NEW c \in Clients, Start(c)
        PROVE  SchemaInv'
    <2>1. Works(c)
      BY <1>4 DEF Start, Works
    <2>. QED BY <1>4, <2>1, EndsFollow, SchemaRests DEF Start, store
  <1>5. ASSUME NEW c \in Clients,
               \/ Die(c) \/ EditTx(c) \/ ReportFailure(c)
               \/ \E state \in {"COMPLETED", "PARTIAL", "FAILED"} :
                    CaptureTx(c, state) \/ TelemetryTx(c, state)
        PROVE  SchemaInv'
    <2>1. Ends(c) \/ session' = [session EXCEPT ![c] = Idle]
      BY <1>5 DEF Die, EditTx, ReportFailure, CaptureTx, TelemetryTx, Ends
    <2>2. UNCHANGED <<applied, tables, serving>>
      BY <1>5 DEF Die, EditTx, ReportFailure, CaptureTx, TelemetryTx, store
    <2>. QED BY <2>1, <2>2, EndsFollow, SchemaRests
  <1>6. ASSUME NEW c \in Clients,
               \/ \E digest \in Digests : Resolve(c, digest)
               \/ Retain(c) \/ ReadSnapshot(c)
        PROVE  SchemaInv'
    <2>1. Works(c) /\ Open(c)
      BY <1>6 DEF Resolve, Retain, ReadSnapshot, Works, Capturing, Connected, Running, Open, Idle
    <2>2. session[c].pc = "running" => session[c] \in
            [pc : {"running"}, op : Captures, resolved : Resolved \cup {NoRow}, error : BOOLEAN]
      BY ByPc
    <2>3. /\ \A d \in Clients \ {c} : session'[d] = session[d]
          /\ session'[c].pc \in {"running", "snapshot"}
      BY <1>6, <2>2 DEF Resolve, Retain, ReadSnapshot, Running
    <2>4. \A d \in Clients : Follows(d)
      BY <2>1, <2>3 DEF Follows
    <2>. QED BY <1>6, <2>4, SchemaRests DEF Resolve, Retain, ReadSnapshot, store
  <1>7. ASSUME NEW next \in Modes, Stop(next)
        PROVE  SchemaInv'
    <2>1. \A d \in Clients : Follows(d)
      BY <1>7 DEF Stop, Follows
    <2>. QED BY <1>7, <2>1, SchemaRests DEF Stop, store
  <1>8. CASE UNCHANGED <<mode, serving, store, session, edits, told>>
    BY <1>8, SchemaRests DEF Follows, store
  <1>9. CASE StoreStep
    BY <1>1, <1>2, <1>3, <1>4, <1>5, <1>6, <1>7, <1>9 DEF StoreStep
  <1>. QED BY <1>8, <1>9, StepsOfServer

\* Whichever connections meet on an old file, and wherever one raises or dies:
\* nobody works on the file and no server serves it without exactly the
\* migrations of this release, and a file that could be opened can be again.
THEOREM MigrationsAreWhole == ServerSpec => []SchemaIsWhole
  <1>1. ServerInit => SchemaInv
    BY DEF ServerInit, StoreInit, SchemaInv, SessionFits, Open, Idle
  <1>2. StoreTypeOK /\ SchemaInv /\ [ServerNext]_serverVars => SchemaInv'
    BY SchemaKept
  <1>3. StoreTypeOK /\ SchemaInv => SchemaIsWhole
    BY WorksOnWhole DEF SchemaInv, SessionFits, SchemaIsWhole
  <1>. QED BY <1>1, <1>2, <1>3, StoreTypeCorrect, PTL DEF ServerSpec
------------------------------------------------------------------------------
(* Profile rows *)

\* Every id has a newest version: what list_current returns is defined.
HasNewest(rows) ==
  \A id \in FounderIds \cup ProjectIds :
    \E v \in {0} \cup Versions(rows, id) : \A w \in {0} \cup Versions(rows, id) : v >= w

OneRow(rows) ==
  \A row, other \in rows : row.id = other.id /\ row.version = other.version => row = other

RowsOK(rows) == IsFiniteSet(rows) /\ HasNewest(rows) /\ OneRow(rows)

RowsInv == RowsOK(founders) /\ RowsOK(projects)

\* Rows that may join others: one of an id, and none in conflict.
Fresh(rows, extra) ==
  /\ IsFiniteSet(extra)
  /\ \A p, q \in extra : p.id = q.id => p = q
  /\ \A p \in extra : ~ Conflicts(rows, p)

LEMMA LatestIsNewest ==
  ASSUME NEW ids, NEW rows \in SUBSET Rows(ids), HasNewest(rows),
         NEW id \in FounderIds \cup ProjectIds
  PROVE  /\ Latest(rows, id) \in Nat
         /\ Latest(rows, id) \in {0} \cup Versions(rows, id)
         /\ \A row \in rows : row.id = id => row.version <= Latest(rows, id)
  <1> DEFINE S == {0} \cup Versions(rows, id)
  <1>1. \A row \in rows : row.version \in Nat
    BY StoreAssumption DEF Rows
  <1>2. S \subseteq Nat
    BY <1>1 DEF Versions
  <1>3. PICK v \in S : \A w \in S : v >= w
    BY DEF HasNewest
  <1>4. Max(S) \in S /\ \A w \in S : Max(S) >= w
    BY <1>3 DEF Max
  <1>5. \A row \in rows : row.id = id => row.version \in S
    BY DEF Versions
  <1>6. Latest(rows, id) = Max(S)
    BY DEF Latest
  <1> HIDE DEF S
  <1>7. \A row \in rows : row.id = id => row.version <= Max(S)
    BY <1>1, <1>2, <1>4, <1>5
  <1>. QED BY <1>2, <1>4, <1>6, <1>7 DEF S

LEMMA FreshJoins ==
  ASSUME NEW ids, NEW rows \in SUBSET Rows(ids), NEW extra \in SUBSET Rows(ids),
         RowsOK(rows), Fresh(rows, extra)
  PROVE  RowsOK(rows \cup extra)
  <1> DEFINE all == rows \cup extra
  <1>1. IsFiniteSet(all)
    BY FS_Union DEF RowsOK, Fresh
  <1>2. OneRow(all)
    BY DEF RowsOK, OneRow, Fresh, Conflicts
  <1>3. ASSUME NEW id \in FounderIds \cup ProjectIds
        PROVE  \E v \in {0} \cup Versions(all, id) :
                 \A w \in {0} \cup Versions(all, id) : v >= w
    <2> DEFINE S == {0} \cup Versions(rows, id)
               T == {0} \cup Versions(all, id)
    <2>1. PICK v \in S : \A w \in S : v >= w
      BY DEF RowsOK, HasNewest
    <2>2. \A row \in all : row.version \in Nat
      BY StoreAssumption DEF Rows
    <2>3. S \subseteq T /\ S \subseteq Nat /\ T \subseteq Nat
      BY <2>2 DEF Versions
    <2>4. CASE \A p \in extra : p.id # id
      <3>1. T = S
        BY <2>4 DEF Versions
      <3>. QED BY <2>1, <3>1
    <2>5. ASSUME NEW p \in extra, p.id = id
          PROVE  \E m \in T : \A w \in T : m >= w
      <3>1. \A w \in T : w \in S \/ w = p.version
        BY <2>5 DEF Versions, Fresh
      <3>2. p.version \in T
        BY <2>5 DEF Versions
      <3> HIDE DEF S, T
      <3>3. CASE p.version >= v
        <4>1. ASSUME NEW w \in T
              PROVE  p.version >= w
          <5>1. p.version \in Nat /\ w \in Nat /\ v \in Nat
            BY <2>3, <3>2
          <5>2. w \in S => v >= w
            BY <2>1
          <5>. QED BY <3>1, <3>3, <5>1, <5>2
        <4>. QED BY <3>2, <4>1
      <3>4. CASE ~ (p.version >= v)
        <4>1. \A w \in T : v >= w
          BY <2>1, <2>3, <3>1, <3>2, <3>4
        <4>. QED BY <2>1, <2>3, <4>1
      <3>. QED BY <3>3, <3>4
    <2>. QED BY <2>4, <2>5
  <1>4. HasNewest(all)
    BY <1>3 DEF HasNewest
  <1>. QED BY <1>1, <1>2, <1>4 DEF RowsOK

\* An accepted edit names a version nobody has taken.
LEMMA EditIsFresh ==
  ASSUME StoreTypeOK, RowsInv, NEW c \in Clients, EditTx(c), ~ Refused(session[c].op)
  PROVE  LET op == session[c].op
             row == [id |-> op.id, version |-> op.expected + 1, text |-> c]
         IN /\ op.kind = "founder" =>
                 /\ row \in Rows(FounderIds) /\ \A other \in founders :
                      ~ (other.id = row.id /\ other.version = row.version)
            /\ op.kind = "project" =>
                 /\ row \in Rows(ProjectIds) /\ \A other \in projects :
                      ~ (other.id = row.id /\ other.version = row.version)
  <1> DEFINE op == session[c].op
             row == [id |-> op.id, version |-> op.expected + 1, text |-> c]
  <1>1. op \in Operations
    BY ByPc DEF EditTx, Connected, StoreTypeOK
  <1>2. /\ op.kind = "founder" => row \in Rows(FounderIds) /\ op.id \in FounderIds
        /\ op.kind = "project" => row \in Rows(ProjectIds) /\ op.id \in ProjectIds
        /\ op.kind \in {"founder", "project"} => op.expected \in Nat
    BY <1>1, ByKind, StoreAssumption DEF Rows
  <1>3. CASE op.kind = "founder"
    <2>1. Latest(founders, op.id) = op.expected
      BY <1>3 DEF Refused, RowsOf
    <2>2. \A other \in founders : other.id = op.id => other.version <= op.expected
      BY <1>2, <1>3, <2>1, LatestIsNewest DEF RowsInv, RowsOK, StoreTypeOK
    <2>3. \A other \in founders : other.version \in Nat
      BY StoreAssumption DEF StoreTypeOK, Rows
    <2>4. \A other \in founders : ~ (other.id = row.id /\ other.version = row.version)
      BY <1>2, <1>3, <2>2, <2>3
    <2>. QED BY <1>2, <1>3, <2>4
  <1>4. CASE op.kind = "project"
    <2>1. Latest(projects, op.id) = op.expected
      BY <1>4 DEF Refused, RowsOf
    <2>2. \A other \in projects : other.id = op.id => other.version <= op.expected
      BY <1>2, <1>4, <2>1, LatestIsNewest DEF RowsInv, RowsOK, StoreTypeOK
    <2>3. \A other \in projects : other.version \in Nat
      BY StoreAssumption DEF StoreTypeOK, Rows
    <2>4. \A other \in projects : ~ (other.id = row.id /\ other.version = row.version)
      BY <1>2, <1>4, <2>2, <2>3
    <2>. QED BY <1>2, <1>4, <2>4
  <1>. QED BY <1>3, <1>4

\* Rows are only ever added, and only fresh ones.
RowsGrow ==
  \E fs \in SUBSET Rows(FounderIds), ps \in SUBSET Rows(ProjectIds) :
    /\ founders' = founders \cup fs /\ projects' = projects \cup ps
    /\ Fresh(founders, fs) /\ Fresh(projects, ps)

LEMMA NothingIsFresh == ASSUME NEW rows PROVE Fresh(rows, {})
  BY FS_EmptySet DEF Fresh

LEMMA OneIsFresh ==
  ASSUME NEW rows, NEW row, ~ Conflicts(rows, row)
  PROVE  Fresh(rows, {row})
  BY FS_Singleton DEF Fresh

LEMMA StepGrows ==
  ASSUME StoreTypeOK, RowsInv, StoreStep
  PROVE  RowsGrow
  <1>1. CASE UNCHANGED <<founders, projects>>
    BY <1>1, NothingIsFresh DEF RowsGrow
  <1>2. ASSUME NEW c \in Clients, EditTx(c)
        PROVE  RowsGrow
    <2> DEFINE op == session[c].op
               row == [id |-> op.id, version |-> op.expected + 1, text |-> c]
    <2>1. CASE Refused(op)
      BY <1>1, <1>2, <2>1 DEF EditTx
    <2>2. CASE ~ Refused(op) /\ op.kind = "founder"
      <3>1. founders' = founders \cup {row} /\ projects' = projects
        BY <1>2, <2>2 DEF EditTx
      <3>2. row \in Rows(FounderIds) /\ ~ Conflicts(founders, row)
        BY <1>2, <2>2, EditIsFresh DEF Conflicts
      <3>. QED BY <3>1, <3>2, NothingIsFresh, OneIsFresh DEF RowsGrow
    <2>3. CASE ~ Refused(op) /\ op.kind = "project"
      <3>1. projects' = projects \cup {row} /\ founders' = founders
        BY <1>2, <2>3 DEF EditTx
      <3>2. row \in Rows(ProjectIds) /\ ~ Conflicts(projects, row)
        BY <1>2, <2>3, EditIsFresh DEF Conflicts
      <3>. QED BY <3>1, <3>2, NothingIsFresh, OneIsFresh DEF RowsGrow
    <2>. QED BY <1>2, <2>1, <2>2, <2>3 DEF EditTx
  <1>3. ASSUME NEW c \in Clients, NEW state \in {"COMPLETED", "PARTIAL", "FAILED"},
               CaptureTx(c, state)
        PROVE  RowsGrow
    <2> DEFINE op == session[c].op
    <2>1. op \in Captures
      BY <1>3, HeldTypes DEF CaptureTx
    <2>2. CASE ~ Writable(c)
      BY <1>1, <1>3, <2>2 DEF CaptureTx
    <2>3. CASE Writable(c)
      <3>1. /\ founders' = founders \cup {op.inputs.founder}
            /\ projects' = projects \cup op.inputs.projects
        BY <1>3, <2>3 DEF CaptureTx, PutGraph
      <3>2. Fresh(founders, {op.inputs.founder}) /\ Fresh(projects, op.inputs.projects)
        BY <2>1, <2>3, InputTypes, OneIsFresh DEF Writable, Fresh
      <3>. QED BY <2>1, <3>1, <3>2, InputTypes DEF RowsGrow
    <2>. QED BY <2>2, <2>3
  <1>4. CASE /\ ~ \E c \in Clients : EditTx(c)
             /\ ~ \E c \in Clients, state \in {"COMPLETED", "PARTIAL", "FAILED"} :
                  CaptureTx(c, state)
    <2>1. UNCHANGED <<founders, projects>>
      BY <1>4 DEF StoreStep, Connect, Migrate, Busy, Start, Die, Resolve, Retain, ReadSnapshot,
                  ReportFailure, TelemetryTx, Stop, store
    <2>. QED BY <1>1, <2>1
  <1>. QED BY <1>2, <1>3, <1>4

LEMMA RowsKept ==
  ASSUME StoreTypeOK, RowsInv, [ServerNext]_serverVars
  PROVE  RowsInv'
  <1>1. CASE StoreStep
    <2>1. RowsGrow
      BY <1>1, StepGrows
    <2>. QED BY <2>1, FreshJoins DEF RowsGrow, RowsInv, StoreTypeOK
  <1>2. CASE UNCHANGED <<founders, projects>>
    BY <1>2 DEF RowsInv
  <1>. QED BY <1>1, <1>2, StepsOfServer DEF store

LEMMA RowsStart == ServerInit => RowsInv
  <1> SUFFICES ASSUME ServerInit PROVE RowsOK({})
    BY DEF ServerInit, StoreInit, RowsInv
  <1>1. HasNewest({})
    BY DEF HasNewest, Versions
  <1>. QED BY <1>1, FS_EmptySet DEF RowsOK, OneRow

\* One record stands under each id and version of a profile, and a new version
\* of the opportunity always differs from the one before.
THEOREM VersionsAreIdentities == ServerSpec => []VersionsIdentify
  <1> DEFINE Inv == RowsInv /\ VersionsDiffer
  <1>1. ServerInit => Inv
    <2>1. ServerInit => Len(opportunity) = 0
      BY DEF ServerInit, StoreInit
    <2>. QED BY <2>1, RowsStart DEF VersionsDiffer
  <1>2. StoreTypeOK /\ Inv /\ [ServerNext]_serverVars => Inv'
    <2> SUFFICES ASSUME StoreTypeOK, Inv, [ServerNext]_serverVars
                 PROVE  VersionsDiffer'
      BY RowsKept
    <2>1. CASE UNCHANGED opportunity
      BY <2>1 DEF VersionsDiffer
    <2>2. ASSUME NEW c \in Clients, NEW state \in {"COMPLETED", "PARTIAL", "FAILED"},
                 CaptureTx(c, state)
          PROVE  VersionsDiffer'
      <3>1. CASE ~ Writable(c)
        BY <2>1, <2>2, <3>1 DEF CaptureTx
      <3>2. CASE Writable(c)
        <4> DEFINE next == PutOpportunity(Held(c), session[c].op.run)[2]
        <4>1. opportunity' = next
          BY <2>2, <3>2 DEF CaptureTx, PutGraph
        <4>2. /\ next = opportunity
                 \/ /\ Len(next) = Len(opportunity) + 1
                    /\ Len(opportunity) > 0 =>
                         next[Len(next)].digest # opportunity[Len(opportunity)].digest
              /\ \A i \in 1..Len(opportunity) : next[i] = opportunity[i]
          BY <2>2, <3>2, PutsResolved DEF CaptureTx
        <4>3. Len(opportunity) \in Nat
          BY DEF StoreTypeOK
        <4> HIDE DEF next
        <4>4. ASSUME NEW i \in 2..Len(next)
              PROVE  next[i].digest # next[i - 1].digest
          <5>1. CASE i \in 2..Len(opportunity)
            <6>1. i - 1 \in 1..Len(opportunity) /\ i \in 1..Len(opportunity)
              BY <4>3, <5>1
            <6>. QED BY <4>2, <5>1, <6>1 DEF VersionsDiffer
          <5>2. CASE i \notin 2..Len(opportunity)
            <6>1. Len(next) = Len(opportunity) + 1 /\ i = Len(next) /\ Len(opportunity) > 0
              BY <4>2, <4>3, <5>2
            <6>2. i - 1 = Len(opportunity) /\ Len(opportunity) \in 1..Len(opportunity)
              BY <4>3, <6>1
            <6>. QED BY <4>2, <6>1, <6>2
          <5>. QED BY <5>1, <5>2
        <4>. QED BY <4>1, <4>4 DEF VersionsDiffer
      <3>. QED BY <3>1, <3>2
    <2>3. CASE StoreStep /\ ~ \E c \in Clients, state \in {"COMPLETED", "PARTIAL", "FAILED"} :
                                CaptureTx(c, state)
      <3>1. UNCHANGED opportunity
        BY <2>3 DEF StoreStep, Connect, Migrate, Busy, Start, Die, EditTx, Resolve, Retain,
                    ReadSnapshot, ReportFailure, TelemetryTx, Stop, store
      <3>. QED BY <2>1, <3>1
    <2>. QED BY <2>1, <2>2, <2>3, StepsOfServer DEF store
  <1>3. Inv => VersionsIdentify
    BY DEF RowsInv, RowsOK, OneRow, OneRowPerVersion, VersionsIdentify
  <1>. QED BY <1>1, <1>2, <1>3, StoreTypeCorrect, PTL DEF ServerSpec
------------------------------------------------------------------------------
(* Edits *)

\* The projects whose first version is an accepted edit.
Created == {edit.row.id : edit \in {e \in edits : e.row.id \in ProjectIds /\ e.row.version = 1}}

LEMMA IdsFinite ==
  ASSUME NEW rows, IsFiniteSet(rows)
  PROVE  IsFiniteSet(Ids(rows)) /\ Cardinality(Ids(rows)) \in Nat
  <1> DEFINE f == [row \in rows |-> row.id]
  <1>1. f \in Surjection(rows, Ids(rows))
    BY DEF Surjection, Ids
  <1>. QED BY <1>1, FS_Surjection, FS_CardinalityType

\* The row of an edit is in the table of its id.
LEMMA EditInTable ==
  ASSUME StoreTypeOK, NoLostEdit, NEW edit \in edits
  PROVE  /\ edit.row.id \in FounderIds => edit.row \in founders
         /\ edit.row.id \in ProjectIds => edit.row \in projects
  <1>1. edit.row \in founders \cup projects
    BY DEF NoLostEdit
  <1>2. /\ edit.row \in founders => edit.row.id \in FounderIds
        /\ edit.row \in projects => edit.row.id \in ProjectIds
    BY DEF StoreTypeOK, Rows
  <1>. QED BY <1>1, <1>2, StoreAssumption

LEMMA CreatedExist ==
  ASSUME StoreTypeOK, NoLostEdit
  PROVE  Created \subseteq Ids(projects)
  BY EditInTable DEF Created, Ids

\* Rows are never removed.
LEMMA RowsStay ==
  ASSUME StoreTypeOK, RowsInv, [ServerNext]_serverVars
  PROVE  founders \subseteq founders' /\ projects \subseteq projects'
  <1>1. CASE StoreStep
    BY <1>1, StepGrows DEF RowsGrow
  <1>. QED BY <1>1, StepsOfServer DEF store

LEMMA EditsKept ==
  ASSUME StoreTypeOK, RowsInv, AcceptedEditsStand, [ServerNext]_serverVars
  PROVE  AcceptedEditsStand'
  <1>1. ASSUME UNCHANGED edits
        PROVE  AcceptedEditsStand'
    BY <1>1, RowsStay DEF AcceptedEditsStand, NoLostEdit, EditsWithinLimit
  <1>2. ASSUME NEW c \in Clients, EditTx(c), ~ Refused(session[c].op)
        PROVE  AcceptedEditsStand'
    <2> DEFINE op == session[c].op
               row == [id |-> op.id, version |-> op.expected + 1, text |-> c]
               edit == [by |-> c, row |-> row]
    <2>1. /\ edits' = edits \cup {edit}
          /\ \/ op.kind = "founder" /\ founders' = founders \cup {row}
             \/ op.kind = "project" /\ projects' = projects \cup {row}
      <3>1. op.kind \in {"founder", "project"} /\ edits' = edits \cup {edit}
        BY <1>2 DEF EditTx
      <3>2. op.kind = "founder" => founders' = founders \cup {row}
        BY <1>2 DEF EditTx
      <3>3. op.kind = "project" => projects' = projects \cup {row}
        BY <1>2 DEF EditTx
      <3>. QED BY <3>1, <3>2, <3>3
    <2>2. /\ op.kind = "founder" => row.id \in FounderIds
          /\ op.kind = "project" => row.id \in ProjectIds
      BY <1>2, EditIsFresh DEF Rows
    <2>3. ASSUME NEW other \in edits, other.row.id = row.id, other.row.version = row.version
          PROVE  FALSE
      <3>1. CASE op.kind = "founder"
        <4>1. other.row \in founders
          BY <2>2, <2>3, <3>1, EditInTable DEF AcceptedEditsStand
        <4>. QED BY <1>2, <2>3, <3>1, <4>1, EditIsFresh
      <3>2. CASE op.kind = "project"
        <4>1. other.row \in projects
          BY <2>2, <2>3, <3>2, EditInTable DEF AcceptedEditsStand
        <4>. QED BY <1>2, <2>3, <3>2, <4>1, EditIsFresh
      <3>. QED BY <2>1, <3>1, <3>2
    <2>4. edit.row = row
      OBVIOUS
    <2>5. NoLostEdit'
      <3> HIDE DEF edit, row
      <3>1. row \in founders' \cup projects'
        BY <2>1
      <3>2. \A e \in edits : e.row \in founders' \cup projects'
        BY RowsStay DEF AcceptedEditsStand, NoLostEdit
      <3>. QED BY <2>1, <2>3, <2>4, <3>1, <3>2 DEF AcceptedEditsStand, NoLostEdit
    <2>6. EditsWithinLimit'
      <3>1. Created \subseteq Ids(projects) /\ Cardinality(Created) <= ProjectLimit
        BY CreatedExist DEF AcceptedEditsStand, EditsWithinLimit, Created
      <3>2. IsFiniteSet(Ids(projects)) /\ Cardinality(Ids(projects)) \in Nat
        BY IdsFinite DEF RowsInv, RowsOK
      <3>3. IsFiniteSet(Created) /\ Cardinality(Created) \in Nat
        BY <3>1, <3>2, FS_Subset, FS_CardinalityType
      <3>4. CASE row.id \in ProjectIds /\ row.version = 1
        <4>1. op.kind = "project"
          BY <2>1, <2>2, <3>4, StoreAssumption
        <4>2. op.expected \in Nat
          <5>1. op \in Operations
            BY <1>2, ByPc DEF EditTx, Connected, StoreTypeOK
          <5>. QED BY <4>1, <5>1, ByKind, StoreAssumption
        <4>3. Latest(projects, op.id) = 0
          BY <1>2, <3>4, <4>1, <4>2 DEF Refused, RowsOf
        <4>4. ~ (Cardinality(Ids(projects)) >= ProjectLimit)
          BY <1>2, <4>1, <4>3 DEF Refused
        <4>5. Created' = Created \cup {row.id}
          <5> HIDE DEF edit, row
          <5>. QED BY <2>1, <2>4, <3>4 DEF Created
        <4>6. Created' \subseteq Ids(projects) \cup {row.id}
          BY <3>1, <4>5
        <4>7. /\ IsFiniteSet(Ids(projects) \cup {row.id})
              /\ Cardinality(Ids(projects) \cup {row.id}) <= Cardinality(Ids(projects)) + 1
          BY <3>2, FS_AddElement
        <4>8. /\ Cardinality(Ids(projects) \cup {row.id}) \in Nat /\ Cardinality(Created') \in Nat
              /\ Cardinality(Created') <= Cardinality(Ids(projects) \cup {row.id})
          BY <4>6, <4>7, FS_Subset, FS_CardinalityType
        <4>9. Cardinality(Created') <= ProjectLimit
          BY <3>2, <4>4, <4>7, <4>8, StoreAssumption
        <4>. QED BY <4>9 DEF Created, EditsWithinLimit
      <3>5. CASE ~ (row.id \in ProjectIds /\ row.version = 1)
        <4>1. Created' = Created
          <5> HIDE DEF edit, row
          <5>. QED BY <2>1, <2>4, <3>5 DEF Created
        <4>. QED BY <3>1, <4>1 DEF Created, EditsWithinLimit
      <3>. QED BY <3>4, <3>5
    <2>. QED BY <2>5, <2>6 DEF AcceptedEditsStand
  <1>3. CASE StoreStep /\ ~ \E c \in Clients : EditTx(c) /\ ~ Refused(session[c].op)
    <2>1. UNCHANGED edits
      BY <1>3 DEF StoreStep, Connect, Migrate, Busy, Start, Die, EditTx, Resolve, Retain,
                  ReadSnapshot, ReportFailure, CaptureTx, TelemetryTx, Stop, Fixed
    <2>. QED BY <1>1, <2>1
  <1>. QED BY <1>1, <1>2, <1>3, StepsOfServer

\* No accepted edit is lost, doubled or granted past the limit on projects, for
\* any number of connections that race.
THEOREM EditsStand == ServerSpec => []AcceptedEditsStand
  <1> DEFINE Inv == RowsInv /\ AcceptedEditsStand
  <1>1. ServerInit => Inv
    <2> SUFFICES ASSUME ServerInit PROVE AcceptedEditsStand
      BY RowsStart
    <2>1. edits = {}
      BY DEF ServerInit, StoreInit
    <2>2. Created = {}
      BY <2>1 DEF Created
    <2>3. Cardinality(Created) <= ProjectLimit
      BY <2>2, FS_EmptySet, StoreAssumption
    <2>. QED BY <2>1, <2>3 DEF AcceptedEditsStand, NoLostEdit, EditsWithinLimit, Created
  <1>2. StoreTypeOK /\ Inv /\ [ServerNext]_serverVars => Inv'
    BY RowsKept, EditsKept
  <1>. QED BY <1>1, <1>2, StoreTypeCorrect, PTL DEF ServerSpec
------------------------------------------------------------------------------
(* Runs *)

\* A capture in progress is of a run nobody was told of, and of no other's.
CaptureOf(c) == Open(c) /\ session[c].op.kind = "capture"
CaptureInv ==
  /\ \A c \in Clients : CaptureOf(c) =>
       told[session[c].op.run] = "nothing" /\ ~ Recorded(session[c].op.run)
  /\ \A c, d \in Clients : c # d /\ CaptureOf(c) /\ CaptureOf(d) =>
       session[c].op.run # session[d].op.run

LEMMA ConnectCaptures ==
  ASSUME StoreTypeOK, CaptureInv, NEW c \in Clients, NEW op \in Operations, Connect(c, op)
  PROVE  CaptureInv'
  <1>1. UNCHANGED <<told, runs>> /\ ~ Open(c) /\ Admits(op)
    BY DEF Connect, store
  <1>2. \A d \in Clients : d # c => session'[d] = session[d]
    BY DEF Connect, StoreTypeOK
  <1>3. session'[c] = Idle \/ session'[c].op = op
    BY DEF Connect, StoreTypeOK
  <1>4. op.kind = "capture" =>
          /\ told[op.run] = "nothing" /\ ~ Recorded(op.run)
          /\ \A d \in Clients : CaptureOf(d) => session[d].op.run # op.run
    BY <1>1 DEF Admits, Recorded, CaptureOf
  <1>. QED BY <1>1, <1>2, <1>3, <1>4 DEF CaptureInv, CaptureOf, Open, Recorded

LEMMA CapturesKept ==
  ASSUME StoreTypeOK, CaptureInv, OpsKept,
         NEW changed \in SUBSET RunIds,
         \A r \in RunIds \ changed : told'[r] = told[r] /\ (Recorded(r)' => Recorded(r)),
         \A c \in Clients : session'[c] # Idle /\ session[c].op.kind = "capture"
                            => session[c].op.run \notin changed
  PROVE  CaptureInv'
  <1>1. ASSUME NEW c \in Clients, CaptureOf(c)'
        PROVE  /\ CaptureOf(c) /\ session'[c].op = session[c].op
               /\ session[c].op.run \in RunIds /\ session[c].op.run \notin changed
    <2>1. CaptureOf(c) /\ session'[c].op = session[c].op /\ session'[c] # Idle
      BY <1>1 DEF CaptureOf, Open, OpsKept
    <2>2. session[c] \in Sessions /\ session[c] # Idle
      BY <2>1 DEF StoreTypeOK, CaptureOf, Open
    <2>3. session[c].op \in Captures
      BY <2>1, <2>2, ByPc, ByKind DEF CaptureOf
    <2>. QED BY <2>1, <2>3, InputTypes DEF CaptureOf
  <1>2. ASSUME NEW c \in Clients, CaptureOf(c)'
        PROVE  told'[session'[c].op.run] = "nothing" /\ ~ Recorded(session[c].op.run)'
    <2>1. /\ told[session[c].op.run] = "nothing" /\ ~ Recorded(session[c].op.run)
          /\ session[c].op.run \in RunIds \ changed
      BY <1>1, <1>2 DEF CaptureInv
    <2>. QED BY <1>1, <1>2, <2>1
  <1>3. ASSUME NEW c \in Clients, NEW d \in Clients, c # d, CaptureOf(c)', CaptureOf(d)'
        PROVE  session'[c].op.run # session'[d].op.run
    BY <1>1, <1>3 DEF CaptureInv
  <1>. QED BY <1>2, <1>3 DEF CaptureInv

RunsInv == CaptureInv /\ RunsAreWhole

\* What a capture changes of the runs, when it is the end of its run.
LEMMA RunEndsOnce ==
  ASSUME StoreTypeOK, RunsInv, OpsKept, NEW c \in Clients, CaptureOf(c),
         session'[c] = Idle, NEW run, run = session[c].op.run,
         \A r \in RunIds \ {run} : told'[r] = told[r] /\ (Recorded(r)' => Recorded(r))
  PROVE  CaptureInv'
  <1>1. \A d \in Clients : session'[d] # Idle /\ session[d].op.kind = "capture"
                           => session[d].op.run \notin {run}
    BY DEF RunsInv, CaptureInv, CaptureOf, OpsKept, Open
  <1>2. session[c].op \in Captures
    <2>1. session[c] \in Sessions /\ session[c] # Idle
      BY DEF StoreTypeOK, CaptureOf, Open
    <2>. QED BY <2>1, ByPc, ByKind DEF CaptureOf
  <1>3. {run} \in SUBSET RunIds
    BY <1>2, InputTypes
  <1>. QED BY <1>1, <1>3, CapturesKept DEF RunsInv

\* The session that ends with c is c's own.
LEMMA EndsOwn ==
  ASSUME session \in [Clients -> Sessions], NEW c \in Clients,
         Ends(c) \/ session' = [session EXCEPT ![c] = Idle]
  PROVE  session'[c] = Idle
  BY DEF Ends, Overtake

LEMMA CaptureIsWhole ==
  ASSUME StoreTypeOK, RowsInv, RunsInv, NEW c \in Clients,
         NEW state \in {"COMPLETED", "PARTIAL", "FAILED"}, CaptureTx(c, state)
  PROVE  RunsInv'
  <1> DEFINE op == session[c].op
             run == op.run
             held == Held(c)
  <1>1. session[c].pc = "snapshot" /\ op \in Captures /\ held \in Resolved
    BY HeldTypes DEF CaptureTx
  <1>2. CaptureOf(c) /\ run \in RunIds
    BY <1>1, InputTypes DEF CaptureOf, Open, Idle, Captures
  <1>3. OpsKept /\ session'[c] = Idle
    BY CaptureTypes, EndsOwn DEF CaptureTx, StoreTypeOK
  <1>4. told[run] = "nothing" /\ ~ Recorded(run)
    BY <1>2 DEF RunsInv, CaptureInv
  <1>5. told' = [told EXCEPT ![run] = IF Writable(c) THEN "persisted" ELSE "failed"]
    BY DEF CaptureTx
  <1>6. CASE ~ Writable(c)
    <2>1. UNCHANGED <<founders, projects, opportunity, decisions, runs>>
      BY <1>6 DEF CaptureTx
    <2>2. CaptureInv'
      BY <1>2, <1>3, <1>5, <2>1, RunEndsOnce DEF StoreTypeOK, Recorded
    <2>3. ToldTruly'
      BY <1>4, <1>5, <1>6, <2>1 DEF ToldTruly, RunsInv, RunsAreWhole, Recorded, StoreTypeOK
    <2>4. RunWithItsGraph'
      BY <2>1 DEF RunWithItsGraph, RunsInv, RunsAreWhole
    <2>. QED BY <2>2, <2>3, <2>4 DEF RunsInv, RunsAreWhole
  <1>7. CASE Writable(c)
    <2> DEFINE next == PutOpportunity(held, run)[2]
               row == RunRow(run, state, held.version)
    <2>1. /\ founders' = founders \cup {op.inputs.founder}
          /\ projects' = projects \cup op.inputs.projects
          /\ opportunity' = next
          /\ decisions' = decisions \cup DecisionRows(op, held)
          /\ runs' = runs \cup {row}
      BY <1>7 DEF CaptureTx, PutGraph
    <2>2. row.id = run /\ row.version = held.version
      BY DEF RunRow
    <2>3. /\ Len(opportunity) <= Len(next) /\ \A i \in 1..Len(opportunity) : next[i] = opportunity[i]
          /\ held.version = Len(next) /\ next[Len(next)].digest = held.digest
      BY <1>1, <1>7, PutsResolved
    <2>4. Len(opportunity) \in Nat /\ held.version \in Nat
      BY <1>1 DEF StoreTypeOK, Resolved
    <2>5. \A d \in DecisionRows(op, held) :
            /\ d.run = run /\ d.version = held.version /\ d.digest = held.digest
            /\ d.founder = op.inputs.founder /\ d.project \in op.inputs.projects
      BY DEF DecisionRows
    <2>6. \E d \in DecisionRows(op, held) : d.run = run
      <3>1. PICK project \in op.inputs.projects : TRUE
        BY <1>1, InputTypes
      <3> DEFINE d == [run |-> run, version |-> held.version, digest |-> held.digest,
                       founder |-> op.inputs.founder, project |-> project]
      <3>2. d \in DecisionRows(op, held)
        BY DEF DecisionRows
      <3>3. d.run = run
        OBVIOUS
      <3>. QED BY <3>2, <3>3
    <2> HIDE DEF op, held, next, row, run
    <2>7. CaptureInv'
      <3>1. \A r \in RunIds \ {run} : told'[r] = told[r] /\ (Recorded(r)' => Recorded(r))
        BY <1>5, <2>1, <2>2 DEF Recorded, StoreTypeOK
      <3>. QED BY <1>2, <1>3, <3>1, RunEndsOnce DEF run, op
    <2>8. ToldTruly'
      BY <1>2, <1>4, <1>5, <1>7, <2>1, <2>2
         DEF ToldTruly, RunsInv, RunsAreWhole, Recorded, StoreTypeOK
    <2>9. ASSUME NEW d \in decisions'
          PROVE  /\ \E r \in runs' : r.id = d.run /\ r.version = d.version
                 /\ d.version <= Len(opportunity') /\ opportunity'[d.version].digest = d.digest
                 /\ d.founder \in founders' /\ d.project \in projects'
      <3>1. CASE d \in DecisionRows(op, held)
        BY <2>1, <2>2, <2>3, <2>4, <2>5, <3>1
      <3>2. CASE d \in decisions
        <4>1. /\ \E r \in runs : r.id = d.run /\ r.version = d.version
              /\ d.version <= Len(opportunity) /\ opportunity[d.version].digest = d.digest
              /\ d.founder \in founders /\ d.project \in projects
          BY <3>2 DEF RunsInv, RunsAreWhole, RunWithItsGraph
        <4>2. d.version \in 1..MaxVersion
          BY <3>2 DEF StoreTypeOK
        <4>3. d.version \in 1..Len(opportunity) /\ Len(next) \in Nat
          BY <2>3, <2>4, <4>1, <4>2
        <4>. QED BY <2>1, <2>3, <2>4, <4>1, <4>2, <4>3
      <3>. QED BY <2>1, <2>9, <3>1, <3>2
    <2>10. ASSUME NEW r \in runs', r.version > 0
           PROVE  \E d \in decisions' : d.run = r.id
      <3>1. CASE r = row
        BY <2>1, <2>2, <2>6, <3>1
      <3>2. CASE r \in runs
        BY <2>1, <2>10, <3>2 DEF RunsInv, RunsAreWhole, RunWithItsGraph
      <3>. QED BY <2>1, <2>10, <3>1, <3>2
    <2>. QED BY <2>7, <2>8, <2>9, <2>10 DEF RunsInv, RunsAreWhole, RunWithItsGraph
  <1>. QED BY <1>6, <1>7

LEMMA TelemetryIsWhole ==
  ASSUME StoreTypeOK, RunsInv, NEW c \in Clients,
         NEW state \in {"COMPLETED", "PARTIAL", "FAILED"}, TelemetryTx(c, state)
  PROVE  RunsInv'
  <1> DEFINE run == session[c].op.run
             row == RunRow(run, state, 0)
  <1>1. CaptureOf(c) /\ run \in RunIds
    <2>1. session[c] \in Sessions
      BY DEF StoreTypeOK
    <2>2. session[c] # Idle /\ session[c].op \in Captures
      <3>1. CASE Capturing(c)
        BY <2>1, <3>1, ByPc, ByKind DEF Capturing, Connected, Idle
      <3>2. CASE Running(c)
        BY <3>2, HeldTypes DEF Running, Idle
      <3>. QED BY <3>1, <3>2 DEF TelemetryTx
    <2>. QED BY <2>2, InputTypes DEF CaptureOf, Open, Captures
  <1>2. OpsKept /\ session'[c] = Idle
    BY TelemetryTypes, EndsOwn DEF TelemetryTx, StoreTypeOK
  <1>3. /\ told' = [told EXCEPT ![run] = "persisted"] /\ runs' = runs \cup {row}
        /\ UNCHANGED <<founders, projects, opportunity, decisions>>
    BY DEF TelemetryTx
  <1>4. row.id = run /\ row.version = 0
    BY DEF RunRow
  <1> HIDE DEF row
  <1>5. CaptureInv'
    BY <1>1, <1>2, <1>3, <1>4, RunEndsOnce DEF StoreTypeOK, Recorded
  <1>6. ToldTruly'
    BY <1>1, <1>3, <1>4 DEF ToldTruly, RunsInv, RunsAreWhole, StoreTypeOK
  <1>7. RunWithItsGraph'
    BY <1>3, <1>4 DEF RunWithItsGraph, RunsInv, RunsAreWhole
  <1>. QED BY <1>5, <1>6, <1>7 DEF RunsInv, RunsAreWhole

LEMMA FailureIsReported ==
  ASSUME StoreTypeOK, RunsInv, NEW c \in Clients, ReportFailure(c)
  PROVE  RunsInv'
  <1> DEFINE run == session[c].op.run
  <1>1. CaptureOf(c) /\ run \in RunIds
    BY HeldTypes, InputTypes DEF ReportFailure, Running, CaptureOf, Open, Idle, Captures
  <1>2. OpsKept /\ session'[c] = Idle
    BY ReportFailureTypes, EndsOwn DEF ReportFailure, StoreTypeOK
  <1>3. /\ told' = [told EXCEPT ![run] = "failed"]
        /\ UNCHANGED <<founders, projects, opportunity, decisions, runs>>
    BY DEF ReportFailure, store
  <1>4. ~ Recorded(run)
    BY <1>1 DEF RunsInv, CaptureInv
  <1>5. CaptureInv'
    BY <1>1, <1>2, <1>3, RunEndsOnce DEF StoreTypeOK, Recorded
  <1>6. ToldTruly'
    BY <1>1, <1>3, <1>4 DEF ToldTruly, RunsInv, RunsAreWhole, StoreTypeOK, Recorded
  <1>7. RunWithItsGraph'
    BY <1>3 DEF RunWithItsGraph, RunsInv, RunsAreWhole
  <1>. QED BY <1>5, <1>6, <1>7 DEF RunsInv, RunsAreWhole

\* Every other step leaves the runs alone, and adds profile rows at most.
LEMMA OthersLeaveRuns ==
  ASSUME StoreTypeOK, RowsInv, RunsInv, OpsKept, [ServerNext]_serverVars,
         UNCHANGED <<opportunity, decisions, runs, told>>
  PROVE  RunsInv'
  <1>1. CaptureInv'
    <2>1. \A r \in RunIds \ {} : told'[r] = told[r] /\ (Recorded(r)' => Recorded(r))
      BY DEF Recorded
    <2> DEFINE none == {}
    <2>2. /\ none \in SUBSET RunIds
          /\ \A r \in RunIds \ none : told'[r] = told[r] /\ (Recorded(r)' => Recorded(r))
          /\ \A c \in Clients : session'[c] # Idle /\ session[c].op.kind = "capture"
                               => session[c].op.run \notin none
      BY <2>1
    <2> HIDE DEF none
    <2>. QED BY <2>2, CapturesKept DEF RunsInv
  <1>2. ToldTruly'
    BY DEF ToldTruly, RunsInv, RunsAreWhole
  <1>3. RunWithItsGraph'
    BY RowsStay DEF RunWithItsGraph, RunsInv, RunsAreWhole
  <1>. QED BY <1>1, <1>2, <1>3 DEF RunsInv, RunsAreWhole

LEMMA RunsKept ==
  ASSUME StoreTypeOK, RowsInv, RunsInv, [ServerNext]_serverVars
  PROVE  RunsInv'
  <1> DEFINE States == {"COMPLETED", "PARTIAL", "FAILED"}
  <1>1. CASE \E c \in Clients : \/ ReportFailure(c)
                                \/ \E state \in States : CaptureTx(c, state) \/ TelemetryTx(c, state)
    BY <1>1, CaptureIsWhole, TelemetryIsWhole, FailureIsReported
  <1>2. ASSUME NEW c \in Clients, NEW op \in Operations, Connect(c, op)
        PROVE  RunsInv'
    <2>1. CaptureInv'
      BY <1>2, ConnectCaptures DEF RunsInv
    <2>. QED BY <1>2, <2>1 DEF Connect, RunsInv, RunsAreWhole, RunWithItsGraph, ToldTruly, store
  <1>3. CASE /\ StoreStep
             /\ ~ \E c \in Clients : \/ ReportFailure(c)
                                     \/ \E state \in States : CaptureTx(c, state)
                                                              \/ TelemetryTx(c, state)
             /\ ~ \E c \in Clients, op \in Operations : Connect(c, op)
    <2>1. UNCHANGED <<opportunity, decisions, runs, told>>
      BY <1>3 DEF StoreStep, Migrate, Busy, Start, Die, EditTx, Resolve, Retain, ReadSnapshot,
                  Stop, Fixed, store
    <2>2. OpsKept
      BY <1>3, StepTypes
    <2>. QED BY <2>1, <2>2, OthersLeaveRuns
  <1>4. CASE UNCHANGED <<mode, serving, store, session, edits, told>>
    <2>1. OpsKept
      BY <1>4 DEF OpsKept, Open
    <2>. QED BY <1>4, <2>1, OthersLeaveRuns DEF store
  <1>. QED BY <1>1, <1>2, <1>3, <1>4, StepsOfServer

\* A run is in the file with its whole graph or not at all, and what its
\* operator was told is what the file holds, however many captures, edits and
\* starts interleave and wherever processes die.
THEOREM RunsStandWhole == ServerSpec => []RunsAreWhole
  <1> DEFINE Inv == RowsInv /\ RunsInv
  <1>1. ServerInit => Inv
    <2> SUFFICES ASSUME ServerInit PROVE RunsInv
      BY RowsStart
    <2>1. /\ decisions = {} /\ runs = {} /\ \A r \in RunIds : told[r] = "nothing"
          /\ \A c \in Clients : ~ Open(c)
      BY DEF ServerInit, StoreInit, Open
    <2>. QED BY <2>1 DEF RunsInv, CaptureInv, CaptureOf, RunsAreWhole, RunWithItsGraph, ToldTruly
  <1>2. StoreTypeOK /\ Inv /\ [ServerNext]_serverVars => Inv'
    BY RowsKept, RunsKept
  <1>3. Inv => RunsAreWhole
    BY DEF RunsInv
  <1>. QED BY <1>1, <1>2, <1>3, StoreTypeCorrect, PTL DEF ServerSpec
------------------------------------------------------------------------------
(* The hosted server *)

\* On the file of a hosted server there are only starts, captures of its demo
\* run, and whatever its owner captures.
HostedInv ==
  mode = "HOSTED_DEMO" =>
    \A c \in Clients : Open(c) =>
      \/ session[c].op.kind = "start"
      \/ /\ session[c].op.kind = "capture"
         /\ session[c].op.by = "owner" \/ session[c].op.inputs = Demo

\* A sole row is its own newest version.
LEMMA SoleIsCurrent ==
  ASSUME NEW ids \in {FounderIds, ProjectIds}, NEW rows \in SUBSET Rows(ids), RowsOK(rows),
         Cardinality(rows) <= 1
  PROVE  rows \subseteq Current(rows)
  <1> SUFFICES ASSUME NEW row \in rows PROVE row.version = Latest(rows, row.id)
    BY DEF Current
  <1>1. rows = {row}
    <2>1. IsFiniteSet(rows) /\ Cardinality(rows) \in Nat
      BY FS_CardinalityType DEF RowsOK
    <2>2. IsFiniteSet({row}) /\ Cardinality({row}) = 1
      BY FS_Singleton
    <2>3. Cardinality({row}) = Cardinality(rows)
      BY <2>1, <2>2, FS_Subset
    <2>. QED BY <2>1, <2>3, FS_Subset
  <1>2. row.id \in FounderIds \cup ProjectIds /\ row.version \in Nat \ {0}
    BY StoreAssumption DEF Rows
  <1>3. /\ Latest(rows, row.id) \in {0} \cup Versions(rows, row.id)
        /\ row.version <= Latest(rows, row.id)
    BY <1>2, LatestIsNewest DEF RowsOK
  <1>4. Versions(rows, row.id) \subseteq {row.version}
    BY <1>1 DEF Versions
  <1>. QED BY <1>2, <1>3, <1>4

LEMMA HostedKept ==
  ASSUME StoreTypeOK, HostedInv, [ServerNext]_serverVars
  PROVE  HostedInv'
  <1>1. ASSUME NEW c \in Clients, NEW op \in Operations, Connect(c, op)
        PROVE  HostedInv'
    <2>1. op.kind \in {"start", "founder", "project", "capture"}
          /\ (op.kind = "capture" => op.by \in {"server", "owner"})
      BY ByKind DEF Captures
    <2>2. mode = "HOSTED_DEMO" =>
            \/ op.kind = "start"
            \/ op.kind = "capture" /\ (op.by = "owner" \/ op.inputs = Demo)
      BY <1>1, <2>1 DEF Connect, Admits
    <2>3. \A d \in Clients : session'[d] = session[d] \/ session'[d] = Idle \/ session'[d].op = op
      BY <1>1 DEF Connect, StoreTypeOK
    <2>. QED BY <1>1, <2>2, <2>3 DEF Connect, HostedInv, Open
  <1>2. ASSUME OpsKept, UNCHANGED mode
        PROVE  HostedInv'
    BY <1>2 DEF OpsKept, HostedInv, Open
  <1>3. ASSUME NEW next \in Modes, Stop(next)
        PROVE  HostedInv'
    <2> SUFFICES ASSUME NEW c \in Clients, session'[c] # Idle
                 PROVE  session'[c].op.kind = "capture" /\ session'[c].op.by = "owner"
      BY DEF HostedInv, Open
    <2>1. session'[c] = session[c] /\ ~ OfServer(session[c].op) /\ session[c] # Idle
      BY <1>3 DEF Stop, Open
    <2>2. session[c].op \in Operations
      BY <2>1, ByPc DEF StoreTypeOK
    <2>. QED BY <2>1, <2>2, ByKind DEF OfServer, Captures
  <1>4. CASE StoreStep /\ OpsKept /\ ~ \E next \in Modes : Stop(next)
    <2>1. UNCHANGED mode
      BY <1>4 DEF StoreStep, Connect, Migrate, Busy, Start, Die, EditTx, Resolve, Retain,
                  ReadSnapshot, ReportFailure, CaptureTx, TelemetryTx, Fixed
    <2>. QED BY <1>2, <1>4, <2>1
  <1>5. CASE UNCHANGED <<mode, serving, store, session, edits, told>>
    BY <1>5 DEF HostedInv, Open
  <1>. QED BY <1>1, <1>3, <1>4, <1>5, StepTypes, StepsOfServer

\* An owner's capture, still to be reported, commits the row.
OwnerCommits(row) ==
  \E c \in Clients :
    /\ session[c].pc = "snapshot" /\ session[c].op.by = "owner"
    /\ row \in {session[c].op.inputs.founder} \cup session[c].op.inputs.projects
    /\ told[session[c].op.run] = "nothing" /\ told'[session[c].op.run] = "persisted"

\* A check that passes leaves no row but the demo's, of any version.
LEMMA SanitizedHasNoForeign ==
  ASSUME StoreTypeOK, RowsInv, Sanitized
  PROVE  Foreign = {}
  <1>1. founders \subseteq Current(founders) /\ projects \subseteq Current(projects)
    BY SoleIsCurrent DEF Sanitized, RowsInv, StoreTypeOK
  <1>. QED BY <1>1 DEF Sanitized, Foreign

LEMMA ServesWhatOwnersCommit ==
  ASSUME StoreTypeOK, RowsInv, RunsInv, HostedInv, [ServerNext]_serverVars,
         NEW row \in Served' \ Served
  PROVE  OwnerCommits(row)
  <1>1. serving' /\ mode' = "HOSTED_DEMO" /\ row \in Foreign'
    BY DEF Served
  <1>2. ASSUME NEW c \in Clients, Start(c)
        PROVE  FALSE
    <2>1. serving' = (mode = "HOSTED_DEMO" => Sanitized) /\ mode' = mode /\ Foreign' = Foreign
      BY <1>2 DEF Start, Fixed, store, Foreign
    <2>. QED BY <1>1, <2>1, SanitizedHasNoForeign
  <1>3. ASSUME UNCHANGED <<mode, serving, founders, projects>>
        PROVE  FALSE
    BY <1>3 DEF Served, Foreign
  <1>4. ASSUME NEW next \in Modes, Stop(next)
        PROVE  FALSE
    BY <1>1, <1>4 DEF Stop
  <1>5. ASSUME NEW c \in Clients, EditTx(c)
        PROVE  FALSE
    <2>1. Open(c) /\ session[c].op.kind \in {"founder", "project"} /\ mode = "HOSTED_DEMO"
      BY <1>1, <1>5 DEF EditTx, Connected, Open, Idle
    <2>. QED BY <2>1 DEF HostedInv
  <1>6. ASSUME NEW c \in Clients, NEW state \in {"COMPLETED", "PARTIAL", "FAILED"},
               CaptureTx(c, state)
        PROVE  OwnerCommits(row)
    <2> DEFINE op == session[c].op
    <2>1. UNCHANGED <<mode, serving>> /\ session[c].pc = "snapshot"
      BY <1>6 DEF CaptureTx
    <2>2. Writable(c)
      BY <1>3, <1>6, <2>1 DEF CaptureTx
    <2>3. /\ founders' = founders \cup {op.inputs.founder}
          /\ projects' = projects \cup op.inputs.projects
      BY <1>6, <2>2 DEF CaptureTx, PutGraph
    <2>4. row \notin Foreign
      BY <1>1, <2>1 DEF Served
    <2>5. /\ row \in {op.inputs.founder} \cup op.inputs.projects
          /\ op.inputs # Demo
      BY <1>1, <2>3, <2>4 DEF Foreign
    <2>6. Open(c) /\ op \in Captures
      BY <2>1, HeldTypes DEF Open, Idle
    <2>7. op.by = "owner" /\ CaptureOf(c)
      BY <1>1, <2>1, <2>5, <2>6 DEF HostedInv, Captures, CaptureOf
    <2>8. told[op.run] = "nothing"
      BY <2>7 DEF RunsInv, CaptureInv
    <2>9. told'[op.run] = "persisted"
      BY <1>6, <2>2, <2>6, InputTypes DEF CaptureTx, StoreTypeOK
    <2>. QED BY <2>1, <2>5, <2>7, <2>8, <2>9 DEF OwnerCommits
  <1>7. CASE /\ StoreStep
             /\ ~ \E c \in Clients : \/ Start(c) \/ EditTx(c)
                                     \/ \E state \in {"COMPLETED", "PARTIAL", "FAILED"} :
                                          CaptureTx(c, state)
             /\ ~ \E next \in Modes : Stop(next)
    <2>1. UNCHANGED <<mode, serving, founders, projects>>
      BY <1>7 DEF StoreStep, Connect, Migrate, Busy, Die, Resolve, Retain, ReadSnapshot,
                  ReportFailure, TelemetryTx, Fixed, store
    <2>. QED BY <1>3, <2>1
  <1>8. CASE UNCHANGED <<mode, serving, store, session, edits, told>>
    BY <1>3, <1>8 DEF store
  <1>. QED BY <1>2, <1>4, <1>5, <1>6, <1>7, <1>8, StepsOfServer

\* A hosted server starts to serve no row but its demo profile's, and whatever
\* it serves beyond them later was committed by an owner's capture on its file.
THEOREM HostedServesDemoOnly == ServerSpec => HostedServesDemo
  <1> DEFINE Inv == RowsInv /\ RunsInv /\ HostedInv
  <1>1. ServerInit => Inv
    <2> SUFFICES ASSUME ServerInit PROVE RunsInv /\ HostedInv
      BY RowsStart
    <2>1. /\ decisions = {} /\ runs = {} /\ \A r \in RunIds : told[r] = "nothing"
          /\ \A c \in Clients : ~ Open(c)
      BY DEF ServerInit, StoreInit, Open
    <2>. QED BY <2>1 DEF RunsInv, CaptureInv, CaptureOf, RunsAreWhole, RunWithItsGraph, ToldTruly,
                        HostedInv
  <1>2. StoreTypeOK /\ Inv /\ [ServerNext]_serverVars => Inv'
    BY RowsKept, RunsKept, HostedKept
  <1>3. StoreTypeOK /\ Inv /\ [ServerNext]_serverVars =>
          \A row \in Served' \ Served :
            \E c \in Clients :
              /\ session[c].pc = "snapshot" /\ session[c].op.by = "owner"
              /\ row \in {session[c].op.inputs.founder} \cup session[c].op.inputs.projects
              /\ told[session[c].op.run] = "nothing" /\ told'[session[c].op.run] = "persisted"
    BY ServesWhatOwnersCommit DEF OwnerCommits
  <1>. QED BY <1>1, <1>2, <1>3, StoreTypeCorrect, PTL DEF ServerSpec, HostedServesDemo
------------------------------------------------------------------------------
(* Capabilities *)

\* Tokens are issued in order: two that are n entries apart are at least n
\* issues apart.
Ordered(table) ==
  \A i, j \in DOMAIN table : i < j => table[j].token - table[i].token >= j - i

LEMMA OrderedAppend ==
  ASSUME NEW table \in Seq(Entries), Ordered(table), NEW entry \in Entries,
         \A i \in DOMAIN table : table[i].token < entry.token
  PROVE  Ordered(Append(table, entry))
  <1> DEFINE n == Len(table)
             more == Append(table, entry)
  <1>1. /\ n \in Nat /\ DOMAIN table = 1..n /\ DOMAIN more = 1..(n + 1)
        /\ \A i \in 1..n : more[i] = table[i] /\ table[i].token \in Int
        /\ more[n + 1] = entry /\ entry.token \in Int
    <2>1. \A e \in Entries : e.token \in Int
      BY CapabilityAssumption DEF Entries, Tokens
    <2>2. /\ n \in Nat /\ DOMAIN table = 1..n /\ DOMAIN more = 1..(n + 1)
          /\ \A i \in 1..n : more[i] = table[i] /\ table[i] \in Entries
          /\ more[n + 1] = entry
      BY AppendProperties
    <2>. QED BY <2>1, <2>2
  <1> HIDE DEF n, more
  <1>2. ASSUME NEW i \in 1..n PROVE entry.token - table[i].token >= n + 1 - i
    <2>1. n \in 1..n
      BY <1>1
    <2>2. i < n => table[n].token - table[i].token >= n - i
      BY <1>1, <2>1 DEF Ordered
    <2>. QED BY <1>1, <2>1, <2>2
  <1>3. ASSUME NEW i \in 1..(n + 1), NEW j \in 1..(n + 1), i < j
        PROVE  more[j].token - more[i].token >= j - i
    <2>1. i \in 1..n
      BY <1>1, <1>3
    <2>2. CASE j = n + 1
      BY <1>1, <1>2, <2>1, <2>2
    <2>3. CASE j # n + 1
      <3>1. j \in 1..n
        BY <1>1, <2>3
      <3>. QED BY <1>1, <1>3, <2>1, <3>1 DEF Ordered
    <2>. QED BY <2>2, <2>3
  <1>4. Ordered(more)
    BY <1>1, <1>3 DEF Ordered
  <1>. QED BY <1>4 DEF more

\* What is left of a table is what has not expired, in its order.
LEMMA PruneKeeps ==
  ASSUME entries \in Seq(Entries), Ordered(entries), NEW now
  PROVE  /\ Prune(now) \in Seq(Entries) /\ Len(Prune(now)) <= Len(entries)
         /\ Ordered(Prune(now))
         /\ ToSet(Prune(now)) = {e \in ToSet(entries) : e.expiry > now}
  <1> DEFINE n == Len(entries)
             Kept(g) == [k \in 0..n |->
                           IF k = 0 THEN <<>>
                           ELSE IF entries[k].expiry > now THEN Append(g[k - 1], entries[k])
                           ELSE g[k - 1]]
             kept == CHOOSE g : g = Kept(g)
  <1>1. n \in Nat /\ DOMAIN entries = 1..n /\ \A k \in 1..n : entries[k] \in Entries
    OBVIOUS
  <1>2. Prune(now) = kept[n]
    BY DEF Prune
  <1>3. kept = Kept(kept)
    <2> DEFINE step == [k \in 1..n |-> [table \in Seq(Entries) |->
                          IF entries[k].expiry > now THEN Append(table, entries[k]) ELSE table]]
    <2>1. step \in [1..n -> [Seq(Entries) -> Seq(Entries)]]
      <3>1. \A k \in 1..n, table \in Seq(Entries) : Append(table, entries[k]) \in Seq(Entries)
        BY <1>1, AppendProperties
      <3>. QED BY <3>1
    <2>2. <<>> \in Seq(Entries)
      OBVIOUS
    <2> HIDE DEF n
    <2>3. \A k \in 1..n, table \in Seq(Entries) :
            step[k][table] = IF entries[k].expiry > now THEN Append(table, entries[k]) ELSE table
      OBVIOUS
    <2> HIDE DEF step
    <2>4. PICK f : Iterates(f, n, Seq(Entries), <<>>, step)
      BY <1>1, <2>1, <2>2, IterationExists
    <2>5. \A k \in 1..n : k - 1 \in 0..n /\ f[k - 1] \in Seq(Entries)
      BY <1>1, <2>4 DEF Iterates
    <2>6. f = Kept(f)
      <3>1. \A k \in 1..n : f[k] = IF entries[k].expiry > now
                                   THEN Append(f[k - 1], entries[k]) ELSE f[k - 1]
        BY <2>3, <2>4, <2>5 DEF Iterates
      <3>2. \A k \in 0..n : k # 0 => k \in 1..n
        BY <1>1
      <3>. QED BY <2>4, <3>1, <3>2 DEF Iterates
    <2> HIDE DEF Kept
    <2>. QED BY <2>6
  <1>4. /\ kept[0] = <<>>
        /\ \A k \in 1..n : kept[k] = IF entries[k].expiry > now
                                     THEN Append(kept[k - 1], entries[k]) ELSE kept[k - 1]
    <2> HIDE DEF kept, n
    <2>1. 0 \in 0..n /\ \A k \in 1..n : k \in 0..n /\ k # 0
      BY <1>1
    <2>2. Kept(kept)[0] = <<>>
      BY <2>1
    <2>3. ASSUME NEW k \in 1..n
          PROVE  Kept(kept)[k] = IF entries[k].expiry > now
                                 THEN Append(kept[k - 1], entries[k]) ELSE kept[k - 1]
      BY <2>1
    <2> HIDE DEF Kept
    <2>. QED BY <1>3, <2>2, <2>3
  <1> HIDE DEF kept, Kept, n
  <1> DEFINE Whole(k) ==
               /\ kept[k] \in Seq(Entries) /\ Len(kept[k]) <= k /\ Ordered(kept[k])
               /\ ToSet(kept[k]) = {entries[i] : i \in {j \in 1..k : entries[j].expiry > now}}
             G == {k \in 0..n : Whole(k)}
  <1>5. Whole(0)
    BY <1>4 DEF Ordered, ToSet
  <1>6. ASSUME NEW k \in 1..n, Whole(k - 1)
        PROVE  Whole(k)
    <2>1. {i \in 1..k : entries[i].expiry > now} =
            IF entries[k].expiry > now
            THEN {i \in 1..(k - 1) : entries[i].expiry > now} \cup {k}
            ELSE {i \in 1..(k - 1) : entries[i].expiry > now}
      BY <1>1
    <2>2. CASE ~ (entries[k].expiry > now)
      <3> DEFINE K(m) == {i \in 1..m : entries[i].expiry > now}
      <3>1. kept[k] = kept[k - 1]
        BY <1>4, <2>2
      <3>2. K(k) = K(k - 1)
        BY <2>1, <2>2
      <3>3. {entries[i] : i \in K(k)} = {entries[i] : i \in K(k - 1)}
        BY <3>2
      <3>4. Len(kept[k]) <= k
        <4>1. Len(kept[k]) \in Nat /\ Len(kept[k]) <= k - 1 /\ k \in Nat
          BY <1>1, <1>6, <3>1
        <4>. QED BY <4>1
      <3>. QED BY <1>6, <3>1, <3>3, <3>4
    <2>3. CASE entries[k].expiry > now
      <3> DEFINE table == kept[k - 1]
      <3>1. kept[k] = Append(table, entries[k])
        BY <1>4, <2>3
      <3>2. table \in Seq(Entries) /\ Len(table) <= k - 1 /\ Ordered(table)
        BY <1>6
      <3>3. ASSUME NEW i \in DOMAIN table PROVE table[i].token < entries[k].token
        <4>1. table[i] \in ToSet(table)
          BY DEF ToSet
        <4>2. PICK j \in 1..(k - 1) : table[i] = entries[j]
          BY <1>6, <4>1
        <4>3. j \in 1..n /\ j < k /\ k \in Nat
          BY <1>1
        <4>4. entries[k].token - entries[j].token >= k - j
          BY <1>1, <4>3 DEF Ordered
        <4>5. entries[k].token \in Int /\ entries[j].token \in Int
          BY <1>1, <4>3 DEF Entries, Tokens
        <4>. QED BY <4>2, <4>3, <4>4, <4>5
      <3> HIDE DEF table
      <3>4. Ordered(kept[k])
        BY <1>1, <3>1, <3>2, <3>3, OrderedAppend
      <3>5. /\ kept[k] \in Seq(Entries) /\ Len(kept[k]) <= k
            /\ ToSet(kept[k]) = ToSet(table) \cup {entries[k]}
        <4>1. /\ kept[k] \in Seq(Entries) /\ Len(kept[k]) = Len(table) + 1
              /\ DOMAIN kept[k] = 1..(Len(table) + 1) /\ DOMAIN table = 1..Len(table)
              /\ \A i \in 1..Len(table) : kept[k][i] = table[i]
              /\ kept[k][Len(table) + 1] = entries[k]
              /\ Len(table) \in Nat
          BY <1>1, <3>1, <3>2, AppendProperties
        <4>2. ToSet(kept[k]) = ToSet(table) \cup {entries[k]}
          BY <4>1 DEF ToSet
        <4>. QED BY <3>2, <4>1, <4>2
      <3>. QED BY <1>6, <2>1, <2>3, <3>4, <3>5 DEF table
    <2>. QED BY <2>2, <2>3
  <1> HIDE DEF Whole
  <1>7. 0 \in G /\ \A k \in 1..n : k - 1 \in G => k \in G
    BY <1>1, <1>5, <1>6
  <1> HIDE DEF G
  <1>8. 0..n \subseteq G /\ n \in 0..n
    <2>1. 0..n \subseteq G
      BY <1>1, <1>7, UpTo
    <2>. QED BY <1>1, <2>1
  <1>9. Whole(n)
    BY <1>8 DEF G
  <1>10. ToSet(kept[n]) = {e \in ToSet(entries) : e.expiry > now}
    BY <1>1, <1>9 DEF Whole, ToSet
  <1>. QED BY <1>2, <1>9, <1>10 DEF Whole, n

\* What a table holds was handed out, and a request is not from the future.
TableInv ==
  /\ Ordered(entries)
  /\ \A e \in ToSet(entries) : e.token \in DOMAIN handed /\ e.expiry = handed[e.token]
  /\ \A b \in Browsers : reading[b] # Free => reading[b].now <= instant

CapabilityInv == CapabilityTypeOK /\ TableInv /\ TokenLifetime

Empty ==
  /\ instant \in 0..MaxInstant /\ entries = <<>> /\ handed = <<>> /\ answer = NoAnswer
  /\ reading = [b \in Browsers |-> Free]

LEMMA EmptyTable == Empty => CapabilityInv
  <1> SUFFICES ASSUME Empty PROVE CapabilityInv
    OBVIOUS
  <1> USE DEF Empty
  <1>1. CapabilityTypeOK
    <2>1. entries \in Seq(Entries) /\ Len(entries) <= Maximum
      BY CapabilityAssumption
    <2>2. handed \in Seq(0..(MaxInstant + Ttl)) /\ Len(handed) <= MaxTokens
      BY CapabilityAssumption
    <2>3. reading \in [Browsers -> BrowserRequests]
      BY DEF BrowserRequests
    <2>4. answer \in [token : Tokens, now : 0..MaxInstant, yes : BOOLEAN]
      BY CapabilityAssumption DEF NoAnswer, Tokens
    <2>. QED BY <2>1, <2>2, <2>3, <2>4 DEF CapabilityTypeOK
  <1>2. TableInv
    BY DEF TableInv, Ordered, ToSet
  <1>3. TokenLifetime
    BY DEF TokenLifetime, ExpiredNeverAuthorises, LostOnlyToCrowd, NoAnswer
  <1>. QED BY <1>1, <1>2, <1>3 DEF CapabilityInv

\* The request a thread has read the clock for.
LEMMA Requested ==
  ASSUME CapabilityInv, NEW b \in Browsers, reading[b].kind \in {"issue", "validate"}
  PROVE  /\ reading[b].now \in 0..MaxInstant /\ reading[b].now <= instant
         /\ reading[b].kind = "validate" => reading[b].token \in Tokens
         /\ reading' = [reading EXCEPT ![b] = Free] =>
              /\ reading' \in [Browsers -> BrowserRequests]
              /\ \A d \in Browsers : reading'[d] # Free => reading'[d].now <= instant
  <1>1. reading \in [Browsers -> BrowserRequests]
    BY DEF CapabilityInv, CapabilityTypeOK
  <1>2. reading[b] # Free
    BY DEF Free
  <1>3. Free \in BrowserRequests
    BY DEF BrowserRequests
  <1>4. reading[b].now \in 0..MaxInstant
        /\ (reading[b].kind = "validate" => reading[b].token \in Tokens)
    BY <1>1, <1>2 DEF BrowserRequests
  <1>. QED BY <1>1, <1>2, <1>3, <1>4 DEF CapabilityInv, TableInv

\* What pruning leaves of a table still stands, and lost nothing that is live.
LEMMA PrunedStands ==
  ASSUME CapabilityInv, NEW now \in 0..MaxInstant, now <= instant
  PROVE  /\ Prune(now) \in Seq(Entries) /\ Len(Prune(now)) <= Maximum
         /\ Ordered(Prune(now))
         /\ \A e \in ToSet(Prune(now)) :
              e.token \in DOMAIN handed /\ e.expiry = handed[e.token] /\ now < e.expiry
         /\ \A i \in DOMAIN handed :
              instant < handed[i] /\ i \notin {e.token : e \in ToSet(Prune(now))}
              => Len(handed) - i >= Maximum
  <1>1. /\ entries \in Seq(Entries) /\ Len(entries) <= Maximum /\ Ordered(entries)
        /\ instant \in 0..MaxInstant /\ handed \in Seq(0..(MaxInstant + Ttl))
    BY DEF CapabilityInv, CapabilityTypeOK, TableInv
  <1>2. /\ Prune(now) \in Seq(Entries) /\ Len(Prune(now)) <= Len(entries)
        /\ Ordered(Prune(now))
        /\ ToSet(Prune(now)) = {e \in ToSet(entries) : e.expiry > now}
    BY <1>1, PruneKeeps
  <1>3. Len(Prune(now)) <= Maximum
    BY <1>1, <1>2, CapabilityAssumption
  <1>4. \A e \in ToSet(entries) : e \in Entries
    BY <1>1 DEF ToSet
  <1>5. \A e \in ToSet(Prune(now)) :
          e.token \in DOMAIN handed /\ e.expiry = handed[e.token] /\ now < e.expiry
    <2>1. \A e \in Entries : e.expiry \in Int
      BY CapabilityAssumption DEF Entries
    <2>. QED BY <1>2, <1>4, <2>1 DEF CapabilityInv, TableInv
  <1>6. ASSUME NEW i \in DOMAIN handed, instant < handed[i],
               i \notin {e.token : e \in ToSet(Prune(now))}
        PROVE  Len(handed) - i >= Maximum
    <2>1. i \notin {e.token : e \in ToSet(entries)}
      <3> SUFFICES ASSUME NEW e \in ToSet(entries), e.token = i PROVE FALSE
        OBVIOUS
      <3>1. e.expiry = handed[i] /\ handed[i] \in Int
        BY <1>1, CapabilityAssumption DEF CapabilityInv, TableInv
      <3>2. e.expiry > now
        BY <1>1, <1>6, <3>1, CapabilityAssumption
      <3>. QED BY <1>2, <1>6, <3>2
    <2>. QED BY <1>6, <2>1 DEF CapabilityInv, TokenLifetime, LostOnlyToCrowd
  <1>. QED BY <1>2, <1>3, <1>5, <1>6

LEMMA ValidateKeeps ==
  ASSUME CapabilityInv, NEW b \in Browsers, Validate(b)
  PROVE  CapabilityInv'
  <1> DEFINE now == reading[b].now
             token == reading[b].token
  <1>1. /\ reading[b].kind = "validate" /\ entries' = Prune(now)
        /\ answer' = [token |-> token, now |-> now,
                      yes |-> token \in {e.token : e \in ToSet(Prune(now))}]
        /\ reading' = [reading EXCEPT ![b] = Free] /\ instant' = instant /\ handed' = handed
    BY DEF Validate
  <1>2. /\ now \in 0..MaxInstant /\ now <= instant /\ token \in Tokens
        /\ reading' \in [Browsers -> BrowserRequests]
        /\ \A d \in Browsers : reading'[d] # Free => reading'[d].now <= instant
    BY <1>1, Requested
  <1> HIDE DEF now, token
  <1>3. /\ Prune(now) \in Seq(Entries) /\ Len(Prune(now)) <= Maximum
        /\ Ordered(Prune(now))
        /\ \A e \in ToSet(Prune(now)) :
             e.token \in DOMAIN handed /\ e.expiry = handed[e.token] /\ now < e.expiry
        /\ \A i \in DOMAIN handed :
             instant < handed[i] /\ i \notin {e.token : e \in ToSet(Prune(now))}
             => Len(handed) - i >= Maximum
    BY <1>2, PrunedStands
  <1>4. CapabilityTypeOK'
    BY <1>1, <1>2, <1>3 DEF CapabilityTypeOK, CapabilityInv
  <1>5. TableInv'
    BY <1>1, <1>2, <1>3 DEF TableInv
  <1>6. ExpiredNeverAuthorises'
    BY <1>1, <1>3 DEF ExpiredNeverAuthorises
  <1>7. LostOnlyToCrowd'
    BY <1>1, <1>3 DEF LostOnlyToCrowd
  <1>. QED BY <1>4, <1>5, <1>6, <1>7 DEF CapabilityInv, TokenLifetime

\* The entry an eviction drops is older than as many as the table holds.
LEMMA EvictKeeps ==
  ASSUME NEW table \in Seq(Entries), Len(table) <= Maximum + 1, Ordered(table)
  PROVE  /\ Evict(table) \in Seq(Entries) /\ Len(Evict(table)) <= Maximum
         /\ Ordered(Evict(table))
         /\ ToSet(Evict(table)) \subseteq ToSet(table)
         /\ \A e \in ToSet(table) : e \in ToSet(Evict(table))
              \/ (Len(table) = Maximum + 1 /\ table[Len(table)].token - e.token >= Maximum)
  <1>1. /\ Len(table) \in Nat /\ DOMAIN table = 1..Len(table) /\ Maximum \in Nat \ {0}
        /\ \A i \in 1..Len(table) : table[i].token \in Int
    <2>1. \A e \in Entries : e.token \in Int
      BY CapabilityAssumption DEF Entries, Tokens
    <2>2. \A i \in 1..Len(table) : table[i] \in Entries
      OBVIOUS
    <2>. QED BY <2>1, <2>2, CapabilityAssumption
  <1>2. CASE Len(table) <= Maximum
    <2>1. ~ (Len(table) > Maximum)
      BY <1>1, <1>2
    <2>2. Evict(table) = table
      BY <2>1 DEF Evict
    <2>. QED BY <1>2, <2>2
  <1>3. CASE Len(table) = Maximum + 1
    <2>1. /\ Evict(table) = Tail(table) /\ Tail(table) \in Seq(Entries)
          /\ Len(Tail(table)) = Maximum /\ DOMAIN Tail(table) = 1..Maximum
          /\ \A i \in 1..Maximum : Tail(table)[i] = table[i + 1]
      BY <1>1, <1>3 DEF Evict
    <2>2. Ordered(Tail(table))
      <3>1. ASSUME NEW i \in 1..Maximum, NEW j \in 1..Maximum, i < j
            PROVE  table[j + 1].token - table[i + 1].token >= j - i
        <4>1. i + 1 \in 1..Len(table) /\ j + 1 \in 1..Len(table) /\ i + 1 < j + 1
          BY <1>1, <1>3, <3>1
        <4>2. table[j + 1].token - table[i + 1].token >= (j + 1) - (i + 1)
          BY <1>1, <4>1 DEF Ordered
        <4>. QED BY <1>1, <4>2
      <3>. QED BY <2>1, <3>1 DEF Ordered
    <2>3. ToSet(Tail(table)) = {table[i] : i \in 2..(Maximum + 1)}
      <3>1. \A i \in 2..(Maximum + 1) : i - 1 \in 1..Maximum /\ table[i] = table[(i - 1) + 1]
        BY <1>1
      <3>2. \A i \in 1..Maximum : i + 1 \in 2..(Maximum + 1)
        BY <1>1
      <3>3. ToSet(Tail(table)) = {Tail(table)[i] : i \in 1..Maximum}
        BY <2>1 DEF ToSet
      <3>4. ToSet(Tail(table)) = {table[i + 1] : i \in 1..Maximum}
        BY <2>1, <3>3
      <3>. QED BY <3>1, <3>2, <3>4
    <2>4. ToSet(table) = {table[i] : i \in 1..(Maximum + 1)}
      BY <1>1, <1>3 DEF ToSet
    <2>5. \A i \in 1..(Maximum + 1) : i = 1 \/ i \in 2..(Maximum + 1)
      BY <1>1
    <2>6. table[Maximum + 1].token - table[1].token >= Maximum
      <3>1. 1 \in 1..Len(table) /\ Maximum + 1 \in 1..Len(table) /\ 1 < Maximum + 1
        BY <1>1, <1>3
      <3>2. table[Maximum + 1].token - table[1].token >= (Maximum + 1) - 1
        BY <1>1, <3>1 DEF Ordered
      <3>. QED BY <1>1, <3>2
    <2>7. ToSet(Evict(table)) \subseteq ToSet(table)
      <3>1. 2..(Maximum + 1) \subseteq 1..(Maximum + 1)
        BY <1>1
      <3>. QED BY <2>1, <2>3, <2>4, <3>1
    <2>. QED BY <1>1, <1>3, <2>1, <2>2, <2>3, <2>4, <2>5, <2>6, <2>7
  <1>4. Len(table) <= Maximum \/ Len(table) = Maximum + 1
    <2>1. Len(table) \in Int /\ Maximum \in Int /\ Len(table) <= Maximum + 1
      BY <1>1
    <2>. QED BY <2>1
  <1>. QED BY <1>2, <1>3, <1>4

LEMMA IssueKeeps ==
  ASSUME CapabilityInv, NEW b \in Browsers, Issue(b)
  PROVE  CapabilityInv'
  <1> DEFINE now == reading[b].now
             n == Len(handed) + 1
             entry == [token |-> n, expiry |-> now + Ttl]
             table == Append(Prune(now), entry)
  <1>1. /\ reading[b].kind = "issue" /\ Len(handed) < MaxTokens
        /\ entries' = Evict(table) /\ handed' = Append(handed, now + Ttl)
        /\ reading' = [reading EXCEPT ![b] = Free] /\ instant' = instant /\ answer' = answer
    BY DEF Issue
  <1>2. /\ now \in 0..MaxInstant /\ now <= instant
        /\ reading' \in [Browsers -> BrowserRequests]
        /\ \A d \in Browsers : reading'[d] # Free => reading'[d].now <= instant
    BY <1>1, Requested
  <1>3. /\ instant \in 0..MaxInstant /\ handed \in Seq(0..(MaxInstant + Ttl))
        /\ answer \in [token : Tokens, now : 0..MaxInstant, yes : BOOLEAN]
    BY DEF CapabilityInv, CapabilityTypeOK
  <1> HIDE DEF now
  <1>4. /\ n \in Tokens /\ entry \in Entries /\ entry.token = n /\ entry.expiry = now + Ttl
        /\ now + Ttl \in 0..(MaxInstant + Ttl)
    BY <1>1, <1>2, <1>3, CapabilityAssumption DEF Tokens, Entries
  <1>5. /\ handed' \in Seq(0..(MaxInstant + Ttl)) /\ Len(handed') = n /\ n \in Nat
        /\ DOMAIN handed' = 1..n /\ DOMAIN handed = 1..(n - 1)
        /\ \A i \in DOMAIN handed : handed'[i] = handed[i]
        /\ handed'[n] = now + Ttl
    BY <1>1, <1>3, <1>4, AppendProperties
  <1>6. /\ Prune(now) \in Seq(Entries) /\ Len(Prune(now)) <= Maximum
        /\ Ordered(Prune(now))
        /\ \A e \in ToSet(Prune(now)) :
             e.token \in DOMAIN handed /\ e.expiry = handed[e.token] /\ now < e.expiry
        /\ \A i \in DOMAIN handed :
             instant < handed[i] /\ i \notin {e.token : e \in ToSet(Prune(now))}
             => Len(handed) - i >= Maximum
    BY <1>2, PrunedStands
  <1> HIDE DEF n, entry
  <1>7. /\ table \in Seq(Entries) /\ Len(table) <= Maximum + 1
        /\ table[Len(table)] = entry /\ ToSet(table) = ToSet(Prune(now)) \cup {entry}
    <2>1. /\ table \in Seq(Entries) /\ Len(table) = Len(Prune(now)) + 1
          /\ DOMAIN table = 1..(Len(Prune(now)) + 1) /\ DOMAIN Prune(now) = 1..Len(Prune(now))
          /\ \A i \in 1..Len(Prune(now)) : table[i] = Prune(now)[i]
          /\ table[Len(Prune(now)) + 1] = entry
          /\ Len(Prune(now)) \in Nat
      BY <1>4, <1>6, AppendProperties
    <2> HIDE DEF table
    <2>2. ToSet(table) = ToSet(Prune(now)) \cup {entry}
      BY <2>1 DEF ToSet
    <2>. QED BY <1>6, <2>1, <2>2, CapabilityAssumption
  <1>8. Ordered(table)
    <2>1. ASSUME NEW i \in DOMAIN Prune(now) PROVE Prune(now)[i].token < entry.token
      <3>1. Prune(now)[i] \in ToSet(Prune(now))
        BY DEF ToSet
      <3>2. Prune(now)[i].token \in 1..(n - 1)
        BY <1>5, <1>6, <3>1
      <3>. QED BY <1>4, <1>5, <3>2
    <2>. QED BY <1>4, <1>6, <2>1, OrderedAppend
  <1> HIDE DEF table
  <1>9. /\ entries' \in Seq(Entries) /\ Len(entries') <= Maximum /\ Ordered(entries')
        /\ ToSet(entries') \subseteq ToSet(table)
        /\ \A e \in ToSet(table) : e \in ToSet(entries')
             \/ (Len(table) = Maximum + 1 /\ entry.token - e.token >= Maximum)
    BY <1>1, <1>7, <1>8, EvictKeeps
  <1>10. CapabilityTypeOK'
    BY <1>1, <1>2, <1>3, <1>4, <1>5, <1>9, CapabilityAssumption DEF CapabilityTypeOK, Tokens
  <1>11. TableInv'
    <2>1. \A e \in ToSet(table) : e.token \in DOMAIN handed' /\ e.expiry = handed'[e.token]
      <3>1. ASSUME NEW e \in ToSet(Prune(now))
            PROVE  e.token \in DOMAIN handed' /\ e.expiry = handed'[e.token]
        BY <1>5, <1>6
      <3>2. n \in DOMAIN handed' /\ entry.token = n /\ entry.expiry = handed'[n]
        BY <1>4, <1>5, CapabilityAssumption DEF Tokens
      <3>. QED BY <1>7, <3>1, <3>2
    <2>. QED BY <1>1, <1>2, <1>9, <2>1 DEF TableInv
  <1>12. ExpiredNeverAuthorises'
    BY <1>1, <1>5 DEF ExpiredNeverAuthorises, CapabilityInv, TokenLifetime
  <1>13. LostOnlyToCrowd'
    <2> SUFFICES ASSUME NEW i \in 1..n, instant < handed'[i],
                        i \notin {e.token : e \in ToSet(entries')}
                 PROVE  n - i >= Maximum
      BY <1>1, <1>5 DEF LostOnlyToCrowd
    <2>1. CASE i \in {e.token : e \in ToSet(table)}
      BY <1>4, <1>9, <2>1
    <2>2. CASE i \notin {e.token : e \in ToSet(table)}
      <3>1. i # n /\ i \notin {e.token : e \in ToSet(Prune(now))}
        BY <1>4, <1>7, <2>2
      <3>2. i \in DOMAIN handed /\ instant < handed[i] /\ Len(handed) = n - 1
        BY <1>3, <1>5, <3>1 DEF n
      <3>3. Len(handed) - i >= Maximum
        BY <1>6, <3>1, <3>2
      <3>. QED BY <1>5, <3>2, <3>3, CapabilityAssumption
    <2>. QED BY <2>1, <2>2
  <1>. QED BY <1>10, <1>11, <1>12, <1>13 DEF CapabilityInv, TokenLifetime

LEMMA ClockKeeps ==
  ASSUME CapabilityInv,
         \/ TickInstant
         \/ \E b \in Browsers, request \in BrowserRequests : Read(b, request)
  PROVE  CapabilityInv'
  <1>1. /\ instant \in 0..MaxInstant /\ handed \in Seq(0..(MaxInstant + Ttl))
        /\ reading \in [Browsers -> BrowserRequests]
    BY DEF CapabilityInv, CapabilityTypeOK
  <1>2. CASE TickInstant
    <2>1. /\ instant' = instant + 1 /\ instant' \in 0..MaxInstant
          /\ UNCHANGED <<entries, reading, handed, answer>>
      BY <1>1, <1>2, CapabilityAssumption DEF TickInstant
    <2>2. CapabilityTypeOK'
      BY <2>1 DEF CapabilityInv, CapabilityTypeOK
    <2>3. TableInv'
      <3>1. \A b \in Browsers : reading[b] # Free => reading[b].now \in Int
        BY <1>1, CapabilityAssumption DEF BrowserRequests
      <3>2. \A b \in Browsers : reading[b] # Free => reading[b].now <= instant + 1
        BY <1>1, <3>1, CapabilityAssumption DEF CapabilityInv, TableInv
      <3>. QED BY <2>1, <3>2 DEF CapabilityInv, TableInv
    <2>4. TokenLifetime'
      <3>1. \A i \in DOMAIN handed : instant + 1 < handed[i] => instant < handed[i]
        BY <1>1, CapabilityAssumption
      <3>. QED BY <2>1, <3>1
               DEF CapabilityInv, TokenLifetime, ExpiredNeverAuthorises, LostOnlyToCrowd
    <2>. QED BY <2>2, <2>3, <2>4 DEF CapabilityInv
  <1>3. CASE \E b \in Browsers, request \in BrowserRequests : Read(b, request)
    <2>1. PICK b \in Browsers, request \in BrowserRequests : Read(b, request)
      BY <1>3
    <2>2. /\ UNCHANGED <<instant, entries, handed, answer>>
          /\ reading' = [reading EXCEPT ![b] = request] /\ request.now = instant
      BY <2>1 DEF Read
    <2>3. CapabilityTypeOK'
      BY <1>1, <2>2 DEF CapabilityInv, CapabilityTypeOK
    <2>4. TableInv'
      BY <1>1, <2>2 DEF CapabilityInv, TableInv
    <2>5. TokenLifetime'
      BY <2>2 DEF CapabilityInv, TokenLifetime, ExpiredNeverAuthorises, LostOnlyToCrowd
    <2>. QED BY <2>3, <2>4, <2>5 DEF CapabilityInv
  <1>. QED BY <1>2, <1>3

LEMMA CapabilityStep == CapabilityInv /\ [ServerNext]_serverVars => CapabilityInv'
  <1> SUFFICES ASSUME CapabilityInv, [ServerNext]_serverVars PROVE CapabilityInv'
    OBVIOUS
  <1>1. CASE UNCHANGED capabilityVars
    BY <1>1 DEF capabilityVars, CapabilityInv, CapabilityTypeOK, TableInv, TokenLifetime,
                ExpiredNeverAuthorises, LostOnlyToCrowd
  <1>2. CASE CapabilityReset
    <2>1. Empty'
      BY <1>2 DEF CapabilityReset, CapabilityInv, CapabilityTypeOK, Empty, NoAnswer, Free
    <2>. QED BY <2>1, EmptyTable, PTL
  <1>3. CASE Browse
    BY <1>3, ClockKeeps, IssueKeeps, ValidateKeeps DEF Browse
  <1>. QED BY <1>1, <1>2, <1>3 DEF ServerNext, serverVars

LEMMA CapabilityInvariant == ServerSpec => []CapabilityInv
  <1>1. ServerInit => CapabilityInv
    <2> SUFFICES ASSUME ServerInit PROVE CapabilityInv
      OBVIOUS
    <2>1. Empty
      BY CapabilityAssumption DEF ServerInit, CapabilityInit, Empty
    <2>. QED BY <2>1, EmptyTable
  <1>. QED BY <1>1, CapabilityStep, PTL DEF ServerSpec

\* Whatever instants its requests arrive with, and however many browsers ask, a
\* hosted server honours a token from its issue to its expiry, or until as many
\* later ones crowd it out as the table holds.
THEOREM TokensLive == ServerSpec => []TokenLifetime
  <1>1. CapabilityInv => TokenLifetime
    BY DEF CapabilityInv
  <1>. QED BY <1>1, CapabilityInvariant, PTL

\* Every reachable state of the server, its file, its sessions and its table of
\* capabilities, is well typed.
THEOREM ServerTypeCorrect == ServerSpec => []ServerTypeOK
  <1>1. StoreTypeOK /\ CapabilityInv => ServerTypeOK
    BY DEF CapabilityInv, ServerTypeOK
  <1>. QED BY <1>1, StoreTypeCorrect, CapabilityInvariant, PTL
=============================================================================
