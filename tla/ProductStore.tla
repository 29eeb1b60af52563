---------------------------- MODULE ProductStore ----------------------------
(***************************************************************************)
(* One SQLite file and the connections that meet on it: the start of a     *)
(* server, the portfolio edits of its request threads, and the captures    *)
(* that record live runs.  Every connection migrates the file first.  An   *)
(* immediate transaction is one step; what a connection read before it     *)
(* (the applied migrations, the version a run was resolved to, the         *)
(* snapshot of a deferred transaction) is kept in its session, and other   *)
(* connections commit in between.                                          *)
(***************************************************************************)
EXTENDS Integers, FiniteSets, Sequences, FiniteSetsExt

CONSTANTS
  Clients,        \* connections: request threads and capturing processes
  FounderIds, ProjectIds, RunIds,
  Digests,        \* semantic digests of the one opportunity
  Inputs,         \* studio files: a founder row and a set of project rows
  Demo,           \* the studio file of a hosted server
  ProjectLimit,   \* projects an owner may create (5)
  MaxVersion,     \* bound on record versions
  MaxRequests,    \* bound on operations
  NoRow

VARIABLES
  mode, serving,      \* the server's security mode, and whether it is up
  applied, tables,    \* schema_migrations, and the migrations whose tables exist
  founders, projects, \* rows [id, version, text] of the two profile tables
  opportunity,        \* opportunity_versions: digest and writer of each version
  decisions, runs,    \* rows of the two tables
  session,            \* what each connection is doing
  edits,              \* history: the portfolio edits that were accepted
  told,               \* history: what require_persisted said of each run
  requests            \* operations so far

store == <<applied, tables, founders, projects, opportunity, decisions, runs>>
storeVars == <<mode, serving, store, session, edits, told, requests>>

\* MIGRATIONS: the tables each migration creates.
Migrations ==
  <<{"founder_profiles", "project_profiles", "opportunity_versions", "evidence",
     "decisions", "runs", "run_events", "approvals", "draft_jobs", "draft_packs"},
    {"opportunity_refresh_failures"}>>
AllMigrations == DOMAIN Migrations

Modes == {"LOCAL", "HOSTED_DEMO"}
Rows(ids) == [id : ids, version : 1..MaxVersion, text : Clients \cup {"own", "demo"}]

\* Operations.  An edit names the version its caller saw (0: none); a capture is
\* of a run of the hosted server, or of a process of the owner.
Edits ==
  [kind : {"founder"}, id : FounderIds, expected : 0..(MaxVersion - 1)]
  \cup [kind : {"project"}, id : ProjectIds, expected : 0..(MaxVersion - 1)]
Captures == [kind : {"capture"}, by : {"server", "owner"}, run : RunIds, inputs : Inputs]
Operations == {[kind |-> "start"]} \cup Edits \cup Captures

Resolved == [version : 1..MaxVersion, digest : Digests, by : RunIds]

Idle == [pc |-> "idle"]
Sessions ==
  {Idle}
  \cup [pc : {"connected"}, op : Operations, seen : SUBSET (1..(Len(Migrations) + 1))]
  \cup [pc : {"running"}, op : Captures, resolved : Resolved \cup {NoRow}, error : BOOLEAN]
  \cup [pc : {"snapshot"}, op : Captures, resolved : Resolved, current : BOOLEAN]

ASSUME StoreAssumption ==
  /\ ProjectLimit \in Nat /\ MaxVersion \in Nat \ {0} /\ MaxRequests \in Nat
  /\ \A input \in Inputs \cup {Demo} :
       /\ input.founder \in Rows(FounderIds) /\ input.projects \subseteq Rows(ProjectIds)
       /\ IsFiniteSet(input.projects) /\ input.projects # {}
       /\ \A p, q \in input.projects : p.id = q.id => p = q
  /\ FounderIds \cap ProjectIds = {}
  /\ NoRow \notin Resolved

StoreTypeOK ==
  /\ mode \in Modes /\ serving \in BOOLEAN
  /\ applied \subseteq 1..(Len(Migrations) + 1) /\ tables \subseteq 1..(Len(Migrations) + 1)
  /\ founders \subseteq Rows(FounderIds) /\ projects \subseteq Rows(ProjectIds)
  /\ opportunity \in Seq([digest : Digests, by : RunIds]) /\ Len(opportunity) <= MaxVersion
  /\ decisions \subseteq [run : RunIds, version : 1..MaxVersion, digest : Digests,
                          founder : Rows(FounderIds), project : Rows(ProjectIds)]
  /\ runs \subseteq [id : RunIds, state : {"COMPLETED", "PARTIAL", "FAILED"},
                     version : 0..MaxVersion]
  /\ session \in [Clients -> Sessions]
  /\ edits \subseteq [by : Clients, row : Rows(FounderIds) \cup Rows(ProjectIds)]
  /\ told \in [RunIds -> {"nothing", "persisted", "failed"}]
  /\ requests \in 0..MaxRequests
------------------------------------------------------------------------------
\* An empty file, one of an earlier release, a complete one, or one whose
\* history this release does not support.
StoreInit ==
  /\ mode \in Modes /\ serving = FALSE
  /\ applied \in {{}, {1}, {1, 2}, {2}, {1, 2, 3}} /\ tables = applied
  /\ founders = {} /\ projects = {} /\ opportunity = <<>>
  /\ decisions = {} /\ runs = {}
  /\ session = [c \in Clients |-> Idle]
  /\ edits = {} /\ told = [r \in RunIds |-> "nothing"]
  /\ requests = 0

\* The newest row of an id, and the newest row of every id (list_current).
Versions(rows, id) == {row.version : row \in {r \in rows : r.id = id}}
Latest(rows, id) == Max({0} \cup Versions(rows, id))
Current(rows) == {row \in rows : row.version = Latest(rows, row.id)}
Ids(rows) == {row.id : row \in rows}

\* A commit of c makes the snapshots of the other open transactions stale.
Overtake(c, next) ==
  [d \in Clients |->
     IF d # c /\ session[d].pc = "snapshot" THEN [session[d] EXCEPT !.current = FALSE]
     ELSE IF d = c THEN next ELSE session[d]]

\* The operations of the server's own threads end with its process.
OfServer(op) == op.kind # "capture" \/ op.by = "server"
Open(c) == session[c] # Idle
Ends(c) == session' = Overtake(c, Idle)
\* What no action on connections changes.
Fixed == UNCHANGED <<mode, edits, told, requests>>
------------------------------------------------------------------------------
(* Connections and migrations *)

\* A supported history is a contiguous prefix of the known migrations.
Supported(versions) ==
  versions = 1..Cardinality(versions) /\ Cardinality(versions) <= Len(Migrations)

\* Edits are routed by a local server only, and a hosted server captures runs of
\* its demo profile only; a process of the owner may capture on the file of any
\* server.
Admits(op) ==
  CASE op.kind = "start" -> ~ serving /\ \A c \in Clients : Open(c) => session[c].op.kind # "start"
    [] op.kind \in {"founder", "project"} -> serving /\ mode = "LOCAL"
    [] op.kind = "capture" ->
         /\ op.by = "server" => serving /\ mode = "HOSTED_DEMO" /\ op.inputs = Demo
         /\ told[op.run] = "nothing" /\ op.run \notin {run.id : run \in runs}
         /\ \A c \in Clients : Open(c) => session[c].op # op
                                           /\ (session[c].op.kind = "capture" => session[c].op.run # op.run)

\* connect() reads the applied versions outside any transaction.
Connect(c, op) ==
  /\ ~ Open(c) /\ requests < MaxRequests /\ Admits(op)
  /\ requests' = requests + 1
  /\ session' = [session EXCEPT ![c] =
       IF Supported(applied) THEN [pc |-> "connected", op |-> op, seen |-> applied] ELSE Idle]
  /\ UNCHANGED <<mode, serving, store, edits, told>>

Missing(c) == AllMigrations \ session[c].seen
Connected(c) == session[c].pc = "connected" /\ Missing(c) = {}

\* Mutant: every operation retains its exception as a capture does.
RaisesRetained(c) ==
  session' = [session EXCEPT ![c] =
    [pc |-> "running", op |-> @.op, resolved |-> NoRow, error |-> TRUE]]

\* An exception while connected: a start or an edit ends with it, a capture
\* retains it and the run goes on.
Raises(c) ==
  session' = [session EXCEPT ![c] =
    IF @.op.kind = "capture"
      THEN [pc |-> "running", op |-> @.op, resolved |-> NoRow, error |-> TRUE] ELSE Idle]

\* Mutant: whoever finds a table created takes the file to be migrated.
MigrateAssuming(c) ==
  /\ session[c].pc = "connected" /\ Missing(c) # {}
  /\ LET version == Min(Missing(c))
     IN IF version \in tables
          THEN session' = [session EXCEPT ![c].seen = AllMigrations] /\ UNCHANGED <<applied, tables>>
          ELSE /\ tables' = tables \cup {version} /\ applied' = applied \cup {version}
               /\ session' = Overtake(c, [session[c] EXCEPT !.seen = @ \cup {version}])
  /\ UNCHANGED <<serving, founders, projects, opportunity, decisions, runs>>
  /\ Fixed

\* One migration under the write lock; creating tables another connection has
\* created since connect() read the versions raises, and rolls back.
Migrate(c) ==
  /\ session[c].pc = "connected" /\ Missing(c) # {}
  /\ LET version == Min(Missing(c))
     IN IF version \in tables THEN Raises(c) /\ UNCHANGED <<applied, tables>>
        ELSE /\ tables' = tables \cup {version} /\ applied' = applied \cup {version}
             /\ session' = Overtake(c, [session[c] EXCEPT !.seen = @ \cup {version}])
  /\ UNCHANGED <<serving, founders, projects, opportunity, decisions, runs>>
  /\ Fixed

\* The write lock is not free within busy_timeout.
Busy(c) ==
  /\ session[c].pc = "connected"
  /\ Raises(c)
  /\ UNCHANGED <<serving, store>> /\ Fixed
------------------------------------------------------------------------------
(* The server *)

\* Mutant: only the newest version of each record is compared.
SanitizedCurrent ==
  /\ Current(founders) \subseteq {Demo.founder}
  /\ Current(projects) \subseteq Demo.projects

\* A hosted server refuses a file that holds anything but its demo profile.
Sanitized ==
  /\ Cardinality(founders) <= 1 /\ Cardinality(projects) <= 1
  /\ Current(founders) \subseteq {Demo.founder}
  /\ Current(projects) \subseteq Demo.projects

\* lifespan: the file is initialised, and checked when the server is hosted.
Start(c) ==
  /\ Connected(c) /\ session[c].op.kind = "start"
  /\ serving' = (mode = "HOSTED_DEMO" => Sanitized)
  /\ session' = [session EXCEPT ![c] = Idle]
  /\ UNCHANGED store /\ Fixed

\* The server stops or dies with its threads, and its owner may set another
\* mode; the owner's captures go on.
Stop(next) ==
  /\ mode' = next /\ serving' = FALSE
  /\ session' = [c \in Clients |->
       IF Open(c) /\ OfServer(session[c].op) THEN Idle ELSE session[c]]
  /\ UNCHANGED <<store, edits, told, requests>>

\* A capturing process dies; its open transaction is rolled back.
Die(c) ==
  /\ Open(c) /\ ~ OfServer(session[c].op)
  /\ session' = [session EXCEPT ![c] = Idle]
  /\ UNCHANGED <<serving, store>> /\ Fixed
------------------------------------------------------------------------------
(* Portfolio edits *)

RowsOf(op) == IF op.kind = "founder" THEN founders ELSE projects

\* Mutant: the limit is met only once it is passed.
RefusedPastLimit(op) ==
  \/ op.kind = "founder" /\ founders # {} /\ Ids(founders) # {op.id}
  \/ Latest(RowsOf(op), op.id) # op.expected
  \/ /\ op.kind = "project" /\ Latest(projects, op.id) = 0
     /\ Cardinality(Ids(projects)) > ProjectLimit

\* NOT_FOUND, VERSION_MISMATCH and PROJECT_LIMIT.
Refused(op) ==
  \/ op.kind = "founder" /\ founders # {} /\ Ids(founders) # {op.id}
  \/ Latest(RowsOf(op), op.id) # op.expected
  \/ /\ op.kind = "project" /\ Latest(projects, op.id) = 0
     /\ Cardinality(Ids(projects)) >= ProjectLimit

\* Mutant: the caller's version is not compared, the newest one is followed.
EditTxFollowing(c) ==
  LET op == session[c].op
      row == [id |-> op.id, version |-> Latest(RowsOf(op), op.id) + 1, text |-> c]
  IN /\ Connected(c) /\ op.kind \in {"founder", "project"} /\ row.version <= MaxVersion
     /\ founders' = IF op.kind = "founder" THEN founders \cup {row} ELSE founders
     /\ projects' = IF op.kind = "project" THEN projects \cup {row} ELSE projects
     /\ edits' = edits \cup {[by |-> c, row |-> [row EXCEPT !.version = op.expected + 1]]}
     /\ Ends(c)
     /\ UNCHANGED <<mode, serving, applied, tables, opportunity, decisions, runs, told, requests>>

\* _update_portfolio_record: check and append in one immediate transaction.
EditTx(c) ==
  LET op == session[c].op
      row == [id |-> op.id, version |-> op.expected + 1, text |-> c]
  IN /\ Connected(c) /\ op.kind \in {"founder", "project"}
     /\ IF Refused(op) THEN UNCHANGED <<founders, projects, edits>>
        ELSE /\ founders' = IF op.kind = "founder" THEN founders \cup {row} ELSE founders
             /\ projects' = IF op.kind = "project" THEN projects \cup {row} ELSE projects
             /\ edits' = edits \cup {[by |-> c, row |-> row]}
     /\ session' = IF Refused(op) THEN [session EXCEPT ![c] = Idle] ELSE Overtake(c, Idle)
     /\ UNCHANGED <<mode, serving, applied, tables, opportunity, decisions, runs, told, requests>>
------------------------------------------------------------------------------
(* The capture of a run *)

Capturing(c) == Connected(c) /\ session[c].op.kind = "capture"
Running(c) == session[c].pc = "running"
Held(c) == session[c].resolved

\* resolve_opportunity_version reads the latest version in a transaction of its
\* own; a later evaluation of the run may resolve again.
Resolve(c, digest) ==
  LET latest == Len(opportunity)
      same == latest > 0 /\ opportunity[latest].digest = digest
      op == session[c].op
  IN /\ Capturing(c) \/ (Running(c) /\ ~ session[c].error)
     /\ same \/ latest < MaxVersion
     /\ session' = [session EXCEPT ![c] =
          [pc |-> "running", op |-> op, error |-> FALSE,
           resolved |-> [version |-> IF same THEN latest ELSE latest + 1,
                         digest |-> digest,
                         by |-> IF same THEN opportunity[latest].by ELSE op.run]]]
     /\ UNCHANGED <<serving, store>> /\ Fixed

\* A transaction of the run fails, or its result does not fit its inputs.
Retain(c) ==
  /\ Running(c) /\ ~ session[c].error
  /\ session' = [session EXCEPT ![c].error = TRUE]
  /\ UNCHANGED <<serving, store>> /\ Fixed

\* The run ends with a graph: BEGIN, and the first read fixes the snapshot.
ReadSnapshot(c) ==
  /\ Running(c) /\ ~ session[c].error /\ Held(c) # NoRow
  /\ session' = [session EXCEPT ![c] =
       [pc |-> "snapshot", op |-> @.op, resolved |-> Held(c), current |-> TRUE]]
  /\ UNCHANGED <<serving, store>> /\ Fixed

\* Mutant: an immutable row that differs is no conflict.
ConflictsNever(rows, row) == FALSE

\* _put_immutable finds another record under the key of the row.
Conflicts(rows, row) ==
  \E other \in rows : other.id = row.id /\ other.version = row.version /\ other # row

\* Mutant: the resolved version is not compared again, the next one is taken.
PutOpportunityNext(resolved, run) ==
  <<TRUE, Append(opportunity, [digest |-> resolved.digest, by |-> run])>>

\* The resolved version is still the next one, or is the latest as it stands.
PutOpportunity(resolved, run) ==
  LET latest == Len(opportunity)
  IN IF latest > 0 /\ opportunity[latest].digest = resolved.digest
       THEN <<resolved.version = latest /\ resolved.by = opportunity[latest].by, opportunity>>
       ELSE <<resolved.version = latest + 1,
              Append(opportunity, [digest |-> resolved.digest, by |-> run])>>

\* RunRepository refuses a second row of one run.
Recorded(id) == id \in {run.id : run \in runs}
RunRow(id, state, version) == [id |-> id, state |-> state, version |-> version]

\* The rows a graph adds: a decision for every project of the inputs.
DecisionRows(op, resolved) ==
  {[run |-> op.run, version |-> resolved.version, digest |-> resolved.digest,
    founder |-> op.inputs.founder, project |-> project] : project \in op.inputs.projects}

\* What the deferred transaction may write: nothing committed since its
\* snapshot, no row conflicts, and the resolved version is current.
Writable(c) ==
  LET op == session[c].op
  IN /\ session[c].current
     /\ ~ Conflicts(founders, op.inputs.founder)
     /\ \A project \in op.inputs.projects : ~ Conflicts(projects, project)
     /\ PutOpportunity(Held(c), op.run)[1]
     /\ ~ Recorded(op.run)

PutGraph(c, state) ==
  LET op == session[c].op
  IN /\ founders' = founders \cup {op.inputs.founder}
     /\ projects' = projects \cup op.inputs.projects
     /\ opportunity' = PutOpportunity(Held(c), op.run)[2]
     /\ decisions' = decisions \cup DecisionRows(op, Held(c))
     /\ runs' = runs \cup {RunRow(op.run, state, Held(c).version)}

\* Mutant: the upgrade to a write transaction is taken for granted.
CaptureTxUpgraded(c, state) ==
  /\ session[c].pc = "snapshot" /\ state \in {"COMPLETED", "PARTIAL"}
  /\ IF Writable(c) THEN PutGraph(c, state)
     ELSE UNCHANGED <<founders, projects, opportunity, decisions, runs>>
  /\ told' = [told EXCEPT ![session[c].op.run] = "persisted"]
  /\ Ends(c)
  /\ UNCHANGED <<mode, serving, applied, tables, edits, requests>>

\* Mutant: the run row is written in a transaction after its graph.
CaptureTxInTwo(c, state) ==
  /\ session[c].pc = "snapshot" /\ state \in {"COMPLETED", "PARTIAL"}
  /\ IF Writable(c) THEN PutGraph(c, state)
     ELSE /\ PutOpportunity(Held(c), session[c].op.run)[1]
          /\ opportunity' = PutOpportunity(Held(c), session[c].op.run)[2]
          /\ decisions' = decisions \cup DecisionRows(session[c].op, Held(c))
          /\ UNCHANGED <<founders, projects, runs>>
  /\ told' = [told EXCEPT ![session[c].op.run] = IF Writable(c) THEN "persisted" ELSE "failed"]
  /\ Ends(c)
  /\ UNCHANGED <<mode, serving, applied, tables, edits, requests>>

\* _commit of a run with its graph, and what require_persisted says of it.
CaptureTx(c, state) ==
  /\ session[c].pc = "snapshot" /\ state \in {"COMPLETED", "PARTIAL"}
  /\ IF Writable(c)
       THEN PutGraph(c, state) /\ Ends(c)
       ELSE /\ UNCHANGED <<founders, projects, opportunity, decisions, runs>>
            /\ session' = [session EXCEPT ![c] = Idle]
  /\ told' = [told EXCEPT ![session[c].op.run] = IF Writable(c) THEN "persisted" ELSE "failed"]
  /\ UNCHANGED <<mode, serving, applied, tables, edits, requests>>

\* _commit of a run without a graph: its first statement is the write, so it
\* waits for the lock instead of failing.
TelemetryTx(c, state) ==
  /\ Capturing(c) \/ (Running(c) /\ ~ session[c].error)
  /\ state \in {"FAILED", "PARTIAL"}
  /\ ~ Recorded(session[c].op.run)
  /\ runs' = runs \cup {RunRow(session[c].op.run, state, 0)}
  /\ told' = [told EXCEPT ![session[c].op.run] = "persisted"]
  /\ Ends(c)
  /\ UNCHANGED <<mode, serving, applied, tables, founders, projects, opportunity, decisions,
                 edits, requests>>

\* A retained failure: the later callbacks return and the run is not recorded.
ReportFailure(c) ==
  /\ Running(c) /\ session[c].error
  /\ told' = [told EXCEPT ![session[c].op.run] = "failed"]
  /\ session' = [session EXCEPT ![c] = Idle]
  /\ UNCHANGED <<mode, serving, store, edits, requests>>
------------------------------------------------------------------------------
StoreStep ==
  \/ \E c \in Clients :
       \/ \E op \in Operations : Connect(c, op)
       \/ Migrate(c) \/ Busy(c) \/ Start(c) \/ Die(c) \/ EditTx(c)
       \/ \E digest \in Digests : Resolve(c, digest)
       \/ Retain(c) \/ ReadSnapshot(c) \/ ReportFailure(c)
       \/ \E state \in {"COMPLETED", "PARTIAL", "FAILED"} :
            CaptureTx(c, state) \/ TelemetryTx(c, state)
  \/ \E next \in Modes : Stop(next)
------------------------------------------------------------------------------
(* Properties *)

\* The connection is beyond its migrations, and has not failed.
Works(c) ==
  \/ Connected(c)
  \/ session[c].pc = "running" /\ ~ session[c].error
  \/ session[c].pc = "snapshot"

\* Whichever of the connections that met on an old file migrated it, and whatever
\* raised or died between two migrations: nobody works on the file, and no server
\* serves it, without exactly the migrations of this release, and a file somebody
\* could open has no gap in its history, so that a start that failed can be
\* repeated.
SchemaIsWhole ==
  /\ \A c \in Clients : Open(c) => Supported(applied)
  /\ serving \/ (\E c \in Clients : Works(c)) => applied = AllMigrations

\* No row of a profile is replaced: two connections never store different
\* records under one id and version.
OneRowPerVersion ==
  \A rows \in {founders, projects} : \A row, other \in rows :
    row.id = other.id /\ row.version = other.version => row = other

\* Every accepted edit stands as its caller wrote it, on the version the caller
\* saw: of two edits of one version at most one is accepted.
NoLostEdit ==
  \A edit \in edits :
    /\ edit.row \in founders \cup projects
    /\ \A other \in edits :
         /\ other.row.id = edit.row.id /\ other.row.version = edit.row.version
         => other = edit

\* Racing creations do not pass the limit on the projects an owner creates;
\* only captures, which carry projects of their own, may.
EditsWithinLimit ==
  Cardinality({edit.row.id : edit \in {e \in edits : e.row.id \in ProjectIds
                                                     /\ e.row.version = 1}}) <= ProjectLimit

\* A caller who was told that an edit was accepted keeps it, and no caller is
\* told so past the limit.
AcceptedEditsStand == NoLostEdit /\ EditsWithinLimit

\* The row of a run that ended with a graph, the version of the opportunity it
\* was evaluated on, its decisions and the profile rows they rest on are
\* committed together or not at all.
RunWithItsGraph ==
  /\ \A d \in decisions :
       /\ \E run \in runs : run.id = d.run /\ run.version = d.version
       /\ d.version <= Len(opportunity) /\ opportunity[d.version].digest = d.digest
       /\ d.founder \in founders /\ d.project \in projects
  /\ \A run \in runs : run.version > 0 => \E d \in decisions : d.run = run.id

\* A new version of the opportunity is one whose content changed: two runs that
\* resolved against the same latest version never both append the same content.
VersionsDiffer ==
  \A i \in 2..Len(opportunity) : opportunity[i].digest # opportunity[i - 1].digest

\* A version names one content, and the next version another.
VersionsIdentify == OneRowPerVersion /\ VersionsDiffer

\* What the operator is told of a run is what the file holds of it.
ToldTruly ==
  \A run \in RunIds :
    /\ told[run] = "persisted" => run \in {r.id : r \in runs}
    /\ told[run] = "failed" => run \notin {r.id : r \in runs}

\* A run is in the file as a whole or not at all, and the operator knows which.
RunsAreWhole == RunWithItsGraph /\ ToldTruly

\* The rows in the file that are not of the demo profile, older versions
\* included, and those of them that a hosted server serves.
Foreign == (founders \ {Demo.founder}) \cup (projects \ Demo.projects)
Served == IF serving /\ mode = "HOSTED_DEMO" THEN Foreign ELSE {}

\* The one way for an owner's row to be served by a hosted server is the commit
\* of an owner's capture on its file while it is up: none is found there by its
\* check when it starts, whatever the file went through in local mode, and
\* neither its runs nor an edit that was under way when the mode was set adds one.
HostedServesDemo ==
  [][\A row \in Served' \ Served :
       \E c \in Clients :
         /\ session[c].pc = "snapshot" /\ session[c].op.by = "owner"
         /\ row \in {session[c].op.inputs.founder} \cup session[c].op.inputs.projects
         /\ told[session[c].op.run] = "nothing" /\ told'[session[c].op.run] = "persisted"]_storeVars
==============================================================================
