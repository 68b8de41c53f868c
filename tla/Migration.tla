------------------------------ MODULE Migration ------------------------------
(***************************************************************************)
(* The migrations of seamm_datastore/database/alembic/versions, run on a   *)
(* datastore in which processes go on registering jobs.  7b24598d1fee      *)
(* changes columns of the table flowcharts; d7d6859198e9 merges the        *)
(* flowcharts that have the same digest and makes digests unique.          *)
(*                                                                         *)
(* A registration is taken at the commits JobRegistration has: one for the *)
(* flowchart, one for the job.  The migration runs in SQLite through       *)
(* Python's sqlite3 and alembic, whose transactions do not cover DDL: a    *)
(* statement that defines a table commits on its own, unless an earlier    *)
(* UPDATE, INSERT or DELETE has opened a transaction.                      *)
(***************************************************************************)
EXTENDS Naturals

CONSTANTS Registrant,     \* the processes that register one job each
          JobId, Digest, Project,
          Null,           \* the digest of a flowchart that has none
          Requests,       \* what a process may be asked to register
          OldDatastores,  \* the tables a datastore may have before the migrations
          OldColumns,     \* the columns its table flowcharts may have, of those below
          MaxStarts,      \* bound: how often a migration command is started
          FlowchartId     \* bound: the ids a new flowchart may get

FlowchartRow == [id : Nat \ {0}, digest : Digest \cup {Null}]
LinkRow == [flowchart : Nat \ {0}, project : Project]
JobRow == [id : JobId, flowchart : Nat \ {0}]

Tables == [flowcharts : SUBSET FlowchartRow, links : SUBSET LinkRow,
           jobs : SUBSET JobRow]

Request == [job : JobId, digest : Digest \cup {Null}, projects : SUBSET Project]

\* The columns that come and go, and those of them today's code reads and writes.
Column == {"path", "conceptdoi", "flowchart_metadata"}
NeededColumns == {"conceptdoi", "flowchart_metadata"}

Ids(t) == {f.id : f \in t.flowcharts}

NoTwins(t) ==
    \A f, g \in t.flowcharts : f.digest = g.digest /\ f.digest # Null => f = g

WellFormed(t) ==
    /\ \A f, g \in t.flowcharts : f.id = g.id => f = g
    /\ \A j, k \in t.jobs : j.id = k.id => j = k
    /\ \A j \in t.jobs : j.flowchart \in Ids(t)
    /\ \A l \in t.links : l.flowchart \in Ids(t)

ASSUME NullAssumption == Null \notin Digest
ASSUME RequestAssumption == Requests \subseteq Request
ASSUME OldAssumption ==
    /\ \A t \in OldDatastores : t \in Tables /\ WellFormed(t)
    /\ OldColumns \subseteq SUBSET Column
ASSUME BoundAssumption == MaxStarts \in Nat /\ FlowchartId \subseteq Nat \ {0}

VARIABLES tables,    \* the committed rows
          columns,   \* the columns of the table flowcharts
          temp,      \* a table _alembic_tmp_flowcharts is in the database
          version,   \* the revisions applied: 0, 1 (7b24598d1fee), 2 (d7d6859198e9)
          patient,   \* waiting for a lock never outlasts the timeout
          mpc,       \* what the migration does next
          seen,      \* the flowcharts with a digest it has read and not dealt with
          locked,    \* it has a transaction open, and the lock for writing
          work,      \* what the tables are in that transaction
          starts,    \* how often a command was started
          req,       \* what each process registers
          rpc,       \* what it does next, or how it ended
          chart      \* the flowchart its job will have

migrator == <<mpc, seen, locked, work, starts>>
registrants == <<req, rpc, chart>>
vars == <<tables, columns, temp, version, patient, migrator, registrants>>

NoTables == [flowcharts |-> {}, links |-> {}, jobs |-> {}]

Stages == {"idle", "add conceptdoi", "add metadata", "drop path", "mark first",
           "read", "dedupe", "copy", "swap"}

TypeOK ==
    /\ tables \in Tables
    /\ columns \subseteq Column
    /\ temp \in BOOLEAN /\ patient \in BOOLEAN /\ locked \in BOOLEAN
    /\ version \in 0 .. 2
    /\ mpc \in Stages
    /\ seen \subseteq FlowchartRow
    /\ work \in Tables
    /\ starts \in 0 .. MaxStarts
    /\ req \in [Registrant -> Requests]
    /\ rpc \in [Registrant -> {"find flowchart", "insert job", "registered", "failed"}]
    /\ chart \in [Registrant -> Nat]

Init ==
    /\ tables \in OldDatastores
    /\ columns \in OldColumns
    /\ temp = FALSE /\ locked = FALSE
    /\ patient \in BOOLEAN
    /\ version \in {v \in 0 .. 1 : v = 1 => NeededColumns \subseteq columns}
    /\ mpc = "idle"
    /\ seen = {} /\ work = NoTables /\ starts = 0
    /\ req \in [Registrant -> Requests]
    /\ rpc = [p \in Registrant |-> "find flowchart"]
    /\ chart = [p \in Registrant |-> 0]

-----------------------------------------------------------------------------
(* Registering a job: Job.create, and the commits JobRegistration splits it in *)

\* Variant the runs refute: the lookups do not see what others have inserted.
SeesNothing(t, d) == {}

SameDigest(t, d) == {f \in t.flowcharts : d # Null /\ f.digest = d}

\* Variant the runs refute: any flowchart with the digest will do.
IsAny(f, rows) == f \in rows

\* .order_by(id).first()
IsOldest(f, rows) == f \in rows /\ \A g \in rows : f.id <= g.id

\* The id SQLite gives a new row: one more than the largest in the table.
IsNextId(id, t) ==
    /\ id \in FlowchartId
    /\ \A i \in Ids(t) : i < id
    /\ id = 1 \/ id - 1 \in Ids(t)

Ready(p, where) == rpc[p] = where /\ NeededColumns \subseteq columns

Advance(p, where) == rpc' = [rpc EXCEPT ![p] = where]

FindFlowchart(p) ==
    /\ Ready(p, "find flowchart")
    /\ \E f \in tables.flowcharts :
          /\ IsOldest(f, SameDigest(tables, req[p].digest))
          /\ chart' = [chart EXCEPT ![p] = f.id]
    /\ Advance(p, "insert job")
    /\ UNCHANGED <<tables, columns, temp, version, patient, migrator, req>>

\* The second lookup and the insert, which the savepoint's lock makes one step.
CreateFlowchart(p) ==
    /\ Ready(p, "find flowchart")
    /\ ~locked
    /\ SameDigest(tables, req[p].digest) = {}
    /\ \E id \in {1} \cup {i + 1 : i \in Ids(tables)} :
          /\ IsNextId(id, tables)
          /\ tables' = [tables EXCEPT
                !.flowcharts = @ \cup {[id |-> id, digest |-> req[p].digest]},
                !.links = @ \cup {[flowchart |-> id, project |-> n] : n \in req[p].projects}]
          /\ chart' = [chart EXCEPT ![p] = id]
    /\ Advance(p, "insert job")
    /\ UNCHANGED <<columns, temp, version, patient, migrator, req>>

InsertJob(p) ==
    /\ Ready(p, "insert job")
    /\ ~locked
    /\ \A j \in tables.jobs : j.id # req[p].job
    /\ tables' = [tables EXCEPT
          !.jobs = @ \cup {[id |-> req[p].job, flowchart |-> chart[p]]}]
    /\ Advance(p, "registered")
    /\ UNCHANGED <<columns, temp, version, patient, migrator, req, chart>>

\* The id or the path is taken, a lock is refused, a column is missing, or the process dies.
RegistrationFails(p) ==
    /\ rpc[p] \in {"find flowchart", "insert job"}
    /\ Advance(p, "failed")
    /\ UNCHANGED <<tables, columns, temp, version, patient, migrator, req, chart>>

-----------------------------------------------------------------------------
(* alembic upgrade head: 7b24598d1fee                                      *)

StartUpgrade ==
    /\ mpc = "idle" /\ version < 2 /\ starts < MaxStarts
    /\ starts' = starts + 1
    /\ mpc' = IF version = 0 THEN "add conceptdoi" ELSE "read"
    /\ UNCHANGED <<tables, columns, temp, version, patient, seen, locked, work, registrants>>

\* Variant the runs refute: a statement that fails ends the migration's changes.
AlterOrGiveUp(stage, after, next) ==
    /\ mpc = stage
    /\ \/ columns' = after /\ mpc' = next
       \/ after = columns /\ columns' = columns /\ mpc' = "mark first"
    /\ UNCHANGED <<tables, temp, version, patient, seen, locked, work, starts, registrants>>

\* One statement under "try: ... except Exception: pass".  What fails is passed
\* over: a column that is there already, but also a lock that is not granted.
Alter(stage, after, next) ==
    /\ mpc = stage
    /\ \/ columns' = after
       \/ ~patient /\ columns' = columns
    /\ mpc' = next
    /\ UNCHANGED <<tables, temp, version, patient, seen, locked, work, starts, registrants>>

AlterColumns ==
    \/ Alter("add conceptdoi", columns \cup {"conceptdoi"}, "add metadata")
    \/ Alter("add metadata", columns \cup {"flowchart_metadata"}, "drop path")
    \/ Alter("drop path", columns \ {"path"}, "mark first")

\* Alembic notes that the first revision is applied.
MarkFirst ==
    /\ mpc = "mark first"
    /\ version' = 1
    /\ mpc' = "read"
    /\ UNCHANGED <<tables, columns, temp, patient, seen, locked, work, starts, registrants>>

-----------------------------------------------------------------------------
(* alembic upgrade head, downgrade -1: d7d6859198e9                        *)

\* Without a lock: others write before the migration does.
ReadDigests ==
    /\ mpc = "read"
    /\ seen' = {f \in tables.flowcharts : f.digest # Null}
    /\ mpc' = "dedupe"
    /\ UNCHANGED <<tables, columns, temp, version, patient, locked, work, starts, registrants>>

\* Variant the runs refute: the links of the flowcharts that go are dropped with them.
MergeDroppingLinks(t, keep, extras) ==
    [flowcharts |-> {f \in t.flowcharts : f.id \notin extras},
     links |-> {l \in t.links : l.flowchart \notin extras},
     jobs |-> {[j EXCEPT !.flowchart = IF @ \in extras THEN keep ELSE @] : j \in t.jobs}]

\* Jobs and links of the extra flowcharts go to the one that is kept.
Merge(t, keep, extras) ==
    [flowcharts |-> {f \in t.flowcharts : f.id \notin extras},
     links |-> {[l EXCEPT !.flowchart = IF @ \in extras THEN keep ELSE @] : l \in t.links},
     jobs |-> {[j EXCEPT !.flowchart = IF @ \in extras THEN keep ELSE @] : j \in t.jobs}]

\* What the migration's connection sees.
View == IF locked THEN work ELSE tables

SeenIds(d) == {f.id : f \in {g \in seen : g.digest = d}}

\* The body of the loop over the digests that occur twice.  The first UPDATE opens
\* the transaction, with the rows as they are by then.
Dedupe(d) ==
    /\ mpc = "dedupe"
    /\ \E keep \in SeenIds(d) :
          /\ SeenIds(d) # {keep}
          /\ \A i \in SeenIds(d) : keep <= i
          /\ work' = Merge(View, keep, SeenIds(d) \ {keep})
    /\ locked' = TRUE
    /\ seen' = {f \in seen : f.digest # d}
    /\ UNCHANGED <<tables, columns, temp, version, patient, mpc, starts, registrants>>

\* downgrade(): the table is copied without the constraint, and nothing merged.
StartDowngrade ==
    /\ mpc = "idle" /\ version = 2 /\ starts < MaxStarts
    /\ starts' = starts + 1
    /\ seen' = {}
    /\ mpc' = "dedupe"
    /\ UNCHANGED <<tables, columns, temp, version, patient, locked, work, registrants>>

\* Variant the runs refute: the temporary table is committed also in a transaction.
CreateTempCommitted ==
    /\ mpc = "dedupe"
    /\ \A d \in Digest : \A i, k \in SeenIds(d) : i = k
    /\ ~temp
    /\ temp' = TRUE
    /\ mpc' = "copy"
    /\ UNCHANGED <<tables, columns, version, patient, seen, locked, work, starts, registrants>>

\* batch_alter_table begins by making the temporary table; if one is there that
\* raises.  Outside a transaction the table is committed at once.
CreateTemp ==
    /\ mpc = "dedupe"
    /\ \A d \in Digest : \A i, k \in SeenIds(d) : i = k
    /\ ~temp
    /\ temp' = ~locked
    /\ mpc' = "copy"
    /\ UNCHANGED <<tables, columns, version, patient, seen, locked, work, starts, registrants>>

\* Variant the runs refute: the rows are copied as they were read.
CopyAsRead ==
    /\ mpc = "copy"
    /\ locked' = TRUE
    /\ work' = IF locked \/ version = 2 THEN View
               ELSE [View EXCEPT !.flowcharts =
                        {f \in @ : f \in seen \/ f.digest = Null}]
    /\ mpc' = "swap"
    /\ UNCHANGED <<tables, columns, temp, version, patient, seen, starts, registrants>>

\* INSERT INTO the temporary table ... SELECT, the rows as they are by then.
Copy ==
    /\ mpc = "copy"
    /\ locked' = TRUE
    /\ work' = View
    /\ mpc' = "swap"
    /\ UNCHANGED <<tables, columns, temp, version, patient, seen, starts, registrants>>

\* Variant the runs refute: each copy of the table counts as one more revision.
SwapCountingUp ==
    /\ mpc = "swap"
    /\ tables' = work
    /\ version' = version + 1
    /\ temp' = FALSE /\ locked' = FALSE
    /\ work' = NoTables /\ seen' = {}
    /\ mpc' = "idle"
    /\ UNCHANGED <<columns, patient, starts, registrants>>

\* DROP and RENAME, the new version, and the COMMIT of the transaction.
Swap ==
    /\ mpc = "swap"
    /\ tables' = work
    /\ version' = IF version = 2 THEN 1 ELSE 2
    /\ temp' = FALSE /\ locked' = FALSE
    /\ work' = NoTables /\ seen' = {}
    /\ mpc' = "idle"
    /\ UNCHANGED <<columns, patient, starts, registrants>>

\* An exception (a lock, a temporary table that is there, the constraint) or the
\* death of the process: what is not committed is rolled back, the DROP of the
\* temporary table in alembic's handler included.
MigrationStops ==
    /\ mpc # "idle"
    /\ locked' = FALSE
    /\ work' = NoTables /\ seen' = {}
    /\ mpc' = "idle"
    /\ UNCHANGED <<tables, columns, temp, version, patient, starts, registrants>>

Over ==
    /\ mpc = "idle"
    /\ \A p \in Registrant : rpc[p] \in {"registered", "failed"}
    /\ UNCHANGED vars

Register(p) ==
    FindFlowchart(p) \/ CreateFlowchart(p) \/ InsertJob(p) \/ RegistrationFails(p)

Migrate ==
    \/ StartUpgrade \/ AlterColumns \/ MarkFirst
    \/ ReadDigests \/ (\E d \in Digest : Dedupe(d))
    \/ StartDowngrade \/ CreateTemp \/ Copy \/ Swap
    \/ MigrationStops

Next == (\E p \in Registrant : Register(p)) \/ Migrate \/ Over

Spec == Init /\ [][Next]_vars

-----------------------------------------------------------------------------
(* Properties                                                              *)

\* Whatever the migration merges, drops or leaves half done, and whoever picked a
\* flowchart before it, each job and each link points to a flowchart that is there,
\* though a deleted row's id may be given to a new one (d7d6859198e9:54-96,
\* models.py:346-350).
NothingDangles ==
    /\ \A j \in tables.jobs : j.flowchart \in Ids(tables)
    /\ \A l \in tables.links : l.flowchart \in Ids(tables)

\* The digests are read before the lock is taken, yet the copy into the table with
\* the constraint never meets a digest twice (d7d6859198e9:44-48, 98-99).
CopyNeverRefused == mpc \in {"copy", "swap"} => NoTwins(View)

\* Only the migration of a datastore whose digests were unique all along leaves the
\* temporary table behind, which makes each later migration fail: a datastore that
\* is stuck so, like one that is migrated, has no digest twice (d7d6859198e9:98-104).
StuckMeansDeduped == temp \/ version = 2 => NoTwins(tables)

\* A datastore marked as being at a revision has the columns the models use, unless
\* a lock was not granted in time, which the migration does not tell from a column
\* that is there (7b24598d1fee:21-34).
MarkedMeansColumns == patient /\ version >= 1 => NeededColumns \subseteq columns

\* A flowchart, known by its digest if it has one.
Key(f) == IF f.digest = Null THEN [row |-> f.id] ELSE [digest |-> f.digest]

Library(t) == {[id |-> Key(f), digest |-> f.digest] : f \in t.flowcharts}

Owned(t, rows) == {x \in rows \X t.flowcharts : x[1].flowchart = x[2].id}

\* The jobs with their flowcharts, the projects with theirs.
JobCharts(t) ==
    {[job |-> x[1].id, flowchart |-> Key(x[2])] : x \in Owned(t, t.jobs)}

LinkedCharts(t) ==
    {[project |-> x[1].project, flowchart |-> Key(x[2])] : x \in Owned(t, t.links)}

\* No project loses a flowchart, and none is given one that was there before: the
\* links of the rows that are merged are moved, and no new row inherits those of a
\* deleted one whose id it has (d7d6859198e9:67-96).
LinksKept ==
    [][/\ LinkedCharts(tables) \subseteq LinkedCharts(tables')
       /\ \A l \in LinkedCharts(tables') \ LinkedCharts(tables) :
             \A f \in tables.flowcharts : Key(f) # l.flowchart]_vars

\* Seen by digest the migration changes nothing: the library only grows, a job enters
\* the register once and keeps its flowchart, whatever the migrator does meanwhile.
Registry == INSTANCE JobRegistry WITH
    library  <- Library(tables),
    register <- JobCharts(tables)

ImplementsRegistry == Registry!Spec

=============================================================================
