# Verification of seamm_datastore

TLA+ models of the datastore in which SEAMM keeps its jobs, flowcharts and projects, with
TLC configurations that model-check them and TLAPS proofs of their main properties.
Paths below are relative to `src/`; `models.py`, `connect.py`, `build.py` and `rebuild.py` stand
for `seamm_datastore/database/models.py`, `seamm_datastore/connect.py`,
`seamm_datastore/database/build.py` and `seamm_datastore/rebuild.py`; `7b24598d1fee` and
`d7d6859198e9` for the two files under `seamm_datastore/database/alembic/versions`.

```
tlc -workers 2 -config JobRegistration_safety.cfg MCJobRegistration.tla
tlc -workers 2 -config ImportScan_safety.cfg MCImportScan.tla
tlc -workers 2 -config Migration.cfg MCMigration.tla
tlc -workers 2 -config Rebuild.cfg MCRebuild.tla
tlc -workers 2 -config Connections.cfg MCConnections.tla
tlc -workers 2 -config Access.cfg MCAccess.tla
tlapm JobRegistrationProofs.tla
tlapm JobRegistrationComposition.tla
tlapm ImportScanProofs.tla
tlapm ImportScanCompleteness.tla
tlapm MigrationProofs.tla
tlapm RebuildProofs.tla
tlapm ConnectionsProofs.tla
tlapm AccessProofs.tla
```

## 1. The system

The datastore is a SQLite file. There is no server: every process that uses it opens the
file, so all coordination goes through SQLite's locks. Those processes are

- **jobs that register themselves.** A job, or each of an array of jobs started at the same
  moment, opens a `session_scope` and adds `Job.create(...)`;
- **the dashboard and the job server**, which call `import_datastore` on the directory
  of projects when they start, and let users change projects and finish jobs;
- **tools**: `build_from_jobs` makes a new datastore from the directories, alembic
  migrates an old one.

(Other databases than SQLite are not considered: `Job.flowchart_id` and
`flowchart_project.flowchart` are `String(32)` references to an `Integer` key,
models.py:87 and 577, which servers that check types refuse to create.)

| component | source | state | operations | made correct by |
|---|---|---|---|---|
| Registering a job | models.py `Job.create`, `Flowchart.create`, `get_or_create_from_file`; connect.py `session_scope`, `_commit_with_retry` | tables `jobs`, `flowcharts` and their links; per process a session with its transaction and lock | look up the id, the projects, the flowchart; insert flowchart and job; commit, roll back | no digest twice; no job without its flowchart; a returned call is stored; processes do not exclude each other for ever |
| Import of directories | build.py `import_datastore` | tables `projects`, `jobs`, `flowcharts`; the loops' position, `jobs`, `project_names` | per folder and job: create projects, create the job, commit or pass over | nothing importable left out; what is reported was stored; one bad job costs one job; a scan that was cut short can be repeated |
| Flowchart files | models.py `parse_flowchart_file` ff. | none | file to metadata | the digest is that of the file |
| Projects | models.py `Project` | table `projects` | `create`, `update` | name and path unique, whatever an update gives; an id for ever |
| Updates of a job | models.py `Job.update`; connect.py `finish_job`, `add_job` | table `jobs`; the session's objects | status, times, projects | what was reported done is stored; nothing stays behind in a session |
| Rebuild | rebuild.py | a new file, an old file | copy accounts, import, restore details | keeps what it promises to keep; gives nothing to anybody else; loses no job |
| Migrations | database/alembic | tables and index | remove duplicate digests; add the index | every job keeps a flowchart with its digest, every project its flowcharts; digests are unique afterwards |
| Connection | connect.py `SEAMMDatastore` | `Session`, current user, `Base.query`, stand-in application | open, initialize, login, logout | queries and the current user belong to one datastore |
| Accounts | models.py `User`, `Group`, `Role` | their tables | create | everybody has a group; an account gives nobody access |
| Authorization | flask_authorize_patch.py; models.py `AccessControlPermissionsMixin` | none | `allowed`, `authorized`, `permissions_query` | the query and the check of an object agree |
| Serialization | database/schema.py | none | rows to JSON | not modelled: no state |

**How they interact.** `import_datastore` calls `Project.create` and `Job.create`;
`build_from_jobs` calls `import_datastore` between copying accounts and restoring details;
`Job.create` calls the flowchart's lookup and insertion. Everything else is shared state: two
processes meet only in the tables and in SQLite's locks, but within a process `Base.query` and
the stand-in application are global, so that connections meet there too.

**What is hard.** Interleaving: the lookups of `Job.create` come long before its insertions,
and in sqlite3's default mode hold no lock until a savepoint or an INSERT opens a
transaction. Atomicity: the end of `begin_nested()` is the RELEASE of an outermost savepoint,
which commits, so that a job is two commits and not one; in a migration, what alters a table commits
at once or not, depending on whether a row was changed before it. Locks: a reader that wants to write
is refused at once and without the busy timeout, since waiting could deadlock. Failure: a
scan commits after each project and job, so it can die, or be aborted, anywhere between
them, and the next one has to go on from there. Staleness: names are changed while a scan
relates directories to projects by name; ids of flowcharts and of accounts are exchanged under
those who hold them; objects in a session are older than their rows. `PROJECT.json` lists these hazards by line, with the
properties that are about each.

## 2. The modules

| module | what it is |
|---|---|
| `JobRegistry` | abstract: a library of flowcharts and a register of jobs that grow by whole rows, an id or digest once, a job after its flowchart |
| `JobRegistration` | registration, one action per SQL statement, any number of processes, SQLite's locks |
| `ImportScan` | `import_datastore`, one action per query or commit, any number of scans, updates of projects and jobs that register themselves |
| `Migration` | both revisions, up and down, one action per statement, while any number of processes register jobs |
| `Rebuild` | `build_from_jobs`, one action per commit, with accounts, projects and jobs, beside jobs that register themselves |
| `Connections` | the datastores one process has connected to: sessions, nested scopes, the global `Base.query`, `finish_job` and `Job.update` beside other processes |
| `Access` | accounts, groups, rows and permissions, and the two ways to ask who may do what |
| `MC...` | one for each of the six: its instances for TLC |
| `...Proofs`, `ImportScanCompleteness`, `JobRegistrationComposition` | invariants, proofs |

`JobRegistration`, `ImportScan` and `Migration` each implement `JobRegistry` (a property of their
runs and a theorem). This is also how they fit together: `ImportScan` and `Migration` take from a
registration only the two commits that `JobRegistry` knows, `Publish` and `Enter`, and leave
its statements and locks to `JobRegistration`. `Migration` goes further, and says what each of the two
commits reads and writes: `ImplementsRegistrants` is the statement that a call of `JobRegistration`,
seen at its commits, is just that, while no migration is run. `Rebuild` takes from an import what it does with a
directory, and leaves its interruptions between two statements to `ImportScan`.

### JobRegistration

A process's `pc` is the statement it will send next, or how its call ended.

| action | code |
|---|---|
| `CheckJob`, `CheckProjects` | the checks of `Job.create`, models.py:703-743 |
| `FindFlowchart` | the first `_find()` of `get_or_create_from_file`, models.py:440-454 |
| `LookAgain` | `begin_nested()` and the lookup inside `Flowchart.create`; keeps the shared lock |
| `InsertFlowchart` | the `flush()` inside the savepoint |
| `ReleaseSavepoint` | the end of the `with`, which commits |
| `FindWinner` | the `except` clause, models.py:469-476 |
| `InsertJob`, `Commit` | the flush and the COMMIT of `_commit_with_retry` |
| `LockRefused`, `LockTimeout` | "database is locked": at once for a reader that writes; after the timeout otherwise |
| `Crash` | the process dies, its transaction is rolled back |

The tables hold committed rows, `newFlowcharts` and `newJobs` those of an open transaction.
`lock` is what the connection holds; a writer at its COMMIT first excludes new readers
(`pending`) and then waits for the old ones. `db.unique` says whether the index on
`sha256_strict` exists (files from before the migration lack it), `db.patient` whether waiting
always ends before the timeout does. `nextId` is the id SQLite gives the next flowchart: it is used
up by the commit, since a row that is rolled back leaves the largest id as it was. A digest is a value; `Null` is a flowchart whose file
states none, `Missing` one of format 1, whose metadata lacks the key: `Flowchart.create`
treats the three differently. `Job.path` is unique as well as `Job.id` (models.py:580), but only the
id is looked up beforehand: `JobViolates` says for which rows the INSERT of a job is refused. Jobs
that are there at first are by `Nobody`.

`Registrants`, at the end of the module, maps this state to that of `Migration`: the tables to its
tables, without what it does not know (who a job is by, a job's projects); a flowchart's projects to links;
`pc` to the stage a call has reached (`Stage`): "find flowchart" until its flowchart is found or committed,
then "insert job"; what is asked for to its request (`Asked`). The migrator's variables have the values
they have in a datastore of today that nobody migrates.

### ImportScan

A scan's `at` says what it does next. `Begin` starts one anew, also after a crash; the
order of `os.listdir` is a nondeterministic choice. `NextFolder`, `NextJob`, `NextListed` and
`Return` are the loops, `CreateProject` and `InsertProject` the attempt to make a project and
its commit (which may violate the unique name or path), `CreateJob`, `PublishFlowchart` and
`InsertJob` a job. `Locked` refuses any commit. `Update` is `Project.update` with a name, a path or
both (models.py:933-950), and the path may be the default one of any folder; `SelfRegister` is the two
commits of a job's own registration.

A world fixes what the scan finds: folders, the data of the job directories (readable, not
readable, `null` for the list of projects), folders whose group the datastore does not know,
whether somebody is logged in, the projects that are there and those of them the user may
not update. A project is known by its id, since its name and path may change.
`renamed` and `moved` are history variables: the names that an update gave a project or took from it, and the
paths it gave one.

### Migration

`alembic upgrade head` and `downgrade -1` as a process of its own, `mpc` its next statement.

| action | code |
|---|---|
| `FindFlowchart`, `CreateFlowchart`, `InsertJob`, `RegistrationFails` | a registration at its two commits, models.py:439-476 and 690-770 |
| `AlterColumns`, `MarkFirst` | `upgrade()` of 7b24598d1fee, statement by statement under its `except Exception: pass` |
| `ReadDigests` | the SELECT with which `upgrade()` of d7d6859198e9 begins, without a lock |
| `Dedupe` | the body of its loop over the digests that occur twice; the first UPDATE opens the transaction |
| `CreateTemp`, `Copy`, `Swap` | what `batch_alter_table` sends: a new table, INSERT ... SELECT, DROP and RENAME, the commit |
| `StartUpgrade`, `StartDowngrade` | the commands, which alembic lets begin at the revision the datastore has |
| `MigrationStops` | an exception or the death of the process, anywhere |

Through Python's sqlite3 a statement that defines a table commits at once, unless an UPDATE, INSERT or
DELETE has opened a transaction before it. Therefore `CreateTemp` sets `temp`, a temporary table
that outlives the migration, exactly if nothing had to be merged. `work` is what the transaction has
made of the tables so far; `locked` keeps registrants from writing, not from reading.

### Rebuild

`pc` is the stage of the call, and `Begin` to `Restore` are the commits of `build_from_jobs`
(rebuild.py:72-157) in their order: the file and its tables with `_build_initial`, the accounts exchanged for
the old ones, the user to import for, the import directory by directory, and the details restored.
`Fail` ends the call after any of them and leaves the file; `RemoveFile` is the caller who moves it
away. `ImportJob` is a job that is imported or that `Job.create` refuses, `SkipJob` one whose data cannot
be read, or at which the database was locked (`missed`): build.py:136-139 and 192-194 pass over both.
A job that registers itself in the file meanwhile takes two steps, since `Job.create` asks who the current user
is long before its row is inserted: `LookUpAccount` puts the row, with the owner's id of that moment, among those `waiting`,
and `RegisterItself` enters it at any later moment, when the accounts may have been exchanged or the call may have
ended. Accounts are rows with ids, since the exchange changes what an id means. `by`, who made a row, `early`, that
its account was looked up before the exchange, and `late`, that it was entered after the end of the call, are no columns and are
read by properties only. The columns that are restored together are one value (`perms`).

### Connections

Each `SEAMMDatastore` has a file (`stored`), what its session sees of it (`draft`), the objects in
its session as read and as set since (`loaded`, `object`), and the number of its `session_scope`s that are
open. `query` and `asker` are the two globals: the datastore `Base.query` leads to, and the one whose
current user flask_authorize is given.

| action | code |
|---|---|
| `Connect`, `Initialize` | `__init__`, connect.py:116-224, with the points at which it may raise |
| `Login`, `Logout` | connect.py:226-237 |
| `Enter`, `Leave`, `LeaveFailing` | `session_scope`, connect.py:40-89: any scope that ends commits, or rolls back, and closes the session it shares with the others |
| `Look`, `Update` | `Job.get_by_id`, `Job.update` |
| `BeginFinish`, `EndFinish`, `FinishNothing`, `FinishRefused` | `finish_job`, connect.py:296-339, in two steps, so that others can write between its SELECT and its UPDATE |
| `OtherWrites` | another process |

A flush writes the columns whose attributes differ from what was read, and no others (`Flush`).
`told` records for what `finish_job` returned True, until the row is written again, unless the row was stale
or another datastore's. `crossed` is the set of datastores whose session was changed while none of its scopes
was open, by a call on another datastore or outside any scope, until the session is closed.

### Access

`Projects` and `Work` are what `permissions_query` selects, `AllowedProject` and `AllowedWork` what
`allowed()` answers. `CreateUser`, `CreateGroup`, `CreateProject` and `CreateJob` are the commits of
`User.create`, `Group.create`, `Project.create` and `Job.create`; a flowchart of a known digest stays as
it is. `ChangePermissions`, `GrantUser` and `GrantGroup` stand for tools outside of this code, which
only reads permissions. `borrowed` is a history variable: jobs whose flowchart was there before them.

## 3. The runs

| run | instance | shows |
|---|---|---|
| `register` | 3 processes (symmetric), 9 requests, 3 old tables with and without jobs, with or without index and patience | every safety property below, and the refinement of `JobRegistry` |
| `register_live` | 3 processes, 4 requests, new table, patient | `EveryCallEnds`, and the refinement of `Migration`'s registrants |
| `register_locked` | 2 jobs of an array | violated, see *Findings* |
| `register_orphan` | 2 registrations, ids and digests 1 or 2 | violated, see *Findings* |
| `register_undigested` | 2 flowcharts without a digest | violated, see *Findings* |
| `scan` | 2 scans (symmetric), 2 folders, 2 jobs, 3 names, 1 update of a project | the safety properties, and the refinement of `JobRegistry` |
| `scan_alone` | 1 scan at a time, 10 worlds, 1 update of a project | `ScanMissesNothing` over every kind of bad directory; `ScanEnds` |
| `scan_malformed` | 1 scan, 1 world | violated, see *Findings* |
| `migrate` | 2 registrations (symmetric) of 4 requests, 3 old datastores, 2 sets of columns, 3 migration commands, 6 ids | the properties of `Migration`, and the refinement of `JobRegistry` |
| `rebuild` | 2 calls, each for nobody in particular or any of 4 names, with or without an old datastore; 3 disks, 2 old datastores | the properties of `Rebuild` |
| `connect` | 2 datastores, an account in one of them, 1 job with 2 values of each of 2 columns, scopes 2 deep, 2 writes by others | the properties of `Connections` |
| `access` | 3 users, 3 groups, 2 projects, 2 jobs (symmetric), 1 flowchart, 1 change of permissions | the properties of `Access` |

**Registration.** `NoNewDuplicate`: races give no digest a second row, with the index
or without. `JobRunsItsFlowchart`: a stored job's flowchart is committed and has the digest
of the job's file, also for the loser of a race. `StoredIffReturned`: a call returned if and
only if its job is stored. `ConstraintMeansTaken`: the INSERT of a job fails only if its id went to a process that
registered after the check, or its path, which nothing checks, is taken by any job; and for no other reason, such as a project listed
twice. `LockedMeansProgress`: when processes refuse each other's locks, one gets through, or the one
in the way was `Doomed`: it asked for the path of a job that was there before.
`OrphansAreFailures`: a flowchart without a job was left by a call that failed between its two
commits. `IndexNeverNeeded`: the unique index never has to stop anybody: whoever reaches the
INSERT has looked under a lock that no other writer could commit past. `EveryCallEnds`: no
cycle of locks. `ImplementsRegistrants`: between its two commits nothing of a call is seen, the one brings
the flowchart with all its links, under the id that follows the largest, if no row has its digest by then, the other the job.

**Scans.** `ScanMissesNothing`: when a scan returns, each folder has its project and each
importable job is in the table, whatever died or was refused before; the exceptions are jobs
at which it met a lock and names that an update touched. `JobKeepsItsProjects`: an imported job is
in all projects it lists. `AddedAreStored`: the jobs a scan reports it has itself stored.
`AbortHeals`: the scan that loses a race for a project is aborted, but not there again, unless an update
took the project's name away or gave its path to another: each scan is aborted there then.
`ScanEnds`: every scan ends.

**Migrations.** `NothingDangles`: every job and link has its flowchart, also of a registration that chose
the flowchart before the merge and commits after it, and although SQLite gives the id of a deleted last row to the next
one. `CopyNeverRefused`: the digests are read before there is a lock, and still the copy never meets
a twin. `StuckMeansDeduped`: if the temporary table is left behind, which makes every later migration
fail, then the digests are unique already. `MarkedMeansColumns`: a revision that is marked has its
columns, unless a lock was not granted in time: the `except` cannot tell that from a column
that is there. `LinksKept`: no project loses a flowchart by a merge or inherits one by a reused
id. `ImplementsRegistry`: to who knows flowcharts by their digest, the migration does nothing.

**Rebuild.** `KeptAsOld`: after a call with `keep_from` the accounts are the old ones, and the
projects and jobs that are there again have the details they had. `OwnersAreTheirs`: what it did not know belongs to whoever made it,
although the ids of accounts changed hands; the exceptions are the default project, which keeps the
owner's id of before the exchange, and jobs that had looked up their account before it, even if they were
entered after it. `ImportedForUser`: a call that returned has
imported every job that can be read and lists a project, unless it met a lock there, its user has no account or may not
update the default project. `RegisteredStay`: no step loses a job that has registered.

**Connections.** `GlobalsAgree`: only after a constructor raised do queries go to a datastore that nobody has, and
when a later one has returned, the current user belongs to the datastore of the queries again. `NothingLeftPending`: outside of its scopes a session holds no lock and no
change, but for what was changed since the last of them through another datastore or outside any scope; the session this
is pending in is that of the queries, and the end of its next scope, or none if one is open, clears it. `FinishedIsStored`: if
`finish_job` returned True and the row was neither stale in the session nor in another datastore, it is stored, and no
enclosing scope that fails takes it back. In those two cases the docstring, "True if the finish time was successfully set"
(connect.py:319-320), is not what the code does: the object that is set belongs to a session that
is not committed, or a value equal to the stale one is not written.

**Access.** `QueryAgreesWithCheck`: for projects the query and `allowed()` agree, for jobs and
flowcharts the query is the wider one. `EveryoneHasAGroup`: the first group that `Project.create`
takes is always there. `ReadersReachTheWork`: who reads a project reads its jobs, and those
flowcharts that are not borrowed from earlier jobs. `CreationsGrantNothing`: new accounts, groups and rows
change nobody's access to what is there, also if a job uses a flowchart of another
project.

**Bounds, and why they are enough.** Two processes suffice for each race and lock cycle of
registration: the third adds a writer to a reader that is refused by another, and a winner to
two losers. Two digests are needed to tell "the same" from "another"; more would be a
repetition. Flowchart ids are used up by commits, at most one per process. Requests and old
tables are picked to differ in each way that a guard reads (table above, comments in
`MCJobRegistration`). For scans: a folder can be missing while another has been handled, hence
two; one job lists a name that has no folder, hence three names; `MaxNames` = 1 lets one
update of a project happen, at any moment, with a name, a path or both out of `Given`: the names it touches are exempted from the properties but the
effects on the others are not. `ProjectId` has an id for each project that can ever be made, as their names are unique and
none is deleted. Scans may be begun any number of times.

For `migrate`, one registration reads before the merge while the other writes before or after it; the
old tables have a digest once, two twins, and three around other rows, with the largest id among those
that go, so that it is reused. Three commands (`MaxStarts`) allow an attempt that stops, its repetition, and
a downgrade or a third attempt; 6 ids (`FlowchartId`) are 4 old ones and one per
registration. For `rebuild`, two calls (`MaxCalls`) suffice for the one that finds what the other left; one
old datastore knows the user under another id, the other knows neither him nor the group of the
directories; the third disk has a job whose data and one whose flowchart cannot be read. For `connect`, two datastores are needed to mistake one for another; scopes two deep
(`MaxDepth`, with `finish_job` inside them) share a session; a write by another process and one that
undoes it (`MaxWrites`) are what a stale object can miss. For `access`, one account beyond the two
that are built in, made with each kind of group list (`Named`), two users who make rows (`Actor`), two
projects so that a flowchart of one can be used in another, and one change of permissions
(`MaxChanges`) out of two (`OtherPermissions`) or a grant to update but not to read (`Grants`): a property about
one user and one row meets each source of a permission with and without it.

The proofs below do without any of these values; the bounds named as constants are any natural
numbers there.

**Fairness.** `FairSpec` has weak fairness of `Step(p)`, resp. `Step(s)`: a process that can
send a statement sends it, since the operating system runs it and there is no lock outside the
database. A process that waits for a lock is in SQLite's busy handler or in the retries of
`_commit_with_retry`, which look again; the model's step is then not enabled. `Crash`, `Begin`, `Locked`,
`Update` and `SelfRegister` have no fairness. `EveryCallEnds` is checked for databases that
are patient: without patience the timeout would end every wait, and the property would say
less. The other four models state no fairness and no liveness: a migration, a rebuild or a call that
gets no further is what their `...Stops` and `Fail` are about, and the code waits nowhere but for
SQLite's locks, which the first two models cover.

**Deadlock** is checked in all runs but `access`. `Finished`, resp. `Over`, is the only step left to
processes that have all ended; scans can always begin, and scopes be entered or left. In `Access`
everything may have been made, and permissions changed as often as the bound allows.

### Findings

| run | doc or comment | the code |
|---|---|---|
| `register_locked` | models.py:746 "race-tolerant: it's safe when several jobs sharing this same flowchart are submitted concurrently"; connect.py:51 | the lookup inside the savepoint leaves a shared lock, and the INSERT of a second process is refused at once with "database is locked", which nothing catches |
| `register_orphan` | models.py:745 "we'll only want to add it if we're adding the job" | the RELEASE of the savepoint commits the flowchart first; a job that then fails leaves it behind |
| `register_undigested` | models.py:320 "Unique (NULLs excepted)" | `filter_by(sha256_strict=None)` matches every flowchart without a digest, so the second is refused |
| `scan_malformed` | HISTORY.rst:28 "a failure importing one job no longer stops the rest from being imported" | the loop over the listed projects is outside the `try`; `"projects": null` ends the scan |

What does hold in the place of the first two is checked and proved: `LockedMeansProgress` and
`OrphansAreFailures`.

## 4. The proofs

The theorems hold for all values of the constants that satisfy the named assumptions of the
modules: the digests differ from `Null` and `Missing`; the old flowcharts have distinct ids below
`FirstId`, which follows the largest of them, and the old jobs, made by none of the processes, have distinct ids and paths and
a flowchart each; the requests, databases and worlds are of their types; no two old projects share an id, a
name or a path; old datastores have unique keys and no dangling references before a migration, and
unique keys before a rebuild; "admin" is neither the user nor the group of the home directory (else
`_build_initial` breaks a constraint); accounts without a group list can be given a group of their
name. Nothing is assumed finite.

**JobRegistrationProofs** proves `Spec => []P` for `TypeOK` and the seven state properties of
`register`, and the refinement. Its invariant `Inv` conjoins to five of these

- `LockRight`, `OneWriter`: a process writes only between an INSERT and its commit, and no two
  do so at once;
- `LookupHolds`: at the INSERT of a flowchart the second lookup is still true, since its shared
  lock lets nobody commit. This is what carries `NoNewDuplicate` and gives `IndexNeverNeeded`;
- `FlowchartRight`, `JobRight`, `ProjectsRight`: the rows of an open transaction are the ones
  asked for, with projects the user may update;
- `ChartRight`: from the insertion on, the flowchart a process's job will point to is in the
  table or among its own rows, with its digest; hence `JobRunsItsFlowchart`;
- `FlowchartsApart`, `JobsApart`: rows that are not committed yet differ from all others, so
  that a commit cannot bring a duplicate in;
- `SomebodyGoesOn`: from when a process was refused a lock, another one is at its commit, has
  registered, or is about to insert its job without a lock, where it can wait.
  `LockedMeansProgress` speaks of the end only and is not inductive without it. That such a
  process fails on a constraint still means that a job was registered, that of its id or path,
  or that it was doomed;
- `IdsChecked`: past its first check a process asks for no id of a job that was there before, so that only
  a path of such a job can refuse it.

It also proves the two facts that `EveryCallEnds` rests on, for any number of processes. `NoCircleOfLocks`:
whoever waits for a lock waits for a call that holds one and does not wait itself (`WaitersAreFreed`). The
reason is that only the process that writes can wait with a lock in its hand, at its COMMIT, for readers; and
a reader that is past its lookup (`Readers`) is refused at once when it wants to write, and does not wait.
`CallsCountDown`: each step takes one call nearer its end (`Distance`, or at a COMMIT from "reserved" to "pending",
which leads back nowhere) and moves no other, so that a call sends at most nine statements, and finitely many calls take
finitely many steps. Then every fair behaviour
comes to a state in which no step is taken any more; there, whoever is not over waits, as a call that
does not wait can always take its next step; and by the first fact nobody waits. What this
argument has in addition to the two theorems, that such a call can step and what fairness is, is ENABLED and temporal
logic, and stays with TLC: `EveryCallEnds` in `register_live`.

**JobRegistrationComposition** proves `ImplementsRegistrants`, step by step: the COMMIT at the end of
the savepoint is `CreateFlowchart` there (`CreatingStep`), a lookup that finds a row, the first or the one after a lost
race, is `FindFlowchart` (`FindingStep`), the last COMMIT is `InsertJob` (`EnteringStep`), each way to fail is
`RegistrationFails`, and all other statements are none (`QuietCall`). It rests on `Inv`: that the
committed digest is not there yet, and the id is the next, is `FlowchartsApart`. `AssumptionsHold` shows that
the requests and old tables of one module are such as the other assumes. The mapping is for a datastore without a
migration. That a registration beside one is still two steps is `Migration`'s own abstraction: the migrator
writes under SQLite's lock like any process.

**ImportScanProofs** proves `TypeOK`, `AddedAreStored`, `JobKeepsItsProjects` and `AbortHeals`,
and the refinement. The argument is that the tables only grow, up to the names and paths of projects (`Grows`),
and that what a scan needs is preserved by growth (`RightStays`), so that only a scan's own
step needs a proof (`QuietKeeps`). `ScanRight` says of a scan's record: what is in hand at
which step; past its checks a job has a flowchart, committed before the job; each name of
the job is still unchecked, in hand, has its project, or was renamed (`ListedRight`, which
gives `FoundRight` and so `JobKeepsItsProjects`). `PathNames`, that a project not named like
its path was renamed or given that path, is what makes `AbortHeals` inductive: a commit refused for its path
means an update. `ScansComeToAnEnd` is what `ScanEnds` rests on: whatever a step of anybody
does to a scan, the scan begins, ends, or has less before it (`Nearer`): fewer folders unseen, or as many
and the folder in hand farther on, or fewer of its jobs unread, or fewer of the names the job lists
unchecked, or the next place on the way to the next job. A directory has finitely many entries, so there
is no infinite descent; that a scan that runs can always take a step, and liveness itself, stay with TLC.

**ImportScanCompleteness** proves `ScanMissesNothing` on top of that. A scan is `Thorough` if
every folder `Behind` it, that is neither unseen nor in hand, has its project, and every job
of those folders, as every job gone through `Inside` the folder in hand, is settled: known, missed
for a lock, with a renamed project, or not importable. Being settled lasts (`SettledStays`),
although being importable depends on the projects that are there: a project that may not
be updated stops being in the way only by a renaming, which touches a name of the job. So
only the step that is done with a job has to settle it (`GoesOn`, `JobLeft`).

**MigrationProofs** proves every property of `migrate`. Its invariant adds to them

- `ChosenSafe`: the flowchart a registration has chosen is the oldest of its digest, or has none. A
  merge keeps the oldest, so it never removes a chosen row; this is why nothing dangles;
- `SeenRight`: until they are dealt with, the rows that were read are still there, and every row that has
  a twin was read. No lock is needed for that, as a registration adds no digest that it finds;
- `WorkRight`: in its transaction the migration has removed rows only, keeps the oldest of each
  digest, and has tables that are `Equivalent`, by digest, to the committed ones;
- `StageRight`, `ColumnsRight`: which locks, revisions and columns go with a stage.

`MergeRight` and `MergeEquivalent` say what the body of the loop does to well-formed tables. Refinement
and `LinksKept` then follow from two kinds of steps: commits of a registration, and steps after which the tables
are equivalent.

**RebuildProofs** proves every property of `rebuild`. Its invariant says what each stage may
rely on: how empty the file is (`Empty`), that accounts are exchanged before anything but the
default project and early jobs refers to them (`Early`, `Kept`), so that later rows are their maker's
(`Owned`), and so will be those that wait (`Pending`); that projects made during the import are the importer's, who may therefore update them
(`MadeForImporter`), so that a job gone through is there or one of the exceptions (`Done`). `GrowInv` proves
it for the actions that add rows.

**ConnectionsProofs** proves every property of `connect`. `ToldKept` strengthens
`FinishedIsStored`: what was reported is also what the session's transaction sees, and no object in it is
about to change it. `NothingLeftPending` needs `QueryBound`, `Together` and
`FinishRight`: a running `finish_job` has its scope open and its job loaded. `GlobalsAgree` is inductive by itself.

**AccessProofs** proves every property of `access`. The agreement of query and check is shown for
all states of the right types (`ColumnsAgree`). `CreationsGrantNothing` needs `RowsRefer`, that rows and
grants name groups that exist: otherwise a new group could fit a row that waits for it.

**Model-checked only:** `EveryCallEnds` and `ScanEnds`: liveness under fairness is beyond the
provers. What was proved towards each is said above.

## 5. Not modelled

- Parsing of flowcharts and job data is reduced to the cases the callers tell apart. `as_json`,
  the schemas and messages are left out: they change no state. Versioneer, setup and docs are no part of
  the program's logic.
- File systems without owners (`NotImplementedError`, build.py:99) give the group "staff", which is a
  known group or a foreign one like any other.
- `Job.update` with `project_names` hands SQLAlchemy's bulk UPDATE a key `projects` that is a
  relationship, and `User.create` appends each role twice: what SQLAlchemy makes of either is not in
  this source. `add_job` and `Job.create_from_file` raise `TypeError` before they change anything.
- `allowed()` for several operations or objects: it replaces the set of operations by its first
  element on the way (flask_authorize_patch.py:233), and what flask_authorize does with a string there is not in
  this source. The default permissions of a second connection have no effect, as the stand-in
  application is imported once; `Access` has them as a constant.
- The downgrade of 7b24598d1fee drops two columns; offline migrations print SQL. Two migrations, or two
  rebuilds of one path, at once: both are started by hand, by one administrator.
- Threads: `Connections` has one. Others have sessions of their own and share the globals.

Assumed of what is outside of `src/`, and marked external in the map: SQLite's locks, its rowids (one
more than the largest) and unenforced foreign keys; sqlite3's opening of transactions; the statements
of alembic's batch mode, whose own DROP of the temporary table after an exception is rolled back with
the rest; that SQLAlchemy writes the attributes that were changed; `PermissionsMixin.authorized`; that a row's owner
and group default to the current user and a group of that user. Whoever creates a job is logged in, as the
docstring of `Job.create` asks for. Among the permissions the key for everybody else is written "other"
here; connect.py:135 spells it "world".

## 6. What could follow

The models of section 2 and their proofs are complete for the parts they name. Of what section 5
leaves out, these would be worth having, given the sources of SQLAlchemy and flask_authorize:

1. `Job.update` with projects: which links it leaves, and who may then read the job;
2. `allowed()` for several operations, and for lists of objects;
3. several threads in `Connections`, with a constructor in one while another is in a scope.
