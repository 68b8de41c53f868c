--------------------------- MODULE JobRegistration ---------------------------
(***************************************************************************)
(* Processes registering jobs in one datastore at the same time, each by   *)
(*                                                                         *)
(*     with session_scope(Session, timeout) as session:                    *)
(*         session.add(Job.create(...))                                    *)
(*                                                                         *)
(* A step is one statement sent to the database, since that is where other *)
(* processes interleave.  The database is a SQLite file, used through      *)
(* Python's sqlite3 in its default mode: a SELECT runs on its own until a  *)
(* SAVEPOINT or an INSERT opens a transaction, from then on the connection *)
(* keeps its lock, and a transaction that a SAVEPOINT opened is committed  *)
(* by the RELEASE of that savepoint.                                       *)
(***************************************************************************)
EXTENDS Naturals

CONSTANTS Process,       \* the registering processes
          JobId,         \* the ids a job may have
          Path,          \* the paths a job may have
          NoPath,        \* path of a row that has none
          Digest,        \* the values of sha256_strict
          Null,          \* sha256_strict of a row that has none
          Missing,       \* the metadata has no key "sha256_strict" (format 1)
          ProjectName,   \* the names a job may list
          Project,       \* those of them that are projects in the datastore
          Updatable,     \* the projects the current user may update
          Requests,      \* what a process may be asked to register
          Nobody,        \* the maker of a job that is there at first
          OldTables,     \* what the tables flowcharts and jobs may hold at first
          FirstId,       \* the next flowchart id at first
          Databases      \* the databases considered

FlowchartRow == [id : Nat, digest : Digest \cup {Null}, projects : SUBSET Project]

\* by: the process that registered it, known to the model only.
JobRow == [id : JobId, path : Path \cup {NoPath}, flowchart : Nat,
           projects : SUBSET Project, by : Process \cup {Nobody}]

\* listed[n]: how many times the job's project_names has the name n
Request == [job : JobId, path : Path \cup {NoPath}, digest : Digest \cup {Null, Missing},
            listed : [ProjectName -> Nat]]

\* unique: the index on sha256_strict exists (the table was made with it, or the
\* migration ran).  patient: waiting for a lock never outlasts the timeout.
Database == [unique : BOOLEAN, patient : BOOLEAN]

NoTwins(table) ==
    \A f, g \in table : f.digest = g.digest /\ f.digest # Null => f = g

ASSUME NullAssumption == Null # Missing /\ Null \notin Digest /\ Missing \notin Digest

ASSUME ProjectAssumption == Project \subseteq ProjectName /\ Updatable \subseteq Project

ASSUME RequestAssumption == Requests \subseteq Request

ASSUME NobodyAssumption == Nobody \notin Process

\* Both the id and the path of a job are unique, "no path" excepted.
JobsDistinct(table) ==
    \A i, j \in table : i.id = j.id \/ (i.path = j.path /\ i.path # NoPath) => i = j

ASSUME OldTableAssumption ==
    /\ FirstId \in Nat \ {0}
    /\ \A old \in OldTables :
          /\ old.flowcharts \subseteq FlowchartRow
          /\ \A f \in old.flowcharts : f.id \in 1 .. FirstId - 1
          /\ \A f, g \in old.flowcharts : f.id = g.id => f = g
          /\ FirstId = 1 \/ \E f \in old.flowcharts : f.id = FirstId - 1
          /\ old.jobs \subseteq JobRow /\ JobsDistinct(old.jobs)
          /\ \A j \in old.jobs :
                j.by = Nobody /\ \E f \in old.flowcharts : f.id = j.flowchart

ASSUME DatabaseAssumption == Databases \subseteq Database

VARIABLES db,             \* the database, chosen at first
          req,            \* what each process registers, chosen at first
          pc,             \* the statement each process runs next, or how it ended
          lock,           \* the lock each process's connection holds
          chart,          \* the id of the flowchart each process's job will have
          newFlowcharts,  \* rows inserted by each process and not yet committed
          newJobs,
          flowcharts,     \* the committed rows
          jobs,
          nextId          \* the id of the next row: the largest committed one, plus 1

tables == <<flowcharts, jobs>>
vars == <<db, req, pc, lock, chart, newFlowcharts, newJobs, tables, nextId>>

Running == {"check job", "check projects", "find flowchart", "look again",
            "insert flowchart", "release savepoint", "find winner",
            "insert job", "commit"}

Ended == {"registered", "already there", "no project", "not authorized",
          "flowchart refused", "constraint", "locked", "timed out", "crashed"}

TypeOK ==
    /\ db \in Databases
    /\ req \in [Process -> Requests]
    /\ pc \in [Process -> Running \cup Ended]
    /\ lock \in [Process -> {"none", "shared", "reserved", "pending"}]
    /\ chart \in [Process -> Nat]
    /\ newFlowcharts \in [Process -> SUBSET FlowchartRow]
    /\ newJobs \in [Process -> SUBSET JobRow]
    /\ flowcharts \subseteq FlowchartRow
    /\ jobs \subseteq JobRow
    /\ nextId \in Nat \ {0}

Init ==
    /\ db \in Databases
    /\ req \in [Process -> Requests]
    /\ \E old \in OldTables : flowcharts = old.flowcharts /\ jobs = old.jobs
    /\ db.unique => NoTwins(flowcharts)
    /\ nextId = FirstId
    /\ pc = [p \in Process |-> "check job"]
    /\ lock = [p \in Process |-> "none"]
    /\ chart = [p \in Process |-> 0]
    /\ newFlowcharts = [p \in Process |-> {}]
    /\ newJobs = [p \in Process |-> {}]

-----------------------------------------------------------------------------
(* Locks and transactions                                                  *)

Writes(p) == lock[p] \in {"reserved", "pending"}

\* A writer that waits for the readers to leave lets no new reader in.
ReadBlocked(p) == lock[p] = "none" /\ \E q \in Process \ {p} : lock[q] = "pending"

WriteBlocked(p) == \E q \in Process \ {p} : Writes(q)

CommitBlocked(p) == \E q \in Process \ {p} : lock[q] # "none"

\* While p waits the busy handler retries for it.  SQLite does not call the
\* handler for a connection that holds a shared lock and asks to write: such a
\* statement fails at once, as two of them would wait for each other.
Waits(p) ==
    \/ /\ pc[p] \in {"check job", "check projects", "find flowchart", "look again"}
       /\ ReadBlocked(p)
    \/ /\ pc[p] \in {"insert flowchart", "insert job"}
       /\ lock[p] = "none"
       /\ WriteBlocked(p)
    \/ /\ pc[p] \in {"release savepoint", "commit"}
       /\ lock[p] = "pending"
       /\ CommitBlocked(p)

Take(p, mode) == lock' = [lock EXCEPT ![p] = mode]

Goto(p, where) == pc' = [pc EXCEPT ![p] = where]

\* Variant the runs refute: the session is left open, and its lock with it.
FailWithoutClose(p, how) ==
    /\ Goto(p, how)
    /\ UNCHANGED <<db, req, lock, chart, newFlowcharts, newJobs, tables, nextId>>

\* An exception leaves session_scope: the session is rolled back and closed.
Fail(p, how) ==
    /\ Goto(p, how)
    /\ lock' = [lock EXCEPT ![p] = "none"]
    /\ newFlowcharts' = [newFlowcharts EXCEPT ![p] = {}]
    /\ newJobs' = [newJobs EXCEPT ![p] = {}]
    /\ UNCHANGED <<db, req, chart, tables, nextId>>

\* What p inserted becomes visible to all, and its lock is released.
CommitRows(p) ==
    /\ flowcharts' = flowcharts \cup newFlowcharts[p]
    /\ jobs' = jobs \cup newJobs[p]
    /\ newFlowcharts' = [newFlowcharts EXCEPT ![p] = {}]
    /\ newJobs' = [newJobs EXCEPT ![p] = {}]
    /\ lock' = [lock EXCEPT ![p] = "none"]

\* A COMMIT while other connections still read: no new reader may start, and the
\* COMMIT goes through when those have left.
AwaitReaders(p) ==
    /\ lock[p] = "reserved"
    /\ CommitBlocked(p)
    /\ lock' = [lock EXCEPT ![p] = "pending"]
    /\ UNCHANGED <<db, req, pc, chart, newFlowcharts, newJobs, tables, nextId>>

-----------------------------------------------------------------------------
(* Job.create: the checks                                                  *)

\* Variant the runs refute: the names are used as they are listed.
AsListed(p) == req[p].listed

\* list(dict.fromkeys(project_names)): a name listed twice counts once.
Deduped(p) == [n \in ProjectName |-> IF req[p].listed[n] > 0 THEN 1 ELSE 0]

\* The projects found for the names of the job, the unknown names dropped.
Projects(p) == {n \in Project : Deduped(p)[n] > 0}

\* One related row twice in a collection: its link would be inserted twice.
LinkedTwice(p) == \E n \in Project : Deduped(p)[n] > 1

CheckJob(p) ==
    /\ pc[p] = "check job"
    /\ ~ReadBlocked(p)
    /\ Goto(p, IF \E j \in jobs : j.id = req[p].job
               THEN "already there" ELSE "check projects")
    /\ UNCHANGED <<db, req, lock, chart, newFlowcharts, newJobs, tables, nextId>>

CheckProjects(p) ==
    /\ pc[p] = "check projects"
    /\ ~ReadBlocked(p)
    /\ \/ Projects(p) = {} /\ Goto(p, "no project")
       \/ ~(Projects(p) \subseteq Updatable) /\ Goto(p, "not authorized")
       \/ /\ Projects(p) # {}
          /\ Projects(p) \subseteq Updatable
          /\ Goto(p, "find flowchart")
    /\ UNCHANGED <<db, req, lock, chart, newFlowcharts, newJobs, tables, nextId>>

-----------------------------------------------------------------------------
(* Flowchart.get_or_create_from_file                                       *)

\* _find(): a flowchart without a digest matches nothing.
Matching(p) ==
    {f \in flowcharts : req[p].digest \in Digest /\ f.digest = req[p].digest}

\* .order_by(id).first()
IsOldest(f, rows) == f \in rows /\ \A g \in rows : f.id <= g.id

\* Variant the runs refute: the insert relies on the first lookup.
NothingClashes(p) == {}

\* The lookup of Flowchart.create(): filter_by(sha256_strict=None) matches the
\* rows whose digest is NULL; without the key there is no lookup.
Clashing(p) ==
    {f \in flowcharts : req[p].digest # Missing /\ f.digest = req[p].digest}

\* Variant the runs refute: the oldest flowchart, whatever its digest.
UseOldest(p) ==
    \E f \in flowcharts :
        /\ Matching(p) # {} /\ IsOldest(f, flowcharts)
        /\ chart' = [chart EXCEPT ![p] = f.id]
        /\ Goto(p, "insert job")

UseFound(p) ==
    \E f \in flowcharts :
        /\ IsOldest(f, Matching(p))
        /\ chart' = [chart EXCEPT ![p] = f.id]
        /\ Goto(p, "insert job")

FindFlowchart(p) ==
    /\ pc[p] = "find flowchart"
    /\ ~ReadBlocked(p)
    /\ \/ UseFound(p)
       \/ Matching(p) = {} /\ Goto(p, "look again") /\ UNCHANGED chart
    /\ UNCHANGED <<db, req, lock, newFlowcharts, newJobs, tables, nextId>>

\* Variant the runs refute: create() looks before the savepoint, so without a lock.
LookBeforeSavepoint(p) ==
    /\ pc[p] = "look again"
    /\ ~ReadBlocked(p)
    /\ Goto(p, IF Clashing(p) = {} THEN "insert flowchart" ELSE "find winner")
    /\ UNCHANGED <<db, req, lock, chart, newFlowcharts, newJobs, tables, nextId>>

\* begin_nested() and the lookup of create().  A match raises ValueError, and
\* ROLLBACK TO SAVEPOINT keeps the transaction, and so its lock.
LookAgain(p) ==
    /\ pc[p] = "look again"
    /\ \/ /\ req[p].digest = Missing
          /\ Goto(p, "insert flowchart")
          /\ UNCHANGED lock
       \/ /\ req[p].digest # Missing
          /\ ~ReadBlocked(p)
          /\ Take(p, "shared")
          /\ Goto(p, IF Clashing(p) = {} THEN "insert flowchart" ELSE "find winner")
    /\ UNCHANGED <<db, req, chart, newFlowcharts, newJobs, tables, nextId>>

\* What sha256_strict is in a row made from p's file.
RowDigest(p) == IF req[p].digest = Missing THEN Null ELSE req[p].digest

\* Variant the runs refute: the metadata is stored without a default.
NewFlowchartAsParsed(p) ==
    [id |-> nextId, digest |-> req[p].digest, projects |-> Projects(p)]

\* Variant the runs refute: the flowchart is not linked to its projects.
NewFlowchartUnlinked(p) == [id |-> nextId, digest |-> RowDigest(p), projects |-> {}]

NewFlowchart(p) ==
    [id |-> nextId, digest |-> RowDigest(p), projects |-> Projects(p)]

\* Variant the runs refute: an index for which NULL equals NULL.
SameDigest(f, g) == db.unique /\ f.digest = g.digest

\* The unique index on sha256_strict, "NULLs excepted".
SameKey(f, g) == db.unique /\ f.digest = g.digest /\ f.digest # Null

FlowchartViolates(p) ==
    LinkedTwice(p) \/ \E f \in flowcharts : SameKey(f, NewFlowchart(p))

\* flush(): an IntegrityError rolls back to the savepoint, which keeps the lock.
InsertFlowchart(p) ==
    /\ pc[p] = "insert flowchart"
    /\ ~WriteBlocked(p)
    /\ Take(p, "reserved")
    /\ IF FlowchartViolates(p)
       THEN Goto(p, "find winner") /\ UNCHANGED newFlowcharts
       ELSE /\ newFlowcharts' = [newFlowcharts EXCEPT ![p] = {NewFlowchart(p)}]
            /\ Goto(p, "release savepoint")
    /\ UNCHANGED <<db, req, chart, newJobs, tables, nextId>>

\* The end of begin_nested(): RELEASE of the outermost savepoint is a COMMIT.  Only
\* now is the row's id used up: that of a row rolled back goes to the next one.
ReleaseSavepoint(p) ==
    /\ pc[p] = "release savepoint"
    /\ \/ AwaitReaders(p)
       \/ /\ ~CommitBlocked(p)
          /\ CommitRows(p)
          /\ chart' = [chart EXCEPT ![p] = nextId]
          /\ nextId' = nextId + 1
          /\ Goto(p, "insert job")
          /\ UNCHANGED <<db, req>>

\* The except clause: use the row of whoever won, else raise the error again.
FindWinner(p) ==
    /\ pc[p] = "find winner"
    /\ \/ UseFound(p) /\ UNCHANGED <<db, req, lock, newFlowcharts, newJobs, tables, nextId>>
       \/ Matching(p) = {} /\ Fail(p, "flowchart refused")

-----------------------------------------------------------------------------
(* session.add(job) and _commit_with_retry                                 *)

\* Variant the runs refute: the job is made without its flowchart.
JobWithoutFlowchart(p) ==
    [id |-> req[p].job, path |-> req[p].path, flowchart |-> 0,
     projects |-> Projects(p), by |-> p]

NewJob(p) ==
    [id |-> req[p].job, path |-> req[p].path, flowchart |-> chart[p],
     projects |-> Projects(p), by |-> p]

\* The unique column path, for which NULL equals nothing.
SamePath(j, p) == j.path = req[p].path /\ j.path # NoPath

\* Variant the runs refute: a job of that id is entered once more.
JobEnteredAgain(p) == LinkedTwice(p) \/ \E j \in jobs : SamePath(j, p)

\* Create looks for the id before it starts, and for the path not at all.
JobViolates(p) ==
    LinkedTwice(p) \/ \E j \in jobs : j.id = req[p].job \/ SamePath(j, p)

\* The flush that commit() begins with.
InsertJob(p) ==
    /\ pc[p] = "insert job"
    /\ ~WriteBlocked(p)
    /\ \/ JobViolates(p) /\ Fail(p, "constraint")
       \/ /\ ~JobViolates(p)
          /\ newJobs' = [newJobs EXCEPT ![p] = {NewJob(p)}]
          /\ Take(p, "reserved")
          /\ Goto(p, "commit")
          /\ UNCHANGED <<db, req, chart, newFlowcharts, tables, nextId>>

\* COMMIT: while it is refused the transaction stays open and is retried.
Commit(p) ==
    /\ pc[p] = "commit"
    /\ \/ AwaitReaders(p)
       \/ /\ ~CommitBlocked(p)
          /\ CommitRows(p)
          /\ Goto(p, "registered")
          /\ UNCHANGED <<db, req, chart, nextId>>

\* "database is locked" at once, for a reader that wants to write.  It leaves
\* get_or_create_from_file, which catches only IntegrityError and ValueError; in
\* the flush of commit() it ends the session's transaction, so that calling
\* commit() again, as _commit_with_retry does, can only raise.
LockRefused(p) ==
    /\ pc[p] \in {"insert flowchart", "insert job"}
    /\ lock[p] = "shared"
    /\ WriteBlocked(p)
    /\ Fail(p, "locked")

\* Variant the runs refute: the retries of the commit end without an exception.
GiveUpSilently(p) ==
    /\ ~db.patient
    /\ Waits(p)
    /\ Fail(p, IF pc[p] = "commit" THEN "registered" ELSE "locked")

\* The busy timeout passes, or is not honoured.  Only the COMMIT is retried.
LockTimeout(p) ==
    /\ ~db.patient
    /\ Waits(p)
    /\ Fail(p, IF pc[p] = "commit" THEN "timed out" ELSE "locked")

\* The process dies; its connection's transaction is rolled back.
Crash(p) ==
    /\ pc[p] \in Running
    /\ Fail(p, "crashed")

Finished ==
    /\ \A p \in Process : pc[p] \in Ended
    /\ UNCHANGED vars

Step(p) ==
    \/ CheckJob(p) \/ CheckProjects(p)
    \/ FindFlowchart(p) \/ LookAgain(p) \/ InsertFlowchart(p)
    \/ ReleaseSavepoint(p) \/ FindWinner(p)
    \/ InsertJob(p) \/ Commit(p)
    \/ LockRefused(p) \/ LockTimeout(p)

Next == (\E p \in Process : Step(p) \/ Crash(p)) \/ Finished

Spec == Init /\ [][Next]_vars

\* A process that can take a step takes one; nothing makes a process crash.
FairSpec == Spec /\ \A p \in Process : WF_vars(Step(p))

-----------------------------------------------------------------------------
(* Properties                                                              *)

\* A digest the table did not have twice at first never gets a second row: check,
\* savepoint, second lookup and insert leave no window between two processes,
\* with the index or without it (models.py:320-323, 416-425).
NoNewDuplicate ==
    \A f, g \in flowcharts :
        f.id >= FirstId /\ f.digest # Null /\ f.digest = g.digest => f = g

\* A job in the table points to a committed flowchart, whose digest is that of
\* the file the job was registered with, also when another process's row was
\* taken after a lost race (models.py:448, 469-476, 761).
JobRunsItsFlowchart ==
    \A j \in jobs :
        \E f \in flowcharts :
            /\ f.id = j.flowchart
            /\ j.by \in Process => f.digest = RowDigest(j.by)

\* A call that returned has stored its job, with all the projects it may use and
\* no other; a call that raised has stored none (connect.py:55-63).
StoredIffReturned ==
    /\ \A p \in Process : pc[p] = "registered" => NewJob(p) \in jobs
    /\ \A j \in jobs :
          j.by \in Process => /\ pc[j.by] = "registered"
                             /\ j.projects # {} /\ j.projects \subseteq Updatable

\* j refuses p's job, and not by an id that p's check has found.
Outruns(j, p) == (j.id = req[p].job /\ j.by # Nobody) \/ SamePath(j, p)

\* A process that fails on a constraint of the table jobs has lost its id to a
\* process that registered since the check, or asked for a path that is taken, which
\* nothing checks; no other input, such as a project listed twice, causes it
\* (models.py:580, 703-709, 714-724).
ConstraintMeansTaken ==
    \A p \in Process :
        pc[p] = "constraint" => \E j \in jobs : j.by # p /\ Outruns(j, p)

\* Its path was taken before any process began, so that p could not but fail.
Doomed(p) == pc[p] = "constraint" /\ \E j \in jobs : j.by = Nobody /\ SamePath(j, p)

\* Processes that refuse each other's locks never all lose: if none crashed and
\* waiting was not cut short, some job was registered, unless a process was in the
\* way that failed for its own path (models.py:458-476, 580).
LockedMeansProgress ==
    /\ db.patient
    /\ \A p \in Process : pc[p] \in Ended \ {"crashed"}
    /\ \E p \in Process : pc[p] = "locked"
    => \E p \in Process : pc[p] = "registered" \/ Doomed(p)

\* A new flowchart is there only with a job that uses it (models.py:745: "we'll
\* only want to add it if we're adding the job").
FlowchartHasJob ==
    \A f \in flowcharts : f.id >= FirstId => \E j \in jobs : j.flowchart = f.id

\* Where a call is, or has ended, between the commit of its flowchart and that of its
\* job.
BetweenCommits == {"insert job", "commit", "constraint", "locked", "timed out", "crashed"}

\* ... which does not hold: RELEASE commits the flowchart before the job is
\* inserted.  One without a job is left by nothing but a call that is not over, or
\* that ended there with an exception or the death of its process.
OrphansAreFailures ==
    \A f \in flowcharts :
        f.id >= FirstId /\ (\A j \in jobs : j.flowchart # f.id) =>
            \E p \in Process : chart[p] = f.id /\ pc[p] \in BetweenCommits

\* No flowchart is without a job when all calls are over and no process crashed.
NoOrphanFlowchart ==
    (\A p \in Process : pc[p] \in Ended \ {"crashed"}) => FlowchartHasJob

\* The INSERT of a flowchart never fails on a constraint: the savepoint's lookup and
\* lock already keep a second row out, so that the index stops no race (models.py:320-323,
\* 458-469).
IndexNeverNeeded ==
    \A p \in Process : pc[p] = "insert flowchart" => ~FlowchartViolates(p)

\* Registering is safe when jobs sharing a flowchart are submitted concurrently
\* (models.py:745-747): with patience it does not fail on a lock.
NeverLocked == db.patient => \A p \in Process : pc[p] # "locked"

\* A flowchart without a digest is nobody's duplicate (models.py:320: "Unique
\* (NULLs excepted)"): it is not refused for clashing with another.
UndigestedAccepted ==
    \A p \in Process : pc[p] = "flowchart refused" => req[p].digest \in Digest

\* Every call ends: the locks never make the processes wait for each other.
EveryCallEnds == \A p \in Process : <>(pc[p] \in Ended)

\* The committed tables implement the register of jobs: rows are added by whole
\* commits, once, and never changed or lost.
Registry == INSTANCE JobRegistry WITH
    library  <- {[id |-> f.id, digest |-> f.digest] : f \in flowcharts},
    register <- {[job |-> j.id, flowchart |-> j.flowchart] : j \in jobs}

ImplementsRegistry == Registry!Spec

\* What Migration knows of a request, of a table flowcharts, and of a call.
Asked(r) ==
    [job |-> r.job, digest |-> IF r.digest = Missing THEN Null ELSE r.digest,
     projects |-> {n \in Project : r.listed[n] > 0}]

Datastore(table, entered) ==
    [flowcharts |-> {[id |-> f.id, digest |-> f.digest] : f \in table},
     links |-> UNION {{[flowchart |-> f.id, project |-> n] : n \in f.projects} : f \in table},
     jobs |-> {[id |-> j.id, flowchart |-> j.flowchart] : j \in entered}]

Stage(p) ==
    CASE pc[p] \in {"insert job", "commit"} -> "insert job"
      [] pc[p] = "registered" -> "registered"
      [] pc[p] \in Ended \ {"registered"} -> "failed"
      [] OTHER -> "find flowchart"

\* Seen at its commits a call is what Migration takes a registration to be, while no
\* migration is run: one step finds or creates the flowchart, with all its links, and
\* one enters the job (models.py:439-476, 690-770).
Registrants == INSTANCE Migration WITH
    Registrant    <- Process,
    Requests      <- {Asked(r) : r \in Requests},
    OldDatastores <- {Datastore(old.flowcharts, old.jobs) : old \in OldTables},
    OldColumns    <- {{"conceptdoi", "flowchart_metadata"}},
    MaxStarts     <- 0,
    FlowchartId   <- Nat \ {0},
    tables        <- Datastore(flowcharts, jobs),
    columns       <- {"conceptdoi", "flowchart_metadata"},
    temp          <- FALSE,
    version       <- 1,
    patient       <- db.patient,
    mpc           <- "idle",
    seen          <- {},
    locked        <- FALSE,
    work          <- [flowcharts |-> {}, links |-> {}, jobs |-> {}],
    starts        <- 0,
    req           <- [p \in Process |-> Asked(req[p])],
    rpc           <- [p \in Process |-> Stage(p)]

ImplementsRegistrants == Registrants!Spec

=============================================================================
