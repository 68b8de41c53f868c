------------------------------- MODULE Rebuild -------------------------------
(***************************************************************************)
(* build_from_jobs of seamm_datastore/rebuild.py: a datastore made again   *)
(* from the job directories, with the accounts and the details of the one  *)
(* it replaces.  Each step ends with a commit or is a transaction; between *)
(* two of them the process may die, an exception may end the call, and     *)
(* jobs that run register themselves in the new file: they look up their   *)
(* account, and enter the row later, when the file is no longer locked.    *)
(*                                                                         *)
(* ImportScan models the import itself, statement by statement.  Here it   *)
(* is one step per directory, and what counts is for whom it is done.      *)
(***************************************************************************)
EXTENDS Naturals

CONSTANTS Account,     \* the names of users and groups
          ProjectName, \* the names of projects
          Default,     \* that of the default project
          Perms,       \* a project's permissions and description, as one value, or
                       \* a job's group and permissions
          Standard,    \* those a new row has: owner and group may update it
          JobId,
          Admin, Me,   \* the users "admin", and the one who runs the rebuild
          None,        \* no user name given
          MyGroup,     \* the group of the home directory
          Disks,       \* the directories considered
          Olds,        \* the datastores to be replaced
          MaxCalls     \* bound: how often build_from_jobs is called

UserRow == [id : Nat, name : Account, admin : BOOLEAN, groups : SUBSET Nat]
GroupRow == [id : Nat, name : Account]

\* by: who made the row.  early: the account was looked up before the accounts were
\* exchanged; late: the row was entered after the call had ended.  None of them is a
\* column, and only properties refer to them.
ProjectRow == [name : ProjectName, owner : Nat, group : Nat, perms : Perms, by : Account]
JobRow == [id : JobId, owner : Nat, perms : Perms, by : Account,
           early : BOOLEAN, late : BOOLEAN]

\* A permission that users and groups have for a project beyond those of its row.
SpecialRow == [entity : Nat, project : ProjectName]

Datastore == [users : SUBSET UserRow, groups : SUBSET GroupRow,
              projects : SUBSET ProjectRow, jobs : SUBSET JobRow,
              specials : SUBSET SpecialRow]

\* group: that of the directory of a project; lists: the projects a job names; holds:
\* whether its job_data.json can be read, and its flowchart.
Directory == [name : ProjectName, group : Account]
JobDirectory == [id : JobId, dir : Directory, lists : SUBSET ProjectName,
                 holds : {"job", "no data", "no flowchart"}]
Disk == [dirs : SUBSET Directory, jobs : SUBSET JobDirectory]

WellFormed(d) ==
    /\ \A u, v \in d.users : u.id = v.id \/ u.name = v.name => u = v
    /\ \A g, h \in d.groups : g.id = h.id \/ g.name = h.name => g = h
    /\ \A p, q \in d.projects : p.name = q.name => p = q
    /\ \A j, k \in d.jobs : j.id = k.id => j = k

ASSUME NameAssumption ==
    /\ {Admin, Me, MyGroup} \subseteq Account /\ None \notin Account
    /\ Admin # Me /\ Admin # MyGroup   \* else _build_initial breaks a constraint
    /\ Default \in ProjectName /\ Standard \in Perms
ASSUME DiskAssumption ==
    /\ Disks \subseteq Disk
    /\ \A disk \in Disks : \A j \in disk.jobs : j.dir \in disk.dirs
ASSUME OldAssumption ==
    /\ Olds \subseteq Datastore
    /\ \A old \in Olds : WellFormed(old)
ASSUME BoundAssumption == MaxCalls \in Nat

VARIABLES disk, old,  \* what is there, chosen at first
          file,       \* the new datastore's file exists
          db,         \* its committed rows
          waiting,    \* the rows of jobs that are about to register themselves
          pc,         \* the step the call is at, or how the last one ended
          call,       \* its arguments username and keep_from
          user,       \* the name of the user it imports for
          todo,       \* the directories not imported yet
          missed,     \* the jobs skipped because the database was locked
          calls       \* how often it was called

vars == <<disk, old, file, db, waiting, pc, call, user, todo, missed, calls>>

Call == [username : Account \cup {None}, keep : BOOLEAN]

Nothing == [users |-> {}, groups |-> {}, projects |-> {}, jobs |-> {}, specials |-> {}]
NoDirectories == [dirs |-> {}, jobs |-> {}]

Running == {"initialize", "accounts", "choose", "import", "restore"}

TypeOK ==
    /\ disk \in Disks /\ old \in Olds
    /\ file \in BOOLEAN
    /\ db \in Datastore /\ WellFormed(db)
    /\ waiting \subseteq JobRow
    /\ pc \in Running \cup {"returned", "raised"}
    /\ call \in Call
    /\ user \in Account
    /\ todo \in [dirs : SUBSET disk.dirs, jobs : SUBSET disk.jobs]
    /\ missed \subseteq disk.jobs
    /\ calls \in 0 .. MaxCalls

Init ==
    /\ disk \in Disks /\ old \in Olds
    /\ file = FALSE /\ db = Nothing /\ waiting = {}
    /\ pc = "raised" /\ call = [username |-> None, keep |-> FALSE]
    /\ user = Admin /\ todo = NoDirectories /\ missed = {} /\ calls = 0

-----------------------------------------------------------------------------
(* The steps of build_from_jobs                                            *)

\* FileExistsError if there is a file, whoever left it; else connect() makes one.
Begin ==
    /\ pc \notin Running /\ calls < MaxCalls
    /\ \E c \in Call : call' = c
    /\ calls' = calls + 1
    /\ IF file THEN pc' = "raised" ELSE pc' = "initialize"
    /\ file' = TRUE
    /\ UNCHANGED <<disk, old, db, waiting, user, todo, missed>>

\* _build_initial: "admin" is in all groups, both users are administrators, and the
\* default project belongs to the owner of the home directory.
Initial ==
    [users |-> {[id |-> 1, name |-> Admin, admin |-> TRUE, groups |-> {1, 2}],
                [id |-> 2, name |-> Me, admin |-> TRUE, groups |-> {2}]},
     groups |-> {[id |-> 1, name |-> Admin], [id |-> 2, name |-> MyGroup]},
     projects |-> {[name |-> Default, owner |-> 2, group |-> 2, perms |-> Standard,
                    by |-> Me]},
     jobs |-> {},
     specials |-> {}]

Initialize ==
    /\ pc = "initialize"
    /\ db' = Initial
    /\ pc' = IF call.keep THEN "accounts" ELSE "choose"
    /\ UNCHANGED <<disk, old, file, waiting, call, user, todo, missed, calls>>

\* One transaction.  The rows that refer to accounts by id stay as they are.
KeepAccounts ==
    /\ pc = "accounts"
    /\ db' = [db EXCEPT !.users = old.users, !.groups = old.groups]
    /\ pc' = "choose"
    /\ UNCHANGED <<disk, old, file, waiting, call, user, todo, missed, calls>>

ChooseUser ==
    /\ pc = "choose"
    /\ user' = IF call.username # None THEN call.username
               ELSE IF \E u \in db.users : u.name = Me THEN Me ELSE Admin
    /\ todo' = disk /\ missed' = {}
    /\ pc' = "import"
    /\ UNCHANGED <<disk, old, file, db, waiting, call, calls>>

\* Variant the runs refute: a session keeps the rows of before the exchange.
ImporterAtFirst == {u \in Initial.users : u.name = user}

\* current_user(): nobody, if the name has no account.
Importer == {u \in db.users : u.name = user}

\* While something is imported all projects have the permissions of new ones.
MayUpdate(u, p) == u.admin \/ p.owner = u.id \/ p.group \in u.groups

Names == {p.name : p \in db.projects}

\* Project.create looks the group up by name, and NoResultFound leaves the import.
GroupUnknown(d) == \A g \in db.groups : g.name # d.group

NewProject(n, u, d) ==
    [name |-> n, owner |-> u.id, perms |-> Standard, by |-> u.name,
     group |-> (CHOOSE g \in db.groups : g.name = d.group).id]

ImportDirectory(d) ==
    /\ pc = "import" /\ d \in todo.dirs
    /\ \A j \in todo.jobs : j.dir \in todo.dirs
    /\ d.name \in Names \/ Importer = {} \/ ~GroupUnknown(d)
    /\ db' = [db EXCEPT !.projects = @ \cup
                 {NewProject(d.name, u, d) : u \in {v \in Importer : d.name \notin Names}}]
    /\ todo' = [todo EXCEPT !.dirs = @ \ {d}]
    /\ UNCHANGED <<disk, old, file, waiting, pc, call, user, missed, calls>>

\* Variant the runs refute: a project without a directory of its own is not created.
NoMissing(j) == {}

Missing(j) == j.lists \ Names

\* Variant the runs refute: a job that is there is entered once more.
AcceptedAgain(j, u, projects) ==
    LET listed == {p \in projects : p.name \in j.lists}
    IN  /\ listed # {}
        /\ \A p \in listed : MayUpdate(u, p)

\* Job.create, with the projects known by then, made for u.
Accepted(j, u, projects) ==
    LET listed == {p \in projects : p.name \in j.lists}
    IN  /\ listed # {}
        /\ \A p \in listed : MayUpdate(u, p)
        /\ j.holds # "no flowchart"
        /\ \A k \in db.jobs : k.id # j.id

NewJob(j, u) ==
    [id |-> j.id, owner |-> u.id, perms |-> Standard, by |-> u.name,
     early |-> pc = "accounts", late |-> FALSE]

\* The job in hand, once the project of its directory is done.
InHand(j) ==
    /\ pc = "import" /\ j \in todo.jobs /\ j.dir \notin todo.dirs
    /\ todo' = [todo EXCEPT !.jobs = @ \ {j}]
    /\ UNCHANGED <<disk, old, file, waiting, pc, call, user, calls>>

\* Its data are there; the projects it lists are made first, in the group of the
\* directory it is in.
Made(j) == {NewProject(n, u, j.dir) : n \in Missing(j), u \in Importer}

Listable(j) ==
    /\ j.holds # "no data"
    /\ Missing(j) = {} \/ Importer = {} \/ ~GroupUnknown(j.dir)

\* A job that Job.create refuses is passed over.
ImportJob(j) ==
    /\ InHand(j)
    /\ Listable(j)
    /\ db' = [db EXCEPT
                !.projects = @ \cup Made(j),
                !.jobs = @ \cup {NewJob(j, u) :
                    u \in {v \in Importer : Accepted(j, v, db.projects \cup Made(j))}}]
    /\ UNCHANGED missed

\* So is one whose data cannot be read, and one at which the database was locked, by a
\* job that registers itself: its projects have been made by then.
SkipJob(j) ==
    /\ InHand(j)
    /\ \/ j.holds = "no data" /\ UNCHANGED <<db, missed>>
       \/ /\ Listable(j)
          /\ db' = [db EXCEPT !.projects = @ \cup Made(j)]
          /\ missed' = missed \cup {j}

EndImport ==
    /\ pc = "import" /\ todo = NoDirectories
    /\ pc' = IF call.keep THEN "restore" ELSE "returned"
    /\ UNCHANGED <<disk, old, file, db, waiting, call, user, todo, missed, calls>>

\* The row of a project, or a job, with the details of o.
Detailed(p, o) == [p EXCEPT !.owner = o.owner, !.group = o.group, !.perms = o.perms]
JobDetailed(j, o) == [j EXCEPT !.owner = o.owner, !.perms = o.perms]

RestoredProjects ==
    {p \in db.projects : \A o \in old.projects : o.name # p.name} \cup
    {Detailed(x[1], x[2]) : x \in
        {y \in db.projects \X old.projects : y[1].name = y[2].name}}

\* Variant the runs refute: the rows that the update does not match are lost.
MatchedJobs ==
    {JobDetailed(x[1], x[2]) : x \in {y \in db.jobs \X old.jobs : y[1].id = y[2].id}}

RestoredJobs ==
    {k \in db.jobs : \A o \in old.jobs : o.id # k.id} \cup
    {JobDetailed(x[1], x[2]) : x \in {y \in db.jobs \X old.jobs : y[1].id = y[2].id}}

\* Variant the runs refute: special permissions are left behind.
NoSpecials == {}

KeptSpecials == {s \in old.specials : s.project \in Names}

\* One transaction: projects are matched by name, jobs by id.
Restore ==
    /\ pc = "restore"
    /\ db' = [db EXCEPT !.projects = RestoredProjects, !.jobs = RestoredJobs,
                        !.specials = @ \cup KeptSpecials]
    /\ pc' = "returned"
    /\ UNCHANGED <<disk, old, file, waiting, call, user, todo, missed, calls>>

\* An exception at any step, or the death of the process: the file stays.
Fail ==
    /\ pc \in Running
    /\ pc' = "raised"
    /\ todo' = NoDirectories
    /\ UNCHANGED <<disk, old, file, db, waiting, call, user, missed, calls>>

-----------------------------------------------------------------------------
(* What goes on around it                                                  *)

\* Job.create of a job that runs and registers itself, for one of the users there are
\* in the new file: from now on the new row has the id the account has now.
LookUpAccount(j, u) ==
    /\ pc \in Running \ {"initialize"}
    /\ \A w \in waiting : w.id # j.id
    /\ Accepted(j, u, db.projects)
    /\ waiting' = waiting \cup {NewJob(j, u)}
    /\ UNCHANGED <<disk, old, file, db, pc, call, user, todo, missed, calls>>

\* Its commit, whenever it gets the lock, and also after the call has ended; it is
\* refused if the job has been imported meanwhile.
RegisterItself(w) ==
    /\ waiting' = waiting \ {w}
    /\ db' = IF \E k \in db.jobs : k.id = w.id THEN db
             ELSE [db EXCEPT !.jobs = @ \cup {[w EXCEPT !.late = pc \notin Running]}]
    /\ UNCHANGED <<disk, old, file, pc, call, user, todo, missed, calls>>

\* The file is moved away before another attempt, and with it what jobs register there.
RemoveFile ==
    /\ pc \notin Running /\ file
    /\ file' = FALSE /\ db' = Nothing /\ waiting' = {}
    /\ UNCHANGED <<disk, old, pc, call, user, todo, missed, calls>>

Over == calls = MaxCalls /\ pc \notin Running /\ UNCHANGED vars

Build ==
    \/ Begin \/ Initialize \/ KeepAccounts \/ ChooseUser
    \/ (\E d \in disk.dirs : ImportDirectory(d))
    \/ (\E j \in disk.jobs : ImportJob(j) \/ SkipJob(j))
    \/ EndImport \/ Restore \/ Fail

Next ==
    \/ Build
    \/ \E j \in disk.jobs, u \in db.users : LookUpAccount(j, u)
    \/ \E w \in waiting : RegisterItself(w)
    \/ RemoveFile \/ Over

Spec == Init /\ [][Next]_vars

-----------------------------------------------------------------------------
(* Properties                                                              *)

\* The last call returned and its file is still there.
Returned == pc = "returned" /\ file

\* A call with keep_from that returned has the old accounts, and the projects and
\* jobs the old datastore knew are as they were there, also a job that registered
\* itself before the end of the call (rebuild.py:93-105, 121-153).
KeptAsOld ==
    Returned /\ call.keep =>
        /\ db.users = old.users /\ db.groups = old.groups
        /\ \A p \in db.projects : \A o \in old.projects :
              p.name = o.name => p = Detailed(p, o)
        /\ \A j \in db.jobs : \A o \in old.jobs :
              j.id = o.id => j.late \/ j = JobDetailed(j, o)
        /\ db.specials = {s \in old.specials : \E p \in db.projects : p.name = s.project}

OwnedByMaker(r) == \E u \in db.users : u.id = r.owner /\ u.name = r.by

\* Ids of accounts change their meaning when the accounts are exchanged.  A row the old
\* datastore did not know is owned by who made it all the same, save the default
\* project and jobs that had looked up their account before the exchange, whenever they
\* were entered, which may be anyone's or nobody's (rebuild.py:82-105, build.py:60).
OwnersAreTheirs ==
    Returned =>
        /\ \A p \in db.projects :
              \/ OwnedByMaker(p) \/ p.name = Default
              \/ call.keep /\ \E o \in old.projects : o.name = p.name
        /\ \A j \in db.jobs :
              \/ OwnedByMaker(j) \/ j.early
              \/ call.keep /\ \E o \in old.jobs : o.id = j.id

\* A call that returned has imported each job that can be read and lists a project,
\* unless it met a lock there, or the project is the default one and the user may not
\* update it, or the user has no account in the old datastore: then it may return having
\* imported nothing (rebuild.py:107-119, build.py:136-194).
ImportedForUser ==
    Returned =>
        \A j \in disk.jobs :
            \/ \E k \in db.jobs : k.id = j.id
            \/ j.holds # "job" \/ j.lists = {} \/ j \in missed \/ Importer = {}
            \/ Default \in j.lists /\ \A u \in Importer : ~u.admin

\* No job is lost while the file is there: what registers itself during a rebuild stays,
\* with the one who registered it (rebuild.py:96-103, 122-154).
RegisteredStay ==
    [][file /\ file' =>
         \A j \in db.jobs : \E k \in db'.jobs : k.id = j.id /\ k.by = j.by]_vars

=============================================================================
