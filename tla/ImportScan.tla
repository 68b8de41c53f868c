------------------------------- MODULE ImportScan -------------------------------
(***************************************************************************)
(* import_datastore(): the projects and jobs found in a directory are      *)
(* added to the datastore, one commit at a time.  The dashboard does this  *)
(* whenever it starts and build_from_jobs() once, so that scans follow     *)
(* each other, die half way, overlap, and meet jobs that register          *)
(* themselves and projects that are given another name or path.            *)
(*                                                                         *)
(* A step is one query or one commit with the Python code around it.  The  *)
(* statements of Job.create are the subject of JobRegistration: here it is *)
(* what JobRegistry promises of it, a commit of the flowchart and then one *)
(* of the job, each of which the database may refuse.                      *)
(***************************************************************************)
EXTENDS Naturals, FiniteSets

CONSTANTS Scan,     \* the processes that scan
          Name,     \* names of projects; <location>/<name> is the path of one
          NoPath,   \* path of a project that has none, such as "default", or another one
          JobDir,   \* directories with a job_data.json
          JobId,
          Digest,
          Bad,      \* a flowchart file that is missing, unreadable or refused
          None,
          Worlds,   \* the directories and the users considered
          ProjectId,  \* bound: the ids a new project may get
          Given,      \* bound: the names and paths an update may give
          MaxNames    \* bound: no update once that many names and paths have changed hands

\* What a job directory holds.  no list: job_data.json has null for "projects".
JobData == [folder : Name, file : {"readable", "unreadable", "no list"}, id : JobId,
            names : SUBSET Name, chart : Digest \cup {Bad}]

ProjectRow == [id : Nat \ {0}, path : Name \cup {NoPath}, name : Name]

\* folders: the directories at the location.  foreign: those whose group on disk is
\* no group of the datastore.  user: somebody is logged in.  old: the projects that
\* are there, closed those of them that the user may not update.
World == [folders : SUBSET Name, data : [JobDir -> JobData], foreign : SUBSET Name,
          user : BOOLEAN, old : SUBSET ProjectRow, closed : SUBSET (Nat \ {0})]

JobRow == [id : JobId, dir : JobDir, digest : Digest,
           projects : SUBSET (Nat \ {0}), by : Scan \cup {None}]

\* The unique columns of a project.  An id is that of one row: none is ever deleted.
Clash(p, q) == p.name = q.name \/ (p.path = q.path /\ p.path # NoPath)

ASSUME WorldAssumption ==
    /\ None \notin Scan \cup Name \cup JobDir
    /\ NoPath \notin Name /\ Bad \notin Digest
    /\ ProjectId \subseteq Nat \ {0} /\ Given \subseteq Name \cup {NoPath} /\ MaxNames \in Nat
    /\ Worlds \subseteq World
    /\ \A w \in Worlds : /\ \A p, q \in w.old : p.id = q.id \/ Clash(p, q) => p = q
                         /\ w.closed \subseteq {p.id : p \in w.old}

VARIABLES world,       \* chosen at first
          projects,    \* the committed rows
          flowcharts,
          jobs,
          renamed,     \* the names an update gave a project or took from it
          moved,       \* the paths an update gave a project
          scan         \* what each scan is doing

tables == <<projects, flowcharts, jobs>>
updates == <<renamed, moved>>
vars == <<world, tables, updates, scan>>

InProject == {"create project", "insert project", "listed"}
InJob == {"create job", "publish flowchart", "insert job"}
Running == {"folders", "jobs"} \cup InProject \cup InJob
Ended == {"not started", "returned", "aborted", "locked", "crashed"}

\* folder, job and want: the directories in hand and the project to create.
\* found: the projects of the job in hand.  added: the list `jobs`.  shown: the list
\* `project_names`.  missed: jobs that were skipped because the database was locked.
Scanner == [at : Running \cup Ended, unseen : SUBSET Name, unread : SUBSET JobDir,
            unchecked : SUBSET Name, folder : Name \cup {None},
            job : JobDir \cup {None}, want : Name \cup {None},
            found : SUBSET (Nat \ {0}), added : SUBSET JobDir,
            shown : SUBSET Name, missed : SUBSET JobDir]

TypeOK ==
    /\ world \in Worlds
    /\ projects \subseteq ProjectRow
    /\ flowcharts \subseteq Digest
    /\ jobs \subseteq JobRow
    /\ renamed \subseteq Name
    /\ moved \subseteq Name
    /\ scan \in [Scan -> Scanner]

Fresh == [at |-> "not started", unseen |-> {}, unread |-> {}, unchecked |-> {},
          folder |-> None, job |-> None, want |-> None, found |-> {},
          added |-> {}, shown |-> {}, missed |-> {}]

Init ==
    /\ world \in Worlds
    /\ projects = world.old
    /\ flowcharts = {}
    /\ jobs = {}
    /\ renamed = {}
    /\ moved = {p.path : p \in {q \in projects : q.path \notin {NoPath, q.name}}}
    /\ scan = [s \in Scan |-> Fresh]

Data(s) == world.data[scan[s].job]

Set(s, state) == scan' = [scan EXCEPT ![s] = state]

-----------------------------------------------------------------------------
(* Directories                                                             *)

\* Also when the one before has died or was aborted.
Begin(s) ==
    /\ scan[s].at \in Ended
    /\ Set(s, [Fresh EXCEPT !.at = "folders", !.unseen = world.folders])
    /\ UNCHANGED <<world, tables, updates>>

\* os.listdir() has no order.
NextFolder(s) ==
    /\ scan[s].at = "folders"
    /\ \E f \in scan[s].unseen :
          Set(s, [scan[s] EXCEPT !.at = "create project", !.want = f,
                                 !.folder = f, !.unseen = @ \ {f}])
    /\ UNCHANGED <<world, tables, updates>>

\* With the jobs in `added` and the projects whose names are in `shown`.
Return(s) ==
    /\ scan[s].at = "folders"
    /\ scan[s].unseen = {}
    /\ Set(s, [scan[s] EXCEPT !.at = "returned"])
    /\ UNCHANGED <<world, tables, updates>>

\* Unreadable job data are passed over.  The loop over the listed projects is outside
\* every try, and there is no loop over None.
NextJob(s) ==
    /\ scan[s].at = "jobs"
    /\ \/ /\ scan[s].unread = {}
          /\ Set(s, [scan[s] EXCEPT !.at = "folders", !.folder = None])
       \/ \E d \in scan[s].unread :
             LET rest == [scan[s] EXCEPT !.unread = @ \ {d}]
             IN  Set(s, CASE world.data[d].file = "unreadable" -> rest
                          [] world.data[d].file = "no list" -> [rest EXCEPT !.at = "aborted"]
                          [] world.data[d].file = "readable" ->
                               [rest EXCEPT !.at = "listed", !.job = d,
                                            !.unchecked = world.data[d].names])
    /\ UNCHANGED <<world, tables, updates>>

-----------------------------------------------------------------------------
(* Projects                                                                *)

\* Variant the runs refute: a name is checked again until its project is there.
ListedUntilThere(s) ==
    /\ scan[s].at = "listed"
    /\ \/ /\ scan[s].unchecked = {}
          /\ Set(s, [scan[s] EXCEPT !.at = "create job"])
       \/ \E n \in scan[s].unchecked :
             IF \E p \in projects : p.name = n
             THEN Set(s, [scan[s] EXCEPT !.unchecked = @ \ {n}])
             ELSE Set(s, [scan[s] EXCEPT !.at = "create project", !.want = n])
    /\ UNCHANGED <<world, tables, updates>>

\* Variant the runs refute: a job's projects are left as they are.
ListedAsIs(s) ==
    /\ scan[s].at = "listed"
    /\ Set(s, [scan[s] EXCEPT !.at = "create job", !.unchecked = {}])
    /\ UNCHANGED <<world, tables, updates>>

\* Each name a job lists gets its project.
NextListed(s) ==
    /\ scan[s].at = "listed"
    /\ \/ /\ scan[s].unchecked = {}
          /\ Set(s, [scan[s] EXCEPT !.at = "create job"])
       \/ \E n \in scan[s].unchecked :
             LET rest == [scan[s] EXCEPT !.unchecked = @ \ {n}]
             IN  Set(s, IF \E p \in projects : p.name = n THEN rest
                        ELSE [rest EXCEPT !.at = "create project", !.want = n])
    /\ UNCHANGED <<world, tables, updates>>

\* On with the jobs of the folder, or with the names the job lists.  A folder's project
\* is among the projects shown at the end in any case.
Onward(s) ==
    IF scan[s].job = None
    THEN [scan[s] EXCEPT !.at = "jobs", !.want = None, !.shown = @ \cup {scan[s].want},
             !.unread = {d \in JobDir : world.data[d].folder = scan[s].folder}]
    ELSE [scan[s] EXCEPT !.at = "listed", !.want = None]

\* Variant the runs refute: a folder whose project is there is passed over.
CreateProjectOrLeave(s) ==
    /\ scan[s].at = "create project"
    /\ Set(s, IF \E p \in projects : p.name = scan[s].want /\ scan[s].job = None
              THEN [scan[s] EXCEPT !.at = "folders", !.folder = None, !.want = None]
              ELSE [scan[s] EXCEPT !.at = "insert project"])
    /\ UNCHANGED <<world, tables, updates>>

\* Project.create: it raises ValueError, which is caught, for a name that is taken and
\* when nobody is logged in; it raises NoResultFound, which is not, for a group that the
\* datastore does not have.
CreateProject(s) ==
    /\ scan[s].at = "create project"
    /\ Set(s, IF ~world.user \/ \E p \in projects : p.name = scan[s].want THEN Onward(s)
              ELSE IF scan[s].folder \in world.foreign THEN [scan[s] EXCEPT !.at = "aborted"]
              ELSE [scan[s] EXCEPT !.at = "insert project"])
    /\ UNCHANGED <<world, tables, updates>>

\* The id SQLite gives a new row: one more than the largest in the table.
IsNextId(id) ==
    /\ \A p \in projects : p.id < id
    /\ id = 1 \/ \E p \in projects : p.id = id - 1

\* Variant the runs refute: a listed project gets the path of the folder.
InsertProjectHere(s) ==
    /\ scan[s].at = "insert project"
    /\ \E id \in ProjectId :
          LET row == [id |-> id, path |-> scan[s].folder, name |-> scan[s].want]
          IN  /\ IsNextId(id)
              /\ IF \E p \in projects : Clash(p, row)
                 THEN /\ Set(s, [scan[s] EXCEPT !.at = "aborted"])
                      /\ UNCHANGED projects
                 ELSE /\ Set(s, [Onward(s) EXCEPT !.shown = @ \cup {row.name}])
                      /\ projects' = projects \cup {row}
    /\ UNCHANGED <<world, flowcharts, jobs, updates>>

\* Columns name and path of a project are unique; the IntegrityError is not caught.
InsertProject(s) ==
    /\ scan[s].at = "insert project"
    /\ LET n == scan[s].want
       IN  \/ /\ \E p \in projects : p.name = n \/ p.path = n
              /\ Set(s, [scan[s] EXCEPT !.at = "aborted"])
              /\ UNCHANGED projects
           \/ /\ \A p \in projects : p.name # n /\ p.path # n
              /\ Set(s, [Onward(s) EXCEPT !.shown = @ \cup {n}])
              /\ \E id \in ProjectId :
                    /\ IsNextId(id)
                    /\ projects' = projects \cup {[id |-> id, path |-> n, name |-> n]}
    /\ UNCHANGED <<world, flowcharts, jobs, updates>>

-----------------------------------------------------------------------------
(* Jobs                                                                    *)

Known(d) == \E j \in jobs : j.id = world.data[d].id

\* Variant the runs refute: names without a project are not dropped.
ListedOrNone(d) ==
    {IF \E p \in projects : p.name = n THEN (CHOOSE p \in projects : p.name = n).id ELSE None :
        n \in world.data[d].names}

\* The projects there are of those the job in d lists.
Listed(d) == {p.id : p \in {q \in projects : q.name \in world.data[d].names}}

\* Variant the runs refute: a job that fails ends the loop over its folder.
LeaveFolder(s) == [scan[s] EXCEPT !.at = "folders", !.job = None, !.found = {},
                                  !.folder = None, !.unread = {}]

\* The job is not imported, the scan goes on.
SkipJob(s) == [scan[s] EXCEPT !.at = "jobs", !.job = None, !.found = {}]

\* Variant the runs refute: the flowchart is left to whoever has it too.
CreateJobAlone(s) ==
    /\ scan[s].at = "create job"
    /\ Set(s, IF Known(scan[s].job) \/ Listed(scan[s].job) = {} THEN SkipJob(s)
              ELSE [scan[s] EXCEPT !.found = Listed(scan[s].job), !.at = "insert job"])
    /\ UNCHANGED <<world, tables, updates>>

\* The checks of Job.create, and the lookup of its flowchart.
CreateJob(s) ==
    /\ scan[s].at = "create job"
    /\ LET found == Listed(scan[s].job)
       IN  Set(s, IF \/ Known(scan[s].job) \/ found = {} \/ ~world.user
                     \/ found \cap world.closed # {} \/ Data(s).chart = Bad
                  THEN SkipJob(s)
                  ELSE [scan[s] EXCEPT !.found = found,
                          !.at = IF Data(s).chart \in flowcharts THEN "insert job"
                                 ELSE "publish flowchart"])
    /\ UNCHANGED <<world, tables, updates>>

\* Somebody else may have been faster, and then theirs is used.
PublishFlowchart(s) ==
    /\ scan[s].at = "publish flowchart"
    /\ flowcharts' = flowcharts \cup {Data(s).chart}
    /\ Set(s, [scan[s] EXCEPT !.at = "insert job"])
    /\ UNCHANGED <<world, projects, jobs, updates>>

NewJob(s) == [id |-> Data(s).id, dir |-> scan[s].job, digest |-> Data(s).chart,
              projects |-> scan[s].found, by |-> s]

\* Variant the runs refute: the job is listed before its commit.
InsertListedJob(s) ==
    /\ scan[s].at = "insert job"
    /\ Set(s, [SkipJob(s) EXCEPT !.added = @ \cup {scan[s].job}])
    /\ jobs' = IF Known(scan[s].job) THEN jobs ELSE jobs \cup {NewJob(s)}
    /\ UNCHANGED <<world, projects, flowcharts, updates>>

\* An id that was taken meanwhile is an IntegrityError, which is caught.
InsertJob(s) ==
    /\ scan[s].at = "insert job"
    /\ IF Known(scan[s].job)
       THEN Set(s, SkipJob(s)) /\ UNCHANGED jobs
       ELSE /\ Set(s, [SkipJob(s) EXCEPT !.added = @ \cup {scan[s].job}])
            /\ jobs' = jobs \cup {NewJob(s)}
    /\ UNCHANGED <<world, projects, flowcharts, updates>>

\* "database is locked": within the try of a job it costs that job, elsewhere the scan.
Locked(s) ==
    /\ \/ /\ scan[s].at \in InJob
          /\ Set(s, [SkipJob(s) EXCEPT !.missed = @ \cup {scan[s].job}])
       \/ /\ \/ scan[s].at \in InProject
             \/ scan[s].at = "folders" /\ scan[s].unseen = {}
          /\ Set(s, [Fresh EXCEPT !.at = "locked"])
    /\ UNCHANGED <<world, tables, updates>>

Crash(s) ==
    /\ scan[s].at \in Running
    /\ Set(s, [Fresh EXCEPT !.at = "crashed"])
    /\ UNCHANGED <<world, tables, updates>>

-----------------------------------------------------------------------------
(* The others                                                              *)

\* Project.update(id, name = n, path = f), each of them only if it is given: the name
\* must be free, and the path too.  The path may be the default one of any folder.
Update(p, n, f) ==
    /\ Cardinality(renamed \cup moved) < MaxNames
    /\ LET row == [p EXCEPT !.name = n, !.path = f]
       IN  /\ \A q \in projects \ {p} : ~Clash(q, row)
           /\ projects' = (projects \ {p}) \cup {row}
    /\ renamed' = renamed \cup (IF n = p.name THEN {} ELSE {p.name, n})
    /\ moved' = moved \cup ({f} \ {p.path, NoPath})
    /\ UNCHANGED <<world, flowcharts, jobs, scan>>

\* The job that runs in d registers itself: its flowchart, then the job.
SelfRegister(d) ==
    /\ world.data[d].chart # Bad
    /\ ~Known(d)
    /\ \/ /\ flowcharts' = flowcharts \cup {world.data[d].chart}
          /\ UNCHANGED jobs
       \/ /\ world.data[d].chart \in flowcharts
          /\ Listed(d) # {}
          /\ jobs' = jobs \cup {[id |-> world.data[d].id, dir |-> d, by |-> None,
                                 digest |-> world.data[d].chart, projects |-> Listed(d)]}
          /\ UNCHANGED flowcharts
    /\ UNCHANGED <<world, projects, updates, scan>>

Step(s) ==
    \/ NextFolder(s) \/ Return(s) \/ NextJob(s) \/ NextListed(s)
    \/ CreateProject(s) \/ InsertProject(s)
    \/ CreateJob(s) \/ PublishFlowchart(s) \/ InsertJob(s)

Next ==
    \/ \E s \in Scan : Begin(s) \/ Step(s) \/ Locked(s) \/ Crash(s)
    \/ \E p \in projects :
          \E n \in (Given \ {NoPath}) \cup {p.name}, f \in Given \cup {p.path} : Update(p, n, f)
    \/ \E d \in JobDir : SelfRegister(d)

Spec == Init /\ [][Next]_vars

\* A scan that runs goes on; nothing makes one start, or die.
FairSpec == Spec /\ \A s \in Scan : WF_vars(Step(s))

-----------------------------------------------------------------------------
(* Properties                                                              *)

InScope(d) == world.data[d].folder \in world.folders

\* Nothing is wrong with the job: its data and flowchart can be read, it lists
\* projects, and the user may update those that exist.
Importable(d) ==
    /\ world.user
    /\ world.data[d].file = "readable"
    /\ world.data[d].names # {}
    /\ world.data[d].chart # Bad
    /\ \A p \in projects : p.name \in world.data[d].names => p.id \notin world.closed

\* A scan that returns leaves no folder without its project and no importable job out,
\* whatever died, overlapped or was refused before it, and whatever is wrong with other
\* jobs; but for jobs it met a lock at, and projects renamed meanwhile (build.py:179-188).
ScanMissesNothing ==
    \A s \in Scan : scan[s].at = "returned" /\ world.user =>
        /\ \A f \in world.folders \ renamed : \E p \in projects : p.name = f
        /\ \A d \in JobDir : InScope(d) /\ Importable(d) =>
              Known(d) \/ d \in scan[s].missed \/ world.data[d].names \cap renamed # {}

\* An imported job is in every project it lists, those without a directory included,
\* and stays in them; one is missing only if it was renamed (build.py:146-149).
JobKeepsItsProjects ==
    \A j \in jobs : j.by # None =>
        \A n \in world.data[j.dir].names \ renamed :
            \E p \in projects : p.name = n /\ p.id \in j.projects

\* What a scan reports as added it has itself stored, so that no job is reported by
\* two scans (build.py:189-194).
AddedAreStored ==
    \A s \in Scan : \A d \in scan[s].added :
        \E j \in jobs : j.dir = d /\ j.by = s /\ j.id = world.data[d].id

\* A scan stopped by a project it could not create, in a folder whose group is known,
\* will not be stopped there again: the project is there now, by another scan, unless
\* an update has given its name up or to another, or has given another its path, with
\* which every scan stops there (build.py:111-125, 150-163; models.py:933-950).
AbortHeals ==
    \A s \in Scan :
        scan[s].at = "aborted" /\ scan[s].want # None /\ scan[s].folder \notin world.foreign
            => scan[s].want \in renamed \cup moved \/ \E p \in projects : p.name = scan[s].want

\* A failure importing one job does not stop the rest from being imported
\* (HISTORY.rst:28-29): a scan is not aborted over a job, nor with jobs of a folder left.
JobStopsNothing ==
    \A s \in Scan : scan[s].at = "aborted" => scan[s].job = None /\ scan[s].unread = {}

\* Every scan ends: no name or job is gone through for ever.
ScanEnds == \A s \in Scan : scan[s].at \in Running ~> scan[s].at \in Ended

\* Scans and jobs that register themselves keep, together, the promises of JobRegistry.
Registry == INSTANCE JobRegistry WITH
    Null     <- Bad,
    library  <- {[id |-> g, digest |-> g] : g \in flowcharts},
    register <- {[job |-> j.id, flowchart |-> j.digest] : j \in jobs}

ImplementsRegistry == Registry!Spec

=============================================================================
