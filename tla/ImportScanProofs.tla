---------------------------- MODULE ImportScanProofs ----------------------------
(***************************************************************************)
(* Proofs that the safety properties of ImportScan hold for any number of  *)
(* scans, directories, projects and jobs, and of updates of projects.      *)
(***************************************************************************)
EXTENDS ImportScan, TLAPS

\* A scan's record is replaced by another one.
LEMMA SetScan ==
    ASSUME TypeOK, NEW s \in Scan, NEW r \in Scanner, Set(s, r)
    PROVE  /\ scan' \in [Scan -> Scanner]
           /\ scan'[s] = r
           /\ \A q \in Scan \ {s} : scan'[q] = scan[q]
BY DEF TypeOK, Set

-----------------------------------------------------------------------------
(* The inductive invariant                                                 *)

\* The directories and the project in hand are there when they are needed.
HandRight(r) ==
    /\ r.at \in {"listed"} \cup InJob => r.job \in JobDir
    /\ r.at \in {"create project", "insert project"} => r.want \in Name
    /\ r.want # None => r.at \in {"create project", "insert project", "aborted"}
    /\ r.at \in {"folders", "jobs"} => r.job = None

\* Past its checks a job has a flowchart, which is committed before the job.
ChartRight(r) ==
    /\ r.at \in {"publish flowchart", "insert job"} => world.data[r.job].chart \in Digest
    /\ r.at = "insert job" => world.data[r.job].chart \in flowcharts

There(n) == \E p \in projects : p.name = n

Covered(n, ids) == \E p \in projects : p.name = n /\ p.id \in ids

\* Of the names a job lists each is yet to be checked, or in hand, or has its project,
\* or has been renamed.
ListedRight(r) ==
    world.user /\ r.job # None /\ r.at \in InProject \cup {"create job"} =>
        \A n \in world.data[r.job].names \ renamed :
          \/ n \in r.unchecked /\ r.at # "create job"
          \/ n = r.want /\ r.at \in {"create project", "insert project"}
          \/ There(n)

\* The projects found cover the names.
FoundRight(r) ==
    r.at \in {"publish flowchart", "insert job"} =>
        \A n \in world.data[r.job].names \ renamed : Covered(n, r.found)

AbortRight(r) ==
    r.at = "aborted" /\ r.want # None /\ r.folder \notin world.foreign
        => r.want \in renamed \cup moved \/ There(r.want)

ScanRight(r) ==
    HandRight(r) /\ ChartRight(r) /\ ListedRight(r) /\ FoundRight(r) /\ AbortRight(r)

\* A project that is not named like its directory has been renamed, or moved there.
PathNames == \A p \in projects : p.path \in {NoPath, p.name} \cup renamed \cup moved

Inv ==
    /\ TypeOK
    /\ \A s \in Scan : ScanRight(scan[s])
    /\ PathNames /\ AddedAreStored /\ JobKeepsItsProjects

\* The worlds are of their type.
LEMMA WorldType ==
    ASSUME TypeOK
    PROVE  /\ world \in World
           /\ world.folders \subseteq Name
           /\ \A d \in JobDir : world.data[d] \in JobData
BY WorldAssumption DEF TypeOK, World

\* The invariant holds at first.
LEMMA InvInit == Init => Inv
<1> SUFFICES ASSUME Init PROVE Inv
  OBVIOUS
<1>1. world \in World /\ projects \subseteq ProjectRow
  BY WorldAssumption DEF Init, World
<1>2. Fresh \in Scanner
  BY DEF Fresh, Scanner, Ended
<1>3. renamed = {} /\ moved \subseteq Name
  BY <1>1 DEF Init, ProjectRow
<1>4. TypeOK
  BY <1>1, <1>2, <1>3 DEF Init, TypeOK
<1>5. ASSUME NEW s \in Scan PROVE scan[s] = Fresh
  BY DEF Init
<1>6. ASSUME NEW s \in Scan PROVE ScanRight(scan[s])
  <2>1. scan[s].at = "not started" /\ scan[s].want = None
    <3>1. Fresh.at = "not started" /\ Fresh.want = None
      BY DEF Fresh
    <3> QED
      BY <1>5, <3>1
  <2> QED
    BY <2>1 DEF ScanRight, HandRight, ChartRight, ListedRight, FoundRight, AbortRight,
                InJob, InProject
<1>7. PathNames
  <2> SUFFICES ASSUME NEW p \in projects, p.path \notin {NoPath, p.name} PROVE p.path \in moved
    BY DEF PathNames
  <2>1. p \in {q \in projects : q.path \notin {NoPath, q.name}}
    OBVIOUS
  <2> QED
    BY <2>1 DEF Init
<1>8. AddedAreStored /\ JobKeepsItsProjects
  BY <1>5 DEF Init, AddedAreStored, JobKeepsItsProjects, Fresh
<1> QED
  BY <1>4, <1>6, <1>7, <1>8 DEF Inv

-----------------------------------------------------------------------------
(* What one step does to the tables                                        *)

\* Nothing goes from the tables but the old name or path of a project: it is renamed or
\* keeps its name, and its id in any case.
Grows ==
    /\ UNCHANGED world
    /\ flowcharts \subseteq flowcharts' /\ jobs \subseteq jobs' /\ renamed \subseteq renamed'
    /\ moved \subseteq moved'
    /\ \A p \in projects : \/ p.name \in renamed'
                            \/ \E q \in projects' : q.id = p.id /\ q.name = p.name

\* Every step only adds.
LEMMA StepGrows == ASSUME TypeOK, [Next]_vars PROVE Grows
<1>1. ASSUME NEW s \in Scan, Begin(s) \/ Step(s) \/ Locked(s) \/ Crash(s) PROVE Grows
  BY <1>1 DEF Grows, Begin, Step, Locked, Crash, NextFolder, Return, NextJob, NextListed,
              CreateProject, InsertProject, CreateJob, PublishFlowchart, InsertJob, tables, updates
<1>2. ASSUME NEW p \in projects, NEW n, NEW f, p \in ProjectRow, Update(p, n, f) PROVE Grows
  <2> DEFINE row == [p EXCEPT !.name = n, !.path = f]
  <2>1. row \in projects' /\ row.id = p.id /\ row.name = n
    BY <1>2 DEF Update, ProjectRow
  <2>2. /\ UNCHANGED <<world, flowcharts, jobs>>
        /\ projects' = (projects \ {p}) \cup {row}
        /\ renamed' = renamed \cup (IF n = p.name THEN {} ELSE {p.name, n})
        /\ moved \subseteq moved'
    BY <1>2 DEF Update
  <2> HIDE DEF row
  <2>3. p.name \in renamed' \/ row.name = p.name
    BY <2>1, <2>2
  <2> QED
    BY <2>1, <2>2, <2>3 DEF Grows
<1>3. ASSUME NEW d \in JobDir, SelfRegister(d) PROVE Grows
  BY <1>3 DEF Grows, SelfRegister, updates
<1>4. ASSUME UNCHANGED vars PROVE Grows
  BY <1>4 DEF Grows, vars, tables, updates
<1> QED
  BY <1>1, <1>2, <1>3, <1>4 DEF Next, TypeOK

\* What was there under a name that has not changed hands is there.
LEMMA StaysThere ==
    ASSUME Grows, NEW n, n \notin renamed'
    PROVE  /\ There(n) => There(n)'
           /\ \A ids : Covered(n, ids) => \E p \in projects' : p.name = n /\ p.id \in ids
BY DEF Grows, There, Covered

\* A record that was right is right after the step.
LEMMA RightStays ==
    ASSUME Grows, NEW r, ScanRight(r)
    PROVE  ScanRight(r)'
<1>1. UNCHANGED world
  BY DEF Grows
<1>2. HandRight(r)' /\ ChartRight(r)'
  BY <1>1 DEF Grows, ScanRight, HandRight, ChartRight
<1>3. ListedRight(r)'
  BY <1>1, StaysThere DEF Grows, ScanRight, ListedRight
<1>4. FoundRight(r)'
  <2> SUFFICES ASSUME r.at \in {"publish flowchart", "insert job"},
                      NEW n \in world.data[r.job].names \ renamed'
               PROVE  \E p \in projects' : p.name = n /\ p.id \in r.found
    BY <1>1 DEF FoundRight, Covered
  <2>1. Covered(n, r.found)
    BY DEF ScanRight, FoundRight, Grows
  <2> QED
    BY <2>1, StaysThere
<1>5. AbortRight(r)'
  BY <1>1, StaysThere DEF Grows, ScanRight, AbortRight
<1> QED
  BY <1>2, <1>3, <1>4, <1>5 DEF ScanRight

-----------------------------------------------------------------------------
(* What each step does to the scan that takes it                           *)

\* A scan whose new record is right leaves all of them right.
LEMMA ScansRight ==
    ASSUME Inv, Grows, NEW s \in Scan, NEW r \in Scanner, Set(s, r), ScanRight(r)'
    PROVE  /\ scan' \in [Scan -> Scanner]
           /\ \A q \in Scan : ScanRight(scan[q])'
<1>1. /\ scan' \in [Scan -> Scanner]
      /\ scan'[s] = r
      /\ \A q \in Scan \ {s} : scan'[q] = scan[q]
  BY SetScan DEF Inv
<1>2. ASSUME NEW q \in Scan \ {s} PROVE ScanRight(scan[q])'
  <2> DEFINE t == scan[q]
  <2>1. ScanRight(t)
    BY DEF Inv
  <2> QED
    BY <1>1, <2>1, RightStays
<1> QED
  BY <1>1, <1>2

\* A step that leaves the tables alone and gives its scan a right record, in which no
\* job was added, keeps the invariant.
LEMMA QuietKeeps ==
    ASSUME Inv, UNCHANGED <<world, tables, updates>>, NEW s \in Scan, NEW r \in Scanner,
           Set(s, r), ScanRight(r), r.added \subseteq scan[s].added
    PROVE  Inv'
<1>1. Grows
  BY DEF Grows, tables, updates
<1>2. TypeOK' /\ \A q \in Scan : ScanRight(scan[q])'
  BY <1>1, RightStays, ScansRight DEF Inv, TypeOK, tables, updates
<1>3. PathNames'
  BY DEF Inv, PathNames, tables, updates
<1>4. AddedAreStored'
  BY SetScan DEF Inv, AddedAreStored, tables
<1>5. JobKeepsItsProjects'
  BY DEF Inv, JobKeepsItsProjects, tables, updates
<1> QED
  BY <1>2, <1>3, <1>4, <1>5 DEF Inv

\* A scan that has ended, or is between two folders, has nothing to get right.
LEMMA IdleRight ==
    ASSUME NEW r, r.at \in {"folders", "returned", "locked", "crashed"}, r.want = None,
           r.at = "folders" => r.job = None
    PROVE  ScanRight(r)
BY DEF ScanRight, HandRight, ChartRight, ListedRight, FoundRight, AbortRight, InJob, InProject

\* A scan that begins has nothing in hand.
LEMMA BeginKeeps == ASSUME Inv, NEW s \in Scan, Begin(s) PROVE Inv'
<1> DEFINE r == [Fresh EXCEPT !.at = "folders", !.unseen = world.folders]
<1>1. r \in Scanner
  BY WorldType DEF Inv, Fresh, Scanner, Running
<1>2. r.at = "folders" /\ r.want = None /\ r.job = None /\ r.added = {}
  BY DEF Fresh
<1>3. Set(s, r) /\ UNCHANGED <<world, tables, updates>>
  BY DEF Begin
<1> HIDE DEF r
<1> QED
  BY <1>1, <1>2, <1>3, IdleRight, QuietKeeps

\* Nor has one that dies, which leaves what it committed.
LEMMA CrashKeeps == ASSUME Inv, NEW s \in Scan, Crash(s) PROVE Inv'
<1> DEFINE r == [Fresh EXCEPT !.at = "crashed"]
<1>1. r \in Scanner
  BY DEF Fresh, Scanner, Ended
<1>2. r.at = "crashed" /\ r.want = None /\ r.added = {}
  BY DEF Fresh
<1>3. Set(s, r) /\ UNCHANGED <<world, tables, updates>>
  BY DEF Crash
<1> HIDE DEF r
<1> QED
  BY <1>1, <1>2, <1>3, IdleRight, QuietKeeps

\* A scan that returns keeps the list of what it added.
LEMMA ReturnKeeps == ASSUME Inv, NEW s \in Scan, Return(s) PROVE Inv'
<1> DEFINE r == [scan[s] EXCEPT !.at = "returned"]
<1>1. scan[s] \in Scanner /\ scan[s].want = None
  BY DEF Inv, TypeOK, ScanRight, HandRight, Return
<1>2. r \in Scanner /\ r.at = "returned" /\ r.want = None /\ r.added = scan[s].added
  BY <1>1 DEF Scanner, Ended
<1>3. Set(s, r) /\ UNCHANGED <<world, tables, updates>>
  BY DEF Return
<1> HIDE DEF r
<1> QED
  BY <1>2, <1>3, IdleRight, QuietKeeps

\* The project in hand is the folder's.
LEMMA NextFolderKeeps == ASSUME Inv, NEW s \in Scan, NextFolder(s) PROVE Inv'
<1>1. PICK f \in scan[s].unseen :
         Set(s, [scan[s] EXCEPT !.at = "create project", !.want = f,
                                !.folder = f, !.unseen = @ \ {f}])
  BY DEF NextFolder
<1> DEFINE r == [scan[s] EXCEPT !.at = "create project", !.want = f,
                                !.folder = f, !.unseen = @ \ {f}]
<1>2. scan[s] \in Scanner /\ f \in Name
  BY DEF Inv, TypeOK, Scanner
<1>3. /\ r \in Scanner /\ r.at = "create project" /\ r.want = f /\ r.folder = f
      /\ r.job = scan[s].job /\ r.added = scan[s].added
  BY <1>2 DEF Scanner, Running, InProject
<1>4. UNCHANGED <<world, tables, updates>>
  BY DEF NextFolder
<1> HIDE DEF r
<1>5. scan[s].job = None
  BY DEF Inv, ScanRight, HandRight, NextFolder
<1>6. ScanRight(r)
  BY <1>2, <1>3, <1>5 DEF ScanRight, HandRight, ChartRight, ListedRight, FoundRight,
                          AbortRight, InJob
<1> QED
  BY <1>1, <1>3, <1>4, <1>6, QuietKeeps DEF r

\* All names of the next job are yet to be checked, and no job is in hand when the
\* folder is done or the scan is aborted.
LEMMA NextJobKeeps == ASSUME Inv, NEW s \in Scan, NextJob(s) PROVE Inv'
<1>1. /\ scan[s] \in Scanner /\ scan[s].at = "jobs"
      /\ scan[s].job = None /\ scan[s].want = None
  BY DEF Inv, TypeOK, ScanRight, HandRight, NextJob
<1>2. UNCHANGED <<world, tables, updates>>
  BY DEF NextJob
<1>3. CASE scan[s].unread = {}
  <2> DEFINE r == [scan[s] EXCEPT !.at = "folders", !.folder = None]
  <2>1. r \in Scanner /\ r.at = "folders" /\ r.want = None /\ r.job = None /\ r.added = scan[s].added
    BY <1>1 DEF Scanner, Running
  <2>2. Set(s, r)
    BY <1>3 DEF NextJob
  <2> HIDE DEF r
  <2> QED
    BY <1>2, <2>1, <2>2, IdleRight, QuietKeeps
<1>4. CASE scan[s].unread # {}
  <2>1. PICK d \in scan[s].unread :
           Set(s, CASE world.data[d].file = "unreadable" -> [scan[s] EXCEPT !.unread = @ \ {d}]
                    [] world.data[d].file = "no list" ->
                         [[scan[s] EXCEPT !.unread = @ \ {d}] EXCEPT !.at = "aborted"]
                    [] world.data[d].file = "readable" ->
                         [[scan[s] EXCEPT !.unread = @ \ {d}]
                            EXCEPT !.at = "listed", !.job = d, !.unchecked = world.data[d].names])
    BY <1>4 DEF NextJob
  <2> DEFINE rest == [scan[s] EXCEPT !.unread = @ \ {d}]
  <2>2. d \in JobDir /\ world.data[d].names \subseteq Name
    BY <1>1, WorldType DEF Inv, Scanner, JobData
  <2>3. /\ rest \in Scanner /\ rest.at = "jobs" /\ rest.job = None /\ rest.want = None
        /\ rest.added = scan[s].added
    BY <1>1 DEF Scanner
  <2>4. world.data[d].file \in {"unreadable", "no list", "readable"}
    BY <2>2, WorldType DEF Inv, JobData
  <2>5. CASE world.data[d].file = "unreadable"
    <3>1. Set(s, rest)
      BY <2>1, <2>5
    <3>2. ScanRight(rest)
      BY <2>3 DEF ScanRight, HandRight, ChartRight, ListedRight, FoundRight, AbortRight, InJob
    <3> QED
      BY <1>2, <2>3, <3>1, <3>2, QuietKeeps
  <2>6. CASE world.data[d].file = "no list"
    <3> DEFINE r == [rest EXCEPT !.at = "aborted"]
    <3>1. r \in Scanner /\ r.at = "aborted" /\ r.want = None /\ r.added = scan[s].added
      BY <2>3 DEF Scanner, Ended
    <3>2. Set(s, r)
      BY <2>1, <2>6
    <3> HIDE DEF r
    <3>3. ScanRight(r)
      BY <3>1 DEF ScanRight, HandRight, ChartRight, ListedRight, FoundRight, AbortRight,
                  InJob, InProject
    <3> QED
      BY <1>2, <3>1, <3>2, <3>3, QuietKeeps
  <2>7. CASE world.data[d].file = "readable"
    <3> DEFINE r == [rest EXCEPT !.at = "listed", !.job = d, !.unchecked = world.data[d].names]
    <3>1. /\ r \in Scanner /\ r.at = "listed" /\ r.want = None /\ r.added = scan[s].added
          /\ r.job = d /\ r.unchecked = world.data[d].names
      BY <2>2, <2>3 DEF Scanner, Running, InProject
    <3>2. Set(s, r)
      BY <2>1, <2>7
    <3> HIDE DEF r
    <3>3. ScanRight(r)
      BY <2>2, <3>1 DEF ScanRight, HandRight, ChartRight, ListedRight, FoundRight, AbortRight
    <3> QED
      BY <1>2, <3>1, <3>2, <3>3, QuietKeeps
  <2> QED
    BY <2>4, <2>5, <2>6, <2>7
<1> QED
  BY <1>3, <1>4

\* A name that is taken from the list has its project or is in hand.
LEMMA NextListedKeeps == ASSUME Inv, NEW s \in Scan, NextListed(s) PROVE Inv'
<1>1. /\ scan[s] \in Scanner /\ scan[s].at = "listed"
      /\ scan[s].job \in JobDir /\ scan[s].want = None /\ ListedRight(scan[s])
  BY DEF Inv, TypeOK, ScanRight, HandRight, NextListed
<1>2. UNCHANGED <<world, tables, updates>>
  BY DEF NextListed
<1>3. CASE scan[s].unchecked = {}
  <2> DEFINE r == [scan[s] EXCEPT !.at = "create job"]
  <2>1. /\ r \in Scanner /\ r.at = "create job" /\ r.want = None /\ r.job = scan[s].job
        /\ r.added = scan[s].added
    BY <1>1 DEF Scanner, Running, InJob
  <2>2. Set(s, r)
    BY <1>3 DEF NextListed
  <2> HIDE DEF r
  <2>3. ListedRight(r)
    BY <1>1, <1>3, <2>1 DEF ListedRight, InProject
  <2>4. ScanRight(r)
    BY <1>1, <2>1, <2>3 DEF ScanRight, HandRight, ChartRight, FoundRight, AbortRight
  <2> QED
    BY <1>2, <2>1, <2>2, <2>4, QuietKeeps
<1>4. CASE scan[s].unchecked # {}
  <2>1. PICK n \in scan[s].unchecked :
           Set(s, IF There(n) THEN [scan[s] EXCEPT !.unchecked = @ \ {n}]
                  ELSE [[scan[s] EXCEPT !.unchecked = @ \ {n}]
                          EXCEPT !.at = "create project", !.want = n])
    BY <1>4 DEF NextListed, There
  <2> DEFINE rest == [scan[s] EXCEPT !.unchecked = @ \ {n}]
             r == [rest EXCEPT !.at = "create project", !.want = n]
  <2>2. /\ rest \in Scanner /\ rest.at = "listed" /\ rest.want = None
        /\ rest.job = scan[s].job /\ rest.added = scan[s].added
        /\ rest.unchecked = scan[s].unchecked \ {n}
    BY <1>1 DEF Scanner
  <2>3. n \in Name
    BY <1>1 DEF Scanner
  <2>4. CASE There(n)
    <3>1. ListedRight(rest)
      BY <1>1, <2>2, <2>4 DEF ListedRight
    <3>2. ScanRight(rest)
      BY <1>1, <2>2, <3>1 DEF ScanRight, HandRight, ChartRight, FoundRight, AbortRight
    <3> QED
      BY <1>2, <2>1, <2>2, <2>4, <3>2, QuietKeeps
  <2>5. CASE ~There(n)
    <3> HIDE DEF rest
    <3>1. /\ r \in Scanner /\ r.at = "create project" /\ r.want = n
          /\ r.job = scan[s].job /\ r.added = scan[s].added
          /\ r.unchecked = scan[s].unchecked \ {n}
      BY <2>2, <2>3 DEF Scanner, Running, InProject
    <3>2. Set(s, r)
      BY <2>1, <2>5 DEF rest
    <3> HIDE DEF r
    <3>3. ListedRight(r)
      BY <1>1, <3>1 DEF ListedRight, InProject
    <3>4. ScanRight(r)
      BY <1>1, <2>3, <3>1, <3>3 DEF ScanRight, HandRight, ChartRight, FoundRight, AbortRight, InJob
    <3> QED
      BY <1>2, <3>1, <3>2, <3>4, QuietKeeps
  <2> QED
    BY <2>4, <2>5
<1> QED
  BY <1>3, <1>4

\* The record a scan goes on with once it is done with a project is one of its kind.
LEMMA OnwardType ==
    ASSUME TypeOK, NEW s \in Scan,
           scan[s].at \in {"create project", "insert project"}, scan[s].want \in Name
    PROVE  /\ Onward(s) \in Scanner
           /\ Onward(s).want = None
           /\ Onward(s).added = scan[s].added
           /\ Onward(s).job = scan[s].job
           /\ scan[s].job = None => Onward(s).at = "jobs"
           /\ scan[s].job # None => /\ Onward(s).at = "listed"
                                    /\ Onward(s).unchecked = scan[s].unchecked
<1>1. scan[s] \in Scanner
  BY DEF TypeOK
<1>2. CASE scan[s].job = None
  <2> DEFINE jobsHere == {d \in JobDir : world.data[d].folder = scan[s].folder}
             shownNow == scan[s].shown \cup {scan[s].want}
  <2>1. jobsHere \subseteq JobDir /\ shownNow \subseteq Name
    BY <1>1 DEF Scanner
  <2>2. Onward(s) = [scan[s] EXCEPT !.at = "jobs", !.want = None, !.shown = shownNow,
                                    !.unread = jobsHere]
    BY <1>2 DEF Onward
  <2> HIDE DEF jobsHere, shownNow
  <2>3. Onward(s) \in Scanner
    BY <1>1, <2>1, <2>2 DEF Scanner, Running
  <2>4. /\ Onward(s).want = None /\ Onward(s).at = "jobs"
        /\ Onward(s).added = scan[s].added /\ Onward(s).job = scan[s].job
    BY <1>1, <2>2 DEF Scanner
  <2> QED
    BY <1>2, <2>3, <2>4
<1>3. CASE scan[s].job # None
  <2>1. Onward(s) = [scan[s] EXCEPT !.at = "listed", !.want = None]
    BY <1>3 DEF Onward
  <2> QED
    BY <1>1, <1>3, <2>1 DEF Scanner, Running, InProject
<1> QED
  BY <1>2, <1>3

\* A scan that is done with a project, or with trying, has every name the job lists
\* accounted for if the project is there.
LEMMA OnwardRight ==
    ASSUME Inv, Grows, NEW s \in Scan, scan[s].at \in {"create project", "insert project"},
           NEW r \in Scanner, r.want = None, r.job = scan[s].job,
           scan[s].job = None => r.at = "jobs",
           scan[s].job # None => r.at = "listed" /\ r.unchecked = scan[s].unchecked,
           world.user => \E p \in projects' : p.name = scan[s].want
    PROVE  ScanRight(r)'
<1>1. UNCHANGED world /\ renamed \subseteq renamed'
  BY DEF Grows
<1>2. r.job = None \/ r.job \in JobDir
  BY DEF Scanner
<1>3. ListedRight(r)'
  <2> SUFFICES ASSUME world.user, r.at = "listed", r.job # None,
                      NEW n \in world.data[r.job].names \ renamed'
               PROVE  n \in r.unchecked \/ \E p \in projects' : p.name = n
    BY <1>1 DEF ListedRight, There, InProject
  <2>1. n \in scan[s].unchecked \/ n = scan[s].want \/ There(n)
    BY <1>1 DEF Inv, ScanRight, ListedRight, InProject
  <2>2. There(n) => \E p \in projects' : p.name = n
    BY StaysThere DEF There
  <2> QED
    BY <2>1, <2>2
<1> QED
  BY <1>1, <1>2, <1>3 DEF ScanRight, HandRight, ChartRight, FoundRight, AbortRight, InJob

\* A project is not created if there is one of the name, if the scan is aborted over the
\* group of the folder, or if nobody is logged in, and then no job is created either.
LEMMA CreateProjectKeeps == ASSUME Inv, NEW s \in Scan, CreateProject(s) PROVE Inv'
<1>1. /\ scan[s] \in Scanner /\ scan[s].at = "create project" /\ scan[s].want \in Name
      /\ ScanRight(scan[s])
  BY DEF Inv, TypeOK, ScanRight, HandRight, CreateProject
<1>2. UNCHANGED <<world, tables, updates>>
  BY DEF CreateProject
<1>3. CASE ~world.user \/ There(scan[s].want)
  <2> DEFINE r == Onward(s)
  <2>1. Set(s, r)
    BY <1>3 DEF CreateProject, There
  <2>2. /\ r \in Scanner /\ r.want = None /\ r.added = scan[s].added /\ r.job = scan[s].job
        /\ scan[s].job = None => r.at = "jobs"
        /\ scan[s].job # None => r.at = "listed" /\ r.unchecked = scan[s].unchecked
    BY <1>1, OnwardType DEF Inv
  <2> HIDE DEF r
  <2>3. ListedRight(r)
    <3> SUFFICES ASSUME world.user, r.at = "listed", r.job # None,
                        NEW n \in world.data[r.job].names \ renamed
                 PROVE  n \in r.unchecked \/ There(n)
      BY <2>2 DEF ListedRight, InProject
    <3> QED
      BY <1>1, <1>3, <2>2 DEF ScanRight, ListedRight, InProject
  <2>4. r.job = None \/ r.job \in JobDir
    BY <2>2 DEF Scanner
  <2>5. ScanRight(r)
    BY <2>2, <2>3, <2>4 DEF ScanRight, HandRight, ChartRight, FoundRight, AbortRight, InJob
  <2> QED
    BY <1>2, <2>1, <2>2, <2>5, QuietKeeps
<1>4. CASE world.user /\ ~There(scan[s].want) /\ scan[s].folder \in world.foreign
  <2> DEFINE r == [scan[s] EXCEPT !.at = "aborted"]
  <2>1. Set(s, r)
    BY <1>4 DEF CreateProject, There
  <2>2. r \in Scanner /\ r.at = "aborted" /\ r.folder = scan[s].folder /\ r.added = scan[s].added
    BY <1>1 DEF Scanner, Ended
  <2> HIDE DEF r
  <2>3. ScanRight(r)
    BY <1>4, <2>2 DEF ScanRight, HandRight, ChartRight, ListedRight, FoundRight, AbortRight,
                      InJob, InProject
  <2> QED
    BY <1>2, <2>1, <2>2, <2>3, QuietKeeps
<1>5. CASE world.user /\ ~There(scan[s].want) /\ scan[s].folder \notin world.foreign
  <2> DEFINE r == [scan[s] EXCEPT !.at = "insert project"]
  <2>1. Set(s, r)
    BY <1>5 DEF CreateProject, There
  <2>2. /\ r \in Scanner /\ r.at = "insert project" /\ r.want = scan[s].want
        /\ r.job = scan[s].job /\ r.unchecked = scan[s].unchecked /\ r.added = scan[s].added
    BY <1>1 DEF Scanner, Running, InProject
  <2> HIDE DEF r
  <2>3. ListedRight(r)
    BY <1>1, <2>2 DEF ScanRight, ListedRight, InProject
  <2>4. ScanRight(r)
    BY <1>1, <2>2, <2>3 DEF ScanRight, HandRight, ChartRight, FoundRight, AbortRight, InJob
  <2> QED
    BY <1>2, <2>1, <2>2, <2>4, QuietKeeps
<1> QED
  BY <1>3, <1>4, <1>5

\* A step that grows the tables keeps a job in the projects it was in.
LEMMA ProjectsStay ==
    ASSUME Grows, JobKeepsItsProjects, UNCHANGED jobs
    PROVE  JobKeepsItsProjects'
<1> SUFFICES ASSUME NEW j \in jobs, j.by # None, NEW n \in world.data[j.dir].names \ renamed'
             PROVE  \E p \in projects' : p.name = n /\ p.id \in j.projects
  BY DEF Grows, JobKeepsItsProjects
<1>1. Covered(n, j.projects)
  BY DEF Grows, JobKeepsItsProjects, Covered
<1> QED
  BY <1>1, StaysThere

\* Without a new job, and with no more added, what was added is stored.
LEMMA AddedStayStored ==
    ASSUME Inv, UNCHANGED <<world, jobs>>, NEW s \in Scan, NEW r \in Scanner, Set(s, r),
           r.added \subseteq scan[s].added
    PROVE  AddedAreStored'
BY SetScan DEF Inv, AddedAreStored

\* The commit of a project is refused if its name or path is taken: by a project of the
\* name, or by one of the path that was renamed or moved there.
LEMMA InsertProjectKeeps == ASSUME Inv, NEW s \in Scan, InsertProject(s) PROVE Inv'
<1>1. /\ scan[s] \in Scanner /\ scan[s].at = "insert project" /\ scan[s].want \in Name
      /\ ScanRight(scan[s])
  BY DEF Inv, TypeOK, ScanRight, HandRight, InsertProject
<1> DEFINE n == scan[s].want
<1>2. UNCHANGED <<world, flowcharts, jobs, renamed, moved>>
  BY DEF InsertProject, updates
<1>3. CASE \E p \in projects : p.name = n \/ p.path = n
  <2> DEFINE r == [scan[s] EXCEPT !.at = "aborted"]
  <2>1. Set(s, r) /\ UNCHANGED <<world, tables, updates>>
    BY <1>2, <1>3 DEF InsertProject, tables, updates
  <2>2. /\ r \in Scanner /\ r.at = "aborted" /\ r.want = scan[s].want
        /\ r.added = scan[s].added
    BY <1>1 DEF Scanner, Ended
  <2>3. n \in renamed \cup moved \/ There(n)
    BY <1>1, <1>3, WorldAssumption DEF Inv, PathNames, There
  <2> HIDE DEF r
  <2>4. ScanRight(r)
    BY <2>2, <2>3 DEF ScanRight, HandRight, ChartRight, ListedRight, FoundRight, AbortRight,
                      InJob, InProject
  <2> QED
    BY <2>1, <2>2, <2>4, QuietKeeps
<1>4. CASE ~ \E p \in projects : p.name = n \/ p.path = n
  <2>0. PICK id \in ProjectId : projects' = projects \cup {[id |-> id, path |-> n, name |-> n]}
    BY <1>4 DEF InsertProject
  <2> DEFINE row == [id |-> id, path |-> n, name |-> n]
  <2>1. PICK r : r = [Onward(s) EXCEPT !.shown = @ \cup {n}]
    OBVIOUS
  <2>2. Set(s, r) /\ projects' = projects \cup {row}
    BY <1>4, <2>0, <2>1 DEF InsertProject
  <2>3. /\ Onward(s) \in Scanner /\ Onward(s).want = None
        /\ Onward(s).added = scan[s].added /\ Onward(s).job = scan[s].job
        /\ scan[s].job = None => Onward(s).at = "jobs"
        /\ scan[s].job # None => Onward(s).at = "listed" /\ Onward(s).unchecked = scan[s].unchecked
    BY <1>1, OnwardType DEF Inv
  <2>4. /\ r \in Scanner /\ r.want = None /\ r.added = scan[s].added /\ r.job = scan[s].job
        /\ scan[s].job = None => r.at = "jobs"
        /\ scan[s].job # None => r.at = "listed" /\ r.unchecked = scan[s].unchecked
    BY <1>1, <2>1, <2>3 DEF Scanner
  <2>5. row \in ProjectRow /\ row.path = n /\ row.name = n
    BY <1>1, WorldAssumption DEF ProjectRow
  <2>6. Grows
    BY <1>2, <2>2 DEF Grows
  <2>7. ScanRight(r)'
    BY <1>1, <2>2, <2>4, <2>5, <2>6, OnwardRight
  <2>8. TypeOK' /\ \A q \in Scan : ScanRight(scan[q])'
    BY <1>2, <2>2, <2>4, <2>5, <2>6, <2>7, ScansRight DEF Inv, TypeOK
  <2>9. PathNames'
    BY <1>2, <2>2, <2>5 DEF Inv, PathNames
  <2>10. AddedAreStored' /\ JobKeepsItsProjects'
    BY <1>2, <2>2, <2>4, <2>6, AddedStayStored, ProjectsStay DEF Inv
  <2> QED
    BY <2>8, <2>9, <2>10 DEF Inv
<1> QED
  BY <1>3, <1>4

-----------------------------------------------------------------------------
(* The steps of a job                                                      *)

\* A job that is not imported leaves nothing in hand.
LEMMA SkipRight ==
    ASSUME NEW s \in Scan, scan[s] \in Scanner, HandRight(scan[s]), scan[s].at \in InJob
    PROVE  /\ SkipJob(s) \in Scanner
           /\ SkipJob(s).added = scan[s].added
           /\ ScanRight(SkipJob(s))
<1>1. scan[s].want = None
  BY DEF HandRight, InJob
<1> DEFINE r == SkipJob(s)
<1>2. /\ r \in Scanner /\ r.at = "jobs" /\ r.job = None /\ r.want = None
      /\ r.added = scan[s].added
  BY <1>1 DEF SkipJob, Scanner, Running
<1> HIDE DEF r
<1>3. ScanRight(r)
  BY <1>2 DEF ScanRight, HandRight, ChartRight, ListedRight, FoundRight, AbortRight,
              InJob, InProject
<1> QED
  BY <1>2, <1>3 DEF r

\* The projects found are those of the names, since each of these has its project.
LEMMA CreateJobKeeps == ASSUME Inv, NEW s \in Scan, CreateJob(s) PROVE Inv'
<1>1. /\ scan[s] \in Scanner /\ scan[s].at = "create job"
      /\ scan[s].job \in JobDir /\ scan[s].want = None /\ ScanRight(scan[s])
      /\ HandRight(scan[s]) /\ scan[s].at \in InJob
  BY DEF Inv, TypeOK, ScanRight, HandRight, CreateJob, InJob
<1>2. UNCHANGED <<world, tables, updates>>
  BY DEF CreateJob
<1> DEFINE found == Listed(scan[s].job)
           bad == \/ Known(scan[s].job) \/ found = {} \/ ~world.user
                  \/ found \cap world.closed # {} \/ Data(s).chart = Bad
<1>3. CASE bad
  <2>1. Set(s, SkipJob(s))
    BY <1>3 DEF CreateJob
  <2> QED
    BY <1>1, <1>2, <2>1, SkipRight, QuietKeeps
<1>4. CASE ~bad
  <2> DEFINE next == IF Data(s).chart \in flowcharts THEN "insert job" ELSE "publish flowchart"
             r == [scan[s] EXCEPT !.found = found, !.at = next]
  <2>1. Set(s, r)
    BY <1>4 DEF CreateJob
  <2>2. found \subseteq Nat \ {0}
    BY DEF Inv, TypeOK, Listed, ProjectRow
  <2>3. world.user /\ Data(s).chart \in Digest
    BY <1>1, <1>4, WorldType DEF Inv, Data, JobData
  <2>4. \A n \in world.data[scan[s].job].names \ renamed : Covered(n, found)
    <3> SUFFICES ASSUME NEW n \in world.data[scan[s].job].names \ renamed
                 PROVE  Covered(n, found)
      OBVIOUS
    <3>1. There(n)
      BY <1>1, <2>3, WorldAssumption DEF ScanRight, ListedRight, InProject
    <3> QED
      BY <3>1 DEF There, Covered, Listed
  <2> HIDE DEF found, bad
  <2>5. next \in {"insert job", "publish flowchart"}
    OBVIOUS
  <2>6. /\ r \in Scanner /\ r.at = next /\ r.want = None /\ r.job = scan[s].job
        /\ r.found = found /\ r.added = scan[s].added
    BY <1>1, <2>2, <2>5 DEF Scanner, Running, InJob
  <2> HIDE DEF r
  <2>7. ChartRight(r)
    BY <2>3, <2>5, <2>6 DEF ChartRight, Data
  <2>8. ScanRight(r)
    BY <1>1, <2>4, <2>5, <2>6, <2>7
       DEF ScanRight, HandRight, ListedRight, FoundRight, AbortRight, InProject
  <2> QED
    BY <1>2, <2>1, <2>6, <2>8, QuietKeeps
<1> QED
  BY <1>3, <1>4

\* The flowchart is committed, and the job can be.
LEMMA PublishFlowchartKeeps == ASSUME Inv, NEW s \in Scan, PublishFlowchart(s) PROVE Inv'
<1>1. /\ scan[s] \in Scanner /\ scan[s].at = "publish flowchart"
      /\ scan[s].job \in JobDir /\ scan[s].want = None /\ ScanRight(scan[s])
  BY DEF Inv, TypeOK, ScanRight, HandRight, PublishFlowchart, InJob
<1>2. /\ UNCHANGED <<world, projects, jobs, renamed, moved>>
      /\ flowcharts' = flowcharts \cup {Data(s).chart}
  BY DEF PublishFlowchart, updates
<1>3. Data(s).chart \in Digest
  BY <1>1 DEF ScanRight, ChartRight, Data
<1>4. Grows
  BY <1>2 DEF Grows
<1>5. PICK r : r = [scan[s] EXCEPT !.at = "insert job"]
  OBVIOUS
<1>6. /\ r \in Scanner /\ r.at = "insert job" /\ r.job = scan[s].job /\ r.want = None
      /\ r.found = scan[s].found /\ r.added = scan[s].added
  BY <1>1, <1>5 DEF Scanner, Running, InJob
<1>7. Set(s, r)
  BY <1>5 DEF PublishFlowchart
<1>8. ScanRight(r)'
  <2>1. ChartRight(r)'
    BY <1>2, <1>3, <1>6 DEF ChartRight, Data
  <2>2. FoundRight(r)'
    BY <1>1, <1>2, <1>6 DEF ScanRight, FoundRight, Covered
  <2> QED
    BY <1>1, <1>6, <2>1, <2>2 DEF ScanRight, HandRight, ListedRight, AbortRight, InProject
<1>9. TypeOK' /\ \A q \in Scan : ScanRight(scan[q])'
  BY <1>2, <1>3, <1>4, <1>6, <1>7, <1>8, ScansRight DEF Inv, TypeOK
<1>10. PathNames' /\ AddedAreStored' /\ JobKeepsItsProjects'
  BY <1>2, <1>4, <1>6, <1>7, AddedStayStored, ProjectsStay DEF Inv, PathNames
<1> QED
  BY <1>9, <1>10 DEF Inv

\* The job is committed with the projects found, and only then is it listed as added.
LEMMA InsertJobKeeps == ASSUME Inv, NEW s \in Scan, InsertJob(s) PROVE Inv'
<1>1. /\ scan[s] \in Scanner /\ scan[s].at = "insert job"
      /\ scan[s].job \in JobDir /\ ScanRight(scan[s])
      /\ HandRight(scan[s]) /\ scan[s].at \in InJob
  BY DEF Inv, TypeOK, ScanRight, HandRight, InsertJob, InJob
<1>2. UNCHANGED <<world, projects, flowcharts, renamed, moved>>
  BY DEF InsertJob, updates
<1>3. CASE Known(scan[s].job)
  <2>1. Set(s, SkipJob(s)) /\ UNCHANGED <<world, tables, updates>>
    BY <1>2, <1>3 DEF InsertJob, tables, updates
  <2> QED
    BY <1>1, <2>1, SkipRight, QuietKeeps
<1>4. CASE ~Known(scan[s].job)
  <2>1. PICK r : r = [SkipJob(s) EXCEPT !.added = @ \cup {scan[s].job}]
    OBVIOUS
  <2>2. Set(s, r) /\ jobs' = jobs \cup {NewJob(s)}
    BY <1>4, <2>1 DEF InsertJob
  <2>3. /\ SkipJob(s) \in Scanner /\ SkipJob(s).added = scan[s].added
        /\ SkipJob(s).at = "jobs" /\ SkipJob(s).job = None /\ SkipJob(s).want = None
    <3>1. scan[s].want = None
      BY <1>1 DEF HandRight
    <3> QED
      BY <1>1, <3>1, SkipRight DEF SkipJob, Scanner
  <2>4. /\ r \in Scanner /\ r.at = "jobs" /\ r.job = None /\ r.want = None
        /\ r.added = scan[s].added \cup {scan[s].job}
    BY <1>1, <2>1, <2>3 DEF Scanner
  <2>5. Grows
    BY <1>2, <2>2 DEF Grows
  <2>6. ScanRight(r)'
    BY <2>4 DEF ScanRight, HandRight, ChartRight, ListedRight, FoundRight, AbortRight,
                InJob, InProject
  <2>7. /\ NewJob(s) \in JobRow
        /\ NewJob(s).id = world.data[scan[s].job].id /\ NewJob(s).dir = scan[s].job
        /\ NewJob(s).projects = scan[s].found /\ NewJob(s).by = s
    BY <1>1, WorldType DEF Inv, NewJob, JobRow, Data, JobData, Scanner, ScanRight, ChartRight
  <2>8. TypeOK' /\ \A q \in Scan : ScanRight(scan[q])'
    BY <1>2, <2>2, <2>4, <2>5, <2>6, <2>7, ScansRight DEF Inv, TypeOK
  <2>9. AddedAreStored'
    <3>1. /\ scan'[s] = r
          /\ \A q \in Scan \ {s} : scan'[q] = scan[q]
      BY <2>2, <2>4, SetScan DEF Inv
    <3> SUFFICES ASSUME NEW q \in Scan, NEW d \in scan'[q].added
                 PROVE  \E j \in jobs' : j.dir = d /\ j.by = q /\ j.id = world.data[d].id
      BY <1>2 DEF AddedAreStored
    <3>2. CASE d \in scan[q].added
      BY <2>2, <3>2 DEF Inv, AddedAreStored
    <3>3. CASE d \notin scan[q].added
      <4>1. q = s /\ d = scan[s].job
        BY <2>4, <3>1, <3>3
      <4> QED
        BY <2>2, <2>7, <4>1
    <3> QED
      BY <3>2, <3>3
  <2>10. JobKeepsItsProjects'
    <3> SUFFICES ASSUME NEW j \in jobs', j.by # None,
                        NEW n \in world.data[j.dir].names \ renamed
                 PROVE  \E p \in projects : p.name = n /\ p.id \in j.projects
      BY <1>2 DEF JobKeepsItsProjects
    <3>1. CASE j \in jobs
      BY <3>1 DEF Inv, JobKeepsItsProjects
    <3>2. CASE j = NewJob(s)
      BY <1>1, <2>7, <3>2 DEF ScanRight, FoundRight, Covered
    <3> QED
      BY <2>2, <3>1, <3>2
  <2>11. PathNames'
    BY <1>2 DEF Inv, PathNames
  <2> QED
    BY <2>8, <2>9, <2>10, <2>11 DEF Inv
<1> QED
  BY <1>3, <1>4

-----------------------------------------------------------------------------
(* Locks and the others                                                    *)

\* A lock costs a job, or the scan.
LEMMA LockedKeeps == ASSUME Inv, NEW s \in Scan, Locked(s) PROVE Inv'
<1>1. scan[s] \in Scanner /\ HandRight(scan[s])
  BY DEF Inv, TypeOK, ScanRight
<1>2. UNCHANGED <<world, tables, updates>>
  BY DEF Locked
<1>3. CASE scan[s].at \in InJob
  <2>1. /\ SkipJob(s) \in Scanner /\ SkipJob(s).added = scan[s].added
        /\ SkipJob(s).at = "jobs" /\ SkipJob(s).job = None /\ SkipJob(s).want = None
    <3>1. scan[s].want = None
      BY <1>1, <1>3 DEF HandRight, InJob
    <3> QED
      BY <1>1, <1>3, <3>1, SkipRight DEF SkipJob, Scanner
  <2> DEFINE r == [SkipJob(s) EXCEPT !.missed = @ \cup {scan[s].job}]
  <2>2. Set(s, r)
    BY <1>3 DEF Locked, InJob, InProject
  <2>3. scan[s].job \in JobDir
    BY <1>1, <1>3 DEF HandRight
  <2>4. /\ r \in Scanner /\ r.at = "jobs" /\ r.job = None /\ r.want = None
        /\ r.added = scan[s].added
    BY <2>1, <2>3 DEF Scanner
  <2> HIDE DEF r
  <2>5. ScanRight(r)
    BY <2>4 DEF ScanRight, HandRight, ChartRight, ListedRight, FoundRight, AbortRight,
                InJob, InProject
  <2> QED
    BY <1>2, <2>2, <2>4, <2>5, QuietKeeps
<1>4. CASE scan[s].at \notin InJob
  <2> DEFINE r == [Fresh EXCEPT !.at = "locked"]
  <2>1. Set(s, r)
    BY <1>4 DEF Locked
  <2>2. r \in Scanner /\ r.at = "locked" /\ r.want = None /\ r.added = {}
    BY DEF Fresh, Scanner, Ended
  <2> HIDE DEF r
  <2> QED
    BY <1>2, <2>1, <2>2, IdleRight, QuietKeeps
<1> QED
  BY <1>3, <1>4

\* Tables that grow while the scans stand still leave them right.
LEMMA OthersKeep ==
    ASSUME Inv, Grows, UNCHANGED scan
    PROVE  (\A s \in Scan : ScanRight(scan[s]))'
<1> SUFFICES ASSUME NEW s \in Scan PROVE ScanRight(scan[s])'
  OBVIOUS
<1>1. PICK r : r = scan[s]
  OBVIOUS
<1>2. ScanRight(r)'
  BY <1>1, RightStays DEF Inv
<1> QED
  BY <1>1, <1>2

\* The name a project loses and the one it gets are remembered as renamed, the path it
\* gets as moved.
LEMMA UpdateKeeps ==
    ASSUME Inv, Grows, NEW p \in projects, NEW n \in (Given \ {NoPath}) \cup {p.name},
           NEW f \in Given \cup {p.path}, Update(p, n, f)
    PROVE  Inv'
<1> DEFINE row == [p EXCEPT !.name = n, !.path = f]
<1>0. p \in ProjectRow /\ p.name \in Name /\ n \in Name /\ f \in Name \cup {NoPath}
  BY WorldAssumption DEF Inv, TypeOK, ProjectRow
<1>1. row \in ProjectRow /\ row.path = f /\ row.name = n
  BY <1>0 DEF ProjectRow
<1>2. /\ UNCHANGED <<world, flowcharts, jobs, scan>>
      /\ projects' = (projects \ {p}) \cup {row}
      /\ renamed' = renamed \cup (IF n = p.name THEN {} ELSE {p.name, n})
      /\ moved' = moved \cup ({f} \ {p.path, NoPath})
  BY DEF Update
<1> HIDE DEF row
<1>3. p.path \in {NoPath, p.name} \cup renamed \cup moved
  BY DEF Inv, PathNames
<1>4. row.path \in {NoPath, row.name} \cup renamed' \cup moved'
  <2>1. CASE f # p.path
    BY <1>1, <1>2, <2>1
  <2>2. CASE f = p.path
    BY <1>1, <1>2, <1>3, <2>2
  <2> QED
    BY <2>1, <2>2
<1>5. TypeOK'
  <2>1. moved' \subseteq Name /\ renamed' \subseteq Name
    BY <1>0, <1>2 DEF Inv, TypeOK
  <2> QED
    BY <1>1, <1>2, <2>1 DEF Inv, TypeOK
<1>6. (\A s \in Scan : ScanRight(scan[s]))'
  BY <1>2, OthersKeep
<1>7. PathNames'
  BY <1>2, <1>4 DEF Inv, PathNames
<1>8. AddedAreStored' /\ JobKeepsItsProjects'
  BY <1>2, ProjectsStay DEF Inv, AddedAreStored
<1> QED
  BY <1>5, <1>6, <1>7, <1>8 DEF Inv

\* A job that registers itself was not imported.
LEMMA SelfRegisterKeeps ==
    ASSUME Inv, NEW d \in JobDir, SelfRegister(d) PROVE Inv'
<1>1. UNCHANGED <<world, projects, renamed, moved, scan>>
  BY DEF SelfRegister, updates
<1>2. Grows
  BY <1>1 DEF Grows, SelfRegister
<1>3. world.data[d] \in JobData /\ world.data[d].chart \in Digest
  BY WorldType DEF Inv, JobData, SelfRegister
<1> DEFINE row == [id |-> world.data[d].id, dir |-> d, by |-> None,
                   digest |-> world.data[d].chart, projects |-> Listed(d)]
<1>4. row \in JobRow /\ row.by = None
  <2>1. Listed(d) \subseteq Nat \ {0}
    BY DEF Inv, TypeOK, Listed, ProjectRow
  <2>2. world.data[d].id \in JobId
    BY <1>3 DEF JobData
  <2> QED
    BY <1>3, <2>1, <2>2 DEF JobRow
<1>5. jobs' \subseteq jobs \cup {row} /\ flowcharts' \subseteq flowcharts \cup {world.data[d].chart}
  BY DEF SelfRegister
<1> HIDE DEF row
<1>6. TypeOK'
  BY <1>1, <1>3, <1>4, <1>5 DEF Inv, TypeOK
<1>7. (\A s \in Scan : ScanRight(scan[s]))'
  BY <1>1, <1>2, OthersKeep
<1>8. PathNames'
  BY <1>1 DEF Inv, PathNames
<1>9. AddedAreStored'
  BY <1>1, <1>2 DEF Inv, AddedAreStored, Grows
<1>10. JobKeepsItsProjects'
  BY <1>1, <1>4, <1>5 DEF Inv, JobKeepsItsProjects
<1> QED
  BY <1>6, <1>7, <1>8, <1>9, <1>10 DEF Inv

-----------------------------------------------------------------------------
(* The theorems                                                            *)

\* The invariant is inductive.
LEMMA InvStep == Inv /\ [Next]_vars => Inv'
<1> SUFFICES ASSUME Inv, [Next]_vars PROVE Inv'
  OBVIOUS
<1>1. ASSUME NEW s \in Scan, Begin(s) \/ Step(s) \/ Locked(s) \/ Crash(s) PROVE Inv'
  BY <1>1, BeginKeeps, LockedKeeps, CrashKeeps, NextFolderKeeps, ReturnKeeps, NextJobKeeps,
     NextListedKeeps, CreateProjectKeeps, InsertProjectKeeps, CreateJobKeeps,
     PublishFlowchartKeeps, InsertJobKeeps DEF Step
<1>2. ASSUME NEW p \in projects, NEW n \in (Given \ {NoPath}) \cup {p.name},
             NEW f \in Given \cup {p.path}, Update(p, n, f)
      PROVE  Inv'
  <2>1. Grows
    BY StepGrows DEF Inv
  <2> QED
    BY <1>2, <2>1, UpdateKeeps
<1>3. ASSUME NEW d \in JobDir, SelfRegister(d) PROVE Inv'
  BY <1>3, SelfRegisterKeeps
<1>4. CASE UNCHANGED vars
  <2>1. UNCHANGED <<world, projects, flowcharts, jobs, renamed, moved, scan>>
    BY <1>4 DEF vars, tables, updates
  <2>2. Grows
    BY StepGrows DEF Inv
  <2>3. (\A s \in Scan : ScanRight(scan[s]))'
    BY <2>1, <2>2, OthersKeep
  <2>4. TypeOK' /\ PathNames' /\ AddedAreStored' /\ JobKeepsItsProjects'
    BY <2>1 DEF Inv, TypeOK, PathNames, AddedAreStored, JobKeepsItsProjects
  <2> QED
    BY <2>3, <2>4 DEF Inv
<1> QED
  BY <1>1, <1>2, <1>3, <1>4 DEF Next

\* In every state the program reaches the invariant holds.
THEOREM Invariance == Spec => []Inv
BY InvInit, InvStep, PTL DEF Spec

\* The tables and the scans keep their types, whatever overlaps, dies or is updated.
THEOREM TypeCorrect == Spec => []TypeOK
<1>1. Inv => TypeOK
  BY DEF Inv
<1> QED
  BY <1>1, Invariance, PTL

\* What a scan says it added it has stored itself.
THEOREM AddedStay == Spec => []AddedAreStored
<1>1. Inv => AddedAreStored
  BY DEF Inv
<1> QED
  BY <1>1, Invariance, PTL

\* An imported job is in all the projects it lists that were not renamed.
THEOREM ProjectsKept == Spec => []JobKeepsItsProjects
<1>1. Inv => JobKeepsItsProjects
  BY DEF Inv
<1> QED
  BY <1>1, Invariance, PTL

\* A scan that lost the race for a project does not lose it again, unless an update of
\* a project gave its name or its path to another.
THEOREM AbortsHealed == Spec => []AbortHeals
<1>1. Inv => AbortHeals
  BY DEF Inv, ScanRight, AbortRight, There, AbortHeals
<1> QED
  BY <1>1, Invariance, PTL

-----------------------------------------------------------------------------
(* Refinement                                                              *)

\* A flowchart that is committed is published, or it was there.
LEMMA FlowchartPublished ==
    ASSUME NEW g, flowcharts' = flowcharts \cup {g}, UNCHANGED jobs
    PROVE  [Registry!Next]_(Registry!vars)
<1> DEFINE lib == {[id |-> c, digest |-> c] : c \in flowcharts}
           reg == {[job |-> j.id, flowchart |-> j.digest] : j \in jobs}
           new == [id |-> g, digest |-> g]
<1>1. UNCHANGED reg
  OBVIOUS
<1>2. CASE g \in flowcharts
  BY <1>2 DEF Registry!vars
<1>3. CASE g \notin flowcharts
  <2>1. lib' = lib \cup {new} /\ new \notin lib
    BY <1>3
  <2>2. Registry!Publish(new)
    BY <1>3, <2>1 DEF Registry!Publish, Registry!Unpublished
  <2> QED
    BY <1>1, <2>1, <2>2 DEF Registry!Next
<1> QED
  BY <1>2, <1>3

\* A job that is committed enters, after its flowchart.
LEMMA JobEntered ==
    ASSUME NEW j, jobs' = jobs \cup {j}, UNCHANGED flowcharts,
           \A i \in jobs : i.id # j.id, j.digest \in flowcharts
    PROVE  [Registry!Next]_(Registry!vars)
<1> DEFINE lib == {[id |-> c, digest |-> c] : c \in flowcharts}
           reg == {[job |-> i.id, flowchart |-> i.digest] : i \in jobs}
           new == [job |-> j.id, flowchart |-> j.digest]
<1>1. UNCHANGED lib
  OBVIOUS
<1>2. reg' = reg \cup {new} /\ new \notin reg
  OBVIOUS
<1>3. [id |-> j.digest, digest |-> j.digest] \in lib
  OBVIOUS
<1>4. Registry!Enter(new)
  BY <1>2, <1>3 DEF Registry!Enter, Registry!Enterable
<1> QED
  BY <1>1, <1>2, <1>4 DEF Registry!Next

\* Every step of a scan, and of the others, is one of the registry or changes nothing there.
LEMMA StepImplements ==
    ASSUME Inv, [Next]_vars PROVE [Registry!Next]_(Registry!vars)
<1>1. ASSUME UNCHANGED <<flowcharts, jobs>> PROVE [Registry!Next]_(Registry!vars)
  BY <1>1 DEF Registry!vars
<1>2. ASSUME NEW s \in Scan, PublishFlowchart(s) PROVE [Registry!Next]_(Registry!vars)
  BY <1>2, FlowchartPublished DEF PublishFlowchart
<1>3. ASSUME NEW s \in Scan, InsertJob(s) PROVE [Registry!Next]_(Registry!vars)
  <2>1. scan[s].at = "insert job" /\ UNCHANGED flowcharts
    BY <1>3 DEF InsertJob
  <2>2. Data(s).chart \in flowcharts
    BY <2>1 DEF Inv, ScanRight, ChartRight, Data
  <2>3. CASE Known(scan[s].job)
    BY <1>1, <1>3, <2>1, <2>3 DEF InsertJob
  <2>4. CASE ~Known(scan[s].job)
    <3>1. jobs' = jobs \cup {NewJob(s)}
      BY <1>3, <2>4 DEF InsertJob
    <3>2. NewJob(s).digest = Data(s).chart /\ NewJob(s).id = Data(s).id
      BY DEF NewJob
    <3>3. \A i \in jobs : i.id # NewJob(s).id
      BY <2>4, <3>2 DEF Known, Data
    <3> QED
      BY <2>1, <2>2, <3>1, <3>2, <3>3, JobEntered
  <2> QED
    BY <2>3, <2>4
<1>4. ASSUME NEW d \in JobDir, SelfRegister(d) PROVE [Registry!Next]_(Registry!vars)
  <2> DEFINE row == [id |-> world.data[d].id, dir |-> d, by |-> None,
                     digest |-> world.data[d].chart, projects |-> Listed(d)]
  <2>1. CASE flowcharts' = flowcharts \cup {world.data[d].chart} /\ UNCHANGED jobs
    BY <2>1, FlowchartPublished
  <2>2. CASE /\ world.data[d].chart \in flowcharts /\ UNCHANGED flowcharts
             /\ jobs' = jobs \cup {row}
    <3>1. \A i \in jobs : i.id # row.id
      BY <1>4 DEF SelfRegister, Known
    <3> QED
      BY <2>2, <3>1, JobEntered
  <2> QED
    BY <1>4, <2>1, <2>2 DEF SelfRegister
<1>5. CASE UNCHANGED vars
  BY <1>1, <1>5 DEF vars, tables
<1> QED
  BY <1>1, <1>2, <1>3, <1>4, <1>5
     DEF Next, Step, Begin, Locked, Crash, NextFolder, Return, NextJob, NextListed,
         CreateProject, InsertProject, CreateJob, Update, tables

\* Scans and jobs that register themselves implement, together, the registry of jobs that
\* one process alone would give.
THEOREM RegistryImplemented == Spec => ImplementsRegistry
<1>1. Init => Registry!Init
  BY DEF Init, Registry!Init
<1> QED
  BY <1>1, StepImplements, Invariance, PTL DEF Spec, ImplementsRegistry, Registry!Spec

-----------------------------------------------------------------------------
(* Every scan comes nearer its end with each step: the fact that ScanEnds  *)
(* rests on.                                                               *)

\* Where a scan is in the work on a folder: its project, its jobs, or done with it.
Stretch(r) ==
    IF r.at = "folders" THEN 0
    ELSE IF r.job = None /\ r.at \in {"create project", "insert project"} THEN 2 ELSE 1

\* How many steps a scan is from the next job, at most, if it lists no other project.
Rank == [at \in Running |->
    CASE at = "create project" -> 7
      [] at = "insert project" -> 6
      [] at = "listed" -> 5
      [] at = "create job" -> 4
      [] at = "publish flowchart" -> 3
      [] at = "insert job" -> 2
      [] at = "jobs" -> 1
      [] at = "folders" -> 0]

Fewer(these, those) == these \subseteq those /\ these # those

\* r is nearer the end of its scan than t: fewer folders are left, or as many and the
\* work on the one in hand has come farther, or as far and fewer of its jobs are left,
\* or as many and fewer of the names the job lists, or as many and the next job is nearer.
Nearer(r, t) ==
    \/ r.at \in Ended
    \/ /\ r.at \in Running
       /\ \/ Fewer(r.unseen, t.unseen)
          \/ /\ r.unseen = t.unseen
             /\ \/ Stretch(r) < Stretch(t)
                \/ /\ Stretch(r) = Stretch(t)
                   /\ \/ Fewer(r.unread, t.unread)
                      \/ /\ r.unread = t.unread
                         /\ \/ Fewer(r.unchecked, t.unchecked)
                            \/ r.unchecked = t.unchecked /\ Rank[r.at] < Rank[t.at]

\* Whatever a step of anybody does to a scan begins it or takes it nearer its end.
ScansCountDown ==
    [][\A s \in Scan : \/ scan'[s] = scan[s]
                       \/ Begin(s)
                       \/ scan[s].at \in Running /\ Nearer(scan'[s], scan[s])]_vars


\* The places within a job, and those around it, in their order.
LEMMA RankOrder ==
    /\ Rank["insert project"] < Rank["create project"]
    /\ Rank["listed"] < Rank["create project"] /\ Rank["listed"] < Rank["insert project"]
    /\ Rank["create job"] < Rank["listed"]
    /\ Rank["publish flowchart"] < Rank["create job"]
    /\ Rank["insert job"] < Rank["create job"]
    /\ Rank["insert job"] < Rank["publish flowchart"]
    /\ Rank["jobs"] < Rank["create job"] /\ Rank["jobs"] < Rank["publish flowchart"]
    /\ Rank["jobs"] < Rank["insert job"]
<1>1. /\ Rank["create project"] = 7 /\ Rank["insert project"] = 6 /\ Rank["listed"] = 5
      /\ Rank["create job"] = 4 /\ Rank["publish flowchart"] = 3
      /\ Rank["insert job"] = 2 /\ Rank["jobs"] = 1
  BY DEF Rank, Running, InProject, InJob
<1>2. 6 < 7 /\ 5 < 7 /\ 5 < 6 /\ 4 < 5 /\ 3 < 4 /\ 2 < 4 /\ 2 < 3 /\ 1 < 4 /\ 1 < 3 /\ 1 < 2
  OBVIOUS
<1> QED
  BY <1>1, <1>2, Zenon

\* A scan that does not go on to other folders, jobs or names goes on to another place.
LEMMA NearerPlace ==
    ASSUME NEW r, NEW t, r.at \in Running, r.unseen = t.unseen, r.unread = t.unread,
           r.unchecked = t.unchecked, Stretch(r) = Stretch(t), Rank[r.at] < Rank[t.at]
    PROVE  Nearer(r, t)
BY DEF Nearer

\* A step that moves one scan counts for all.
LEMMA OneCounts ==
    ASSUME TypeOK, NEW s \in Scan, NEW r, Set(s, r), scan[s].at \in Running,
           Nearer(r, scan[s])
    PROVE  \A q \in Scan : \/ scan'[q] = scan[q]
                           \/ scan[q].at \in Running /\ Nearer(scan'[q], scan[q])
BY DEF TypeOK, Set

\* The record with which each step leaves its scan.
LEMMA NextFolderNearer ==
    ASSUME Inv, NEW s \in Scan, NextFolder(s)
    PROVE  \E r : Set(s, r) /\ scan[s].at \in Running /\ Nearer(r, scan[s])
<1>1. PICK f \in scan[s].unseen :
         Set(s, [scan[s] EXCEPT !.at = "create project", !.want = f,
                                !.folder = f, !.unseen = @ \ {f}])
  BY DEF NextFolder
<1> DEFINE r == [scan[s] EXCEPT !.at = "create project", !.want = f,
                                !.folder = f, !.unseen = @ \ {f}]
<1>2. r.at = "create project" /\ r.unseen = scan[s].unseen \ {f}
  BY DEF Inv, TypeOK, Scanner
<1> HIDE DEF r
<1>3. Fewer(r.unseen, scan[s].unseen) /\ r.at \in Running /\ scan[s].at \in Running
  BY <1>2 DEF Fewer, NextFolder, Running, InProject
<1>4. Nearer(r, scan[s])
  BY <1>3 DEF Nearer
<1> QED
  BY <1>1, <1>3, <1>4 DEF r

\* A scan that returns has ended.
LEMMA ReturnNearer ==
    ASSUME Inv, NEW s \in Scan, Return(s)
    PROVE  \E r : Set(s, r) /\ scan[s].at \in Running /\ Nearer(r, scan[s])
<1> DEFINE r == [scan[s] EXCEPT !.at = "returned"]
<1>1. r.at = "returned" /\ Set(s, r)
  BY DEF Inv, TypeOK, Scanner, Return
<1> HIDE DEF r
<1> QED
  BY <1>1 DEF Nearer, Ended, Return, Running

\* A folder without further jobs is done with, and a job that is taken up is one less.
LEMMA NextJobNearer ==
    ASSUME Inv, NEW s \in Scan, NextJob(s)
    PROVE  \E r : Set(s, r) /\ scan[s].at \in Running /\ Nearer(r, scan[s])
<1>1. /\ scan[s] \in Scanner /\ scan[s].at = "jobs" /\ scan[s].at \in Running
      /\ scan[s].job = None
  BY DEF Inv, TypeOK, ScanRight, HandRight, NextJob, Running
<1>2. Stretch(scan[s]) = 1
  BY <1>1 DEF Stretch
<1>3. CASE scan[s].unread = {}
  <2> DEFINE r == [scan[s] EXCEPT !.at = "folders", !.folder = None]
  <2>1. Set(s, r) /\ r.at = "folders" /\ r.unseen = scan[s].unseen
    BY <1>1, <1>3 DEF NextJob, Scanner
  <2> HIDE DEF r
  <2>2. Stretch(r) = 0 /\ r.at \in Running
    BY <2>1 DEF Stretch, Running
  <2>3. Stretch(r) < Stretch(scan[s])
    BY <1>2, <2>2
  <2>4. Nearer(r, scan[s])
    BY <2>1, <2>2, <2>3 DEF Nearer
  <2> QED
    BY <1>1, <2>1, <2>4
<1>4. CASE scan[s].unread # {}
  <2>1. PICK d \in scan[s].unread :
           Set(s, CASE world.data[d].file = "unreadable" -> [scan[s] EXCEPT !.unread = @ \ {d}]
                    [] world.data[d].file = "no list" ->
                         [[scan[s] EXCEPT !.unread = @ \ {d}] EXCEPT !.at = "aborted"]
                    [] world.data[d].file = "readable" ->
                         [[scan[s] EXCEPT !.unread = @ \ {d}]
                            EXCEPT !.at = "listed", !.job = d, !.unchecked = world.data[d].names])
    BY <1>4 DEF NextJob
  <2> DEFINE rest == [scan[s] EXCEPT !.unread = @ \ {d}]
  <2>2. d \in JobDir /\ d # None /\ world.data[d].file \in {"unreadable", "no list", "readable"}
    BY <1>1, WorldType, WorldAssumption DEF Inv, Scanner, JobData
  <2>3. /\ rest \in Scanner /\ rest.at = "jobs" /\ rest.job = None
        /\ rest.unseen = scan[s].unseen /\ rest.unread = scan[s].unread \ {d}
    BY <1>1 DEF Scanner
  <2>4. Fewer(scan[s].unread \ {d}, scan[s].unread)
    BY DEF Fewer
  <2>5. CASE world.data[d].file = "unreadable"
    <3>1. Set(s, rest)
      BY <2>1, <2>5
    <3> HIDE DEF rest
    <3>2. Stretch(rest) = 1
      BY <2>3 DEF Stretch
    <3>3. Nearer(rest, scan[s])
      BY <1>1, <1>2, <2>3, <2>4, <3>2 DEF Nearer
    <3> QED
      BY <1>1, <3>1, <3>3
  <2>6. CASE world.data[d].file = "no list"
    <3> DEFINE r == [rest EXCEPT !.at = "aborted"]
    <3>1. Set(s, r)
      BY <2>1, <2>6
    <3>2. r.at = "aborted"
      BY <2>3 DEF Scanner
    <3> HIDE DEF r
    <3>3. Nearer(r, scan[s])
      BY <3>2 DEF Nearer, Ended
    <3> QED
      BY <1>1, <3>1, <3>3
  <2>7. CASE world.data[d].file = "readable"
    <3> DEFINE r == [rest EXCEPT !.at = "listed", !.job = d, !.unchecked = world.data[d].names]
    <3>1. Set(s, r)
      BY <2>1, <2>7
    <3>2. /\ r.at = "listed" /\ r.job = d
          /\ r.unseen = scan[s].unseen /\ r.unread = scan[s].unread \ {d}
      BY <2>3 DEF Scanner
    <3> HIDE DEF r
    <3>3. Stretch(r) = 1 /\ r.at \in Running
      BY <3>2 DEF Stretch, Running, InProject
    <3>4. Nearer(r, scan[s])
      BY <1>2, <2>4, <3>2, <3>3 DEF Nearer
    <3> QED
      BY <1>1, <3>1, <3>4
  <2> QED
    BY <2>2, <2>5, <2>6, <2>7
<1> QED
  BY <1>3, <1>4

\* A name that is checked is one less.
LEMMA NextListedNearer ==
    ASSUME Inv, NEW s \in Scan, NextListed(s)
    PROVE  \E r : Set(s, r) /\ scan[s].at \in Running /\ Nearer(r, scan[s])
<1>1. /\ scan[s] \in Scanner /\ scan[s].at = "listed" /\ scan[s].at \in Running
      /\ scan[s].job # None
  BY WorldAssumption DEF Inv, TypeOK, ScanRight, HandRight, NextListed, Running, InProject
<1>2. Stretch(scan[s]) = 1
  BY <1>1 DEF Stretch
<1>3. CASE scan[s].unchecked = {}
  <2> DEFINE r == [scan[s] EXCEPT !.at = "create job"]
  <2>1. Set(s, r)
    BY <1>3 DEF NextListed
  <2>2. /\ r.at = "create job" /\ r.unseen = scan[s].unseen
        /\ r.unread = scan[s].unread /\ r.unchecked = scan[s].unchecked
    BY <1>1 DEF Scanner
  <2> HIDE DEF r
  <2>3. Stretch(r) = Stretch(scan[s]) /\ r.at \in Running
    BY <1>2, <2>2 DEF Stretch, Running, InJob
  <2>4. Rank[r.at] < Rank[scan[s].at]
    BY <1>1, <2>2, RankOrder, Zenon
  <2> QED
    BY <1>1, <2>1, <2>2, <2>3, <2>4, NearerPlace
<1>4. CASE scan[s].unchecked # {}
  <2>1. PICK n \in scan[s].unchecked :
           Set(s, IF \E p \in projects : p.name = n
                  THEN [scan[s] EXCEPT !.unchecked = @ \ {n}]
                  ELSE [[scan[s] EXCEPT !.unchecked = @ \ {n}]
                          EXCEPT !.at = "create project", !.want = n])
    BY <1>4 DEF NextListed
  <2> DEFINE rest == [scan[s] EXCEPT !.unchecked = @ \ {n}]
             more == [rest EXCEPT !.at = "create project", !.want = n]
  <2>2. /\ rest.at = "listed" /\ rest.unseen = scan[s].unseen /\ rest.unread = scan[s].unread
        /\ rest.unchecked = scan[s].unchecked \ {n} /\ rest.job # None
        /\ more.at = "create project" /\ more.unseen = scan[s].unseen
        /\ more.unread = scan[s].unread
        /\ more.unchecked = scan[s].unchecked \ {n} /\ more.job # None
    BY <1>1 DEF Scanner
  <2>3. PICK r \in {rest, more} : Set(s, r)
    BY <2>1
  <2> HIDE DEF rest, more
  <2>4. /\ r.at \in {"listed", "create project"} /\ r.unseen = scan[s].unseen
        /\ r.unread = scan[s].unread /\ r.unchecked = scan[s].unchecked \ {n} /\ r.job # None
    <3>1. CASE r = rest
      BY <2>2, <3>1
    <3>2. CASE r = more
      BY <2>2, <3>2
    <3> QED
      BY <2>3, <3>1, <3>2
  <2>5. Stretch(r) = 1 /\ r.at \in Running
    BY <2>4 DEF Stretch, Running, InProject
  <2>6. Fewer(r.unchecked, scan[s].unchecked)
    BY <2>4 DEF Fewer
  <2>7. Nearer(r, scan[s])
    BY <1>2, <2>4, <2>5, <2>6 DEF Nearer
  <2> QED
    BY <1>1, <2>3, <2>7
<1> QED
  BY <1>3, <1>4

\* The jobs of a folder come after its project.
LEMMA OneLess == 1 < 2
OBVIOUS

\* Done with the folder's project a scan has its jobs before it, done with a job's
\* project it has the other names.
LEMMA OnwardNearer ==
    ASSUME Inv, NEW s \in Scan, scan[s].at \in {"create project", "insert project"},
           NEW r, r.at = Onward(s).at, r.job = Onward(s).job, r.unseen = Onward(s).unseen,
           r.unread = Onward(s).unread, r.unchecked = Onward(s).unchecked
    PROVE  Nearer(r, scan[s])
<1>1. scan[s] \in Scanner /\ scan[s].want \in Name
  BY DEF Inv, TypeOK, ScanRight, HandRight
<1>2. /\ Onward(s).job = scan[s].job
      /\ scan[s].job = None => Onward(s).at = "jobs"
      /\ scan[s].job # None => /\ Onward(s).at = "listed"
                               /\ Onward(s).unchecked = scan[s].unchecked
  BY <1>1, OnwardType DEF Inv
<1>3. CASE scan[s].job = None
  <2>1. Onward(s).unseen = scan[s].unseen
    BY <1>1, <1>3 DEF Onward, Scanner
  <2>2. Stretch(r) = 1 /\ r.at \in Running
    BY <1>2, <1>3 DEF Stretch, Running
  <2>3. Stretch(scan[s]) = 2
    BY <1>3 DEF Stretch
  <2>4. Stretch(r) < Stretch(scan[s])
    BY <2>2, <2>3, OneLess, Zenon
  <2> QED
    BY <2>1, <2>2, <2>4 DEF Nearer
<1>4. CASE scan[s].job # None
  <2>1. Onward(s).unseen = scan[s].unseen /\ Onward(s).unread = scan[s].unread
    BY <1>1, <1>4 DEF Onward, Scanner
  <2>2. Stretch(r) = 1 /\ r.at \in Running
    BY <1>2, <1>4 DEF Stretch, Running, InProject
  <2>3. Stretch(scan[s]) = 1
    BY <1>4 DEF Stretch
  <2>4. Rank[r.at] < Rank[scan[s].at]
    BY <1>2, <1>4, RankOrder, Zenon
  <2> QED
    BY <1>2, <1>4, <2>1, <2>2, <2>3, <2>4, NearerPlace
<1> QED
  BY <1>3, <1>4

\* A project that is there, or may not be made, is done with; another is inserted next.
LEMMA CreateProjectNearer ==
    ASSUME Inv, NEW s \in Scan, CreateProject(s)
    PROVE  \E r : Set(s, r) /\ scan[s].at \in Running /\ Nearer(r, scan[s])
<1>1. /\ scan[s] \in Scanner /\ scan[s].at = "create project" /\ scan[s].at \in Running
  BY DEF Inv, TypeOK, CreateProject, Running, InProject
<1> DEFINE abort == [scan[s] EXCEPT !.at = "aborted"]
           insert == [scan[s] EXCEPT !.at = "insert project"]
<1>2. PICK r \in {Onward(s), abort, insert} : Set(s, r)
  BY DEF CreateProject
<1>3. CASE r = Onward(s)
  BY <1>1, <1>2, <1>3, OnwardNearer
<1>4. CASE r = abort
  <2>1. r.at = "aborted"
    BY <1>1, <1>4 DEF Scanner
  <2> QED
    BY <1>1, <1>2, <2>1 DEF Nearer, Ended
<1>5. CASE r = insert
  <2>1. /\ r.at = "insert project" /\ r.job = scan[s].job /\ r.unseen = scan[s].unseen
        /\ r.unread = scan[s].unread /\ r.unchecked = scan[s].unchecked
    BY <1>1, <1>5 DEF Scanner
  <2>2. Stretch(r) = Stretch(scan[s]) /\ r.at \in Running
    BY <1>1, <2>1 DEF Stretch, Running, InProject
  <2>3. Rank[r.at] < Rank[scan[s].at]
    BY <1>1, <2>1, RankOrder, Zenon
  <2> QED
    BY <1>1, <1>2, <2>1, <2>2, <2>3, NearerPlace
<1> QED
  BY <1>2, <1>3, <1>4, <1>5

\* Inserted or refused, the project is done with, or the scan is.
LEMMA InsertProjectNearer ==
    ASSUME Inv, NEW s \in Scan, InsertProject(s)
    PROVE  \E r : Set(s, r) /\ scan[s].at \in Running /\ Nearer(r, scan[s])
<1>1. /\ scan[s] \in Scanner /\ scan[s].at = "insert project" /\ scan[s].at \in Running
      /\ scan[s].want \in Name
  BY DEF Inv, TypeOK, ScanRight, HandRight, InsertProject, Running, InProject
<1> DEFINE abort == [scan[s] EXCEPT !.at = "aborted"]
           on == [Onward(s) EXCEPT !.shown = @ \cup {scan[s].want}]
<1>2. PICK r \in {on, abort} : Set(s, r)
  BY DEF InsertProject
<1>3. CASE r = on
  <2>1. Onward(s) \in Scanner
    BY <1>1, OnwardType DEF Inv
  <2>2. /\ r.at = Onward(s).at /\ r.job = Onward(s).job /\ r.unseen = Onward(s).unseen
        /\ r.unread = Onward(s).unread /\ r.unchecked = Onward(s).unchecked
    BY <1>3, <2>1 DEF Scanner
  <2> QED
    BY <1>1, <1>2, <2>2, OnwardNearer
<1>4. CASE r = abort
  <2>1. r.at = "aborted"
    BY <1>1, <1>4 DEF Scanner
  <2> QED
    BY <1>1, <1>2, <2>1 DEF Nearer, Ended
<1> QED
  BY <1>2, <1>3, <1>4

\* Done with a job a scan has the next before it.
LEMMA SkipNearer ==
    ASSUME Inv, NEW s \in Scan, scan[s].at \in InJob, NEW r, r.at = "jobs", r.job = None,
           r.unseen = scan[s].unseen, r.unread = scan[s].unread,
           r.unchecked = scan[s].unchecked
    PROVE  Nearer(r, scan[s])
<1>1. Stretch(r) = Stretch(scan[s]) /\ r.at \in Running
  BY DEF Stretch, Running, InJob
<1>2. scan[s].at \in {"create job", "publish flowchart", "insert job"}
  BY DEF InJob
<1>3. Rank[r.at] < Rank[scan[s].at]
  BY <1>2, RankOrder, Zenon
<1> QED
  BY <1>1, <1>3, NearerPlace

\* The places of a job follow each other.
LEMMA ForthNearer ==
    ASSUME Inv, NEW s \in Scan, NEW r,
           \/ scan[s].at = "create job" /\ r.at \in {"publish flowchart", "insert job"}
           \/ scan[s].at = "publish flowchart" /\ r.at = "insert job",
           r.unseen = scan[s].unseen, r.unread = scan[s].unread,
           r.unchecked = scan[s].unchecked
    PROVE  Nearer(r, scan[s])
<1>1. Stretch(r) = Stretch(scan[s]) /\ r.at \in Running
  BY DEF Stretch, Running, InJob
<1>2. Rank[r.at] < Rank[scan[s].at]
  BY RankOrder, Zenon
<1> QED
  BY <1>1, <1>2, NearerPlace

\* The fields of a record without the job in hand.
LEMMA SkippedFields ==
    ASSUME NEW s \in Scan, scan[s] \in Scanner
    PROVE  /\ SkipJob(s).at = "jobs" /\ SkipJob(s).job = None
           /\ SkipJob(s).unseen = scan[s].unseen /\ SkipJob(s).unread = scan[s].unread
           /\ SkipJob(s).unchecked = scan[s].unchecked
           /\ \A d : LET added == [SkipJob(s) EXCEPT !.added = @ \cup {d}]
                         missed == [SkipJob(s) EXCEPT !.missed = @ \cup {d}]
                     IN  \A r \in {added, missed} :
                            /\ r.at = "jobs" /\ r.job = None
                            /\ r.unseen = scan[s].unseen /\ r.unread = scan[s].unread
                            /\ r.unchecked = scan[s].unchecked
BY DEF SkipJob, Scanner

\* A job is created place by place, or passed over.
LEMMA JobStepsNearer ==
    ASSUME Inv, NEW s \in Scan, CreateJob(s) \/ PublishFlowchart(s) \/ InsertJob(s)
    PROVE  \E r : Set(s, r) /\ scan[s].at \in Running /\ Nearer(r, scan[s])
<1>1. scan[s] \in Scanner /\ scan[s].at \in InJob /\ scan[s].at \in Running
  BY DEF Inv, TypeOK, CreateJob, PublishFlowchart, InsertJob, Running, InJob
<1>2. CASE CreateJob(s)
  <2> DEFINE found == Listed(scan[s].job)
             on(at) == [scan[s] EXCEPT !.found = found, !.at = at]
  <2>1. \/ Set(s, SkipJob(s))
        \/ \E at \in {"publish flowchart", "insert job"} : Set(s, on(at))
    BY <1>2 DEF CreateJob
  <2>2. CASE Set(s, SkipJob(s))
    BY <1>1, <2>2, SkippedFields, SkipNearer
  <2>3. ASSUME NEW at \in {"publish flowchart", "insert job"}, Set(s, on(at))
        PROVE  Nearer(on(at), scan[s])
    <3>1. /\ on(at).at = at /\ on(at).unseen = scan[s].unseen
          /\ on(at).unread = scan[s].unread /\ on(at).unchecked = scan[s].unchecked
      BY <1>1 DEF Scanner
    <3> HIDE DEF on
    <3> QED
      BY <1>2, <3>1, ForthNearer DEF CreateJob
  <2> QED
    BY <1>1, <2>1, <2>2, <2>3
<1>3. CASE PublishFlowchart(s)
  <2> DEFINE r == [scan[s] EXCEPT !.at = "insert job"]
  <2>1. /\ Set(s, r) /\ r.at = "insert job" /\ r.unseen = scan[s].unseen
        /\ r.unread = scan[s].unread /\ r.unchecked = scan[s].unchecked
    BY <1>1, <1>3 DEF PublishFlowchart, Scanner
  <2> HIDE DEF r
  <2>2. Nearer(r, scan[s])
    BY <1>3, <2>1, ForthNearer DEF PublishFlowchart
  <2> QED
    BY <1>1, <2>1, <2>2
<1>4. CASE InsertJob(s)
  <2> DEFINE more == [SkipJob(s) EXCEPT !.added = @ \cup {scan[s].job}]
  <2>1. Set(s, SkipJob(s)) \/ Set(s, more)
    BY <1>4 DEF InsertJob
  <2>2. Nearer(SkipJob(s), scan[s])
    BY <1>1, SkippedFields, SkipNearer
  <2>3. Nearer(more, scan[s])
    <3>1. /\ more.at = "jobs" /\ more.job = None /\ more.unseen = scan[s].unseen
          /\ more.unread = scan[s].unread /\ more.unchecked = scan[s].unchecked
      BY <1>1, SkippedFields
    <3> HIDE DEF more
    <3> QED
      BY <1>1, <3>1, SkipNearer
  <2> QED
    BY <1>1, <2>1, <2>2, <2>3
<1> QED
  BY <1>2, <1>3, <1>4

\* A lock costs a scan its job, or all that is left of it, and a crash always does.
LEMMA StoppedNearer ==
    ASSUME Inv, NEW s \in Scan, Locked(s) \/ Crash(s)
    PROVE  \E r : Set(s, r) /\ scan[s].at \in Running /\ Nearer(r, scan[s])
<1>1. scan[s] \in Scanner /\ scan[s].at \in Running
  BY DEF Inv, TypeOK, Locked, Crash, Running, InProject, InJob
<1> DEFINE less == [SkipJob(s) EXCEPT !.missed = @ \cup {scan[s].job}]
           lost == [Fresh EXCEPT !.at = "locked"]
           dead == [Fresh EXCEPT !.at = "crashed"]
<1>2. \/ scan[s].at \in InJob /\ Set(s, less)
      \/ Set(s, lost)
      \/ Set(s, dead)
  BY DEF Locked, Crash
<1>3. lost.at \in Ended /\ dead.at \in Ended
  BY DEF Fresh, Ended
<1>4. ASSUME scan[s].at \in InJob PROVE Nearer(less, scan[s])
  <2>1. /\ less.at = "jobs" /\ less.job = None /\ less.unseen = scan[s].unseen
        /\ less.unread = scan[s].unread /\ less.unchecked = scan[s].unchecked
    BY <1>1, SkippedFields
  <2> HIDE DEF less
  <2> QED
    BY <1>4, <2>1, SkipNearer
<1> HIDE DEF less, lost, dead
<1>5. Nearer(lost, scan[s]) /\ Nearer(dead, scan[s])
  BY <1>3 DEF Nearer
<1> QED
  BY <1>1, <1>2, <1>4, <1>5

\* No scan goes back: however many overlap, and whatever is updated or registered
\* meanwhile, a scan that does not end leaves fewer folders, jobs or names to go
\* through (build.py:93-196).
THEOREM ScansComeToAnEnd == Spec => ScansCountDown
<1> DEFINE Counts == \A s \in Scan : \/ scan'[s] = scan[s]
                                     \/ Begin(s)
                                     \/ scan[s].at \in Running /\ Nearer(scan'[s], scan[s])
<1>1. ASSUME Inv, NEW s \in Scan, Begin(s) PROVE Counts
  BY <1>1 DEF Begin, Set, Inv, TypeOK
<1>2. ASSUME Inv, NEW s \in Scan, Step(s) \/ Locked(s) \/ Crash(s) PROVE Counts
  <2>1. PICK r : Set(s, r) /\ scan[s].at \in Running /\ Nearer(r, scan[s])
    BY <1>2, NextFolderNearer, ReturnNearer, NextJobNearer, NextListedNearer,
       CreateProjectNearer, InsertProjectNearer, JobStepsNearer, StoppedNearer DEF Step
  <2> QED
    BY <1>2, <2>1, OneCounts DEF Inv
<1>3. ASSUME UNCHANGED scan PROVE Counts
  BY <1>3
<1>4. Inv /\ [Next]_vars => [Counts]_vars
  <2>1. ASSUME Inv, Next PROVE Counts
    BY <1>1, <1>2, <1>3, <2>1 DEF Next, Update, SelfRegister
  <2> QED
    BY <2>1
<1> QED
  BY <1>4, Invariance, PTL DEF Spec, ScansCountDown

=============================================================================
