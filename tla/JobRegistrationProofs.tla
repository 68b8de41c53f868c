------------------------ MODULE JobRegistrationProofs ------------------------
(***************************************************************************)
(* Proofs that the safety properties of JobRegistration hold for every set *)
(* of processes, requests, old tables and databases.                       *)
(***************************************************************************)
EXTENDS JobRegistration, TLAPS

\* A row made from the file of a process is a row of the table.
LEMMA NewRows ==
    ASSUME TypeOK, NEW p \in Process
    PROVE  /\ req[p] \in Request
           /\ Projects(p) \in SUBSET Project
           /\ NewFlowchart(p) \in FlowchartRow
           /\ NewJob(p) \in JobRow
<1>1. req[p] \in Request
  BY RequestAssumption DEF TypeOK
<1>2. Projects(p) \in SUBSET Project
  BY DEF Projects
<1>3. RowDigest(p) \in Digest \cup {Null}
  BY <1>1 DEF RowDigest, Request
<1>4. NewFlowchart(p) \in FlowchartRow
  BY <1>2, <1>3 DEF NewFlowchart, FlowchartRow, TypeOK
<1>5. NewJob(p) \in JobRow
  BY <1>1, <1>2 DEF NewJob, JobRow, TypeOK, Request
<1> QED
  BY <1>1, <1>2, <1>4, <1>5

\* An exception keeps the types.
LEMMA FailType ==
    ASSUME TypeOK, NEW p \in Process, NEW how \in Ended, Fail(p, how)
    PROVE  TypeOK'
BY DEF TypeOK, Fail, Goto, tables

\* So does a COMMIT that goes through.
LEMMA CommitType ==
    ASSUME TypeOK, NEW p \in Process, NEW where \in Running \cup Ended,
           CommitRows(p), Goto(p, where), UNCHANGED <<db, req>>,
           chart' \in [Process -> Nat], nextId' \in Nat \ {0}
    PROVE  TypeOK'
BY DEF TypeOK, CommitRows, Goto

\* And a COMMIT that waits.
LEMMA AwaitType ==
    ASSUME TypeOK, NEW p \in Process, AwaitReaders(p)
    PROVE  TypeOK'
BY DEF TypeOK, AwaitReaders, tables

\* A lookup that finds a flowchart gives the process one of its id.
LEMMA UseFoundType ==
    ASSUME TypeOK, NEW p \in Process, UseFound(p)
    PROVE  /\ chart' \in [Process -> Nat]
           /\ pc' \in [Process -> Running \cup Ended]
<1>1. PICK f \in flowcharts : chart' = [chart EXCEPT ![p] = f.id]
  BY DEF UseFound
<1>2. f.id \in Nat
  BY DEF TypeOK, FlowchartRow
<1> QED
  BY <1>1, <1>2 DEF UseFound, Goto, TypeOK, Running

\* The tables and processes are well typed at first.
LEMMA TypeInit == Init => TypeOK
<1> SUFFICES ASSUME Init PROVE TypeOK
  OBVIOUS
<1>1. flowcharts \subseteq FlowchartRow /\ jobs \subseteq JobRow /\ nextId \in Nat \ {0}
  BY OldTableAssumption DEF Init
<1>2. pc \in [Process -> Running \cup Ended]
  BY DEF Init, Running
<1> QED
  BY <1>1, <1>2 DEF Init, TypeOK

\* Every step keeps the types.
LEMMA TypeStep ==
    ASSUME TypeOK, [Next]_vars
    PROVE  TypeOK'
<1>1. ASSUME NEW p \in Process, CheckJob(p) PROVE TypeOK'
  BY <1>1 DEF CheckJob, Goto, TypeOK, Running, Ended, tables
<1>2. ASSUME NEW p \in Process, CheckProjects(p) PROVE TypeOK'
  BY <1>2 DEF CheckProjects, Goto, TypeOK, Running, Ended, tables
<1>3. ASSUME NEW p \in Process, FindFlowchart(p) PROVE TypeOK'
  BY <1>3, UseFoundType DEF FindFlowchart, Goto, TypeOK, Running, tables
<1>4. ASSUME NEW p \in Process, LookAgain(p) PROVE TypeOK'
  BY <1>4 DEF LookAgain, Goto, Take, TypeOK, Running, tables
<1>5. ASSUME NEW p \in Process, InsertFlowchart(p) PROVE TypeOK'
  <2>1. lock' \in [Process -> {"none", "shared", "reserved", "pending"}]
    BY <1>5 DEF InsertFlowchart, Take, TypeOK
  <2>2. CASE FlowchartViolates(p)
    BY <1>5, <2>1, <2>2 DEF InsertFlowchart, Goto, TypeOK, Running, tables
  <2>3. CASE ~FlowchartViolates(p)
    <3>1. {NewFlowchart(p)} \in SUBSET FlowchartRow
      BY NewRows
    <3>2. newFlowcharts' \in [Process -> SUBSET FlowchartRow]
      BY <1>5, <2>3, <3>1 DEF InsertFlowchart, TypeOK
    <3>3. pc' \in [Process -> Running \cup Ended]
      BY <1>5, <2>3 DEF InsertFlowchart, Goto, TypeOK, Running
    <3>4. UNCHANGED <<db, req, chart, newJobs, flowcharts, jobs, nextId>>
      BY <1>5 DEF InsertFlowchart, tables
    <3> QED
      BY <2>1, <3>2, <3>3, <3>4 DEF TypeOK
  <2> QED
    BY <2>2, <2>3
<1>6. ASSUME NEW p \in Process, ReleaseSavepoint(p) PROVE TypeOK'
  <2>1. CASE AwaitReaders(p)
    BY <2>1, AwaitType
  <2>2. CASE /\ CommitRows(p) /\ Goto(p, "insert job") /\ UNCHANGED <<db, req>>
             /\ chart' = [chart EXCEPT ![p] = nextId] /\ nextId' = nextId + 1
    <3>1. nextId \in Nat
      BY DEF TypeOK
    <3>2. chart' \in [Process -> Nat]
      BY <2>2, <3>1 DEF TypeOK
    <3>3. nextId' \in Nat \ {0}
      <4>1. nextId + 1 \in Nat \ {0}
        BY <3>1
      <4> QED
        BY <2>2, <4>1
    <3> QED
      BY <2>2, <3>2, <3>3, CommitType DEF Running
  <2> QED
    BY <1>6, <2>1, <2>2 DEF ReleaseSavepoint
<1>7. ASSUME NEW p \in Process, FindWinner(p) PROVE TypeOK'
  <2>1. CASE Fail(p, "flowchart refused")
    BY <2>1, FailType DEF Ended
  <2>2. CASE UseFound(p) /\ UNCHANGED <<db, req, lock, newFlowcharts, newJobs, tables, nextId>>
    BY <2>2, UseFoundType DEF TypeOK, tables
  <2> QED
    BY <1>7, <2>1, <2>2 DEF FindWinner
<1>8. ASSUME NEW p \in Process, InsertJob(p) PROVE TypeOK'
  <2>1. CASE Fail(p, "constraint")
    BY <2>1, FailType DEF Ended
  <2>2. CASE ~Fail(p, "constraint")
    <3>1. {NewJob(p)} \in SUBSET JobRow
      BY NewRows
    <3>2. newJobs' \in [Process -> SUBSET JobRow]
      BY <1>8, <2>2, <3>1 DEF InsertJob, TypeOK
    <3>3. lock' \in [Process -> {"none", "shared", "reserved", "pending"}]
      BY <1>8, <2>2 DEF InsertJob, Take, TypeOK
    <3> QED
      BY <1>8, <2>2, <3>2, <3>3 DEF InsertJob, Goto, TypeOK, Running, tables
  <2> QED
    BY <2>1, <2>2
<1>9. ASSUME NEW p \in Process, Commit(p) PROVE TypeOK'
  <2>1. CASE AwaitReaders(p)
    BY <2>1, AwaitType
  <2>2. CASE CommitRows(p) /\ Goto(p, "registered") /\ UNCHANGED <<db, req, chart, nextId>>
    <3>1. chart' \in [Process -> Nat] /\ nextId' \in Nat \ {0}
      BY <2>2 DEF TypeOK
    <3> QED
      BY <2>2, <3>1, CommitType DEF Ended
  <2> QED
    BY <1>9, <2>1, <2>2 DEF Commit
<1>10. ASSUME NEW p \in Process, LockRefused(p) \/ LockTimeout(p) \/ Crash(p) PROVE TypeOK'
  BY <1>10, FailType DEF LockRefused, LockTimeout, Crash, Ended
<1>11. ASSUME UNCHANGED vars PROVE TypeOK'
  BY <1>11 DEF vars, tables, TypeOK
<1> QED
  BY <1>1, <1>2, <1>3, <1>4, <1>5, <1>6, <1>7, <1>8, <1>9, <1>10, <1>11
  DEF Next, Step, Finished

\* Every variable keeps its type.
THEOREM TypeCorrect == Spec => []TypeOK
BY TypeInit, TypeStep, PTL DEF Spec

-----------------------------------------------------------------------------
(* The inductive invariant: what holds of each process, and what relates   *)
(* the rows of different processes and tables.                             *)

\* Where a process has found or committed the flowchart of its job.
Found == {"insert job", "commit"}

\* A process writes between an INSERT and the end of its transaction.
LockRight(p) == Writes(p) => pc[p] \in {"release savepoint", "commit"}

\* The flowchart p has inserted is that of its file, and still the next one.
FlowchartRight(p) ==
    /\ pc[p] = "release savepoint" => newFlowcharts[p] = {NewFlowchart(p)}
    /\ pc[p] # "release savepoint" => newFlowcharts[p] = {}
    /\ newFlowcharts[p] # {} => Writes(p)

\* The job p has inserted is the one asked for.
JobRight(p) ==
    /\ pc[p] = "commit" => newJobs[p] = {NewJob(p)}
    /\ pc[p] # "commit" => newJobs[p] = {}
    /\ newJobs[p] # {} => Writes(p)

\* The flowchart p's job points to, or will, is there.
ChartRight(p) ==
    pc[p] \in Found =>
        \E f \in flowcharts : f.id = chart[p] /\ f.digest = RowDigest(p)

\* The second lookup still holds when the flowchart is inserted: the lock it took
\* lets nobody commit.
LookupHolds(p) ==
    pc[p] = "insert flowchart" /\ req[p].digest \in Digest =>
        lock[p] # "none" /\ Clashing(p) = {}

\* Past the checks, p has projects and may update them all.
ProjectsRight(p) ==
    pc[p] \in Running \ {"check job", "check projects"} =>
        Projects(p) # {} /\ Projects(p) \subseteq Updatable

ProcessRight(p) ==
    /\ LockRight(p) /\ FlowchartRight(p) /\ JobRight(p)
    /\ ChartRight(p) /\ LookupHolds(p) /\ ProjectsRight(p)

OneWriter == \A p, q \in Process : Writes(p) /\ Writes(q) => p = q

Apart(f, g) == f.id # g.id /\ (f.digest # Null => f.digest # g.digest)

\* The next id is one more than the largest, and a flowchart that is not committed
\* differs from those that are.
FlowchartsApart ==
    /\ FirstId <= nextId
    /\ \A f \in flowcharts : f.id < nextId
    /\ nextId = 1 \/ \E f \in flowcharts : f.id = nextId - 1
    /\ \A p \in Process : \A f \in newFlowcharts[p] : \A g \in flowcharts : Apart(f, g)

\* So do jobs, in the table or not.
JobsApart ==
    /\ \A i, j \in jobs : i.id = j.id => i = j
    /\ \A p \in Process : \A j \in newJobs[p] :
          /\ \A i \in jobs : i.id # j.id
          /\ \A q \in Process \ {p} : \A i \in newJobs[q] : i.id # j.id

\* A process past the first check asks for no id that was taken before it began.
IdsChecked ==
    \A p \in Process : \A j \in jobs :
        pc[p] \in Running \ {"check job"} /\ j.by = Nobody => j.id # req[p].job

\* p will register its job, or lose the id or the path to a process that did or to an
\* old job, unless it crashes.
GoesOn(p) ==
    \/ pc[p] \in {"release savepoint", "commit", "registered", "crashed"}
    \/ pc[p] = "insert job" /\ lock[p] = "none"
    \/ Doomed(p)

\* Where a process was refused a lock, another one goes on.
SomebodyGoesOn ==
    db.patient /\ (\E p \in Process : pc[p] = "locked") =>
        \E q \in Process : GoesOn(q)

Inv ==
    /\ TypeOK
    /\ \A p \in Process : ProcessRight(p)
    /\ OneWriter
    /\ FlowchartsApart /\ NoNewDuplicate
    /\ JobsApart /\ IdsChecked /\ JobRunsItsFlowchart
    /\ StoredIffReturned /\ ConstraintMeansTaken
    /\ SomebodyGoesOn /\ OrphansAreFailures

\* The id after the next is greater than all that were below the next.
LEMMA NextIsGreater ==
    \A m, n \in Nat : /\ n < n + 1 /\ (n + 1) - 1 = n
                      /\ (m < n => m < n + 1) /\ (m <= n => m <= n + 1)
OBVIOUS

\* What the code computes from a request does not change.
LEMMA SameRequest ==
    ASSUME UNCHANGED req, NEW p \in Process
    PROVE  Projects(p)' = Projects(p) /\ RowDigest(p)' = RowDigest(p)
BY DEF Projects, Deduped, RowDigest

\* Nor does the flowchart it inserts, while none is committed.
LEMMA SameFlowchart ==
    ASSUME UNCHANGED <<req, nextId>>, NEW p \in Process
    PROVE  NewFlowchart(p)' = NewFlowchart(p)
BY SameRequest DEF NewFlowchart

\* Nor does the job it asks for, while its flowchart does not.
LEMMA SameJob ==
    ASSUME UNCHANGED req, NEW p \in Process, chart'[p] = chart[p]
    PROVE  NewJob(p)' = NewJob(p)
BY SameRequest DEF NewJob

\* The names are deduped, so that no link is inserted twice.
LEMMA LinkedOnce ==
    ASSUME NEW p \in Process
    PROVE  ~LinkedTwice(p)
<1>1. \A n \in Project : Deduped(p)[n] \in {0, 1}
  BY ProjectAssumption DEF Deduped
<1> QED
  BY <1>1 DEF LinkedTwice

\* The digest of a row is NULL, or that of the file.
LEMMA RowDigestOf ==
    ASSUME TypeOK, NEW p \in Process
    PROVE  \/ req[p].digest \in Digest /\ RowDigest(p) = req[p].digest
           \/ req[p].digest \notin Digest /\ RowDigest(p) = Null
BY NewRows, NullAssumption DEF RowDigest, Request

\* Jobs are in the table from the beginning, or on behalf of processes.
LEMMA JobsBy ==
    ASSUME TypeOK, StoredIffReturned, NEW j \in jobs
    PROVE  j.by = Nobody \/ (j.by \in Process /\ pc[j.by] = "registered")
BY DEF TypeOK, JobRow, StoredIffReturned

\* The invariant holds at first, whatever was in the tables.
LEMMA InvInit == Init => Inv
<1> SUFFICES ASSUME Init PROVE Inv
  OBVIOUS
<1>1. TypeOK
  BY TypeInit
<1>2. ASSUME NEW p \in Process PROVE ProcessRight(p)
  <2>1. /\ pc[p] = "check job" /\ lock[p] = "none"
        /\ newFlowcharts[p] = {} /\ newJobs[p] = {}
    BY DEF Init
  <2> QED
    BY <2>1 DEF ProcessRight, LockRight, FlowchartRight, JobRight, ChartRight,
                LookupHolds, ProjectsRight, Writes, Found
<1>3. OneWriter
  BY DEF Init, OneWriter, Writes
<1>4. FirstId \in Nat
  BY OldTableAssumption
<1>5. \A f \in flowcharts : f.id \in Nat /\ f.id < FirstId
  <2>1. \A f \in flowcharts : f.id \in 1 .. FirstId - 1
    BY OldTableAssumption DEF Init
  <2> QED
    BY <1>4, <2>1
<1>0. /\ JobsDistinct(jobs)
      /\ \A j \in jobs : j.by = Nobody /\ \E f \in flowcharts : f.id = j.flowchart
  BY OldTableAssumption DEF Init
<1>6. FlowchartsApart /\ NoNewDuplicate
  <2>1. nextId = FirstId /\ \A p \in Process : newFlowcharts[p] = {}
    BY DEF Init
  <2>2. FirstId = 1 \/ \E f \in flowcharts : f.id = FirstId - 1
    BY OldTableAssumption DEF Init
  <2> QED
    BY <1>4, <1>5, <2>1, <2>2 DEF FlowchartsApart, NoNewDuplicate
<1>7. JobsApart /\ IdsChecked /\ JobRunsItsFlowchart
  BY <1>0, NobodyAssumption
  DEF Init, JobsApart, JobsDistinct, IdsChecked, JobRunsItsFlowchart
<1>8. StoredIffReturned /\ ConstraintMeansTaken /\ SomebodyGoesOn
  BY <1>0, NobodyAssumption
  DEF Init, StoredIffReturned, ConstraintMeansTaken, SomebodyGoesOn
<1>9. OrphansAreFailures
  BY <1>4, <1>5 DEF OrphansAreFailures
<1> QED
  BY <1>1, <1>2, <1>3, <1>6, <1>7, <1>8, <1>9 DEF Inv

\* p alone takes the step.
OthersWait(p) ==
    /\ UNCHANGED <<db, req>>
    /\ \A q \in Process \ {p} :
          /\ pc'[q] = pc[q] /\ lock'[q] = lock[q] /\ chart'[q] = chart[q]
          /\ newFlowcharts'[q] = newFlowcharts[q] /\ newJobs'[q] = newJobs[q]

\* What holds of a process goes on holding while others take steps; flowcharts
\* may be added if the process holds no lock.
LEMMA OthersRight ==
    ASSUME Inv, NEW p \in Process, OthersWait(p), NEW q \in Process \ {p},
           flowcharts \subseteq flowcharts',
           lock[q] # "none" => UNCHANGED <<flowcharts, nextId>>
    PROVE  ProcessRight(q)'
<1>1. ProcessRight(q)
  BY DEF Inv
<1>2. /\ UNCHANGED <<db, req>>
      /\ pc'[q] = pc[q] /\ lock'[q] = lock[q] /\ chart'[q] = chart[q]
      /\ newFlowcharts'[q] = newFlowcharts[q] /\ newJobs'[q] = newJobs[q]
  BY DEF OthersWait
<1>3. Projects(q)' = Projects(q) /\ RowDigest(q)' = RowDigest(q) /\ NewJob(q)' = NewJob(q)
  BY <1>2, SameRequest, SameJob
<1>4. Writes(q)' = Writes(q)
  BY <1>2 DEF Writes
<1>5. LockRight(q)'
  BY <1>1, <1>2, <1>4 DEF ProcessRight, LockRight
<1>6. FlowchartRight(q)'
  <2>1. newFlowcharts[q] # {} => NewFlowchart(q)' = NewFlowchart(q)
    BY <1>1, <1>2, SameFlowchart DEF ProcessRight, FlowchartRight, Writes
  <2> QED
    BY <1>1, <1>2, <1>4, <2>1 DEF ProcessRight, FlowchartRight
<1>7. JobRight(q)'
  BY <1>1, <1>2, <1>3, <1>4 DEF ProcessRight, JobRight
<1>8. ChartRight(q)'
  BY <1>1, <1>2, <1>3 DEF ProcessRight, ChartRight, Found
<1>9. LookupHolds(q)'
  BY <1>1, <1>2 DEF ProcessRight, LookupHolds, Clashing
<1>10. ProjectsRight(q)'
  BY <1>1, <1>2, <1>3 DEF ProcessRight, ProjectsRight, Running
<1> QED
  BY <1>5, <1>6, <1>7, <1>8, <1>9, <1>10 DEF ProcessRight

\* The jobs in the table are old or of processes whose call has returned, not of p.
LEMMA JobsOfOthers ==
    ASSUME Inv, NEW p \in Process, pc[p] \in Running, OthersWait(p), NEW j \in jobs
    PROVE  /\ j.by # p
           /\ j.by # Nobody => j.by \in Process
           /\ j.by \in Process => /\ pc'[j.by] = "registered"
                                 /\ RowDigest(j.by)' = RowDigest(j.by)
<1>1. j.by = Nobody \/ (j.by \in Process /\ pc[j.by] = "registered")
  BY JobsBy DEF Inv
<1>2. j.by # p
  BY <1>1, NobodyAssumption DEF Running
<1>3. ASSUME j.by \in Process
      PROVE  pc'[j.by] = "registered" /\ RowDigest(j.by)' = RowDigest(j.by)
  <2>1. pc[j.by] = "registered" /\ j.by \in Process \ {p}
    BY <1>1, <1>2, <1>3, NobodyAssumption
  <2> QED
    BY <2>1, SameRequest DEF OthersWait
<1> QED
  BY <1>1, <1>2, <1>3

\* What was said of the jobs in the table stays true while it does not change.
LEMMA JobsKept ==
    ASSUME Inv, NEW p \in Process, pc[p] \in Running, pc'[p] # "registered",
           OthersWait(p), UNCHANGED jobs, flowcharts \subseteq flowcharts',
           pc'[p] = "constraint" => \E j \in jobs : Outruns(j, p)
    PROVE  JobRunsItsFlowchart' /\ StoredIffReturned' /\ ConstraintMeansTaken'
<1>1. \A j \in jobs : /\ j.by # p
                      /\ j.by \in Process => /\ pc'[j.by] = "registered"
                                            /\ RowDigest(j.by)' = RowDigest(j.by)
  BY JobsOfOthers
<1>2. JobRunsItsFlowchart'
  BY <1>1 DEF Inv, JobRunsItsFlowchart
<1>3. \A q \in Process \ {p} : pc'[q] = pc[q] /\ NewJob(q)' = NewJob(q)
  BY SameJob DEF OthersWait
<1>4. StoredIffReturned'
  BY <1>1, <1>3 DEF Inv, StoredIffReturned
<1>5. \A j \in jobs, q \in Process : Outruns(j, q)' = Outruns(j, q)
  BY DEF OthersWait, Outruns, SamePath
<1>6. ConstraintMeansTaken'
  BY <1>1, <1>3, <1>5 DEF Inv, ConstraintMeansTaken
<1> QED
  BY <1>2, <1>4, <1>6

\* A process that goes on is not stopped by what others do.
LEMMA OthersGoOn ==
    ASSUME NEW p \in Process, OthersWait(p), jobs \subseteq jobs',
           NEW q \in Process \ {p}, GoesOn(q)
    PROVE  GoesOn(q)'
BY DEF OthersWait, GoesOn, Doomed, SamePath

\* No job is made by nobody, and p has looked for its id before it went on.
LEMMA IdsKept ==
    ASSUME Inv, NEW p \in Process, OthersWait(p),
           \A j \in jobs' : j \in jobs \/ j.by \in Process,
           pc'[p] \in Running \ {"check job"} =>
               \/ pc[p] \in Running \ {"check job"}
               \/ \A j \in jobs : j.id # req[p].job
    PROVE  IdsChecked'
<1>1. ASSUME NEW q \in Process, NEW j \in jobs', j.by = Nobody,
             pc'[q] \in Running \ {"check job"}
      PROVE  j.id # req'[q].job
  <2>1. j \in jobs /\ req' = req
    BY <1>1, NobodyAssumption DEF OthersWait
  <2>2. CASE q = p
    BY <1>1, <2>1, <2>2 DEF Inv, IdsChecked
  <2>3. CASE q # p
    BY <1>1, <2>1, <2>3 DEF Inv, IdsChecked, OthersWait
  <2> QED
    BY <2>2, <2>3
<1> QED
  BY <1>1 DEF IdsChecked

\* A call between its commits stays there while others take steps, and while its own
\* keep it there.
LEMMA OrphansKept ==
    ASSUME Inv, NEW p \in Process, OthersWait(p), UNCHANGED <<flowcharts, jobs>>,
           pc[p] \in BetweenCommits => pc'[p] \in BetweenCommits /\ chart'[p] = chart[p]
    PROVE  OrphansAreFailures'
<1>1. \A q \in Process : pc[q] \in BetweenCommits =>
                           pc'[q] \in BetweenCommits /\ chart'[q] = chart[q]
  BY DEF OthersWait
<1> QED
  BY <1>1 DEF Inv, OrphansAreFailures

\* A step of p that inserts nothing and commits nothing keeps the invariant.
LEMMA QuietKeeps ==
    ASSUME Inv, TypeOK', NEW p \in Process, pc[p] \in Running, OthersWait(p),
           UNCHANGED <<newFlowcharts, newJobs, flowcharts, jobs, nextId>>,
           ProcessRight(p)', OneWriter',
           pc'[p] \notin {"registered", "constraint", "locked"},
           pc[p] = "check job" /\ pc'[p] \in Running => \A j \in jobs : j.id # req[p].job,
           GoesOn(p) => GoesOn(p)',
           pc[p] \in BetweenCommits => pc'[p] \in BetweenCommits /\ chart'[p] = chart[p]
    PROVE  Inv'
<1>1. \A q \in Process : ProcessRight(q)'
  BY OthersRight
<1>2. FlowchartsApart' /\ NoNewDuplicate' /\ JobsApart' /\ IdsChecked'
  BY IdsKept DEF Inv, FlowchartsApart, NoNewDuplicate, JobsApart
<1>3. JobRunsItsFlowchart' /\ StoredIffReturned' /\ ConstraintMeansTaken'
  BY JobsKept
<1>4. SomebodyGoesOn'
  BY OthersGoOn DEF Inv, SomebodyGoesOn, OthersWait
<1>5. OrphansAreFailures'
  BY OrphansKept
<1> QED
  BY <1>1, <1>2, <1>3, <1>4, <1>5 DEF Inv

\* An exception keeps it: what p inserted is gone, and nobody relied on p, or on
\* a lock that p holds, without another process going on.
LEMMA FailKeeps ==
    ASSUME Inv, TypeOK', NEW p \in Process, pc[p] \in Running,
           NEW how \in Ended \ {"registered"}, Fail(p, how),
           how = "constraint" => JobViolates(p) /\ pc[p] # "check job",
           \/ how = "crashed" \/ how = "constraint" \/ ~db.patient
           \/ how = "locked" /\ WriteBlocked(p)
           \/ how # "locked" /\ ~GoesOn(p),
           how \in BetweenCommits \/ pc[p] \notin BetweenCommits
    PROVE  Inv'
<1>1. UNCHANGED <<chart, flowcharts, jobs, nextId>> /\ OthersWait(p)
  <2>1. TypeOK
    BY DEF Inv
  <2> QED
    BY <2>1 DEF Fail, Goto, tables, OthersWait, TypeOK
<1>2. /\ pc'[p] = how /\ lock'[p] = "none"
      /\ newFlowcharts'[p] = {} /\ newJobs'[p] = {}
  BY DEF Fail, Goto, Inv, TypeOK
<1>3. ProcessRight(p)'
  <2>1. /\ pc'[p] \notin Found \cup Running
        /\ pc'[p] \notin {"insert flowchart", "release savepoint", "commit"}
    BY <1>2 DEF Ended, Running, Found
  <2> QED
    BY <1>2, <2>1 DEF ProcessRight, LockRight, FlowchartRight, JobRight, ChartRight,
                      LookupHolds, ProjectsRight, Writes
<1>4. \A q \in Process : ProcessRight(q)'
  BY <1>1, <1>3, OthersRight
<1>5. OneWriter'
  BY <1>1, <1>2 DEF Inv, OneWriter, Writes, OthersWait
<1>6. FlowchartsApart' /\ NoNewDuplicate' /\ JobsApart' /\ IdsChecked'
  <2>1. pc'[p] \notin Running
    BY <1>2 DEF Running, Ended
  <2>2. IdsChecked'
    BY <1>1, <2>1, IdsKept
  <2>3. \A q \in Process : newFlowcharts'[q] \subseteq newFlowcharts[q]
                          /\ newJobs'[q] \subseteq newJobs[q]
    BY <1>1, <1>2 DEF OthersWait
  <2>4. FlowchartsApart'
    BY <1>1, <2>3 DEF Inv, FlowchartsApart
  <2>5. NoNewDuplicate'
    BY <1>1 DEF Inv, NoNewDuplicate
  <2>6. JobsApart'
    BY <1>1, <2>3 DEF Inv, JobsApart
  <2> QED
    BY <2>2, <2>4, <2>5, <2>6
<1>0. how = "constraint" => \E j \in jobs : Outruns(j, p)
  BY LinkedOnce DEF JobViolates, Outruns, Inv, IdsChecked
<1>7. JobRunsItsFlowchart' /\ StoredIffReturned' /\ ConstraintMeansTaken'
  BY <1>0, <1>1, <1>2, JobsKept
<1>8. SomebodyGoesOn'
  <2> SUFFICES ASSUME db.patient, \E q \in Process : pc'[q] = "locked"
               PROVE  \E q \in Process : GoesOn(q)'
    BY <1>1 DEF SomebodyGoesOn, OthersWait
  <2>1. CASE how = "crashed"
    BY <1>2, <2>1 DEF GoesOn
  <2>2. CASE how = "constraint"
    <3>1. PICK j \in jobs : Outruns(j, p)
      BY <1>0, <2>2
    <3>2. CASE j.by = Nobody
      <4>1. Doomed(p)'
        BY <1>1, <1>2, <2>2, <3>1, <3>2 DEF Doomed, Outruns, SamePath, OthersWait
      <4> QED
        BY <4>1 DEF GoesOn
    <3>3. CASE j.by # Nobody
      BY <1>1, <3>3, JobsOfOthers DEF GoesOn
    <3> QED
      BY <3>2, <3>3
  <2>3. CASE how = "locked" /\ WriteBlocked(p)
    <3>1. PICK q \in Process \ {p} : Writes(q)
      BY <2>3 DEF WriteBlocked
    <3>2. GoesOn(q)
      BY <3>1 DEF Inv, ProcessRight, LockRight, GoesOn
    <3> QED
      BY <1>1, <3>2, OthersGoOn
  <2>4. CASE how # "locked" /\ ~GoesOn(p)
    <3>1. \E q \in Process : pc[q] = "locked"
      BY <1>1, <1>2, <2>4 DEF OthersWait
    <3> QED
      BY <1>1, <2>4, <3>1, OthersGoOn DEF Inv, SomebodyGoesOn
  <2> QED
    BY <2>1, <2>2, <2>3, <2>4
<1>9. OrphansAreFailures'
  BY <1>1, <1>2, OrphansKept
<1> QED
  BY <1>4, <1>5, <1>6, <1>7, <1>8, <1>9 DEF Inv

\* A COMMIT that goes through keeps it: the rows p adds to the tables are apart
\* from those that are there, and from those others may add later.
LEMMA CommitKeeps ==
    ASSUME Inv, TypeOK', NEW p \in Process, ~CommitBlocked(p), CommitRows(p),
           UNCHANGED <<db, req>>,
           \/ /\ pc[p] = "release savepoint" /\ Goto(p, "insert job")
              /\ chart' = [chart EXCEPT ![p] = nextId] /\ nextId' = nextId + 1
           \/ /\ pc[p] = "commit" /\ Goto(p, "registered")
              /\ UNCHANGED <<chart, nextId>>
    PROVE  Inv'
<1>1. /\ flowcharts' = flowcharts \cup newFlowcharts[p]
      /\ jobs' = jobs \cup newJobs[p]
      /\ OthersWait(p)
  <2>1. \A q \in Process \ {p} : pc'[q] = pc[q] /\ chart'[q] = chart[q]
    BY DEF Goto, Inv, TypeOK
  <2>2. \A q \in Process \ {p} :
           /\ lock'[q] = lock[q]
           /\ newFlowcharts'[q] = newFlowcharts[q] /\ newJobs'[q] = newJobs[q]
    BY DEF CommitRows, Inv, TypeOK
  <2> QED
    BY <2>1, <2>2 DEF CommitRows, OthersWait
<1>2. lock'[p] = "none" /\ newFlowcharts'[p] = {} /\ newJobs'[p] = {}
  BY DEF CommitRows, Inv, TypeOK
<1>3. \/ /\ pc[p] = "release savepoint" /\ pc'[p] = "insert job"
         /\ chart'[p] = nextId /\ nextId' = nextId + 1
         /\ newFlowcharts[p] = {NewFlowchart(p)}
      \/ /\ pc[p] = "commit" /\ pc'[p] = "registered"
         /\ UNCHANGED <<chart, nextId>> /\ newFlowcharts[p] = {}
  BY DEF Goto, Inv, TypeOK, ProcessRight, FlowchartRight
<1>4. ProcessRight(p)
  BY DEF Inv
<1>5. /\ Projects(p)' = Projects(p) /\ RowDigest(p)' = RowDigest(p)
      /\ pc[p] = "commit" => NewJob(p)' = NewJob(p)
  BY <1>3, SameRequest, SameJob
<1>6. \E f \in flowcharts' : f.id = chart'[p] /\ f.digest = RowDigest(p)
  <2>1. NewFlowchart(p).id = nextId /\ NewFlowchart(p).digest = RowDigest(p)
    BY DEF NewFlowchart
  <2> QED
    BY <1>1, <1>3, <1>4, <2>1 DEF ProcessRight, ChartRight, Found
<1>7. Projects(p) # {} /\ Projects(p) \subseteq Updatable
  BY <1>3, <1>4 DEF ProcessRight, ProjectsRight, Running
<1>8. ProcessRight(p)'
  <2>1. LockRight(p)' /\ FlowchartRight(p)' /\ JobRight(p)'
    BY <1>2, <1>3 DEF LockRight, Writes, FlowchartRight, JobRight
  <2>2. ChartRight(p)' /\ LookupHolds(p)' /\ ProjectsRight(p)'
    BY <1>3, <1>5, <1>6, <1>7 DEF ChartRight, LookupHolds, ProjectsRight
  <2> QED
    BY <2>1, <2>2 DEF ProcessRight
<1>9. \A q \in Process : ProcessRight(q)'
  <2>1. \A q \in Process \ {p} : lock[q] = "none"
    BY DEF CommitBlocked
  <2>2. flowcharts \subseteq flowcharts'
    BY <1>1
  <2>3. \A q \in Process \ {p} : ProcessRight(q)'
    BY <1>1, <2>1, <2>2, OthersRight
  <2> QED
    BY <1>8, <2>3
<1>10. OneWriter'
  BY <1>1, <1>2 DEF Inv, OneWriter, Writes, OthersWait
<1>11. \A f, g \in newFlowcharts[p] : f = g
  BY <1>3
<1>12. FlowchartsApart'
  <2>1. \A q \in Process : newFlowcharts'[q] = {}
    <3>1. \A q \in Process \ {p} : newFlowcharts[q] = {}
      BY DEF CommitBlocked, Inv, ProcessRight, FlowchartRight, Writes
    <3> QED
      BY <1>1, <1>2, <3>1 DEF OthersWait
  <2>2. nextId \in Nat /\ FirstId \in Nat /\ \A f \in flowcharts : f.id \in Nat
    BY OldTableAssumption DEF Inv, TypeOK, FlowchartRow
  <2>3. CASE pc[p] = "release savepoint"
    <3>1. flowcharts' = flowcharts \cup {NewFlowchart(p)} /\ nextId' = nextId + 1
      BY <1>1, <1>3, <2>3
    <3>2. NewFlowchart(p).id = nextId
      BY DEF NewFlowchart
    <3>3. FirstId <= nextId' /\ \A f \in flowcharts' : f.id < nextId'
      <4>1. FirstId <= nextId /\ \A f \in flowcharts : f.id < nextId
        BY DEF Inv, FlowchartsApart
      <4> QED
        BY <2>2, <3>1, <3>2, <4>1, NextIsGreater
    <3>4. \E f \in flowcharts' : f.id = nextId' - 1
      <4>1. NewFlowchart(p).id = nextId' - 1
        BY <2>2, <3>1, <3>2, NextIsGreater
      <4> QED
        BY <3>1, <4>1
    <3> QED
      BY <2>1, <3>3, <3>4 DEF FlowchartsApart
  <2>4. CASE pc[p] = "commit"
    BY <1>1, <1>3, <2>1, <2>4 DEF Inv, FlowchartsApart
  <2> QED
    BY <1>3, <2>3, <2>4
<1>13. NoNewDuplicate'
  BY <1>1, <1>11 DEF Inv, FlowchartsApart, NoNewDuplicate, Apart
<1>14. /\ pc[p] = "commit" => newJobs[p] = {NewJob(p)}
       /\ pc[p] # "commit" => newJobs[p] = {}
  BY <1>4 DEF ProcessRight, JobRight
<1>15. JobsApart'
  <2>1. \A q \in Process : newJobs'[q] # {} => q # p /\ newJobs'[q] = newJobs[q]
    BY <1>1, <1>2 DEF OthersWait
  <2>2. \A i, j \in newJobs[p] : i = j
    BY <1>14
  <2>3. \A i, j \in jobs' : i.id = j.id => i = j
    BY <1>1, <2>2 DEF Inv, JobsApart
  <2>4. ASSUME NEW q \in Process, NEW j \in newJobs'[q]
        PROVE  /\ \A i \in jobs' : i.id # j.id
               /\ \A r \in Process \ {q} : \A i \in newJobs'[r] : i.id # j.id
    BY <1>1, <2>1, <2>4 DEF Inv, JobsApart
  <2> QED
    BY <2>3, <2>4 DEF JobsApart
<1>16. \A j \in jobs : j.by \in Process => /\ pc'[j.by] = "registered"
                                            /\ RowDigest(j.by)' = RowDigest(j.by)
  BY <1>1, <1>3, JobsOfOthers DEF Running
<1>17. /\ NewJob(p).by = p /\ NewJob(p).flowchart = chart[p]
       /\ NewJob(p).projects = Projects(p)
       /\ pc[p] = "commit" => chart'[p] = chart[p]
  BY <1>3 DEF NewJob
<1>18. JobRunsItsFlowchart'
  <2>1. ASSUME NEW j \in jobs
        PROVE  \E f \in flowcharts' :
                   f.id = j.flowchart /\ (j.by \in Process => f.digest = RowDigest(j.by)')
    <3>1. \E f \in flowcharts :
              f.id = j.flowchart /\ (j.by \in Process => f.digest = RowDigest(j.by))
      BY DEF Inv, JobRunsItsFlowchart
    <3> QED
      BY <1>1, <1>16, <3>1
  <2>2. ASSUME NEW j \in newJobs[p] PROVE \E f \in flowcharts' : f.id = j.flowchart /\ f.digest = RowDigest(j.by)'
    BY <1>5, <1>6, <1>14, <1>17
  <2> QED
    BY <1>1, <2>1, <2>2 DEF JobRunsItsFlowchart
<1>19. \A q \in Process \ {p} : pc'[q] = pc[q] /\ NewJob(q)' = NewJob(q)
  BY <1>1, SameJob DEF OthersWait
<1>20. StoredIffReturned'
  BY <1>1, <1>3, <1>5, <1>7, <1>14, <1>16, <1>17, <1>19 DEF Inv, StoredIffReturned
<1>21. ConstraintMeansTaken'
  <2>1. \A j \in jobs, q \in Process : Outruns(j, q)' = Outruns(j, q)
    BY <1>1 DEF OthersWait, Outruns, SamePath
  <2> QED
    BY <1>1, <1>3, <1>19, <2>1 DEF Inv, ConstraintMeansTaken
<1>22. SomebodyGoesOn' /\ IdsChecked'
  <2>1. SomebodyGoesOn'
    BY <1>2, <1>3 DEF SomebodyGoesOn, GoesOn
  <2>2. \A j \in jobs' : j \in jobs \/ j.by \in Process
    BY <1>1, <1>14, <1>17
  <2>3. pc[p] \in Running \ {"check job"}
    BY <1>3 DEF Running
  <2> QED
    BY <1>1, <2>1, <2>2, <2>3, IdsKept
<1>23. OrphansAreFailures'
  <2>1. ASSUME NEW f \in flowcharts', f.id >= FirstId, \A j \in jobs' : j.flowchart # f.id
        PROVE  \E q \in Process : chart'[q] = f.id /\ pc'[q] \in BetweenCommits
    <3>1. \A q \in Process \ {p} : pc'[q] = pc[q] /\ chart'[q] = chart[q]
      BY <1>1 DEF OthersWait
    <3>2. pc[p] = "commit" => f.id # chart[p]
      BY <1>1, <1>14, <1>17, <2>1
    <3>3. CASE f \in newFlowcharts[p]
      <4>1. pc[p] = "release savepoint" /\ f = NewFlowchart(p)
        BY <1>3, <3>3
      <4>2. chart'[p] = f.id /\ pc'[p] \in BetweenCommits
        BY <1>3, <4>1 DEF NewFlowchart, BetweenCommits
      <4> QED
        BY <4>2
    <3>4. CASE f \in flowcharts
      <4>1. PICK q \in Process : chart[q] = f.id /\ pc[q] \in BetweenCommits
        BY <1>1, <2>1, <3>4 DEF Inv, OrphansAreFailures
      <4>2. q = p => pc[p] = "release savepoint"
        BY <1>3, <3>2, <4>1
      <4> QED
        BY <3>1, <4>1, <4>2 DEF BetweenCommits
    <3> QED
      BY <1>1, <3>3, <3>4
  <2> QED
    BY <2>1 DEF OrphansAreFailures
<1> QED
  BY <1>9, <1>10, <1>12, <1>13, <1>15, <1>18, <1>20, <1>21, <1>22, <1>23 DEF Inv

\* The INSERT of a flowchart is never refused by a constraint.
LEMMA InsertAccepted ==
    ASSUME Inv, NEW p \in Process, pc[p] = "insert flowchart"
    PROVE  ~FlowchartViolates(p)
<1>1. NewFlowchart(p).digest = RowDigest(p)
  BY DEF NewFlowchart
<1>2. CASE req[p].digest \in Digest
  <2>1. Clashing(p) = {} /\ RowDigest(p) = req[p].digest /\ req[p].digest # Missing
    BY <1>2, RowDigestOf, NullAssumption DEF Inv, ProcessRight, LookupHolds
  <2> QED
    BY <1>1, <2>1, LinkedOnce DEF FlowchartViolates, SameKey, Clashing
<1>3. CASE req[p].digest \notin Digest
  BY <1>1, <1>3, RowDigestOf, LinkedOnce DEF Inv, FlowchartViolates, SameKey
<1> QED
  BY <1>2, <1>3

\* While nobody else writes, nobody else has uncommitted rows.
LEMMA NobodyElseInserted ==
    ASSUME Inv, NEW p \in Process, ~WriteBlocked(p), NEW q \in Process \ {p}
    PROVE  newFlowcharts[q] = {} /\ newJobs[q] = {}
<1>1. ~Writes(q)
  BY DEF WriteBlocked
<1> QED
  BY <1>1 DEF Inv, ProcessRight, FlowchartRight, JobRight

\* A smaller id is another id.
LEMMA SmallerDiffers == \A m, n \in Nat : m < n => m # n
OBVIOUS

\* A flowchart that the database lets in is apart from all that are there.
LEMMA NewFlowchartApart ==
    ASSUME Inv, NEW p \in Process, pc[p] = "insert flowchart", ~WriteBlocked(p)
    PROVE  /\ \A g \in flowcharts : Apart(NewFlowchart(p), g)
           /\ \A q \in Process \ {p} : newFlowcharts[q] = {}
<1>1. NewFlowchart(p).id = nextId /\ NewFlowchart(p).digest = RowDigest(p)
  BY DEF NewFlowchart
<1>2. nextId \in Nat
  BY DEF Inv, TypeOK
<1>3. ASSUME NEW g \in FlowchartRow, g.id < nextId PROVE g.id # nextId
  <2>1. g.id \in Nat
    BY DEF FlowchartRow
  <2> QED
    BY <1>2, <1>3, <2>1, SmallerDiffers
<1>4. \A g \in flowcharts : g.id # nextId
  BY <1>3 DEF Inv, FlowchartsApart, TypeOK
<1>5. \A q \in Process \ {p} : newFlowcharts[q] = {}
  BY NobodyElseInserted
<1>6. ASSUME NEW g \in flowcharts, RowDigest(p) # Null PROVE g.digest # RowDigest(p)
  <2>1. req[p].digest \in Digest /\ RowDigest(p) = req[p].digest
    BY <1>6, RowDigestOf DEF Inv
  <2>2. Clashing(p) = {}
    BY <2>1 DEF Inv, ProcessRight, LookupHolds
  <2> QED
    BY <2>1, <2>2, NullAssumption DEF Clashing
<1> QED
  BY <1>1, <1>4, <1>5, <1>6 DEF Apart

\* An INSERT of a flowchart that goes through keeps the invariant.
LEMMA InsertFlowchartKeeps ==
    ASSUME Inv, TypeOK', NEW p \in Process, InsertFlowchart(p), ~FlowchartViolates(p)
    PROVE  Inv'
<1>1. /\ pc[p] = "insert flowchart" /\ ~WriteBlocked(p)
      /\ pc' = [pc EXCEPT ![p] = "release savepoint"]
      /\ newFlowcharts' = [newFlowcharts EXCEPT ![p] = {NewFlowchart(p)}]
      /\ lock' = [lock EXCEPT ![p] = "reserved"]
      /\ UNCHANGED <<db, req, chart, newJobs, flowcharts, jobs, nextId>>
  BY DEF InsertFlowchart, Goto, Take, tables
<1>2. /\ pc'[p] = "release savepoint" /\ NewFlowchart(p)' = NewFlowchart(p)
      /\ newFlowcharts'[p] = {NewFlowchart(p)}
      /\ lock'[p] = "reserved"
  BY <1>1, SameFlowchart DEF Inv, TypeOK
<1>3. OthersWait(p)
  BY <1>1 DEF OthersWait, Inv, TypeOK
<1>4. ProcessRight(p)
  BY DEF Inv
<1>5. Projects(p)' = Projects(p) /\ RowDigest(p)' = RowDigest(p)
  BY <1>1, SameRequest
<1>6. NewFlowchart(p).id = nextId /\ NewFlowchart(p).digest = RowDigest(p)
  BY DEF NewFlowchart
<1>7. ProcessRight(p)'
  <2>1. LockRight(p)'
    BY <1>1, <1>2, <1>4 DEF ProcessRight, LockRight, Writes
  <2>2. FlowchartRight(p)'
    BY <1>2 DEF FlowchartRight, Writes
  <2>3. JobRight(p)'
    BY <1>1, <1>2, <1>4 DEF ProcessRight, JobRight
  <2>4. ChartRight(p)'
    BY <1>2 DEF ChartRight, Found
  <2>5. LookupHolds(p)'
    BY <1>2 DEF LookupHolds
  <2>6. ProjectsRight(p)'
    BY <1>1, <1>4, <1>5 DEF ProcessRight, ProjectsRight, Running
  <2> QED
    BY <2>1, <2>2, <2>3, <2>4, <2>5, <2>6 DEF ProcessRight
<1>8. \A q \in Process : ProcessRight(q)'
  BY <1>1, <1>3, <1>7, OthersRight
<1>9. OneWriter'
  <2>1. \A q \in Process \ {p} : Writes(q)' = Writes(q)
    BY <1>3 DEF OthersWait, Writes
  <2>2. \A q \in Process \ {p} : ~Writes(q)
    BY <1>1 DEF WriteBlocked
  <2> QED
    BY <2>1, <2>2 DEF OneWriter
<1>10. FlowchartsApart'
  <2>1. /\ \A g \in flowcharts : Apart(NewFlowchart(p), g)
        /\ \A q \in Process \ {p} : newFlowcharts'[q] = {}
    BY <1>1, <1>3, NewFlowchartApart DEF OthersWait
  <2>2. ASSUME NEW q \in Process, NEW f \in newFlowcharts'[q]
        PROVE  \A g \in flowcharts : Apart(f, g)
    <3>1. q = p
      BY <2>1, <2>2
    <3>2. f \in {NewFlowchart(p)}
      BY <1>2, <2>2, <3>1
    <3> QED
      BY <2>1, <3>2
  <2> QED
    BY <1>1, <2>2 DEF Inv, FlowchartsApart
<1>11. NoNewDuplicate' /\ JobsApart'
  BY <1>1 DEF Inv, NoNewDuplicate, JobsApart
<1>12. JobRunsItsFlowchart' /\ StoredIffReturned' /\ ConstraintMeansTaken'
  BY <1>1, <1>2, <1>3, JobsKept DEF Running
<1>13. SomebodyGoesOn' /\ IdsChecked'
  BY <1>1, <1>2, <1>3, IdsKept DEF SomebodyGoesOn, GoesOn, Running
<1>14. OrphansAreFailures'
  BY <1>1, <1>3, OrphansKept DEF BetweenCommits
<1> QED
  BY <1>8, <1>9, <1>10, <1>11, <1>12, <1>13, <1>14 DEF Inv

\* So does an INSERT of a job.
LEMMA InsertJobKeeps ==
    ASSUME Inv, TypeOK', NEW p \in Process, InsertJob(p), ~JobViolates(p)
    PROVE  Inv'
<1>1. /\ pc[p] = "insert job" /\ ~WriteBlocked(p)
      /\ pc' = [pc EXCEPT ![p] = "commit"]
      /\ newJobs' = [newJobs EXCEPT ![p] = {NewJob(p)}]
      /\ lock' = [lock EXCEPT ![p] = "reserved"]
      /\ UNCHANGED <<db, req, chart, newFlowcharts, flowcharts, jobs, nextId>>
  BY DEF InsertJob, Goto, Take, tables
<1>2. /\ pc'[p] = "commit" /\ newJobs'[p] = {NewJob(p)}
      /\ lock'[p] = "reserved"
  BY <1>1 DEF Inv, TypeOK
<1>3. OthersWait(p)
  BY <1>1 DEF OthersWait, Inv, TypeOK
<1>4. ProcessRight(p)
  BY DEF Inv
<1>5. Projects(p)' = Projects(p) /\ RowDigest(p)' = RowDigest(p) /\ NewJob(p)' = NewJob(p)
  BY <1>1, SameRequest, SameJob
<1>6. NewJob(p).id = req[p].job
  BY DEF NewJob
<1>7. ProcessRight(p)'
  <2>1. LockRight(p)'
    BY <1>1, <1>2, <1>4 DEF ProcessRight, LockRight, Writes
  <2>2. FlowchartRight(p)'
    BY <1>1, <1>2, <1>4, <1>5 DEF ProcessRight, FlowchartRight, Writes
  <2>3. JobRight(p)'
    BY <1>1, <1>2, <1>5 DEF JobRight, Writes
  <2>4. ChartRight(p)'
    BY <1>1, <1>2, <1>4, <1>5 DEF ProcessRight, ChartRight, Found
  <2>5. LookupHolds(p)'
    BY <1>2 DEF LookupHolds
  <2>6. ProjectsRight(p)'
    BY <1>1, <1>4, <1>5 DEF ProcessRight, ProjectsRight, Running
  <2> QED
    BY <2>1, <2>2, <2>3, <2>4, <2>5, <2>6 DEF ProcessRight
<1>8. \A q \in Process : ProcessRight(q)'
  BY <1>1, <1>3, <1>7, OthersRight
<1>9. OneWriter'
  <2>1. \A q \in Process \ {p} : Writes(q)' = Writes(q)
    BY <1>3 DEF OthersWait, Writes
  <2>2. \A q \in Process \ {p} : ~Writes(q)
    BY <1>1 DEF WriteBlocked
  <2> QED
    BY <2>1, <2>2 DEF OneWriter
<1>10. FlowchartsApart' /\ NoNewDuplicate'
  BY <1>1 DEF Inv, FlowchartsApart, NoNewDuplicate
<1>11. JobsApart'
  <2>1. \A i \in jobs : i.id # NewJob(p).id
    BY <1>6 DEF JobViolates
  <2>2. \A q \in Process \ {p} : \A i \in newJobs[q] : i.id # NewJob(p).id
    BY <1>1, NobodyElseInserted
  <2>3. ASSUME NEW q \in Process, NEW j \in newJobs'[q]
        PROVE  /\ \A i \in jobs : i.id # j.id
               /\ \A r \in Process \ {q} : \A i \in newJobs'[r] : i.id # j.id
    <3>1. CASE q = p
      BY <1>2, <1>3, <2>1, <2>2, <3>1 DEF OthersWait
    <3>2. CASE q # p
      <4>1. j \in newJobs[q]
        BY <1>3, <3>2 DEF OthersWait
      <4>2. ASSUME NEW r \in Process \ {q}, NEW i \in newJobs'[r] PROVE i.id # j.id
        <5>1. CASE r = p
          BY <1>2, <2>2, <3>2, <4>1, <5>1
        <5>2. CASE r # p
          BY <1>3, <4>1, <5>2 DEF OthersWait, Inv, JobsApart
        <5> QED
          BY <5>1, <5>2
      <4> QED
        BY <4>1, <4>2 DEF Inv, JobsApart
    <3> QED
      BY <3>1, <3>2
  <2> QED
    BY <1>1, <2>3 DEF Inv, JobsApart
<1>12. JobRunsItsFlowchart' /\ StoredIffReturned' /\ ConstraintMeansTaken'
  BY <1>1, <1>2, <1>3, JobsKept DEF Running
<1>13. SomebodyGoesOn' /\ IdsChecked'
  BY <1>1, <1>2, <1>3, IdsKept DEF SomebodyGoesOn, GoesOn, Running
<1>14. OrphansAreFailures'
  BY <1>1, <1>2, <1>3, OrphansKept DEF BetweenCommits
<1> QED
  BY <1>8, <1>9, <1>10, <1>11, <1>12, <1>13, <1>14 DEF Inv

\* So does a COMMIT that waits.
LEMMA AwaitKeeps ==
    ASSUME Inv, TypeOK', NEW p \in Process, pc[p] \in Running, AwaitReaders(p)
    PROVE  Inv'
<1>1. /\ lock[p] = "reserved" /\ lock' = [lock EXCEPT ![p] = "pending"]
      /\ UNCHANGED <<db, req, pc, chart, newFlowcharts, newJobs, flowcharts, jobs, nextId>>
  BY DEF AwaitReaders, tables
<1>2. lock'[p] = "pending" /\ OthersWait(p)
  BY <1>1 DEF OthersWait, Inv, TypeOK
<1>3. ProcessRight(p) /\ Writes(p) /\ Writes(p)'
  BY <1>1, <1>2 DEF Inv, Writes
<1>4. pc[p] \in {"release savepoint", "commit"}
  BY <1>1, <1>3 DEF ProcessRight, LockRight
<1>5. /\ Projects(p)' = Projects(p) /\ RowDigest(p)' = RowDigest(p)
      /\ NewJob(p)' = NewJob(p) /\ NewFlowchart(p)' = NewFlowchart(p)
  BY <1>1, SameRequest, SameJob, SameFlowchart
<1>6. ProcessRight(p)'
  <2>1. LockRight(p)' /\ FlowchartRight(p)' /\ JobRight(p)'
    BY <1>1, <1>3, <1>4, <1>5 DEF ProcessRight, LockRight, FlowchartRight, JobRight
  <2>2. ChartRight(p)' /\ LookupHolds(p)' /\ ProjectsRight(p)'
    BY <1>1, <1>3, <1>4, <1>5 DEF ProcessRight, ChartRight, LookupHolds, ProjectsRight,
                                  Found, Running
  <2> QED
    BY <2>1, <2>2 DEF ProcessRight
<1>7. OneWriter'
  BY <1>2, <1>3 DEF Inv, OneWriter, Writes, OthersWait
<1>8. /\ pc'[p] \notin {"registered", "constraint", "locked"} /\ GoesOn(p)'
      /\ pc[p] # "check job"
  BY <1>1, <1>4 DEF GoesOn
<1> QED
  BY <1>1, <1>2, <1>6, <1>7, <1>8, QuietKeeps

\* A lookup that finds a flowchart gives p's job one with the digest of its file.
LEMMA UseFoundKeeps ==
    ASSUME Inv, TypeOK', NEW p \in Process, UseFound(p),
           pc[p] \in {"find flowchart", "find winner"},
           UNCHANGED <<db, req, lock, newFlowcharts, newJobs, tables, nextId>>
    PROVE  Inv'
<1>1. UNCHANGED <<db, req, lock, newFlowcharts, newJobs, flowcharts, jobs, nextId>>
  BY DEF tables
<1>2. PICK f \in flowcharts : /\ IsOldest(f, Matching(p))
                              /\ chart' = [chart EXCEPT ![p] = f.id]
                              /\ pc' = [pc EXCEPT ![p] = "insert job"]
  BY DEF UseFound, Goto
<1>3. /\ pc'[p] = "insert job" /\ chart'[p] = f.id /\ OthersWait(p)
  BY <1>1, <1>2 DEF OthersWait, Inv, TypeOK
<1>4. ProcessRight(p)
  BY DEF Inv
<1>5. Projects(p)' = Projects(p) /\ RowDigest(p)' = RowDigest(p)
  BY <1>1, SameRequest
<1>6. f.digest = RowDigest(p)
  BY <1>2, RowDigestOf DEF Inv, IsOldest, Matching
<1>7. newFlowcharts[p] = {} /\ newJobs[p] = {} /\ ~Writes(p)
  BY <1>4 DEF ProcessRight, FlowchartRight, JobRight, LockRight
<1>8. ~Writes(p)'
  BY <1>1, <1>7 DEF Writes
<1>9. ProcessRight(p)'
  <2>1. LockRight(p)' /\ FlowchartRight(p)' /\ JobRight(p)'
    BY <1>1, <1>3, <1>4, <1>7, <1>8 DEF ProcessRight, LockRight, FlowchartRight, JobRight
  <2>2. ChartRight(p)' /\ LookupHolds(p)' /\ ProjectsRight(p)'
    BY <1>1, <1>3, <1>4, <1>5, <1>6 DEF ProcessRight, ChartRight, LookupHolds,
                                        ProjectsRight, Running
  <2> QED
    BY <2>1, <2>2 DEF ProcessRight
<1>10. OneWriter'
  BY <1>1 DEF Inv, OneWriter, Writes
<1>11. ~GoesOn(p) /\ pc[p] \notin BetweenCommits
  BY DEF GoesOn, Doomed, BetweenCommits
<1>12. pc'[p] \notin {"registered", "constraint", "locked"} /\ pc[p] \in Running
  BY <1>3 DEF Running
<1> QED
  BY <1>1, <1>3, <1>9, <1>10, <1>11, <1>12, QuietKeeps

\* A step before the first INSERT in which p takes no lock to write.
LEMMA EarlyKeeps ==
    ASSUME Inv, TypeOK', NEW p \in Process, OthersWait(p),
           UNCHANGED <<newFlowcharts, newJobs, flowcharts, jobs, nextId>>,
           pc[p] \in {"check job", "check projects", "find flowchart", "look again"},
           pc'[p] \in {"already there", "no project", "not authorized", "check projects",
                       "find flowchart", "look again", "insert flowchart", "find winner"},
           lock'[p] \in {"none", "shared"} \/ UNCHANGED lock,
           pc[p] = "check job" /\ pc'[p] \in Running => \A j \in jobs : j.id # req[p].job,
           LookupHolds(p)', ProjectsRight(p)'
    PROVE  Inv'
<1>1. ProcessRight(p) /\ pc[p] \notin {"release savepoint", "commit"}
  BY DEF Inv
<1>2. newFlowcharts[p] = {} /\ newJobs[p] = {} /\ ~Writes(p)
  BY <1>1 DEF ProcessRight, FlowchartRight, JobRight, LockRight
<1>3. ~Writes(p)'
  BY <1>2 DEF Writes
<1>4. pc'[p] \notin Found \cup {"release savepoint"}
  BY DEF Found
<1>5. db' = db
  BY DEF OthersWait
<1>6. LockRight(p)'
  BY <1>1, <1>3, <1>5 DEF ProcessRight, LockRight
<1>7. FlowchartRight(p)' /\ JobRight(p)' /\ ChartRight(p)'
  BY <1>2, <1>4 DEF FlowchartRight, JobRight, ChartRight
<1>8. OneWriter'
  BY <1>3 DEF Inv, OneWriter, Writes, OthersWait
<1>9. /\ pc'[p] \notin {"registered", "constraint", "locked"} /\ pc[p] \in Running
      /\ ~GoesOn(p) /\ pc[p] \notin BetweenCommits
  BY DEF Running, GoesOn, Doomed, BetweenCommits
<1> QED
  BY <1>6, <1>7, <1>8, <1>9, QuietKeeps DEF ProcessRight

\* Every step keeps the invariant.
LEMMA InvStep ==
    ASSUME Inv, [Next]_vars
    PROVE  Inv'
<1>0. TypeOK'
  BY TypeStep DEF Inv
<1>1. ASSUME NEW p \in Process, CheckJob(p) PROVE Inv'
  <2>1. /\ pc[p] = "check job" /\ pc'[p] \in {"already there", "check projects"}
        /\ OthersWait(p)
        /\ pc'[p] = "check projects" => \A j \in jobs : j.id # req[p].job
        /\ UNCHANGED <<lock, newFlowcharts, newJobs, flowcharts, jobs, nextId>>
    BY <1>1 DEF CheckJob, Goto, tables, OthersWait, Inv, TypeOK
  <2>2. LookupHolds(p)' /\ ProjectsRight(p)'
    BY <2>1 DEF LookupHolds, ProjectsRight, Running
  <2>3. pc'[p] \in Running => pc'[p] = "check projects"
    BY <2>1 DEF Running
  <2> QED
    BY <1>0, <2>1, <2>2, <2>3, EarlyKeeps
<1>2. ASSUME NEW p \in Process, CheckProjects(p) PROVE Inv'
  <2>1. /\ pc[p] = "check projects" /\ OthersWait(p)
        /\ pc'[p] \in {"no project", "not authorized", "find flowchart"}
        /\ pc'[p] = "find flowchart" => Projects(p) # {} /\ Projects(p) \subseteq Updatable
        /\ UNCHANGED <<req, lock, newFlowcharts, newJobs, flowcharts, jobs, nextId>>
    BY <1>2 DEF CheckProjects, Goto, tables, OthersWait, Inv, TypeOK
  <2>2. LookupHolds(p)' /\ ProjectsRight(p)'
    BY <2>1, SameRequest DEF LookupHolds, ProjectsRight, Running
  <2> QED
    BY <1>0, <2>1, <2>2, EarlyKeeps
<1>3. ASSUME NEW p \in Process, FindFlowchart(p) PROVE Inv'
  <2>1. CASE UseFound(p)
    BY <1>0, <1>3, <2>1, UseFoundKeeps DEF FindFlowchart
  <2>2. CASE Goto(p, "look again") /\ UNCHANGED chart
    <3>1. /\ pc[p] = "find flowchart" /\ pc'[p] = "look again" /\ OthersWait(p)
          /\ UNCHANGED <<req, lock, newFlowcharts, newJobs, flowcharts, jobs, nextId>>
      BY <1>3, <2>2 DEF FindFlowchart, Goto, tables, OthersWait, Inv, TypeOK
    <3>2. LookupHolds(p)'
      BY <3>1 DEF LookupHolds
    <3>3. ProjectsRight(p)'
      BY <3>1, SameRequest DEF Inv, ProcessRight, ProjectsRight, Running
    <3> QED
      BY <1>0, <3>1, <3>2, <3>3, EarlyKeeps
  <2> QED
    BY <1>3, <2>1, <2>2 DEF FindFlowchart
<1>4. ASSUME NEW p \in Process, LookAgain(p) PROVE Inv'
  <2>1. /\ pc[p] = "look again" /\ pc'[p] \in {"insert flowchart", "find winner"}
        /\ OthersWait(p)
        /\ UNCHANGED <<req, newFlowcharts, newJobs, flowcharts, jobs, nextId>>
    BY <1>4 DEF LookAgain, Goto, Take, tables, OthersWait, Inv, TypeOK
  <2>2. lock'[p] \in {"none", "shared"} \/ UNCHANGED lock
    BY <1>4 DEF LookAgain, Take, Inv, TypeOK
  <2>3. LookupHolds(p)'
    <3>1. CASE req[p].digest = Missing
      BY <2>1, <3>1, NullAssumption DEF LookupHolds
    <3>2. CASE req[p].digest # Missing
      <4>1. /\ lock'[p] = "shared"
            /\ pc'[p] = "insert flowchart" => Clashing(p) = {}
        BY <1>4, <3>2 DEF LookAgain, Take, Goto, Inv, TypeOK
      <4>2. Clashing(p)' = Clashing(p) /\ db' = db
        BY <2>1 DEF Clashing, OthersWait
      <4> QED
        BY <4>1, <4>2 DEF LookupHolds
    <3> QED
      BY <3>1, <3>2
  <2>4. ProjectsRight(p)'
    BY <2>1, SameRequest DEF Inv, ProcessRight, ProjectsRight, Running
  <2> QED
    BY <1>0, <2>1, <2>2, <2>3, <2>4, EarlyKeeps
<1>5. ASSUME NEW p \in Process, InsertFlowchart(p) PROVE Inv'
  <2>1. ~FlowchartViolates(p)
    BY <1>5, InsertAccepted DEF InsertFlowchart
  <2> QED
    BY <1>0, <1>5, <2>1, InsertFlowchartKeeps
<1>6. ASSUME NEW p \in Process, ReleaseSavepoint(p) PROVE Inv'
  <2>1. CASE AwaitReaders(p)
    BY <1>0, <1>6, <2>1, AwaitKeeps DEF ReleaseSavepoint, Running
  <2>2. CASE ~AwaitReaders(p)
    BY <1>0, <1>6, <2>2, CommitKeeps DEF ReleaseSavepoint
  <2> QED
    BY <2>1, <2>2
<1>7. ASSUME NEW p \in Process, FindWinner(p) PROVE Inv'
  <2>1. CASE UseFound(p) /\ UNCHANGED <<db, req, lock, newFlowcharts, newJobs, tables, nextId>>
    BY <1>0, <1>7, <2>1, UseFoundKeeps DEF FindWinner
  <2>2. CASE Fail(p, "flowchart refused")
    <3>1. pc[p] \in Running /\ ~GoesOn(p) /\ "flowchart refused" \in Ended \ {"registered"}
      BY <1>7 DEF FindWinner, Running, GoesOn, Doomed, Ended
    <3>2. pc[p] \notin BetweenCommits
      BY <1>7 DEF FindWinner, BetweenCommits
    <3> QED
      BY <1>0, <2>2, <3>1, <3>2, FailKeeps
  <2> QED
    BY <1>7, <2>1, <2>2 DEF FindWinner
<1>8. ASSUME NEW p \in Process, InsertJob(p) PROVE Inv'
  <2>1. CASE ~JobViolates(p)
    BY <1>0, <1>8, <2>1, InsertJobKeeps
  <2>2. CASE JobViolates(p)
    <3>1. Fail(p, "constraint") /\ pc[p] \in Running /\ "constraint" \in Ended \ {"registered"}
      BY <1>8, <2>2 DEF InsertJob, Running, Ended
    <3>2. JobViolates(p) /\ pc[p] # "check job"
      BY <1>8, <2>2 DEF InsertJob
    <3> QED
      BY <1>0, <3>1, <3>2, FailKeeps DEF BetweenCommits
  <2> QED
    BY <2>1, <2>2
<1>9. ASSUME NEW p \in Process, Commit(p) PROVE Inv'
  <2>1. CASE AwaitReaders(p)
    BY <1>0, <1>9, <2>1, AwaitKeeps DEF Commit, Running
  <2>2. CASE ~AwaitReaders(p)
    BY <1>0, <1>9, <2>2, CommitKeeps DEF Commit
  <2> QED
    BY <2>1, <2>2
<1>10. ASSUME NEW p \in Process, LockRefused(p) PROVE Inv'
  <2>1. /\ pc[p] \in Running /\ "locked" \in Ended \ {"registered"}
        /\ WriteBlocked(p) /\ Fail(p, "locked") /\ "locked" \in BetweenCommits
    BY <1>10 DEF LockRefused, Running, Ended, BetweenCommits
  <2> QED
    BY <1>0, <2>1, FailKeeps
<1>11. ASSUME NEW p \in Process, LockTimeout(p) PROVE Inv'
  <2>1. ~db.patient /\ pc[p] \in Running
    BY <1>11 DEF LockTimeout, Waits, Running
  <2>2. PICK how \in {"timed out", "locked"} : Fail(p, how)
    BY <1>11 DEF LockTimeout
  <2>3. how \in Ended \ {"registered"} /\ how # "constraint" /\ how \in BetweenCommits
    BY DEF Ended, BetweenCommits
  <2> QED
    BY <1>0, <2>1, <2>2, <2>3, FailKeeps
<1>12. ASSUME NEW p \in Process, Crash(p) PROVE Inv'
  <2>1. /\ pc[p] \in Running /\ Fail(p, "crashed") /\ "crashed" \in Ended \ {"registered"}
        /\ "crashed" \in BetweenCommits
    BY <1>12 DEF Crash, Ended, BetweenCommits
  <2> QED
    BY <1>0, <2>1, FailKeeps
<1>13. ASSUME UNCHANGED vars PROVE Inv'
  <2>1. UNCHANGED <<db, req, pc, lock, chart, newFlowcharts, newJobs, flowcharts, jobs, nextId>>
    BY <1>13 DEF vars, tables
  <2>2. \A p \in Process : /\ Projects(p)' = Projects(p) /\ RowDigest(p)' = RowDigest(p)
                           /\ NewJob(p)' = NewJob(p) /\ NewFlowchart(p)' = NewFlowchart(p)
    BY <2>1, SameRequest, SameJob, SameFlowchart
  <2>3. ASSUME NEW p \in Process PROVE ProcessRight(p)'
    <3>1. ProcessRight(p) /\ Writes(p)' = Writes(p) /\ Clashing(p)' = Clashing(p)
      BY <2>1 DEF Inv, Writes, Clashing
    <3> QED
      BY <2>1, <2>2, <3>1 DEF ProcessRight, LockRight, FlowchartRight, JobRight,
                              ChartRight, LookupHolds, ProjectsRight
  <2>4. OneWriter' /\ FlowchartsApart' /\ NoNewDuplicate' /\ JobsApart'
    BY <2>1 DEF Inv, OneWriter, Writes, FlowchartsApart, NoNewDuplicate, JobsApart
  <2>5. JobRunsItsFlowchart' /\ StoredIffReturned' /\ ConstraintMeansTaken'
    BY <2>1, <2>2, JobsBy DEF Inv, JobRunsItsFlowchart, StoredIffReturned,
                              ConstraintMeansTaken, Outruns, SamePath
  <2>6. SomebodyGoesOn' /\ OrphansAreFailures' /\ IdsChecked'
    BY <2>1 DEF Inv, SomebodyGoesOn, GoesOn, Doomed, SamePath, OrphansAreFailures, IdsChecked
  <2> QED
    BY <1>0, <2>3, <2>4, <2>5, <2>6 DEF Inv
<1> QED
  BY <1>1, <1>2, <1>3, <1>4, <1>5, <1>6, <1>7, <1>8, <1>9, <1>10, <1>11, <1>12, <1>13
  DEF Next, Step, Finished

\* The invariant always holds.
LEMMA AlwaysInv == Spec => []Inv
BY InvInit, InvStep, PTL DEF Spec

\* No digest gets a second row, whatever the processes do and wherever they crash.
THEOREM NoDuplicates == Spec => []NoNewDuplicate
<1>1. Inv => NoNewDuplicate
  BY DEF Inv
<1> QED
  BY <1>1, AlwaysInv, PTL

\* A registered job always points to the flowchart of its own file.
THEOREM JobsRunTheirFlowcharts == Spec => []JobRunsItsFlowchart
<1>1. Inv => JobRunsItsFlowchart
  BY DEF Inv
<1> QED
  BY <1>1, AlwaysInv, PTL

\* A job is stored when its call returns, and only then.
THEOREM ReturnedAreStored == Spec => []StoredIffReturned
<1>1. Inv => StoredIffReturned
  BY DEF Inv
<1> QED
  BY <1>1, AlwaysInv, PTL

\* A constraint of jobs refuses only an id that another process has registered, or a
\* path that is another job's.
THEOREM ConstraintsAreLostRaces == Spec => []ConstraintMeansTaken
<1>1. Inv => ConstraintMeansTaken
  BY DEF Inv
<1> QED
  BY <1>1, AlwaysInv, PTL

\* Processes that refuse each other's locks never all lose, unless one of them was
\* to lose for a path that an old job has.
THEOREM SomebodyWins == Spec => []LockedMeansProgress
<1>1. Inv => LockedMeansProgress
  <2> SUFFICES ASSUME Inv, db.patient, \A p \in Process : pc[p] \in Ended \ {"crashed"},
                      \E p \in Process : pc[p] = "locked"
               PROVE  \E p \in Process : pc[p] = "registered" \/ Doomed(p)
    BY DEF LockedMeansProgress
  <2>1. PICK q \in Process : GoesOn(q)
    BY DEF Inv, SomebodyGoesOn
  <2>2. pc[q] \in Ended \ {"crashed"}
    OBVIOUS
  <2> QED
    BY <2>1, <2>2 DEF GoesOn, Ended
<1> QED
  BY <1>1, AlwaysInv, PTL

\* Only a failed or unfinished call leaves a flowchart without a job.
THEOREM OrphansAreOfFailures == Spec => []OrphansAreFailures
<1>1. Inv => OrphansAreFailures
  BY DEF Inv
<1> QED
  BY <1>1, AlwaysInv, PTL

\* No INSERT of a flowchart depends on the unique index to be refused.
THEOREM IndexStopsNoRace == Spec => []IndexNeverNeeded
<1>1. Inv => IndexNeverNeeded
  BY InsertAccepted DEF IndexNeverNeeded
<1> QED
  BY <1>1, AlwaysInv, PTL

-----------------------------------------------------------------------------
(* The locks: nobody waits in a circle, and every step brings a call nearer *)
(* its end.  These are the facts that EveryCallEnds rests on.               *)

\* A process that holds a shared lock is past the lookup that took it.
Readers ==
    \A p \in Process :
        lock[p] = "shared" => pc[p] \in {"insert flowchart", "find winner", "insert job"}

\* A process that waits for a lock waits, in the end, for one that holds a lock and
\* does not wait itself: that one takes its next step, or is refused at once.
WaitersAreFreed ==
    \A p \in Process : Waits(p) =>
        \E q \in Process : pc[q] \in Running /\ lock[q] # "none" /\ ~Waits(q)

\* How many statements a call is from its end, at most.
Distance == [place \in Running \cup Ended |->
    CASE place = "check job" -> 9
      [] place = "check projects" -> 8
      [] place = "find flowchart" -> 7
      [] place = "look again" -> 6
      [] place = "insert flowchart" -> 5
      [] place = "find winner" -> 4
      [] place = "release savepoint" -> 3
      [] place = "insert job" -> 2
      [] place = "commit" -> 1
      [] OTHER -> 0]

\* p's call comes nearer its end, or its COMMIT starts to wait, which it does once.
Nearer(p) ==
    \/ Distance[pc'[p]] < Distance[pc[p]]
    \/ pc'[p] = pc[p] /\ lock[p] = "reserved" /\ lock'[p] = "pending"

\* p's statement moves p, and p's lock, alone.
MovesAlone(p) ==
    \A q \in Process \ {p} : pc'[q] = pc[q] /\ lock'[q] = lock[q]

\* Each step brings one call nearer its end and leaves the others where they are: no
\* statement is ever run twice in a call.
StepsCountDown == [][\E p \in Process : Nearer(p) /\ MovesAlone(p)]_vars

\* What an exception does to the process and its lock.
LEMMA FailMoves ==
    ASSUME TypeOK, NEW p \in Process, NEW how \in Ended, Fail(p, how)
    PROVE  MovesAlone(p) /\ pc'[p] = how /\ lock'[p] = "none"
BY DEF TypeOK, Fail, Goto, MovesAlone

\* And a COMMIT that goes through.
LEMMA CommitMoves ==
    ASSUME TypeOK, NEW p \in Process, NEW place, CommitRows(p), Goto(p, place)
    PROVE  MovesAlone(p) /\ pc'[p] = place /\ lock'[p] = "none"
BY DEF TypeOK, CommitRows, Goto, MovesAlone

\* And one that starts to wait.
LEMMA AwaitMoves ==
    ASSUME TypeOK, NEW p \in Process, AwaitReaders(p)
    PROVE  /\ MovesAlone(p) /\ pc'[p] = pc[p]
           /\ lock[p] = "reserved" /\ lock'[p] = "pending"
BY DEF TypeOK, AwaitReaders, MovesAlone

\* What p's statements do to p and its lock.
Move(p) ==
    \/ pc[p] \in Running /\ pc'[p] \in Ended /\ lock'[p] = "none"
    \/ /\ <<pc[p], pc'[p]>> \in {<<"check job", "check projects">>,
                                 <<"check projects", "find flowchart">>,
                                 <<"find flowchart", "look again">>,
                                 <<"find flowchart", "insert job">>,
                                 <<"look again", "insert flowchart">>}
       /\ lock'[p] = "none"
    \/ /\ <<pc[p], pc'[p]>> \in {<<"look again", "insert flowchart">>,
                                 <<"look again", "find winner">>,
                                 <<"find winner", "insert job">>}
       /\ lock'[p] = "shared"
    \/ /\ <<pc[p], pc'[p]>> \in {<<"insert flowchart", "release savepoint">>,
                                 <<"insert job", "commit">>}
       /\ lock'[p] = "reserved"
    \/ /\ pc[p] \in {"release savepoint", "commit"} /\ pc'[p] = pc[p]
       /\ lock[p] = "reserved" /\ lock'[p] = "pending"
    \/ /\ pc[p] = "release savepoint" /\ pc'[p] = "insert job"
       /\ lock'[p] = "none"

\* A reader that finds the winner's flowchart holds the lock of its lookup.
Lookers == \A p \in Process : pc[p] = "find winner" => lock[p] = "shared"

\* These are all the moves, and each is of one process.
LEMMA EveryMove ==
    ASSUME Inv, Readers, Lookers, NEW p \in Process, Step(p) \/ Crash(p)
    PROVE  MovesAlone(p) /\ Move(p)
<1> USE DEF Inv
<1>1. lock[p] # "none" => pc[p] \in {"insert flowchart", "find winner", "insert job",
                                     "release savepoint", "commit"}
  <2>1. lock[p] \in {"none", "shared"} \/ Writes(p)
    BY DEF TypeOK, Writes
  <2> QED
    BY <2>1 DEF Readers, ProcessRight, LockRight
<1>2. CASE CheckJob(p)
  <2>1. /\ pc[p] = "check job" /\ pc'[p] \in {"already there", "check projects"}
        /\ MovesAlone(p) /\ lock'[p] = lock[p]
    BY <1>2 DEF CheckJob, Goto, TypeOK, MovesAlone
  <2> QED
    BY <1>1, <2>1 DEF Move, Running, Ended
<1>3. CASE CheckProjects(p)
  <2>1. /\ pc[p] = "check projects"
        /\ pc'[p] \in {"no project", "not authorized", "find flowchart"}
        /\ MovesAlone(p) /\ lock'[p] = lock[p]
    BY <1>3 DEF CheckProjects, Goto, TypeOK, MovesAlone
  <2> QED
    BY <1>1, <2>1 DEF Move, Running, Ended
<1>4. CASE FindFlowchart(p)
  <2>1. /\ pc[p] = "find flowchart" /\ pc'[p] \in {"look again", "insert job"}
        /\ MovesAlone(p) /\ lock'[p] = lock[p]
    BY <1>4 DEF FindFlowchart, UseFound, Goto, TypeOK, MovesAlone
  <2> QED
    BY <1>1, <2>1 DEF Move
<1>5. CASE LookAgain(p)
  <2>1. /\ pc[p] = "look again" /\ MovesAlone(p)
        /\ \/ pc'[p] = "insert flowchart" /\ lock'[p] = lock[p]
           \/ pc'[p] \in {"insert flowchart", "find winner"} /\ lock'[p] = "shared"
    BY <1>5 DEF LookAgain, Take, Goto, TypeOK, MovesAlone
  <2> QED
    BY <1>1, <2>1 DEF Move
<1>6. CASE InsertFlowchart(p)
  <2>1. pc[p] = "insert flowchart" /\ ~FlowchartViolates(p)
    BY <1>6, InsertAccepted DEF InsertFlowchart
  <2>2. pc'[p] = "release savepoint" /\ lock'[p] = "reserved" /\ MovesAlone(p)
    BY <1>6, <2>1 DEF InsertFlowchart, Take, Goto, TypeOK, MovesAlone
  <2> QED
    BY <2>1, <2>2 DEF Move
<1>7. CASE ReleaseSavepoint(p)
  BY <1>7, AwaitMoves, CommitMoves DEF ReleaseSavepoint, Move
<1>8. CASE FindWinner(p)
  <2>1. CASE Fail(p, "flowchart refused")
    BY <1>8, <2>1, FailMoves DEF FindWinner, Move, Running, Ended
  <2>2. CASE UseFound(p) /\ UNCHANGED lock
    <3>1. /\ pc[p] = "find winner" /\ pc'[p] = "insert job"
          /\ MovesAlone(p) /\ lock'[p] = lock[p]
      BY <1>8, <2>2 DEF FindWinner, UseFound, Goto, TypeOK, MovesAlone
    <3> QED
      BY <3>1 DEF Lookers, Move
  <2> QED
    BY <1>8, <2>1, <2>2 DEF FindWinner
<1>9. CASE InsertJob(p)
  <2>1. CASE Fail(p, "constraint")
    BY <1>9, <2>1, FailMoves DEF InsertJob, Move, Running, Ended
  <2>2. CASE Take(p, "reserved") /\ Goto(p, "commit")
    <3>1. /\ pc[p] = "insert job" /\ pc'[p] = "commit" /\ lock'[p] = "reserved"
          /\ MovesAlone(p)
      BY <1>9, <2>2 DEF InsertJob, Take, Goto, TypeOK, MovesAlone
    <3> QED
      BY <3>1 DEF Move
  <2> QED
    BY <1>9, <2>1, <2>2 DEF InsertJob
<1>10. CASE Commit(p)
  <2>1. pc[p] = "commit" /\ "commit" \in Running /\ "registered" \in Ended
    BY <1>10 DEF Commit, Running, Ended
  <2> QED
    BY <1>10, <2>1, AwaitMoves, CommitMoves DEF Commit, Move
<1>11. CASE LockRefused(p) \/ LockTimeout(p) \/ Crash(p)
  <2>1. PICK how \in Ended : Fail(p, how)
    BY <1>11 DEF LockRefused, LockTimeout, Crash, Ended
  <2>2. pc[p] \in Running
    BY <1>11 DEF LockRefused, LockTimeout, Waits, Crash, Running
  <2> QED
    BY <2>1, <2>2, FailMoves DEF Move
<1> QED
  BY <1>2, <1>3, <1>4, <1>5, <1>6, <1>7, <1>8, <1>9, <1>10, <1>11 DEF Step

\* The shared locks are held where they were taken for.
LEMMA ReadersStep ==
    ASSUME Inv, Readers, Lookers, [Next]_vars
    PROVE  Readers' /\ Lookers'
<1>1. CASE UNCHANGED vars
  BY <1>1 DEF vars, Readers, Lookers
<1>2. ASSUME NEW p \in Process, Step(p) \/ Crash(p) PROVE Readers' /\ Lookers'
  <2>1. MovesAlone(p) /\ Move(p)
    BY <1>2, EveryMove
  <2>2. /\ lock'[p] = "shared" =>
              pc'[p] \in {"insert flowchart", "find winner", "insert job"}
        /\ pc'[p] = "find winner" => lock'[p] = "shared"
    BY <2>1 DEF Move, Ended
  <2> QED
    BY <2>1, <2>2 DEF MovesAlone, Readers, Lookers
<1> QED
  BY <1>1, <1>2 DEF Next, Finished

\* So it is in every state.
LEMMA AlwaysReaders == Spec => [](Readers /\ Lookers)
<1>1. Init => Readers /\ Lookers
  BY DEF Init, Readers, Lookers
<1> QED
  BY <1>1, ReadersStep, AlwaysInv, PTL DEF Spec

\* A process that a COMMIT waits for does not wait itself: it holds a shared lock,
\* with which it is refused what it cannot have.
LEMMA ReaderIsFree ==
    ASSUME Inv, Readers, NEW p \in Process, Writes(p), CommitBlocked(p)
    PROVE  \E q \in Process : pc[q] \in Running /\ lock[q] # "none" /\ ~Waits(q)
<1>1. PICK q \in Process \ {p} : lock[q] # "none"
  BY DEF CommitBlocked
<1>2. lock[q] = "shared"
  BY <1>1 DEF Inv, OneWriter, Writes, TypeOK
<1>3. pc[q] \in {"insert flowchart", "find winner", "insert job"}
  BY <1>2 DEF Readers
<1> QED
  BY <1>1, <1>2, <1>3 DEF Waits, Running

\* A process that writes is free, or waits for one that is.
LEMMA WriterIsFreed ==
    ASSUME Inv, Readers, NEW p \in Process, Writes(p)
    PROVE  \E q \in Process : pc[q] \in Running /\ lock[q] # "none" /\ ~Waits(q)
<1>1. CASE CommitBlocked(p)
  BY <1>1, ReaderIsFree
<1>2. CASE ~CommitBlocked(p)
  <2>1. pc[p] \in {"release savepoint", "commit"}
    BY DEF Inv, ProcessRight, LockRight
  <2> QED
    BY <1>2, <2>1 DEF Writes, Waits, Running
<1> QED
  BY <1>1, <1>2

\* However many processes register jobs, their locks never make them wait for each
\* other in a circle (models.py:456, connect.py:80).
THEOREM NoCircleOfLocks == Spec => []WaitersAreFreed
<1>1. Inv /\ Readers => WaitersAreFreed
  <2> SUFFICES ASSUME Inv, Readers, NEW p \in Process, Waits(p)
               PROVE  \E q \in Process : pc[q] \in Running /\ lock[q] # "none" /\ ~Waits(q)
    BY DEF WaitersAreFreed
  <2>1. \E q \in Process : Writes(q)
    BY DEF Waits, ReadBlocked, WriteBlocked, Writes
  <2> QED
    BY <2>1, WriterIsFreed
<1> QED
  BY <1>1, AlwaysInv, AlwaysReaders, PTL

\* What may follow a statement is nearer the end, and the end is nearer than all.
LEMMA Forward ==
    /\ Distance["check projects"] < Distance["check job"]
    /\ Distance["find flowchart"] < Distance["check projects"]
    /\ Distance["look again"] < Distance["find flowchart"]
    /\ Distance["insert job"] < Distance["find flowchart"]
    /\ Distance["insert flowchart"] < Distance["look again"]
    /\ Distance["find winner"] < Distance["look again"]
    /\ Distance["release savepoint"] < Distance["insert flowchart"]
    /\ Distance["insert job"] < Distance["find winner"]
    /\ Distance["insert job"] < Distance["release savepoint"]
    /\ Distance["commit"] < Distance["insert job"]
    /\ \A r \in Running, e \in Ended : Distance[e] < Distance[r]
<1>1. /\ Distance["check job"] = 9 /\ Distance["check projects"] = 8
      /\ Distance["find flowchart"] = 7 /\ Distance["look again"] = 6
      /\ Distance["insert flowchart"] = 5 /\ Distance["find winner"] = 4
      /\ Distance["release savepoint"] = 3 /\ Distance["insert job"] = 2
      /\ Distance["commit"] = 1
  BY DEF Distance, Running
<1>2. \A e \in Ended : Distance[e] = 0
  BY DEF Distance, Ended
<1>3. \A r \in Running : \E n \in 1 .. 9 : Distance[r] = n
  <2>1. \A r \in Running : \/ Distance[r] = 9 \/ Distance[r] = 8 \/ Distance[r] = 7
                           \/ Distance[r] = 6 \/ Distance[r] = 5 \/ Distance[r] = 4
                           \/ Distance[r] = 3 \/ Distance[r] = 2 \/ Distance[r] = 1
    BY <1>1, Zenon DEF Running
  <2> QED
    BY <2>1
<1>4. \A r \in Running, e \in Ended : Distance[e] < Distance[r]
  BY <1>2, <1>3
<1>5. 8 < 9 /\ 7 < 8 /\ 6 < 7 /\ 2 < 7 /\ 5 < 6 /\ 4 < 6 /\ 3 < 5 /\ 2 < 4 /\ 2 < 3 /\ 1 < 2
  OBVIOUS
<1> QED
  BY <1>1, <1>4, <1>5, Zenon

\* A move goes forward.
LEMMA MoveIsNearer ==
    ASSUME NEW p \in Process, Move(p)
    PROVE  Nearer(p)
<1>1. CASE pc[p] \in Running /\ pc'[p] \in Ended
  BY <1>1, Forward DEF Nearer
<1>2. CASE /\ pc[p] \in {"release savepoint", "commit"} /\ pc'[p] = pc[p]
           /\ lock[p] = "reserved" /\ lock'[p] = "pending"
  BY <1>2 DEF Nearer
<1>3. CASE <<pc[p], pc'[p]>> \in {<<"check job", "check projects">>,
                                  <<"check projects", "find flowchart">>,
                                  <<"find flowchart", "look again">>,
                                  <<"find flowchart", "insert job">>,
                                  <<"look again", "insert flowchart">>,
                                  <<"look again", "find winner">>,
                                  <<"find winner", "insert job">>,
                                  <<"insert flowchart", "release savepoint">>,
                                  <<"release savepoint", "insert job">>,
                                  <<"insert job", "commit">>}
  <2>1. \/ pc[p] = "check job" /\ pc'[p] = "check projects"
        \/ pc[p] = "check projects" /\ pc'[p] = "find flowchart"
        \/ pc[p] = "find flowchart" /\ pc'[p] \in {"look again", "insert job"}
        \/ pc[p] = "look again" /\ pc'[p] \in {"insert flowchart", "find winner"}
        \/ pc[p] = "find winner" /\ pc'[p] = "insert job"
        \/ pc[p] = "insert flowchart" /\ pc'[p] = "release savepoint"
        \/ pc[p] = "release savepoint" /\ pc'[p] = "insert job"
        \/ pc[p] = "insert job" /\ pc'[p] = "commit"
    BY <1>3
  <2>2. Distance[pc'[p]] < Distance[pc[p]]
    BY <2>1, Forward, Zenon
  <2> QED
    BY <2>2 DEF Nearer
<1> QED
  BY <1>1, <1>2, <1>3 DEF Move

\* A call never goes back, whatever the others do: it sends at most nine statements.
THEOREM CallsCountDown == Spec => StepsCountDown
<1>1. ASSUME Inv, Readers, Lookers, [Next]_vars
      PROVE  [\E p \in Process : Nearer(p) /\ MovesAlone(p)]_vars
  BY <1>1, EveryMove, MoveIsNearer DEF Next, Finished
<1> QED
  BY <1>1, AlwaysInv, AlwaysReaders, PTL DEF Spec, StepsCountDown

-----------------------------------------------------------------------------
(* The tables implement the abstract register.                             *)

LibraryRow(f) == [id |-> f.id, digest |-> f.digest]

RegisterRow(j) == [job |-> j.id, flowchart |-> j.flowchart]

Library == {LibraryRow(f) : f \in flowcharts}

Register == {RegisterRow(j) : j \in jobs}

\* A step either leaves the tables alone or commits what one process inserted.
LEMMA TablesStep ==
    ASSUME Inv, [Next]_vars
    PROVE  \/ UNCHANGED tables
           \/ \E p \in Process : CommitRows(p)
BY DEF Next, Step, Finished, vars, CheckJob, CheckProjects, FindFlowchart, LookAgain,
       InsertFlowchart, ReleaseSavepoint, AwaitReaders, FindWinner, Fail, InsertJob,
       Commit, LockRefused, LockTimeout, Crash

\* The flowchart a process commits is not in the library yet.
LEMMA CommitPublishes ==
    ASSUME Inv, NEW p \in Process, CommitRows(p), NEW f \in newFlowcharts[p]
    PROVE  /\ Library' = Library \cup {LibraryRow(f)}
           /\ LibraryRow(f) \in Library' \ Library
           /\ \A g \in Library : /\ g.id # LibraryRow(f).id
                                 /\ LibraryRow(f).digest # Null => g.digest # LibraryRow(f).digest
<1>1. newFlowcharts[p] = {f}
  BY DEF Inv, ProcessRight, FlowchartRight
<1>2. flowcharts' = flowcharts \cup {f}
  BY <1>1 DEF CommitRows
<1>3. Library' = Library \cup {LibraryRow(f)}
  BY <1>2 DEF Library
<1>4. \A g \in flowcharts : Apart(f, g)
  BY DEF Inv, FlowchartsApart
<1>5. \A g \in Library : /\ g.id # LibraryRow(f).id
                         /\ LibraryRow(f).digest # Null => g.digest # LibraryRow(f).digest
  BY <1>4 DEF Library, LibraryRow, Apart
<1> QED
  BY <1>3, <1>5

\* The job a process commits is not in the register yet, its flowchart is there.
LEMMA CommitEnters ==
    ASSUME Inv, NEW p \in Process, CommitRows(p), NEW j \in newJobs[p]
    PROVE  /\ Register' = Register \cup {RegisterRow(j)}
           /\ RegisterRow(j) \in Register' \ Register
           /\ \A d \in Register : d.job # RegisterRow(j).job
           /\ \E g \in Library : g.id = RegisterRow(j).flowchart
<1>1. pc[p] = "commit" /\ newJobs[p] = {NewJob(p)} /\ j = NewJob(p)
  BY DEF Inv, ProcessRight, JobRight
<1>2. jobs' = jobs \cup {j}
  BY <1>1 DEF CommitRows
<1>3. Register' = Register \cup {RegisterRow(j)}
  BY <1>2 DEF Register
<1>4. \A i \in jobs : i.id # j.id
  BY DEF Inv, JobsApart
<1>5. \A d \in Register : d.job # RegisterRow(j).job
  BY <1>4 DEF Register, RegisterRow
<1>6. PICK f \in flowcharts : f.id = chart[p]
  BY <1>1 DEF Inv, ProcessRight, ChartRight, Found
<1>7. LibraryRow(f) \in Library /\ LibraryRow(f).id = RegisterRow(j).flowchart
  BY <1>1, <1>6 DEF Library, LibraryRow, RegisterRow, NewJob
<1> QED
  BY <1>3, <1>5, <1>7

\* What a process has not inserted does not change when it commits.
LEMMA CommitNothing ==
    ASSUME NEW p \in Process, CommitRows(p)
    PROVE  /\ newFlowcharts[p] = {} => Library' = Library
           /\ newJobs[p] = {} => Register' = Register
BY DEF CommitRows, Library, Register

\* Every step is a step of the abstract register, or none.
LEMMA RefinementStep ==
    ASSUME Inv, [Next]_vars
    PROVE  [Registry!Next]_(Registry!vars)
<1>1. CASE UNCHANGED tables
  BY <1>1 DEF tables, Registry!vars
<1>2. ASSUME NEW p \in Process, CommitRows(p) PROVE [Registry!Next]_(Registry!vars)
  <2>1. CASE newFlowcharts[p] = {} /\ newJobs[p] = {}
    BY <1>2, <2>1, CommitNothing DEF Registry!vars, Library, Register, LibraryRow, RegisterRow
  <2>2. CASE newFlowcharts[p] # {} /\ newJobs[p] = {}
    <3>1. PICK f \in newFlowcharts[p] : TRUE
      BY <2>2
    <3>2. /\ Library' = Library \cup {LibraryRow(f)}
          /\ LibraryRow(f) \in Library' \ Library
          /\ \A g \in Library : /\ g.id # LibraryRow(f).id
                                /\ LibraryRow(f).digest # Null => g.digest # LibraryRow(f).digest
          /\ Register' = Register
      BY <1>2, <2>2, CommitPublishes, CommitNothing
    <3> QED
      BY <3>2 DEF Registry!Next, Registry!Publish, Registry!Unpublished,
                  Library, Register, LibraryRow, RegisterRow
  <2>3. CASE newFlowcharts[p] = {} /\ newJobs[p] # {}
    <3>1. PICK j \in newJobs[p] : TRUE
      BY <2>3
    <3>2. /\ Register' = Register \cup {RegisterRow(j)}
          /\ RegisterRow(j) \in Register' \ Register
          /\ \A d \in Register : d.job # RegisterRow(j).job
          /\ \E g \in Library : g.id = RegisterRow(j).flowchart
          /\ Library' = Library
      BY <1>2, <2>3, CommitEnters, CommitNothing
    <3> QED
      BY <3>2 DEF Registry!Next, Registry!Enter, Registry!Enterable,
                  Library, Register, LibraryRow, RegisterRow
  <2>4. newFlowcharts[p] = {} \/ newJobs[p] = {}
    BY DEF Inv, ProcessRight, FlowchartRight, JobRight
  <2> QED
    BY <2>1, <2>2, <2>3, <2>4
<1> QED
  BY <1>1, <1>2, TablesStep

\* Every registration, with any number of processes, on any database, behaves as
\* the abstract register does: its rows are added whole, once, and for good.
THEOREM RegistryImplemented == Spec => ImplementsRegistry
<1>1. Init => Registry!Init
  <2> SUFFICES ASSUME Init PROVE Registry!Init
    OBVIOUS
  <2>1. /\ JobsDistinct(jobs)
        /\ \A j \in jobs : \E f \in flowcharts : f.id = j.flowchart
    BY OldTableAssumption DEF Init
  <2>2. \A d, e \in Register : d.job = e.job => d = e
    BY <2>1 DEF JobsDistinct, Register, RegisterRow
  <2>3. ASSUME NEW e \in Register PROVE \E g \in Library : g.id = e.flowchart
    <3>1. PICK j \in jobs : e = RegisterRow(j)
      BY DEF Register
    <3>2. PICK f \in flowcharts : f.id = j.flowchart
      BY <2>1
    <3>3. LibraryRow(f) \in Library /\ LibraryRow(f).id = f.id
      BY DEF Library, LibraryRow
    <3> QED
      BY <3>1, <3>2, <3>3 DEF RegisterRow
  <2>4. /\ Register = {[job |-> j.id, flowchart |-> j.flowchart] : j \in jobs}
        /\ Library = {[id |-> f.id, digest |-> f.digest] : f \in flowcharts}
    BY DEF Register, RegisterRow, Library, LibraryRow
  <2> QED
    BY <2>2, <2>3, <2>4 DEF Registry!Init
<1>2. Inv /\ [Next]_vars => [Registry!Next]_(Registry!vars)
  BY RefinementStep
<1> QED
  BY <1>1, <1>2, AlwaysInv, PTL DEF Spec, ImplementsRegistry, Registry!Spec

=============================================================================
