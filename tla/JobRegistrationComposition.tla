---------------------- MODULE JobRegistrationComposition ----------------------
(***************************************************************************)
(* Proof that the processes of JobRegistration are registrants of          *)
(* Migration: what Migration takes a registration to be, two steps of      *)
(* which each is one commit, is what the statements, locks and savepoints  *)
(* of a registration amount to.                                            *)
(***************************************************************************)
EXTENDS JobRegistrationProofs

\* The state of Migration that a state of JobRegistration stands for.
Rows == Datastore(flowcharts, jobs)

Stages == [p \in Process |-> Stage(p)]

Asks == [p \in Process |-> Asked(req[p])]

\* The variables of Migration that are expressions here.
LEMMA MappedVariables ==
    ASSUME UNCHANGED <<Rows, db, Asks, Stages, chart>>
    PROVE  UNCHANGED Registrants!vars
BY DEF Registrants!vars, Registrants!migrator, Registrants!registrants, Rows, Asks, Stages

\* The columns of Migration do not change: no migration is run.
LEMMA ColumnsThere ==
    Registrants!NeededColumns \subseteq {"conceptdoi", "flowchart_metadata"}
BY DEF Registrants!NeededColumns

\* The rows of the three tables.
LEMMA RowsOf ==
    /\ Rows.flowcharts = {[id |-> f.id, digest |-> f.digest] : f \in flowcharts}
    /\ Rows.links = UNION {{[flowchart |-> f.id, project |-> n] : n \in f.projects} :
                              f \in flowcharts}
    /\ Rows.jobs = {[id |-> j.id, flowchart |-> j.flowchart] : j \in jobs}
BY DEF Rows, Datastore

\* A row of flowcharts has a row there, which is all there is.
LEMMA EachRow ==
    /\ \A f \in flowcharts : \E g \in Rows.flowcharts : g.id = f.id /\ g.digest = f.digest
    /\ \A g \in Rows.flowcharts : \E f \in flowcharts : g.id = f.id /\ g.digest = f.digest
<1>1. ASSUME NEW f \in flowcharts
      PROVE  \E g \in Rows.flowcharts : g.id = f.id /\ g.digest = f.digest
  <2>1. [id |-> f.id, digest |-> f.digest] \in Rows.flowcharts
    BY RowsOf
  <2> QED
    BY <2>1
<1>2. ASSUME NEW g \in Rows.flowcharts
      PROVE  \E f \in flowcharts : g.id = f.id /\ g.digest = f.digest
  BY RowsOf
<1> QED
  BY <1>1, <1>2

\* So the ids are the same.
LEMMA IdsOf == Registrants!Ids(Rows) = {f.id : f \in flowcharts}
<1>1. \A i \in Registrants!Ids(Rows) : \E f \in flowcharts : i = f.id
  BY EachRow DEF Registrants!Ids
<1>2. \A f \in flowcharts : f.id \in Registrants!Ids(Rows)
  BY EachRow DEF Registrants!Ids
<1> QED
  BY <1>1, <1>2

\* A number is one more than the one before it.
LEMMA OneMore == \A n \in Nat : n = (n - 1) + 1
OBVIOUS

\* Process p alone moves on to a stage.
LEMMA OneStage ==
    ASSUME NEW p \in Process, NEW s, Stage(p)' = s,
           \A q \in Process \ {p} : pc'[q] = pc[q]
    PROVE  Stages' = [Stages EXCEPT ![p] = s]
<1>1. \A q \in Process \ {p} : Stage(q)' = Stage(q)
  BY DEF Stage
<1> QED
  BY <1>1 DEF Stages

\* What each process asks for stays the same.
LEMMA SameAsks ==
    ASSUME UNCHANGED req
    PROVE  Asks' = Asks
BY DEF Asks

\* What a process asks for, as both modules see it.
LEMMA AsksOf ==
    ASSUME TypeOK, NEW p \in Process
    PROVE  /\ Asks[p].job = req[p].job
           /\ Asks[p].digest = RowDigest(p)
           /\ Asks[p].projects = Projects(p)
<1>1. \A n \in Project : (Deduped(p)[n] > 0) <=> (req[p].listed[n] > 0)
  <2> TAKE n \in Project
  <2>1. n \in ProjectName
    BY ProjectAssumption
  <2>2. Deduped(p)[n] = IF req[p].listed[n] > 0 THEN 1 ELSE 0
    BY <2>1 DEF Deduped
  <2> QED
    BY <2>2
<1> QED
  BY <1>1 DEF Asks, Asked, RowDigest, Projects

\* The requests and the old tables are such as Migration assumes them to be.
LEMMA AssumptionsHold ==
    /\ Null \notin Digest
    /\ {Asked(r) : r \in Requests} \subseteq Registrants!Request
    /\ \A t \in {Datastore(old.flowcharts, old.jobs) : old \in OldTables} :
          t \in Registrants!Tables /\ Registrants!WellFormed(t)
<1>1. ASSUME NEW r \in Requests PROVE Asked(r) \in Registrants!Request
  <2>1. r.job \in JobId /\ r.digest \in Digest \cup {Null, Missing}
    BY RequestAssumption DEF Request
  <2> QED
    BY <2>1 DEF Asked, Registrants!Request
<1>2. ASSUME NEW old \in OldTables
      PROVE  /\ Datastore(old.flowcharts, old.jobs) \in Registrants!Tables
             /\ Registrants!WellFormed(Datastore(old.flowcharts, old.jobs))
  <2> DEFINE table == old.flowcharts
             entered == old.jobs
             t == Datastore(table, entered)
             Row(f) == [id |-> f.id, digest |-> f.digest]
             Entry(j) == [id |-> j.id, flowchart |-> j.flowchart]
  <2>1. /\ table \subseteq FlowchartRow
        /\ \A f \in table : f.id \in 1 .. FirstId - 1
        /\ \A f, g \in table : f.id = g.id => f = g
    BY OldTableAssumption
  <2>0. /\ \A j \in entered : j.id \in JobId /\ \E f \in table : f.id = j.flowchart
        /\ \A i, j \in entered : i.id = j.id => i = j
    BY OldTableAssumption DEF JobRow, JobsDistinct
  <2>2. \A f \in table : /\ f.id \in Nat \ {0} /\ f.digest \in Digest \cup {Null}
                         /\ f.projects \subseteq Project
    <3>1. \A i \in 1 .. FirstId - 1 : i \in Nat \ {0}
      BY OldTableAssumption
    <3> QED
      BY <2>1, <3>1 DEF FlowchartRow
  <2>3. /\ t.flowcharts = {Row(f) : f \in table}
        /\ t.jobs = {Entry(j) : j \in entered}
        /\ t.links = UNION {{[flowchart |-> f.id, project |-> n] : n \in f.projects} :
                              f \in table}
    BY DEF Datastore
  <2>4. t.flowcharts \in SUBSET Registrants!FlowchartRow
    BY <2>2, <2>3 DEF Registrants!FlowchartRow
  <2>5. \A l \in t.links : \E f \in table : \E n \in f.projects :
           l = [flowchart |-> f.id, project |-> n]
    BY <2>3
  <2>6. t.links \in SUBSET Registrants!LinkRow
    BY <2>2, <2>5 DEF Registrants!LinkRow
  <2>11. t.jobs \in SUBSET Registrants!JobRow
    BY <2>0, <2>2, <2>3 DEF Registrants!JobRow
  <2>7. t \in Registrants!Tables
    BY <2>3, <2>4, <2>6, <2>11 DEF Datastore, Registrants!Tables
  <2>8. ASSUME NEW g \in t.flowcharts, NEW h \in t.flowcharts, g.id = h.id PROVE g = h
    <3>1. PICK f \in table : g = Row(f)
      BY <2>3
    <3>2. PICK e \in table : h = Row(e)
      BY <2>3
    <3> QED
      BY <2>1, <2>8, <3>1, <3>2
  <2>9. ASSUME NEW l \in t.links PROVE l.flowchart \in Registrants!Ids(t)
    <3>1. PICK f \in table : l.flowchart = f.id
      BY <2>5
    <3>2. Row(f) \in t.flowcharts /\ Row(f).id = f.id
      BY <2>3
    <3> HIDE DEF Row, t
    <3> QED
      BY <3>1, <3>2 DEF Registrants!Ids
  <2>12. \A i, j \in t.jobs : i.id = j.id => i = j
    BY <2>0, <2>3
  <2>13. ASSUME NEW k \in t.jobs PROVE k.flowchart \in Registrants!Ids(t)
    <3>1. PICK j \in entered : k = Entry(j)
      BY <2>3
    <3>2. PICK f \in table : f.id = j.flowchart
      BY <2>0
    <3>3. Row(f) \in t.flowcharts /\ Row(f).id = f.id /\ k.flowchart = f.id
      BY <2>3, <3>1, <3>2
    <3> HIDE DEF Row, t
    <3> QED
      BY <3>3 DEF Registrants!Ids
  <2>10. Registrants!WellFormed(t)
    BY <2>8, <2>9, <2>12, <2>13 DEF Registrants!WellFormed
  <2> QED
    BY <2>7, <2>10
<1> QED
  BY <1>1, <1>2, NullAssumption

\* At first, the tables and the processes are those of Migration.
LEMMA RegistrantsInit == Init => Registrants!Init
<1> SUFFICES ASSUME Init PROVE Registrants!Init
  OBVIOUS
<1>1. Rows \in {Datastore(old.flowcharts, old.jobs) : old \in OldTables}
  BY DEF Init, Rows
<1>2. db.patient \in BOOLEAN
  BY DatabaseAssumption DEF Init, Database
<1>3. Asks \in [Process -> {Asked(r) : r \in Requests}]
  BY DEF Init, Asks
<1>4. Stages = [p \in Process |-> "find flowchart"]
  BY DEF Init, Stages, Stage, Ended
<1>5. chart = [p \in Process |-> 0]
  BY DEF Init
<1>6. 1 \in {v \in 0 .. 1 : v = 1 => Registrants!NeededColumns \subseteq
                                        {"conceptdoi", "flowchart_metadata"}}
  BY ColumnsThere
<1> QED
  BY <1>1, <1>2, <1>3, <1>4, <1>5, <1>6
  DEF Registrants!Init, Registrants!NoTables, Rows, Asks, Stages

\* A step that changes neither the tables nor the stage of a process is none there.
LEMMA QuietStep ==
    ASSUME UNCHANGED <<db, req, chart, tables>>, Stages' = Stages
    PROVE  UNCHANGED Registrants!vars
<1>1. UNCHANGED <<flowcharts, jobs>>
  BY DEF tables
<1>2. Rows' = Rows
  BY <1>1 DEF Rows, Datastore
<1> QED
  BY <1>2, SameAsks, MappedVariables

\* A call that fails is a registration that fails there.
LEMMA FailingStep ==
    ASSUME NEW p \in Process, UNCHANGED <<db, req, chart, tables>>,
           Stage(p) \in {"find flowchart", "insert job"}, Stage(p)' = "failed",
           \A q \in Process \ {p} : pc'[q] = pc[q]
    PROVE  Registrants!RegistrationFails(p)
<1>1. UNCHANGED <<flowcharts, jobs>>
  BY DEF tables
<1>2. Rows' = Rows
  BY <1>1 DEF Rows, Datastore
<1>3. Stages' = [Stages EXCEPT ![p] = "failed"]
  BY OneStage
<1>4. Stages[p] \in {"find flowchart", "insert job"}
  BY DEF Stages
<1> QED
  BY <1>2, <1>3, <1>4, SameAsks
  DEF Registrants!RegistrationFails, Registrants!Advance, Registrants!migrator, Rows, Stages, Asks

\* A row of flowcharts has a row there; the oldest match has the oldest there.
LEMMA FindingStep ==
    ASSUME Inv, NEW p \in Process, pc[p] \in {"find flowchart", "find winner"}, UseFound(p),
           UNCHANGED <<db, req, tables>>
    PROVE  Registrants!FindFlowchart(p)
<1> DEFINE Row(f) == [id |-> f.id, digest |-> f.digest]
<1>1. UNCHANGED <<flowcharts, jobs>>
  BY DEF tables
<1>2. Rows' = Rows
  BY <1>1 DEF Rows, Datastore
<1>3. PICK f \in flowcharts : /\ IsOldest(f, Matching(p))
                              /\ chart' = [chart EXCEPT ![p] = f.id]
                              /\ pc' = [pc EXCEPT ![p] = "insert job"]
  BY DEF UseFound, Goto
<1>4. Stage(p) = "find flowchart" /\ Stage(p)' = "insert job"
  BY <1>3 DEF Inv, TypeOK, Stage, Ended
<1>5. Stages' = [Stages EXCEPT ![p] = "insert job"]
  BY <1>3, <1>4, OneStage DEF Inv, TypeOK
<1>6. Stages[p] = "find flowchart"
  BY <1>4 DEF Stages
<1>7. req[p].digest \in Digest /\ f.digest = req[p].digest /\ Asks[p].digest = req[p].digest
  BY <1>3, AsksOf, RowDigestOf DEF Inv, IsOldest, Matching
<1>8. Row(f) \in Rows.flowcharts
  BY RowsOf
<1>9. Row(f) \in Registrants!SameDigest(Rows, Asks[p].digest)
  BY <1>7, <1>8, NullAssumption DEF Registrants!SameDigest
<1>10. ASSUME NEW g \in Registrants!SameDigest(Rows, Asks[p].digest) PROVE Row(f).id <= g.id
  <2>1. PICK h \in flowcharts : g = Row(h)
    BY RowsOf DEF Registrants!SameDigest
  <2>2. h \in Matching(p)
    BY <1>7, <2>1 DEF Registrants!SameDigest, Matching
  <2> QED
    BY <1>3, <2>1, <2>2 DEF IsOldest
<1>11. chart' = [chart EXCEPT ![p] = Row(f).id]
  BY <1>3
<1> HIDE DEF Row
<1>12. \E g \in Rows.flowcharts :
          /\ Registrants!IsOldest(g, Registrants!SameDigest(Rows, Asks[p].digest))
          /\ chart' = [chart EXCEPT ![p] = g.id]
  BY <1>8, <1>9, <1>10, <1>11 DEF Registrants!IsOldest
<1> QED
  BY <1>2, <1>5, <1>6, <1>12, SameAsks, ColumnsThere
  DEF Registrants!FindFlowchart, Registrants!Ready, Registrants!Advance,
      Registrants!migrator, Rows, Stages, Asks

\* The COMMIT of a flowchart creates it there, with all its links, under the id that
\* follows the largest.
LEMMA CreatingStep ==
    ASSUME Inv, NEW p \in Process, pc[p] = "release savepoint", CommitRows(p),
           Goto(p, "insert job"), chart' = [chart EXCEPT ![p] = nextId],
           UNCHANGED <<db, req>>
    PROVE  Registrants!CreateFlowchart(p)
<1> DEFINE row == [id |-> nextId, digest |-> Asks[p].digest]
           added == {[flowchart |-> nextId, project |-> n] : n \in Asks[p].projects}
<1>1. /\ newFlowcharts[p] = {NewFlowchart(p)} /\ newJobs[p] = {}
      /\ flowcharts' = flowcharts \cup {NewFlowchart(p)} /\ jobs' = jobs
  BY DEF Inv, ProcessRight, FlowchartRight, JobRight, CommitRows
<1>2. /\ NewFlowchart(p).id = nextId /\ NewFlowchart(p).digest = Asks[p].digest
      /\ NewFlowchart(p).projects = Asks[p].projects
  BY AsksOf DEF Inv, NewFlowchart
<1>3. Stage(p) = "find flowchart" /\ Stage(p)' = "insert job"
  BY DEF Inv, TypeOK, Stage, Ended, Goto
<1>4. Stages' = [Stages EXCEPT ![p] = "insert job"]
  BY <1>3, OneStage DEF Inv, TypeOK, Goto
<1>5. Stages[p] = "find flowchart"
  BY <1>3 DEF Stages
<1>6. Rows' = [Rows EXCEPT !.flowcharts = @ \cup {row}, !.links = @ \cup added]
  <2>1. Rows'.flowcharts = Rows.flowcharts \cup {row}
    BY <1>1, <1>2 DEF Rows, Datastore
  <2>2. Rows'.links = Rows.links \cup added
    <3> DEFINE Links(f) == {[flowchart |-> f.id, project |-> n] : n \in f.projects}
    <3>1. Links(NewFlowchart(p)) = added
      BY <1>2
    <3>2. Rows'.links = UNION {Links(f) : f \in flowcharts'}
      BY DEF Rows, Datastore
    <3>3. Rows.links = UNION {Links(f) : f \in flowcharts}
      BY DEF Rows, Datastore
    <3> HIDE DEF Links
    <3> QED
      BY <1>1, <3>1, <3>2, <3>3
  <2>3. Rows'.jobs = Rows.jobs
    BY <1>1 DEF Rows, Datastore
  <2> QED
    BY <2>1, <2>2, <2>3 DEF Rows, Datastore
<1>7. Registrants!SameDigest(Rows, Asks[p].digest) = {}
  <2>1. ASSUME NEW f \in flowcharts, Asks[p].digest # Null PROVE f.digest # Asks[p].digest
    BY <1>1, <1>2, <2>1 DEF Inv, FlowchartsApart, Apart
  <2>2. \A g \in Rows.flowcharts : Asks[p].digest # Null => g.digest # Asks[p].digest
    <3> TAKE g \in Rows.flowcharts
    <3>1. PICK f \in flowcharts : g.digest = f.digest
      BY EachRow
    <3> QED
      BY <2>1, <3>1
  <2> QED
    BY <2>2 DEF Registrants!SameDigest
<1>8. Registrants!Ids(Rows) = {f.id : f \in flowcharts}
  BY IdsOf
<1>9. nextId \in Nat \ {0} /\ \A f \in flowcharts : f.id \in Nat
  BY DEF Inv, TypeOK, FlowchartRow
<1>10. /\ \A i \in Registrants!Ids(Rows) : i < nextId
       /\ nextId = 1 \/ nextId - 1 \in Registrants!Ids(Rows)
  BY <1>8 DEF Inv, FlowchartsApart
<1>11. nextId \in {1} \cup {i + 1 : i \in Registrants!Ids(Rows)}
  <2> DEFINE before == nextId - 1
  <2>1. nextId = before + 1
    BY <1>9, OneMore
  <2> HIDE DEF before
  <2>2. nextId = 1 \/ before \in Registrants!Ids(Rows)
    BY <1>10 DEF before
  <2> QED
    BY <2>1, <2>2
<1>12. Registrants!IsNextId(nextId, Rows)
  BY <1>9, <1>10 DEF Registrants!IsNextId
<1> QED
  BY <1>4, <1>5, <1>6, <1>7, <1>11, <1>12, SameAsks, ColumnsThere
  DEF Registrants!CreateFlowchart, Registrants!Ready, Registrants!Advance,
      Registrants!migrator, Rows, Stages, Asks

\* The COMMIT of a job enters it there.
LEMMA EnteringStep ==
    ASSUME Inv, NEW p \in Process, pc[p] = "commit", CommitRows(p),
           Goto(p, "registered"), UNCHANGED <<db, req, chart>>
    PROVE  Registrants!InsertJob(p)
<1> DEFINE row == [id |-> Asks[p].job, flowchart |-> chart[p]]
<1>1. /\ newJobs[p] = {NewJob(p)} /\ newFlowcharts[p] = {}
      /\ flowcharts' = flowcharts /\ jobs' = jobs \cup {NewJob(p)}
  BY DEF Inv, ProcessRight, FlowchartRight, JobRight, CommitRows
<1>2. NewJob(p).id = Asks[p].job /\ NewJob(p).flowchart = chart[p]
  BY AsksOf DEF Inv, NewJob
<1>3. Stage(p) = "insert job" /\ Stage(p)' = "registered"
  BY DEF Inv, TypeOK, Stage, Ended, Goto
<1>4. Stages' = [Stages EXCEPT ![p] = "registered"]
  BY <1>3, OneStage DEF Inv, TypeOK, Goto
<1>5. Stages[p] = "insert job"
  BY <1>3 DEF Stages
<1>6. Rows' = [Rows EXCEPT !.jobs = @ \cup {row}]
  <2>1. Rows'.jobs = Rows.jobs \cup {row}
    BY <1>1, <1>2 DEF Rows, Datastore
  <2>2. Rows'.flowcharts = Rows.flowcharts /\ Rows'.links = Rows.links
    BY <1>1 DEF Rows, Datastore
  <2> QED
    BY <2>1, <2>2 DEF Rows, Datastore
<1>7. \A j \in Rows.jobs : j.id # Asks[p].job
  <2>1. \A j \in jobs : j.id # Asks[p].job
    BY <1>1, <1>2 DEF Inv, JobsApart
  <2> QED
    BY <2>1, RowsOf
<1> QED
  BY <1>4, <1>5, <1>6, <1>7, SameAsks, ColumnsThere
  DEF Registrants!InsertJob, Registrants!Ready, Registrants!Advance,
      Registrants!migrator, Rows, Stages, Asks

\* An exception or a crash ends the registration there.
LEMMA FailedCall ==
    ASSUME Inv, NEW p \in Process, NEW how \in Ended \ {"registered"},
           pc[p] \in Running, Fail(p, how)
    PROVE  Registrants!RegistrationFails(p)
<1>1. pc'[p] = how /\ \A q \in Process \ {p} : pc'[q] = pc[q]
  BY DEF Fail, Goto, Inv, TypeOK
<1>2. UNCHANGED <<db, req, chart, tables>>
  BY DEF Fail
<1>3. Stage(p) \in {"find flowchart", "insert job"}
  BY DEF Stage, Running, Ended
<1>4. Stage(p)' = "failed"
  BY <1>1 DEF Stage, Ended
<1> QED
  BY <1>1, <1>2, <1>3, <1>4, FailingStep

\* What a call does before its flowchart is found or committed.
Before == {"check job", "check projects", "find flowchart", "look again",
           "insert flowchart", "release savepoint", "find winner"}

\* A statement that neither finds nor commits anything is no step there.
LEMMA QuietCall ==
    ASSUME Inv, NEW p \in Process, NEW where,
           \/ pc[p] \in Before /\ where \in Before
           \/ pc[p] \in Found /\ where \in Found,
           Goto(p, where), UNCHANGED <<db, req, chart, tables>>
    PROVE  UNCHANGED Registrants!vars
<1>1. pc'[p] = where /\ \A q \in Process \ {p} : pc'[q] = pc[q]
  BY DEF Goto, Inv, TypeOK
<1>2. Stage(p)' = Stage(p)
  <2>1. CASE pc[p] \in Before /\ where \in Before
    BY <1>1, <2>1 DEF Stage, Ended, Before
  <2>2. CASE pc[p] \in Found /\ where \in Found
    BY <1>1, <2>2 DEF Stage, Ended, Found
  <2> QED
    BY <2>1, <2>2
<1>3. \A q \in Process : Stage(q)' = Stage(q)
  BY <1>1, <1>2 DEF Stage
<1>4. Stages' = Stages
  BY <1>3 DEF Stages
<1> QED
  BY <1>4, QuietStep

\* A COMMIT that waits is no step there.
LEMMA WaitingCommit ==
    ASSUME NEW p \in Process, AwaitReaders(p)
    PROVE  UNCHANGED Registrants!vars
<1>1. UNCHANGED <<db, req, pc, chart, tables>>
  BY DEF AwaitReaders
<1>2. Stages' = Stages
  BY <1>1 DEF Stages, Stage
<1> QED
  BY <1>1, <1>2, QuietStep

\* Every step of a process is a step of a registrant, or none.
LEMMA RegistrantsStep ==
    ASSUME Inv, [Next]_vars
    PROVE  [Registrants!Next]_(Registrants!vars)
<1> DEFINE Goal == \/ \E p \in Process : Registrants!Register(p)
                   \/ UNCHANGED Registrants!vars
<1>1. ASSUME NEW p \in Process, CheckJob(p) PROVE Goal
  <2>1. pc[p] = "check job" /\ UNCHANGED <<db, req, chart, tables>>
    BY <1>1 DEF CheckJob
  <2>2. CASE Goto(p, "check projects")
    BY <2>1, <2>2, QuietCall DEF Before
  <2>3. CASE Goto(p, "already there")
    <3>1. /\ Stage(p) = "find flowchart" /\ Stage(p)' = "failed"
          /\ \A q \in Process \ {p} : pc'[q] = pc[q]
      BY <2>1, <2>3 DEF Goto, Inv, TypeOK, Stage, Ended
    <3> QED
      BY <2>1, <3>1, FailingStep DEF Registrants!Register
  <2> QED
    BY <1>1, <2>2, <2>3 DEF CheckJob
<1>2. ASSUME NEW p \in Process, CheckProjects(p) PROVE Goal
  <2>1. pc[p] = "check projects" /\ UNCHANGED <<db, req, chart, tables>>
    BY <1>2 DEF CheckProjects
  <2>2. CASE Goto(p, "find flowchart")
    BY <2>1, <2>2, QuietCall DEF Before
  <2>3. ASSUME NEW how \in {"no project", "not authorized"}, Goto(p, how) PROVE Goal
    <3>1. /\ Stage(p) = "find flowchart" /\ Stage(p)' = "failed"
          /\ \A q \in Process \ {p} : pc'[q] = pc[q]
      BY <2>1, <2>3 DEF Goto, Inv, TypeOK, Stage, Ended
    <3> QED
      BY <2>1, <3>1, FailingStep DEF Registrants!Register
  <2> QED
    BY <1>2, <2>2, <2>3 DEF CheckProjects
<1>3. ASSUME NEW p \in Process, FindFlowchart(p) PROVE Goal
  <2>1. CASE UseFound(p)
    BY <1>3, <2>1, FindingStep DEF FindFlowchart, Registrants!Register
  <2>2. CASE Goto(p, "look again") /\ UNCHANGED chart
    BY <1>3, <2>2, QuietCall DEF FindFlowchart, Before
  <2> QED
    BY <1>3, <2>1, <2>2 DEF FindFlowchart
<1>4. ASSUME NEW p \in Process, LookAgain(p) PROVE Goal
  <2>1. PICK where \in {"insert flowchart", "find winner"} : Goto(p, where)
    BY <1>4 DEF LookAgain
  <2> QED
    BY <1>4, <2>1, QuietCall DEF LookAgain, Before
<1>5. ASSUME NEW p \in Process, InsertFlowchart(p) PROVE Goal
  <2>1. Goto(p, "release savepoint")
    BY <1>5, InsertAccepted DEF InsertFlowchart
  <2> QED
    BY <1>5, <2>1, QuietCall DEF InsertFlowchart, Before
<1>6. ASSUME NEW p \in Process, ReleaseSavepoint(p) PROVE Goal
  <2>1. CASE AwaitReaders(p)
    BY <2>1, WaitingCommit
  <2>2. CASE ~AwaitReaders(p)
    BY <1>6, <2>2, CreatingStep DEF ReleaseSavepoint, Registrants!Register
  <2> QED
    BY <2>1, <2>2
<1>7. ASSUME NEW p \in Process, FindWinner(p) PROVE Goal
  <2>1. CASE UseFound(p) /\ UNCHANGED <<db, req, lock, newFlowcharts, newJobs, tables, nextId>>
    BY <1>7, <2>1, FindingStep DEF FindWinner, Registrants!Register
  <2>2. CASE Fail(p, "flowchart refused")
    BY <1>7, <2>2, FailedCall DEF FindWinner, Registrants!Register, Running, Ended
  <2> QED
    BY <1>7, <2>1, <2>2 DEF FindWinner
<1>8. ASSUME NEW p \in Process, InsertJob(p) PROVE Goal
  <2>1. CASE ~JobViolates(p)
    BY <1>8, <2>1, QuietCall DEF InsertJob, Found
  <2>2. CASE JobViolates(p)
    BY <1>8, <2>2, FailedCall DEF InsertJob, Registrants!Register, Running, Ended
  <2> QED
    BY <2>1, <2>2
<1>9. ASSUME NEW p \in Process, Commit(p) PROVE Goal
  <2>1. CASE AwaitReaders(p)
    BY <2>1, WaitingCommit
  <2>2. CASE ~AwaitReaders(p)
    BY <1>9, <2>2, EnteringStep DEF Commit, Registrants!Register
  <2> QED
    BY <2>1, <2>2
<1>10. ASSUME NEW p \in Process, LockRefused(p) PROVE Goal
  BY <1>10, FailedCall DEF LockRefused, Registrants!Register, Running, Ended
<1>11. ASSUME NEW p \in Process, LockTimeout(p) PROVE Goal
  <2>1. pc[p] \in Running
    BY <1>11 DEF LockTimeout, Waits, Running
  <2>2. PICK how \in {"timed out", "locked"} : Fail(p, how)
    BY <1>11 DEF LockTimeout
  <2>3. how \in Ended \ {"registered"}
    BY DEF Ended
  <2> QED
    BY <2>1, <2>2, <2>3, FailedCall DEF Registrants!Register
<1>12. ASSUME NEW p \in Process, Crash(p) PROVE Goal
  BY <1>12, FailedCall DEF Crash, Registrants!Register, Ended
<1>13. ASSUME UNCHANGED vars PROVE Goal
  <2>1. UNCHANGED <<db, req, pc, chart, tables>>
    BY <1>13 DEF vars
  <2>2. Stages' = Stages
    BY <2>1 DEF Stages, Stage
  <2> QED
    BY <2>1, <2>2, QuietStep
<1>14. Goal
  BY <1>1, <1>2, <1>3, <1>4, <1>5, <1>6, <1>7, <1>8, <1>9, <1>10, <1>11, <1>12, <1>13
  DEF Next, Step, Finished
<1> QED
  BY <1>14 DEF Registrants!Next

\* Any number of calls, on any database, however their statements interleave and
\* wherever they fail: seen at their commits they are the registrants that Migration
\* lets a migration run beside (models.py:439-476, 690-770).
THEOREM RegistrantsImplemented == Spec => ImplementsRegistrants
<1>1. Inv /\ [Next]_vars => [Registrants!Next]_(Registrants!vars)
  BY RegistrantsStep
<1> QED
  BY <1>1, RegistrantsInit, AlwaysInv, PTL DEF Spec, ImplementsRegistrants, Registrants!Spec

=============================================================================
