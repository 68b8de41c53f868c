---------------------------- MODULE MigrationProofs ----------------------------
(***************************************************************************)
(* Proofs about Migration: types, that nothing dangles, that the copy is   *)
(* never refused, and that seen by digest the migration changes nothing.   *)
(***************************************************************************)
EXTENDS Migration, TLAPS

-----------------------------------------------------------------------------
(* The invariant                                                           *)

\* No flowchart of its digest has a smaller id.
Oldest(f, t) ==
    f.digest # Null => \A g \in t.flowcharts : g.digest = f.digest => f.id <= g.id

\* The flowchart a process has chosen for its job is none that a merge removes.
Safe(t, i) == \E f \in t.flowcharts : f.id = i /\ Oldest(f, t)

ChosenSafe == \A p \in Registrant : rpc[p] = "insert job" => Safe(tables, chart[p])

\* By digest both have the same rows.
Equivalent(t, w) ==
    /\ Library(w) = Library(t)
    /\ JobCharts(w) = JobCharts(t) /\ LinkedCharts(w) = LinkedCharts(t)

\* What the transaction of the migration has made of the tables.
WorkRight ==
    locked =>
        /\ WellFormed(work) /\ work.flowcharts \subseteq tables.flowcharts
        /\ \A f \in tables.flowcharts : Oldest(f, tables) => f \in work.flowcharts
        /\ Equivalent(tables, work)

\* What was read is still there, and whatever has a twin was read.
SeenRight ==
    mpc = "dedupe" =>
        /\ seen \subseteq View.flowcharts /\ \A f \in seen : f.digest # Null
        /\ \A f, g \in View.flowcharts :
              f.digest = g.digest /\ f.digest # Null /\ f # g => f \in seen

\* The stages at which the transaction may be, or is, open, and what is applied by then.
StageRight ==
    /\ locked => mpc \in {"dedupe", "copy", "swap"}
    /\ mpc = "swap" => locked
    /\ mpc \in {"read", "dedupe", "copy", "swap"} => version >= 1

\* The columns added by a stage, if no lock was refused.
ColumnsRight ==
    patient =>
        /\ mpc \in {"add metadata", "drop path", "mark first"} => "conceptdoi" \in columns
        /\ mpc \in {"drop path", "mark first"} => "flowchart_metadata" \in columns

Inv ==
    /\ TypeOK /\ WellFormed(tables) /\ ChosenSafe /\ WorkRight /\ SeenRight
    /\ StageRight /\ ColumnsRight
    /\ CopyNeverRefused /\ StuckMeansDeduped /\ MarkedMeansColumns

-----------------------------------------------------------------------------
(* Rows, known by their digests                                            *)

\* What tables consist of.
LEMMA Parts ==
  ASSUME NEW t \in Tables
  PROVE  /\ t.flowcharts \subseteq FlowchartRow /\ t.links \subseteq LinkRow
         /\ t.jobs \subseteq JobRow
BY DEF Tables

\* A key names a row or a digest.
LEMMA KeyMeans ==
  ASSUME NEW f \in FlowchartRow, NEW g \in FlowchartRow, Key(f) = Key(g)
  PROVE  /\ f.digest = g.digest
         /\ f.digest = Null => f = g
<1>1. \A i, d : [row |-> i] # [digest |-> d]
  <2> SUFFICES ASSUME NEW i, NEW d, [row |-> i] = [digest |-> d] PROVE FALSE
    OBVIOUS
  <2>1. DOMAIN [row |-> i] = {"row"} /\ DOMAIN [digest |-> d] = {"digest"}
    OBVIOUS
  <2>2. {"row"} = {"digest"}
    BY <2>1
  <2> QED
    BY <2>2
<1>2. \A i, k : [row |-> i] = [row |-> k] => i = k
  <2> SUFFICES ASSUME NEW i, NEW k, [row |-> i] = [row |-> k] PROVE i = k
    OBVIOUS
  <2>1. [row |-> i].row = i /\ [row |-> k].row = k
    OBVIOUS
  <2> QED
    BY <2>1
<1>3. \A i, k : [digest |-> i] = [digest |-> k] => i = k
  <2> SUFFICES ASSUME NEW i, NEW k, [digest |-> i] = [digest |-> k] PROVE i = k
    OBVIOUS
  <2>1. [digest |-> i].digest = i /\ [digest |-> k].digest = k
    OBVIOUS
  <2> QED
    BY <2>1
<1>4. f.digest = g.digest /\ (f.digest = Null => f.id = g.id)
  BY <1>1, <1>2, <1>3 DEF Key
<1>5. f.digest = Null => f = g
  <2>1. f = [id |-> f.id, digest |-> f.digest] /\ g = [id |-> g.id, digest |-> g.digest]
    BY DEF FlowchartRow
  <2> QED
    BY <1>4, <2>1
<1> QED
  BY <1>4, <1>5

\* The jobs with the keys of their flowcharts.
LEMMA JobChartsMean ==
  ASSUME NEW t
  PROVE  /\ \A e \in JobCharts(t) : \E j \in t.jobs, f \in t.flowcharts :
               j.flowchart = f.id /\ e = [job |-> j.id, flowchart |-> Key(f)]
         /\ \A j \in t.jobs, f \in t.flowcharts : j.flowchart = f.id
               => [job |-> j.id, flowchart |-> Key(f)] \in JobCharts(t)
<1>1. ASSUME NEW e \in JobCharts(t)
      PROVE  \E j \in t.jobs, f \in t.flowcharts :
                j.flowchart = f.id /\ e = [job |-> j.id, flowchart |-> Key(f)]
  <2>1. PICK x \in Owned(t, t.jobs) :
           e = [job |-> x[1].id, flowchart |-> Key(x[2])]
    BY DEF JobCharts
  <2>2. x[1] \in t.jobs /\ x[2] \in t.flowcharts /\ x[1].flowchart = x[2].id
    BY DEF Owned
  <2> QED
    BY <2>1, <2>2
<1>2. ASSUME NEW j \in t.jobs, NEW f \in t.flowcharts, j.flowchart = f.id
      PROVE  [job |-> j.id, flowchart |-> Key(f)] \in JobCharts(t)
  <2>1. <<j, f>> \in Owned(t, t.jobs)
    BY <1>2 DEF Owned
  <2>2. <<j, f>>[1] = j /\ <<j, f>>[2] = f
    OBVIOUS
  <2> QED
    BY <2>1, <2>2 DEF JobCharts
<1> QED
  BY <1>1, <1>2

\* The links with the keys of their flowcharts.
LEMMA LinkedChartsMean ==
  ASSUME NEW t
  PROVE  /\ \A e \in LinkedCharts(t) : \E l \in t.links, f \in t.flowcharts :
               l.flowchart = f.id /\ e = [project |-> l.project, flowchart |-> Key(f)]
         /\ \A l \in t.links, f \in t.flowcharts : l.flowchart = f.id
               => [project |-> l.project, flowchart |-> Key(f)] \in LinkedCharts(t)
<1>1. ASSUME NEW e \in LinkedCharts(t)
      PROVE  \E l \in t.links, f \in t.flowcharts :
                l.flowchart = f.id /\ e = [project |-> l.project, flowchart |-> Key(f)]
  <2>1. PICK x \in Owned(t, t.links) :
           e = [project |-> x[1].project, flowchart |-> Key(x[2])]
    BY DEF LinkedCharts
  <2>2. x[1] \in t.links /\ x[2] \in t.flowcharts /\ x[1].flowchart = x[2].id
    BY DEF Owned
  <2> QED
    BY <2>1, <2>2
<1>2. ASSUME NEW l \in t.links, NEW f \in t.flowcharts, l.flowchart = f.id
      PROVE  [project |-> l.project, flowchart |-> Key(f)] \in LinkedCharts(t)
  <2>1. <<l, f>> \in Owned(t, t.links)
    BY <1>2 DEF Owned
  <2>2. <<l, f>>[1] = l /\ <<l, f>>[2] = f
    OBVIOUS
  <2> QED
    BY <2>1, <2>2 DEF LinkedCharts
<1> QED
  BY <1>1, <1>2

-----------------------------------------------------------------------------
(* Merging                                                                 *)

\* The ids that were read belong to one digest each.
LEMMA SeenMeans ==
  ASSUME NEW t \in Tables, WellFormed(t), seen \subseteq t.flowcharts,
         NEW d, NEW f \in t.flowcharts, f.id \in SeenIds(d)
  PROVE  f.digest = d /\ f \in seen
BY DEF SeenIds, WellFormed

\* The id that a row which pointed to i points to.
Moved(i, d, keep) == IF i \in SeenIds(d) THEN keep ELSE i

\* What is left of t when the flowcharts of d that were read are merged.
IsMerge(m, t, d, keep) == m = Merge(t, keep, SeenIds(d) \ {keep})

\* What a merge makes of each row.
LEMMA MergedRows ==
  ASSUME NEW t \in Tables, WellFormed(t), seen \subseteq t.flowcharts,
         NEW d, NEW keep \in SeenIds(d),
         NEW m, IsMerge(m, t, d, keep)
  PROVE  /\ m.flowcharts = {f \in t.flowcharts : f.id \notin SeenIds(d) \/ f.id = keep}
         /\ \E f \in m.flowcharts : f.id = keep /\ f.digest = d /\ f \in t.flowcharts
         /\ \A l \in m.links : \E k \in t.links :
               /\ l.project = k.project /\ l \in LinkRow
               /\ l.flowchart = Moved(k.flowchart, d, keep)
         /\ \A k \in t.links : \E l \in m.links :
               /\ l.project = k.project
               /\ l.flowchart = Moved(k.flowchart, d, keep)
         /\ \A j \in m.jobs : \E k \in t.jobs :
               /\ j.id = k.id /\ j \in JobRow
               /\ j.flowchart = Moved(k.flowchart, d, keep)
         /\ \A k \in t.jobs : \E j \in m.jobs :
               /\ j.id = k.id
               /\ j.flowchart = Moved(k.flowchart, d, keep)
<1> DEFINE extras == SeenIds(d) \ {keep}
           movedLink(l) == [l EXCEPT !.flowchart = IF @ \in extras THEN keep ELSE @]
           movedJob(j) == [j EXCEPT !.flowchart = IF @ \in extras THEN keep ELSE @]
<1>1. /\ m.flowcharts = {f \in t.flowcharts : f.id \notin extras}
      /\ m.links = {movedLink(l) : l \in t.links}
      /\ m.jobs = {movedJob(j) : j \in t.jobs}
  BY DEF Merge, IsMerge
<1>2. PICK f \in seen : f.id = keep /\ f.digest = d
  BY DEF SeenIds
<1>3. f \in t.flowcharts /\ f \in FlowchartRow
  BY <1>2, Parts
<1>4. keep \in Nat \ {0}
  BY <1>2, <1>3 DEF FlowchartRow
<1>5. ASSUME NEW l \in t.links
      PROVE  /\ movedLink(l).project = l.project /\ movedLink(l) \in LinkRow
             /\ movedLink(l).flowchart =
                   Moved(l.flowchart, d, keep)
  <2>1. l \in LinkRow
    BY Parts
  <2> QED
    BY <1>4, <2>1 DEF LinkRow, Moved
<1>6. ASSUME NEW j \in t.jobs
      PROVE  /\ movedJob(j).id = j.id /\ movedJob(j) \in JobRow
             /\ movedJob(j).flowchart =
                   Moved(j.flowchart, d, keep)
  <2>1. j \in JobRow
    BY Parts
  <2> QED
    BY <1>4, <2>1 DEF JobRow, Moved
<1> HIDE DEF movedLink, movedJob
<1>7. m.flowcharts = {g \in t.flowcharts : g.id \notin SeenIds(d) \/ g.id = keep}
  BY <1>1
<1>8. f \in m.flowcharts
  BY <1>2, <1>3, <1>7
<1> HIDE DEF extras
<1>9. /\ \A l \in m.links : \E k \in t.links : l = movedLink(k)
      /\ \A k \in t.links : movedLink(k) \in m.links
  BY <1>1
<1>10. /\ \A j \in m.jobs : \E k \in t.jobs : j = movedJob(k)
       /\ \A k \in t.jobs : movedJob(k) \in m.jobs
  BY <1>1
<1>11. \A l \in m.links : \E k \in t.links :
          /\ l.project = k.project /\ l \in LinkRow
          /\ l.flowchart = Moved(k.flowchart, d, keep)
  BY <1>5, <1>9
<1>12. \A k \in t.links : \E l \in m.links :
          l.project = k.project /\ l.flowchart = Moved(k.flowchart, d, keep)
  BY <1>5, <1>9
<1>13. \A j \in m.jobs : \E k \in t.jobs :
          /\ j.id = k.id /\ j \in JobRow
          /\ j.flowchart = Moved(k.flowchart, d, keep)
  BY <1>6, <1>10
<1>14. \A k \in t.jobs : \E j \in m.jobs :
          j.id = k.id /\ j.flowchart = Moved(k.flowchart, d, keep)
  BY <1>6, <1>10
<1> QED
  BY <1>2, <1>3, <1>7, <1>8, <1>11, <1>12, <1>13, <1>14

\* A merge keeps the tables well-formed, and the oldest flowchart of each digest.
LEMMA MergeRight ==
  ASSUME NEW t \in Tables, WellFormed(t), seen \subseteq t.flowcharts,
         NEW d, NEW keep \in SeenIds(d), \A i \in SeenIds(d) : keep <= i,
         NEW m, IsMerge(m, t, d, keep)
  PROVE  /\ m \in Tables /\ WellFormed(m)
         /\ m.flowcharts \subseteq t.flowcharts
         /\ \A f \in t.flowcharts : f \in m.flowcharts \/ (f.digest = d /\ f \in seen)
         /\ \A f \in t.flowcharts : Oldest(f, t) /\ d # Null => f \in m.flowcharts
<1>1. m.flowcharts = {f \in t.flowcharts : f.id \notin SeenIds(d) \/ f.id = keep}
  BY MergedRows
<1>2. PICK kept \in m.flowcharts : kept.id = keep /\ kept.digest = d /\ kept \in t.flowcharts
  BY MergedRows
<1>3. m \in Tables
  <2>1. m.links \subseteq LinkRow /\ m.jobs \subseteq JobRow
    BY MergedRows
  <2>2. m.flowcharts \subseteq FlowchartRow
    BY <1>1, Parts
  <2>3. m = [flowcharts |-> m.flowcharts, links |-> m.links, jobs |-> m.jobs]
    BY DEF Merge, IsMerge
  <2> QED
    BY <2>1, <2>2, <2>3 DEF Tables
<1>4. WellFormed(m)
  <2>1. \A f, g \in m.flowcharts : f.id = g.id => f = g
    BY <1>1 DEF WellFormed
  <2>2. \A j, k \in m.jobs : j.id = k.id => j = k
    <3> SUFFICES ASSUME NEW j \in m.jobs, NEW k \in m.jobs, j.id = k.id PROVE j = k
      OBVIOUS
    <3>1. PICK a \in t.jobs : /\ j.id = a.id /\ j \in JobRow
                              /\ j.flowchart = Moved(a.flowchart, d, keep)
      BY MergedRows
    <3>2. PICK b \in t.jobs : /\ k.id = b.id /\ k \in JobRow
                              /\ k.flowchart = Moved(b.flowchart, d, keep)
      BY MergedRows
    <3>3. a = b
      BY <3>1, <3>2 DEF WellFormed
    <3> QED
      BY <3>1, <3>2, <3>3 DEF JobRow
  <2>3. ASSUME NEW i \in Ids(t)
        PROVE  Moved(i, d, keep) \in Ids(m)
    BY <1>1, <1>2 DEF Ids, Moved
  <2>4. \A j \in m.jobs : j.flowchart \in Ids(m)
    <3> SUFFICES ASSUME NEW j \in m.jobs PROVE j.flowchart \in Ids(m)
      OBVIOUS
    <3>1. PICK k \in t.jobs : j.flowchart = Moved(k.flowchart, d, keep)
      BY MergedRows
    <3>2. k.flowchart \in Ids(t)
      BY DEF WellFormed
    <3> QED
      BY <2>3, <3>1, <3>2
  <2>5. \A l \in m.links : l.flowchart \in Ids(m)
    <3> SUFFICES ASSUME NEW l \in m.links PROVE l.flowchart \in Ids(m)
      OBVIOUS
    <3>1. PICK k \in t.links : l.flowchart = Moved(k.flowchart, d, keep)
      BY MergedRows
    <3>2. k.flowchart \in Ids(t)
      BY DEF WellFormed
    <3> QED
      BY <2>3, <3>1, <3>2
  <2> QED
    BY <2>1, <2>2, <2>4, <2>5 DEF WellFormed
<1>5. ASSUME NEW f \in t.flowcharts PROVE f \in m.flowcharts \/ (f.digest = d /\ f \in seen)
  <2>1. CASE f.id \in SeenIds(d)
    BY <2>1, SeenMeans
  <2>2. CASE f.id \notin SeenIds(d)
    BY <1>1, <2>2
  <2> QED
    BY <2>1, <2>2
<1>6. ASSUME NEW f \in t.flowcharts, Oldest(f, t), d # Null PROVE f \in m.flowcharts
  <2> SUFFICES ASSUME f.id \in SeenIds(d) PROVE f.id = keep
    BY <1>1
  <2>1. f.digest = d
    BY SeenMeans
  <2>2. f.id <= keep
    BY <1>2, <1>6, <2>1 DEF Oldest
  <2>3. keep <= f.id
    OBVIOUS
  <2>4. f.id \in Nat /\ keep \in Nat
    BY <1>2, Parts DEF FlowchartRow
  <2> QED
    BY <2>2, <2>3, <2>4
<1> QED
  BY <1>1, <1>3, <1>4, <1>5, <1>6

\* By digest a merge changes nothing.
LEMMA MergeEquivalent ==
  ASSUME NEW t \in Tables, WellFormed(t), seen \subseteq t.flowcharts,
         NEW d, d # Null, NEW keep \in SeenIds(d),
         NEW m, IsMerge(m, t, d, keep)
  PROVE  Equivalent(t, m)
<1>1. m.flowcharts = {f \in t.flowcharts : f.id \notin SeenIds(d) \/ f.id = keep}
  BY MergedRows
<1>2. PICK kept \in m.flowcharts : kept.id = keep /\ kept.digest = d /\ kept \in t.flowcharts
  BY MergedRows
<1>3. ASSUME NEW f \in t.flowcharts
      PROVE  \E g \in m.flowcharts :
                /\ Key(g) = Key(f) /\ g.digest = f.digest
                /\ g.id = Moved(f.id, d, keep)
  <2>1. CASE f.id \in SeenIds(d)
    <3>1. f.digest = d
      BY <2>1, SeenMeans
    <3> QED
      BY <1>2, <2>1, <3>1 DEF Key, Moved
  <2>2. CASE f.id \notin SeenIds(d)
    BY <1>1, <2>2 DEF Moved
  <2> QED
    BY <2>1, <2>2
<1>4. ASSUME NEW i \in Ids(t), NEW g \in m.flowcharts,
             g.id = Moved(i, d, keep)
      PROVE  \E f \in t.flowcharts : f.id = i /\ Key(f) = Key(g)
  <2>1. PICK f \in t.flowcharts : f.id = i
    BY DEF Ids
  <2>2. PICK h \in m.flowcharts : Key(h) = Key(f) /\ h.id = g.id
    BY <1>3, <1>4, <2>1
  <2>3. h = g
    BY <1>1, <2>2 DEF WellFormed
  <2> QED
    BY <2>1, <2>2, <2>3
<1>5. Library(m) = Library(t)
  <2>1. \A e : e \in Library(m) => e \in Library(t)
    BY <1>1 DEF Library
  <2>2. ASSUME NEW e \in Library(t) PROVE e \in Library(m)
    <3>1. PICK f \in t.flowcharts : e = [id |-> Key(f), digest |-> f.digest]
      BY DEF Library
    <3>2. PICK g \in m.flowcharts : Key(g) = Key(f) /\ g.digest = f.digest
      BY <1>3
    <3> QED
      BY <3>1, <3>2 DEF Library
  <2> QED
    BY <2>1, <2>2
<1>6. JobCharts(m) = JobCharts(t)
  <2>1. ASSUME NEW e \in JobCharts(m) PROVE e \in JobCharts(t)
    <3>1. PICK j \in m.jobs, f \in m.flowcharts :
             j.flowchart = f.id /\ e = [job |-> j.id, flowchart |-> Key(f)]
      BY JobChartsMean
    <3>2. PICK k \in t.jobs : /\ j.id = k.id
                              /\ j.flowchart = Moved(k.flowchart, d, keep)
      BY MergedRows
    <3>3. k.flowchart \in Ids(t)
      BY DEF WellFormed
    <3>4. PICK i \in Ids(t) : i = k.flowchart
      BY <3>3
    <3>5. f \in m.flowcharts /\ f.id = Moved(i, d, keep)
      BY <3>1, <3>2, <3>4
    <3>6. \E g \in t.flowcharts : g.id = i /\ Key(g) = Key(f)
      BY <1>4, <3>5
    <3> QED
      BY <3>1, <3>2, <3>4, <3>6, JobChartsMean
  <2>2. ASSUME NEW e \in JobCharts(t) PROVE e \in JobCharts(m)
    <3>1. PICK k \in t.jobs, f \in t.flowcharts :
             k.flowchart = f.id /\ e = [job |-> k.id, flowchart |-> Key(f)]
      BY JobChartsMean
    <3>2. PICK j \in m.jobs : /\ j.id = k.id
                              /\ j.flowchart = Moved(k.flowchart, d, keep)
      BY MergedRows
    <3>3. PICK g \in m.flowcharts :
             Key(g) = Key(f) /\ g.id = Moved(f.id, d, keep)
      BY <1>3
    <3> QED
      BY <3>1, <3>2, <3>3, JobChartsMean
  <2> QED
    BY <2>1, <2>2
<1>7. LinkedCharts(m) = LinkedCharts(t)
  <2>1. ASSUME NEW e \in LinkedCharts(m) PROVE e \in LinkedCharts(t)
    <3>1. PICK l \in m.links, f \in m.flowcharts :
             l.flowchart = f.id /\ e = [project |-> l.project, flowchart |-> Key(f)]
      BY LinkedChartsMean
    <3>2. PICK k \in t.links : /\ l.project = k.project
                               /\ l.flowchart = Moved(k.flowchart, d, keep)
      BY MergedRows
    <3>3. k.flowchart \in Ids(t)
      BY DEF WellFormed
    <3>4. PICK i \in Ids(t) : i = k.flowchart
      BY <3>3
    <3>5. f \in m.flowcharts /\ f.id = Moved(i, d, keep)
      BY <3>1, <3>2, <3>4
    <3>6. \E g \in t.flowcharts : g.id = i /\ Key(g) = Key(f)
      BY <1>4, <3>5
    <3> QED
      BY <3>1, <3>2, <3>4, <3>6, LinkedChartsMean
  <2>2. ASSUME NEW e \in LinkedCharts(t) PROVE e \in LinkedCharts(m)
    <3>1. PICK k \in t.links, f \in t.flowcharts :
             k.flowchart = f.id /\ e = [project |-> k.project, flowchart |-> Key(f)]
      BY LinkedChartsMean
    <3>2. PICK l \in m.links : /\ l.project = k.project
                               /\ l.flowchart = Moved(k.flowchart, d, keep)
      BY MergedRows
    <3>3. PICK g \in m.flowcharts :
             Key(g) = Key(f) /\ g.id = Moved(f.id, d, keep)
      BY <1>3
    <3> QED
      BY <3>1, <3>2, <3>3, LinkedChartsMean
  <2> QED
    BY <2>1, <2>2
<1> QED
  BY <1>5, <1>6, <1>7 DEF Equivalent

-----------------------------------------------------------------------------
(* The steps of a registration                                             *)

\* The invariant holds at first.
LEMMA InvAtFirst == Init => Inv
<1> SUFFICES ASSUME Init PROVE Inv
  OBVIOUS
<1>1. tables \in Tables /\ WellFormed(tables) /\ columns \subseteq Column
  BY OldAssumption DEF Init
<1>2. NoTables \in Tables
  BY DEF NoTables, Tables
<1>3. starts \in 0 .. MaxStarts /\ version \in 0 .. 2 /\ mpc \in Stages /\ temp \in BOOLEAN
      /\ locked \in BOOLEAN /\ patient \in BOOLEAN /\ seen \subseteq FlowchartRow
  <2>1. starts = 0 /\ version \in 0 .. 1 /\ mpc = "idle" /\ seen = {} /\ temp = FALSE
        /\ locked = FALSE /\ patient \in BOOLEAN
    BY DEF Init
  <2>2. mpc \in Stages
    BY <2>1 DEF Stages
  <2>3. starts \in 0 .. MaxStarts /\ version \in 0 .. 2
    BY <2>1, BoundAssumption
  <2> QED
    BY <2>1, <2>2, <2>3
<1>4. /\ req \in [Registrant -> Requests] /\ chart \in [Registrant -> Nat]
      /\ rpc \in [Registrant -> {"find flowchart", "insert job", "registered", "failed"}]
  BY DEF Init
<1>5. TypeOK
  BY <1>1, <1>2, <1>3, <1>4 DEF Init, TypeOK
<1>6. version \in {v \in 0 .. 1 : v = 1 => NeededColumns \subseteq columns}
  BY DEF Init
<1>7. version \in 0 .. 1 /\ (version >= 1 => NeededColumns \subseteq columns)
  BY <1>6
<1>8. version # 2
  BY <1>7
<1>9. ~temp /\ ~locked /\ mpc = "idle"
  BY DEF Init
<1> QED
  BY <1>1, <1>4, <1>5, <1>7, <1>8, <1>9
     DEF Init, Inv, ChosenSafe, WorkRight, SeenRight, StageRight, ColumnsRight,
     CopyNeverRefused, StuckMeansDeduped, MarkedMeansColumns

\* A process finds the oldest flowchart of its digest.
LEMMA FindInv ==
  ASSUME Inv, NEW p \in Registrant, FindFlowchart(p)
  PROVE  Inv'
<1>1. PICK f \in tables.flowcharts :
         /\ IsOldest(f, SameDigest(tables, req[p].digest))
         /\ chart' = [chart EXCEPT ![p] = f.id]
  BY DEF FindFlowchart
<1>2. /\ UNCHANGED <<tables, columns, temp, version, patient, mpc, seen, locked, work,
                     starts, req>>
      /\ rpc' = [rpc EXCEPT ![p] = "insert job"]
  BY DEF FindFlowchart, Advance, migrator
<1>3. f.id \in Nat
  BY Parts DEF Inv, TypeOK, FlowchartRow
<1>4. TypeOK'
  BY <1>1, <1>2, <1>3 DEF Inv, TypeOK
<1>5. Oldest(f, tables)
  BY <1>1 DEF IsOldest, SameDigest, Oldest
<1>6. ChosenSafe'
  <2> SUFFICES ASSUME NEW q \in Registrant, rpc'[q] = "insert job"
               PROVE  Safe(tables, chart'[q])
    BY <1>2 DEF ChosenSafe
  <2>1. CASE q = p
    <3>1. chart'[q] = f.id
      BY <1>1, <2>1 DEF Inv, TypeOK
    <3> QED
      BY <1>5, <3>1 DEF Safe
  <2>2. CASE q # p
    <3>1. chart'[q] = chart[q] /\ rpc'[q] = rpc[q]
      BY <1>1, <1>2, <2>2 DEF Inv, TypeOK
    <3> QED
      BY <3>1 DEF Inv, ChosenSafe
  <2> QED
    BY <2>1, <2>2
<1> QED
  BY <1>2, <1>4, <1>6
     DEF Inv, WorkRight, SeenRight, View, StageRight, ColumnsRight, CopyNeverRefused,
     StuckMeansDeduped, MarkedMeansColumns

\* The row that a process creates is newer than all, and the first of its digest.
LEMMA CreatedRow ==
  ASSUME Inv, NEW p \in Registrant, CreateFlowchart(p)
  PROVE  \E r \in FlowchartRow :
            /\ tables'.flowcharts = tables.flowcharts \cup {r}
            /\ tables'.links = tables.links \cup
                  {[flowchart |-> r.id, project |-> n] : n \in req[p].projects}
            /\ tables'.jobs = tables.jobs /\ tables' \in Tables
            /\ chart' = [chart EXCEPT ![p] = r.id]
            /\ \A f \in tables.flowcharts :
                  /\ f.id # r.id /\ f.id <= r.id
                  /\ r.digest # Null => f.digest # r.digest
<1>1. PICK id \in {1} \cup {i + 1 : i \in Ids(tables)} :
         /\ IsNextId(id, tables)
         /\ tables' = [tables EXCEPT
               !.flowcharts = @ \cup {[id |-> id, digest |-> req[p].digest]},
               !.links = @ \cup {[flowchart |-> id, project |-> n] : n \in req[p].projects}]
         /\ chart' = [chart EXCEPT ![p] = id]
  BY DEF CreateFlowchart
<1> DEFINE r == [id |-> id, digest |-> req[p].digest]
<1>2. req[p].digest \in Digest \cup {Null} /\ req[p].projects \subseteq Project
  <2>1. req[p] \in Request
    BY RequestAssumption DEF Inv, TypeOK
  <2> QED
    BY <2>1 DEF Request
<1>3. id \in Nat \ {0}
  BY <1>1, BoundAssumption DEF IsNextId
<1>4. r \in FlowchartRow /\ r.id = id /\ r.digest = req[p].digest
  BY <1>2, <1>3 DEF FlowchartRow
<1>5. \A n \in req[p].projects : [flowchart |-> id, project |-> n] \in LinkRow
  BY <1>2, <1>3 DEF LinkRow
<1>6. /\ tables'.flowcharts = tables.flowcharts \cup {r}
      /\ tables'.links = tables.links \cup
            {[flowchart |-> r.id, project |-> n] : n \in req[p].projects}
      /\ tables'.jobs = tables.jobs
  BY <1>1 DEF Inv, TypeOK, Tables
<1>7. tables' \in Tables
  <2>1. tables'.flowcharts \subseteq FlowchartRow
    BY <1>4, <1>6, Parts DEF Inv, TypeOK
  <2>2. tables'.links \subseteq LinkRow
    BY <1>4, <1>5, <1>6, Parts DEF Inv, TypeOK
  <2> HIDE DEF r
  <2> QED
    BY <1>1, <1>6, <2>1, <2>2 DEF Inv, TypeOK, Tables
<1>8. ASSUME NEW f \in tables.flowcharts
      PROVE  f.id # id /\ f.id <= id /\ (req[p].digest # Null => f.digest # req[p].digest)
  <2>1. f.id \in Ids(tables) /\ f.id \in Nat
    BY Parts DEF Ids, Inv, TypeOK, FlowchartRow
  <2>2. f.id < id
    BY <1>1, <2>1 DEF IsNextId
  <2>3. f \notin SameDigest(tables, req[p].digest)
    BY DEF CreateFlowchart
  <2> QED
    BY <1>3, <2>1, <2>2, <2>3 DEF SameDigest
<1> QED
  BY <1>1, <1>4, <1>6, <1>7, <1>8

\* A process creates a flowchart.
LEMMA CreateInv ==
  ASSUME Inv, NEW p \in Registrant, CreateFlowchart(p)
  PROVE  Inv'
<1>1. PICK r \in FlowchartRow :
         /\ tables'.flowcharts = tables.flowcharts \cup {r}
         /\ tables'.links = tables.links \cup
               {[flowchart |-> r.id, project |-> n] : n \in req[p].projects}
         /\ tables'.jobs = tables.jobs /\ tables' \in Tables
         /\ chart' = [chart EXCEPT ![p] = r.id]
         /\ \A f \in tables.flowcharts :
               /\ f.id # r.id /\ f.id <= r.id
               /\ r.digest # Null => f.digest # r.digest
  BY CreatedRow
<1>2. /\ UNCHANGED <<columns, temp, version, patient, mpc, seen, locked, work, starts, req>>
      /\ rpc' = [rpc EXCEPT ![p] = "insert job"] /\ ~locked
  BY DEF CreateFlowchart, Advance, migrator
<1>3. r.id \in Nat
  BY DEF FlowchartRow
<1>4. TypeOK'
  BY <1>1, <1>2, <1>3 DEF Inv, TypeOK
<1>5. WellFormed(tables')
  <2>1. \A f, g \in tables'.flowcharts : f.id = g.id => f = g
    BY <1>1 DEF Inv, WellFormed
  <2>2. Ids(tables') = Ids(tables) \cup {r.id}
    BY <1>1 DEF Ids
  <2>3. \A l \in tables'.links : l.flowchart \in Ids(tables')
    BY <1>1, <2>2 DEF Inv, WellFormed
  <2>4. \A j \in tables'.jobs : j.flowchart \in Ids(tables')
    BY <1>1, <2>2 DEF Inv, WellFormed
  <2> QED
    BY <1>1, <2>1, <2>3, <2>4 DEF Inv, WellFormed
<1>6. \A f \in tables.flowcharts : Oldest(f, tables) => Oldest(f, tables')
  BY <1>1 DEF Oldest
<1>7. Oldest(r, tables')
  BY <1>1, <1>3 DEF Oldest
<1>8. ChosenSafe'
  <2> SUFFICES ASSUME NEW q \in Registrant, rpc'[q] = "insert job"
               PROVE  Safe(tables', chart'[q])
    BY DEF ChosenSafe
  <2>1. CASE q = p
    <3>1. chart'[q] = r.id
      BY <1>1, <2>1 DEF Inv, TypeOK
    <3> QED
      BY <1>1, <1>7, <3>1 DEF Safe
  <2>2. CASE q # p
    <3>1. chart'[q] = chart[q] /\ rpc'[q] = rpc[q]
      BY <1>1, <1>2, <2>2 DEF Inv, TypeOK
    <3>2. Safe(tables, chart[q])
      BY <3>1 DEF Inv, ChosenSafe
    <3> QED
      BY <1>1, <1>6, <3>1, <3>2 DEF Safe
  <2> QED
    BY <2>1, <2>2
<1>9. NoTwins(tables) => NoTwins(tables')
  BY <1>1 DEF NoTwins
<1>10. View = tables /\ View' = tables'
  BY <1>2 DEF View
<1>11. SeenRight'
  BY <1>1, <1>2, <1>10 DEF Inv, SeenRight
<1>12. CopyNeverRefused' /\ StuckMeansDeduped'
  BY <1>2, <1>9, <1>10 DEF Inv, CopyNeverRefused, StuckMeansDeduped
<1> QED
  BY <1>2, <1>4, <1>5, <1>8, <1>11, <1>12
     DEF Inv, WorkRight, StageRight, ColumnsRight, MarkedMeansColumns

\* The job that a process inserts is new, and its flowchart is there.
LEMMA InsertedJob ==
  ASSUME Inv, NEW p \in Registrant, InsertJob(p)
  PROVE  \E j \in JobRow :
            /\ tables'.jobs = tables.jobs \cup {j} /\ tables'.links = tables.links
            /\ tables'.flowcharts = tables.flowcharts /\ tables' \in Tables
            /\ \A k \in tables.jobs : k.id # j.id
            /\ \E f \in tables.flowcharts : f.id = j.flowchart
<1> DEFINE j == [id |-> req[p].job, flowchart |-> chart[p]]
<1>1. PICK f \in tables.flowcharts : f.id = chart[p]
  BY DEF InsertJob, Ready, Inv, ChosenSafe, Safe
<1>2. chart[p] \in Nat \ {0}
  BY <1>1, Parts DEF Inv, TypeOK, FlowchartRow
<1>3. req[p].job \in JobId
  <2>1. req[p] \in Request
    BY RequestAssumption DEF Inv, TypeOK
  <2> QED
    BY <2>1 DEF Request
<1>4. j \in JobRow /\ j.id = req[p].job /\ j.flowchart = chart[p]
  BY <1>2, <1>3 DEF JobRow
<1>5. tables' = [tables EXCEPT !.jobs = @ \cup {j}]
  BY DEF InsertJob
<1>6. \A k \in tables.jobs : k.id # j.id
  BY <1>4 DEF InsertJob
<1> HIDE DEF j
<1>7. /\ tables'.jobs = tables.jobs \cup {j} /\ tables'.links = tables.links
      /\ tables'.flowcharts = tables.flowcharts /\ tables' \in Tables
  BY <1>4, <1>5, Parts DEF Inv, TypeOK, Tables
<1> QED
  BY <1>1, <1>4, <1>6, <1>7

\* A process inserts its job.
LEMMA InsertInv ==
  ASSUME Inv, NEW p \in Registrant, InsertJob(p)
  PROVE  Inv'
<1>1. PICK j \in JobRow :
         /\ tables'.jobs = tables.jobs \cup {j} /\ tables'.links = tables.links
         /\ tables'.flowcharts = tables.flowcharts /\ tables' \in Tables
         /\ \A k \in tables.jobs : k.id # j.id
         /\ \E f \in tables.flowcharts : f.id = j.flowchart
  BY InsertedJob
<1>2. /\ UNCHANGED <<columns, temp, version, patient, mpc, seen, locked, work, starts, req,
                     chart>>
      /\ rpc' = [rpc EXCEPT ![p] = "registered"] /\ ~locked
  BY DEF InsertJob, Advance, migrator
<1>3. TypeOK'
  BY <1>1, <1>2 DEF Inv, TypeOK
<1>4. Ids(tables') = Ids(tables) /\ j.flowchart \in Ids(tables)
  BY <1>1 DEF Ids
<1>5. WellFormed(tables')
  BY <1>1, <1>4 DEF Inv, WellFormed
<1>6. \A i : Safe(tables, i) => Safe(tables', i)
  BY <1>1 DEF Safe, Oldest
<1>7. ChosenSafe'
  <2> SUFFICES ASSUME NEW q \in Registrant, rpc'[q] = "insert job"
               PROVE  Safe(tables', chart'[q])
    BY DEF ChosenSafe
  <2>1. rpc[q] = "insert job"
    BY <1>2 DEF Inv, TypeOK
  <2> QED
    BY <1>2, <1>6, <2>1 DEF Inv, ChosenSafe
<1>8. NoTwins(tables) => NoTwins(tables')
  BY <1>1 DEF NoTwins
<1>9. View = tables /\ View' = tables'
  BY <1>2 DEF View
<1>10. SeenRight'
  BY <1>1, <1>2, <1>9 DEF Inv, SeenRight
<1>11. CopyNeverRefused' /\ StuckMeansDeduped'
  BY <1>2, <1>8, <1>9 DEF Inv, CopyNeverRefused, StuckMeansDeduped
<1> QED
  BY <1>2, <1>3, <1>5, <1>7, <1>10, <1>11
     DEF Inv, WorkRight, StageRight, ColumnsRight, MarkedMeansColumns

\* A registration fails.
LEMMA FailsInv ==
  ASSUME Inv, NEW p \in Registrant, RegistrationFails(p)
  PROVE  Inv'
<1>1. /\ UNCHANGED <<tables, columns, temp, version, patient, mpc, seen, locked, work,
                     starts, req, chart>>
      /\ rpc' = [rpc EXCEPT ![p] = "failed"]
  BY DEF RegistrationFails, Advance, migrator
<1>2. TypeOK'
  BY <1>1 DEF Inv, TypeOK
<1>3. ChosenSafe'
  BY <1>1 DEF Inv, TypeOK, ChosenSafe
<1> QED
  BY <1>1, <1>2, <1>3
     DEF Inv, WorkRight, SeenRight, View, StageRight, ColumnsRight, CopyNeverRefused,
     StuckMeansDeduped, MarkedMeansColumns

-----------------------------------------------------------------------------
(* The steps of the migration                                              *)

\* A step of the migration outside of its transaction that changes no rows.
LEMMA OutsideInv ==
  ASSUME Inv, ~locked', TypeOK',
         UNCHANGED <<tables, patient, rpc, chart>>,
         SeenRight', StageRight', ColumnsRight', MarkedMeansColumns',
         mpc' = "copy" => NoTwins(tables),
         temp' \/ version' = 2 => NoTwins(tables)
  PROVE  Inv'
<1>1. ChosenSafe' /\ WorkRight' /\ WellFormed(tables')
  BY DEF Inv, ChosenSafe, WorkRight
<1>2. CopyNeverRefused' /\ StuckMeansDeduped'
  BY DEF CopyNeverRefused, StuckMeansDeduped, View, StageRight
<1> QED
  BY <1>1, <1>2 DEF Inv

\* The command starts, or the columns are changed, or the digests are read.
LEMMA BeforeInv ==
  ASSUME Inv, StartUpgrade \/ AlterColumns \/ MarkFirst \/ ReadDigests \/ StartDowngrade
  PROVE  Inv'
<1>1. UNCHANGED <<tables, temp, patient, locked, work, req, rpc, chart>> /\ ~locked
  BY DEF StartUpgrade, AlterColumns, Alter, MarkFirst, ReadDigests, StartDowngrade,
     registrants, Inv, StageRight
<1>2. TypeOK'
  <2>1. starts' \in 0 .. MaxStarts /\ version' \in 0 .. 2 /\ mpc' \in Stages
    <3>1. starts \in 0 .. MaxStarts /\ version \in 0 .. 2
      BY DEF Inv, TypeOK
    <3>2. starts' = starts \/ (starts < MaxStarts /\ starts' = starts + 1)
      BY DEF StartUpgrade, AlterColumns, Alter, MarkFirst, ReadDigests, StartDowngrade
    <3>3. version' = version \/ version' = 1
      BY DEF StartUpgrade, AlterColumns, Alter, MarkFirst, ReadDigests, StartDowngrade
    <3>4. mpc' \in Stages
      BY DEF StartUpgrade, AlterColumns, Alter, MarkFirst, ReadDigests, StartDowngrade,
         Stages
    <3> QED
      BY <3>1, <3>2, <3>3, <3>4, BoundAssumption
  <2>2. columns' \subseteq Column
    BY DEF StartUpgrade, AlterColumns, Alter, MarkFirst, ReadDigests, StartDowngrade,
       Inv, TypeOK, Column
  <2>3. seen' \subseteq FlowchartRow
    BY Parts DEF StartUpgrade, AlterColumns, Alter, MarkFirst, ReadDigests, StartDowngrade,
       Inv, TypeOK
  <2> QED
    BY <1>1, <2>1, <2>2, <2>3 DEF Inv, TypeOK
<1>3. SeenRight'
  <2>1. CASE ReadDigests
    BY <1>1, <2>1 DEF ReadDigests, SeenRight, View
  <2>2. CASE StartDowngrade
    BY <1>1, <2>2 DEF StartDowngrade, SeenRight, View, Inv, StuckMeansDeduped, NoTwins
  <2>3. CASE ~(ReadDigests \/ StartDowngrade)
    BY <2>3 DEF StartUpgrade, AlterColumns, Alter, MarkFirst, SeenRight
  <2> QED
    BY <2>1, <2>2, <2>3
<1>4. StageRight'
  <2>1. version \in 0 .. 2
    BY DEF Inv, TypeOK
  <2>2. mpc' \in {"read", "dedupe", "copy", "swap"} => version' >= 1
    <3>1. CASE StartUpgrade
      <4>1. version' = version /\ mpc' = IF version = 0 THEN "add conceptdoi" ELSE "read"
        BY <3>1 DEF StartUpgrade
      <4>2. version = 0 \/ version >= 1
        BY <2>1
      <4> QED
        BY <4>1, <4>2
    <3>2. CASE StartDowngrade
      BY <3>2 DEF StartDowngrade
    <3>3. CASE AlterColumns
      BY <3>3 DEF AlterColumns, Alter
    <3>4. CASE MarkFirst
      <4>1. version' = 1
        BY <3>4 DEF MarkFirst
      <4> QED
        BY <4>1
    <3>5. CASE ReadDigests
      BY <3>5 DEF ReadDigests, Inv, StageRight
    <3> QED
      BY <3>1, <3>2, <3>3, <3>4, <3>5
  <2>3. mpc' # "swap"
    BY DEF StartUpgrade, AlterColumns, Alter, MarkFirst, ReadDigests, StartDowngrade
  <2> QED
    BY <1>1, <2>2, <2>3 DEF StageRight
<1>5. ColumnsRight' /\ MarkedMeansColumns'
  <2>1. CASE StartUpgrade \/ StartDowngrade \/ ReadDigests
    BY <1>1, <2>1 DEF StartUpgrade, StartDowngrade, ReadDigests, Inv, ColumnsRight,
       MarkedMeansColumns
  <2>2. CASE AlterColumns
    BY <1>1, <2>2 DEF AlterColumns, Alter, Inv, ColumnsRight, MarkedMeansColumns,
       NeededColumns
  <2>3. CASE MarkFirst
    <3>1. patient => NeededColumns \subseteq columns
      BY <2>3 DEF MarkFirst, Inv, ColumnsRight, NeededColumns
    <3>2. mpc' = "read" /\ columns' = columns
      BY <2>3 DEF MarkFirst
    <3> QED
      BY <1>1, <3>1, <3>2 DEF ColumnsRight, MarkedMeansColumns
  <2> QED
    BY <2>1, <2>2, <2>3
<1>6. mpc' # "copy" /\ (version' = 2 => version = 2)
  <2>1. mpc' # "copy"
    BY DEF StartUpgrade, AlterColumns, Alter, MarkFirst, ReadDigests, StartDowngrade
  <2>2. version' = version \/ version' = 1
    BY DEF StartUpgrade, AlterColumns, Alter, MarkFirst, ReadDigests, StartDowngrade
  <2> QED
    BY <2>1, <2>2
<1> QED
  BY <1>1, <1>2, <1>3, <1>4, <1>5, <1>6, OutsideInv DEF Inv, StuckMeansDeduped

\* What the connection of the migration sees.
LEMMA ViewRight ==
  ASSUME Inv
  PROVE  /\ View \in Tables /\ WellFormed(View)
         /\ View.flowcharts \subseteq tables.flowcharts
         /\ \A f \in tables.flowcharts : Oldest(f, tables) => f \in View.flowcharts
         /\ Equivalent(tables, View)
BY DEF Inv, TypeOK, View, WorkRight, Equivalent

\* The flowcharts of a digest are merged.
LEMMA DedupeInv ==
  ASSUME Inv, NEW d \in Digest, Dedupe(d)
  PROVE  Inv'
<1>1. PICK keep \in SeenIds(d) : /\ \A i \in SeenIds(d) : keep <= i
                                 /\ work' = Merge(View, keep, SeenIds(d) \ {keep})
  BY DEF Dedupe
<1>2. /\ UNCHANGED <<tables, columns, temp, version, patient, mpc, starts, req, rpc, chart>>
      /\ locked' /\ mpc = "dedupe" /\ seen' = {f \in seen : f.digest # d}
  BY DEF Dedupe, registrants
<1>3. PICK t : t = View
  OBVIOUS
<1>4. PICK m : m = Merge(t, keep, SeenIds(d) \ {keep})
  OBVIOUS
<1>5. /\ t \in Tables /\ WellFormed(t) /\ t.flowcharts \subseteq tables.flowcharts
      /\ \A f \in tables.flowcharts : Oldest(f, tables) => f \in t.flowcharts
      /\ Equivalent(tables, t)
  BY <1>3, ViewRight
<1>6. /\ seen \subseteq t.flowcharts
      /\ \A f, g \in t.flowcharts :
            f.digest = g.digest /\ f.digest # Null /\ f # g => f \in seen
      /\ \A f \in seen : f.digest # Null
  BY <1>2, <1>3 DEF Inv, SeenRight
<1>7. d # Null
  BY NullAssumption
<1>8. IsMerge(m, t, d, keep)
  BY <1>4 DEF IsMerge
<1>9. work' = m
  BY <1>1, <1>3, <1>4
<1> HIDE <1>1, <1>3, <1>4
<1>10. \A i \in SeenIds(d) : keep <= i
  BY <1>1
<1>11. /\ m \in Tables /\ WellFormed(m) /\ m.flowcharts \subseteq t.flowcharts
       /\ \A f \in t.flowcharts : f \in m.flowcharts \/ (f.digest = d /\ f \in seen)
       /\ \A f \in t.flowcharts : Oldest(f, t) => f \in m.flowcharts
  BY <1>5, <1>6, <1>7, <1>8, <1>10, MergeRight
<1>12. Equivalent(t, m)
  BY <1>5, <1>6, <1>7, <1>8, MergeEquivalent
<1>13. TypeOK'
  BY <1>2, <1>9, <1>11 DEF Inv, TypeOK
<1>14. WorkRight'
  <2>1. ASSUME NEW f \in tables.flowcharts, Oldest(f, tables) PROVE f \in m.flowcharts
    <3>1. f \in t.flowcharts /\ Oldest(f, t)
      BY <1>5, <2>1 DEF Oldest
    <3> QED
      BY <1>11, <3>1
  <2>2. Equivalent(tables, m)
    BY <1>5, <1>12 DEF Equivalent
  <2>3. m.flowcharts \subseteq tables.flowcharts
    BY <1>5, <1>11
  <2> QED
    BY <1>2, <1>9, <1>11, <2>1, <2>2, <2>3 DEF WorkRight
<1>15. SeenRight'
  <2>1. View' = m
    BY <1>2, <1>9 DEF View
  <2>2. \A f \in seen' : f \in m.flowcharts
    BY <1>2, <1>6, <1>11
  <2>3. ASSUME NEW f \in m.flowcharts, NEW g \in m.flowcharts,
               f.digest = g.digest, f.digest # Null, f # g
        PROVE  f \in seen'
    <3>1. f \in seen /\ g \in seen
      BY <1>6, <1>11, <2>3
    <3>2. f.digest # d
      <4> SUFFICES ASSUME f.digest = d PROVE FALSE
        OBVIOUS
      <4>1. f.id \in SeenIds(d) /\ g.id \in SeenIds(d)
        BY <2>3, <3>1 DEF SeenIds
      <4>2. m.flowcharts = {h \in t.flowcharts : h.id \notin SeenIds(d) \/ h.id = keep}
        BY <1>5, <1>6, <1>8, MergedRows
      <4>3. f.id = keep /\ g.id = keep
        BY <4>1, <4>2
      <4> QED
        BY <1>11, <2>3, <4>3 DEF WellFormed
    <3> QED
      BY <1>2, <3>1, <3>2
  <2> QED
    BY <1>2, <1>6, <2>1, <2>2, <2>3 DEF SeenRight
<1> QED
  BY <1>2, <1>13, <1>14, <1>15
     DEF Inv, ChosenSafe, StageRight, ColumnsRight, CopyNeverRefused, StuckMeansDeduped,
     MarkedMeansColumns

\* What has no id twice in what was read has no twins.
LEMMA NoTwinsLeft ==
  ASSUME Inv, mpc = "dedupe", \A d \in Digest : \A i, k \in SeenIds(d) : i = k
  PROVE  NoTwins(View)
<1> SUFFICES ASSUME NEW f \in View.flowcharts, NEW g \in View.flowcharts,
                    f.digest = g.digest, f.digest # Null, f # g
             PROVE  FALSE
  BY DEF NoTwins
<1>1. f \in seen /\ g \in seen
  BY DEF Inv, SeenRight
<1>2. f.digest \in Digest
  BY <1>1 DEF Inv, TypeOK, FlowchartRow
<1>3. f.id \in SeenIds(f.digest) /\ g.id \in SeenIds(f.digest)
  BY <1>1 DEF SeenIds
<1>4. f.id = g.id
  BY <1>2, <1>3
<1> QED
  BY <1>4, ViewRight DEF WellFormed

\* The temporary table is made.
LEMMA CreateTempInv == ASSUME Inv, CreateTemp PROVE Inv'
<1>1. NoTwins(View)
  BY NoTwinsLeft DEF CreateTemp
<1>2. /\ UNCHANGED <<tables, columns, version, patient, seen, locked, work, starts, req,
                     rpc, chart>>
      /\ mpc = "dedupe" /\ mpc' = "copy" /\ temp' = ~locked
  BY DEF CreateTemp, registrants
<1>3. View' = View /\ (~locked => View = tables)
  BY <1>2 DEF View
<1>4. TypeOK'
  BY <1>2 DEF Inv, TypeOK, Stages
<1>5. StuckMeansDeduped' /\ CopyNeverRefused'
  BY <1>1, <1>2, <1>3 DEF Inv, StuckMeansDeduped, CopyNeverRefused
<1> QED
  BY <1>2, <1>4, <1>5
     DEF Inv, ChosenSafe, WorkRight, SeenRight, StageRight, ColumnsRight, MarkedMeansColumns

\* The rows are copied.
LEMMA CopyInv == ASSUME Inv, Copy PROVE Inv'
<1>1. /\ UNCHANGED <<tables, columns, temp, version, patient, seen, starts, req, rpc, chart>>
      /\ mpc = "copy" /\ mpc' = "swap" /\ locked' /\ work' = View
  BY DEF Copy, registrants
<1>2. View' = View
  BY <1>1 DEF View
<1>3. TypeOK'
  BY <1>1, ViewRight DEF Inv, TypeOK, Stages
<1>4. WorkRight'
  BY <1>1, ViewRight DEF WorkRight
<1>5. CopyNeverRefused'
  BY <1>1, <1>2 DEF Inv, CopyNeverRefused
<1> QED
  BY <1>1, <1>3, <1>4, <1>5
     DEF Inv, ChosenSafe, SeenRight, StageRight, ColumnsRight, StuckMeansDeduped,
     MarkedMeansColumns

\* What a process has chosen is in the tables that the migration commits.
LEMMA SwapKeepsSafe ==
  ASSUME Inv, locked, NEW i, Safe(tables, i)
  PROVE  Safe(work, i)
<1>1. PICK f \in tables.flowcharts : f.id = i /\ Oldest(f, tables)
  BY DEF Safe
<1>2. f \in work.flowcharts /\ work.flowcharts \subseteq tables.flowcharts
  BY <1>1 DEF Inv, WorkRight
<1> QED
  BY <1>1, <1>2 DEF Safe, Oldest

\* The table is exchanged, and the transaction committed.
LEMMA SwapInv == ASSUME Inv, Swap PROVE Inv'
<1>1. /\ UNCHANGED <<columns, patient, starts, req, rpc, chart>>
      /\ tables' = work /\ version' = IF version = 2 THEN 1 ELSE 2
      /\ ~temp' /\ ~locked' /\ work' = NoTables /\ seen' = {}
      /\ mpc = "swap" /\ mpc' = "idle" /\ locked
  BY DEF Swap, registrants, Inv, StageRight
<1>2. NoTables \in Tables
  BY DEF NoTables, Tables
<1>3. TypeOK'
  <2>1. temp' \in BOOLEAN /\ locked' \in BOOLEAN
    BY DEF Swap
  <2>2. mpc' \in Stages /\ seen' \subseteq FlowchartRow
    BY <1>1 DEF Stages
  <2>3. version' \in 0 .. 2
    BY <1>1
  <2> QED
    BY <1>1, <1>2, <2>1, <2>2, <2>3 DEF Inv, TypeOK
<1>4. WellFormed(tables')
  BY <1>1 DEF Inv, WorkRight
<1>5. ChosenSafe'
  <2> SUFFICES ASSUME NEW p \in Registrant, rpc[p] = "insert job"
               PROVE  Safe(work, chart[p])
    BY <1>1 DEF ChosenSafe
  <2> QED
    BY <1>1, SwapKeepsSafe DEF Inv, ChosenSafe
<1>6. NoTwins(tables')
  BY <1>1 DEF Inv, CopyNeverRefused, View
<1>7. MarkedMeansColumns'
  BY <1>1 DEF Inv, MarkedMeansColumns, StageRight
<1> QED
  BY <1>1, <1>3, <1>4, <1>5, <1>6, <1>7
     DEF Inv, WorkRight, SeenRight, StageRight, ColumnsRight, CopyNeverRefused,
     StuckMeansDeduped

\* The migration is rolled back.
LEMMA StopsInv == ASSUME Inv, MigrationStops PROVE Inv'
<1>1. /\ UNCHANGED <<tables, columns, temp, version, patient, starts, req, rpc, chart>>
      /\ ~locked' /\ work' = NoTables /\ seen' = {} /\ mpc' = "idle"
  BY DEF MigrationStops, registrants
<1>2. NoTables \in Tables
  BY DEF NoTables, Tables
<1>3. TypeOK'
  <2>1. locked' \in BOOLEAN /\ mpc' \in Stages /\ seen' \subseteq FlowchartRow
    BY DEF MigrationStops, Stages
  <2> QED
    BY <1>1, <1>2, <2>1 DEF Inv, TypeOK
<1>4. SeenRight' /\ StageRight' /\ ColumnsRight' /\ MarkedMeansColumns'
  BY <1>1 DEF SeenRight, StageRight, ColumnsRight, MarkedMeansColumns, Inv
<1> QED
  BY <1>1, <1>3, <1>4, OutsideInv DEF Inv, StuckMeansDeduped

\* Every step keeps the invariant.
LEMMA InvStays == Inv /\ [Next]_vars => Inv'
<1> SUFFICES ASSUME Inv, [Next]_vars PROVE Inv'
  OBVIOUS
<1>1. CASE UNCHANGED vars
  BY <1>1 DEF vars, migrator, registrants, Inv, TypeOK, ChosenSafe, WorkRight, SeenRight,
     View, StageRight, ColumnsRight, CopyNeverRefused, StuckMeansDeduped, MarkedMeansColumns
<1> QED
  BY <1>1, FindInv, CreateInv, InsertInv, FailsInv, BeforeInv, DedupeInv, CreateTempInv,
     CopyInv, SwapInv, StopsInv DEF Next, Register, Migrate, Over

\* The invariant, of every behaviour.
LEMMA Invariance == Spec => []Inv
BY InvAtFirst, InvStays, PTL DEF Spec

-----------------------------------------------------------------------------
(* The steps, by digest                                                    *)

\* The key of a flowchart that is created is new.
LEMMA CreatedKey ==
  ASSUME Inv, NEW p \in Registrant, CreateFlowchart(p)
  PROVE  \E r \in FlowchartRow :
            /\ Library(tables') = Library(tables)
                                     \cup {[id |-> Key(r), digest |-> r.digest]}
            /\ \A f \in tables.flowcharts :
                  /\ Key(f) # Key(r)
                  /\ r.digest # Null => f.digest # r.digest
            /\ JobCharts(tables') = JobCharts(tables)
            /\ LinkedCharts(tables) \subseteq LinkedCharts(tables')
            /\ \A l \in LinkedCharts(tables') :
                  l \in LinkedCharts(tables) \/ l.flowchart = Key(r)
<1>1. PICK r \in FlowchartRow :
         /\ tables'.flowcharts = tables.flowcharts \cup {r}
         /\ tables'.links = tables.links \cup
               {[flowchart |-> r.id, project |-> n] : n \in req[p].projects}
         /\ tables'.jobs = tables.jobs /\ tables' \in Tables
         /\ \A f \in tables.flowcharts :
               /\ f.id # r.id /\ f.id <= r.id
               /\ r.digest # Null => f.digest # r.digest
  BY CreatedRow
<1>2. PICK t : t = tables
  OBVIOUS
<1>3. PICK w : w = tables'
  OBVIOUS
<1>4. t.flowcharts \subseteq FlowchartRow /\ WellFormed(t)
  BY <1>2, Parts DEF Inv, TypeOK
<1>5. ASSUME NEW f \in t.flowcharts PROVE Key(f) # Key(r)
  BY <1>1, <1>2, <1>4, KeyMeans
<1>6. Library(w) = Library(t) \cup {[id |-> Key(r), digest |-> r.digest]}
  BY <1>1, <1>2, <1>3 DEF Library
<1>7. ASSUME NEW i \in Ids(t), NEW f \in w.flowcharts, f.id = i
      PROVE  f \in t.flowcharts
  BY <1>1, <1>2, <1>3, <1>7 DEF Ids
<1>8. JobCharts(w) = JobCharts(t)
  <2>1. ASSUME NEW e \in JobCharts(w) PROVE e \in JobCharts(t)
    <3>1. PICK j \in w.jobs, f \in w.flowcharts :
             j.flowchart = f.id /\ e = [job |-> j.id, flowchart |-> Key(f)]
      BY JobChartsMean
    <3>2. j \in t.jobs /\ f.id \in Ids(t)
      BY <1>1, <1>2, <1>3, <1>4, <3>1 DEF WellFormed
    <3>3. f \in t.flowcharts
      BY <1>7, <3>2
    <3> QED
      BY <3>1, <3>2, <3>3, JobChartsMean
  <2>2. ASSUME NEW e \in JobCharts(t) PROVE e \in JobCharts(w)
    <3>1. PICK j \in t.jobs, f \in t.flowcharts :
             j.flowchart = f.id /\ e = [job |-> j.id, flowchart |-> Key(f)]
      BY JobChartsMean
    <3>2. j \in w.jobs /\ f \in w.flowcharts
      BY <1>1, <1>2, <1>3
    <3> QED
      BY <3>1, <3>2, JobChartsMean
  <2> QED
    BY <2>1, <2>2
<1>9. ASSUME NEW e \in LinkedCharts(t) PROVE e \in LinkedCharts(w)
  <2>1. PICK l \in t.links, f \in t.flowcharts :
           l.flowchart = f.id /\ e = [project |-> l.project, flowchart |-> Key(f)]
    BY LinkedChartsMean
  <2>2. l \in w.links /\ f \in w.flowcharts
    BY <1>1, <1>2, <1>3
  <2> QED
    BY <2>1, <2>2, LinkedChartsMean
<1>10. ASSUME NEW e \in LinkedCharts(w) PROVE e \in LinkedCharts(t) \/ e.flowchart = Key(r)
  <2>1. PICK l \in w.links, f \in w.flowcharts :
           l.flowchart = f.id /\ e = [project |-> l.project, flowchart |-> Key(f)]
    BY LinkedChartsMean
  <2>2. CASE l \in t.links
    <3>1. f.id \in Ids(t)
      BY <1>4, <2>1, <2>2 DEF WellFormed
    <3>2. f \in t.flowcharts
      BY <1>7, <3>1
    <3> QED
      BY <2>1, <2>2, <3>2, LinkedChartsMean
  <2>3. CASE l \notin t.links
    <3>1. l.flowchart = r.id
      BY <1>1, <1>2, <1>3, <2>3
    <3>2. f = r
      BY <1>1, <1>2, <1>3, <2>1, <3>1
    <3> QED
      BY <2>1, <3>2
  <2> QED
    BY <2>2, <2>3
<1> QED
  BY <1>1, <1>2, <1>3, <1>5, <1>6, <1>8, <1>9, <1>10

\* A job that is inserted enters with the key of its flowchart.
LEMMA InsertedKey ==
  ASSUME Inv, NEW p \in Registrant, InsertJob(p)
  PROVE  /\ Library(tables') = Library(tables)
         /\ LinkedCharts(tables') = LinkedCharts(tables)
         /\ \E j \in JobRow, f \in tables.flowcharts :
               /\ JobCharts(tables') = JobCharts(tables)
                                          \cup {[job |-> j.id, flowchart |-> Key(f)]}
               /\ \A k \in tables.jobs : k.id # j.id
<1>1. PICK j \in JobRow :
         /\ tables'.jobs = tables.jobs \cup {j} /\ tables'.links = tables.links
         /\ tables'.flowcharts = tables.flowcharts
         /\ \A k \in tables.jobs : k.id # j.id
         /\ \E f \in tables.flowcharts : f.id = j.flowchart
  BY InsertedJob
<1>2. PICK f \in tables.flowcharts : f.id = j.flowchart
  BY <1>1
<1>3. PICK t : t = tables
  OBVIOUS
<1>4. PICK w : w = tables'
  OBVIOUS
<1>5. WellFormed(t)
  BY <1>3 DEF Inv
<1>6. Library(w) = Library(t)
  BY <1>1, <1>3, <1>4 DEF Library
<1>7. LinkedCharts(w) = LinkedCharts(t)
  BY <1>1, <1>3, <1>4 DEF LinkedCharts, Owned
<1>8. JobCharts(w) = JobCharts(t) \cup {[job |-> j.id, flowchart |-> Key(f)]}
  <2>1. ASSUME NEW e \in JobCharts(w)
        PROVE  e \in JobCharts(t) \/ e = [job |-> j.id, flowchart |-> Key(f)]
    <3>1. PICK k \in w.jobs, g \in w.flowcharts :
             k.flowchart = g.id /\ e = [job |-> k.id, flowchart |-> Key(g)]
      BY JobChartsMean
    <3>2. g \in t.flowcharts /\ f \in t.flowcharts
      BY <1>1, <1>2, <1>3, <1>4
    <3>3. CASE k = j
      <4>1. g = f
        BY <1>2, <1>5, <3>1, <3>2, <3>3 DEF WellFormed
      <4> QED
        BY <3>1, <3>3, <4>1
    <3>4. CASE k # j
      <4>1. k \in t.jobs
        BY <1>1, <1>3, <1>4, <3>4
      <4> QED
        BY <3>1, <3>2, <4>1, JobChartsMean
    <3> QED
      BY <3>3, <3>4
  <2>2. ASSUME NEW e \in JobCharts(t) PROVE e \in JobCharts(w)
    <3>1. PICK k \in t.jobs, g \in t.flowcharts :
             k.flowchart = g.id /\ e = [job |-> k.id, flowchart |-> Key(g)]
      BY JobChartsMean
    <3>2. k \in w.jobs /\ g \in w.flowcharts
      BY <1>1, <1>3, <1>4
    <3> QED
      BY <3>1, <3>2, JobChartsMean
  <2>3. [job |-> j.id, flowchart |-> Key(f)] \in JobCharts(w)
    <3>1. j \in w.jobs /\ f \in w.flowcharts
      BY <1>1, <1>2, <1>3, <1>4
    <3> QED
      BY <1>2, <3>1, JobChartsMean
  <2> QED
    BY <2>1, <2>2, <2>3
<1> QED
  BY <1>1, <1>3, <1>4, <1>6, <1>7, <1>8

\* Any other step changes no table, or nothing by digest.
LEMMA OtherSteps ==
  ASSUME Inv, [Next]_vars,
         \A p \in Registrant : ~CreateFlowchart(p) /\ ~InsertJob(p)
  PROVE  Equivalent(tables, tables')
<1>1. CASE Swap
  <2>1. tables' = work /\ locked
    BY <1>1 DEF Swap, Inv, StageRight
  <2> QED
    BY <2>1 DEF Inv, WorkRight
<1>2. CASE tables' = tables
  BY <1>2 DEF Equivalent
<1> QED
  BY <1>1, <1>2 DEF Next, vars, Register, Migrate, Over, FindFlowchart, RegistrationFails,
     StartUpgrade, AlterColumns, Alter, MarkFirst, ReadDigests, Dedupe, StartDowngrade,
     CreateTemp, Copy, MigrationStops

-----------------------------------------------------------------------------
(* The theorems                                                            *)

\* Every variable keeps its type.
THEOREM TypeCorrect == Spec => []TypeOK
BY Invariance, PTL DEF Inv

\* Jobs and links point to flowcharts that are there, whatever is merged meanwhile.
THEOREM NothingEverDangles == Spec => []NothingDangles
<1>1. Inv => NothingDangles
  BY DEF Inv, WellFormed, NothingDangles
<1> QED
  BY <1>1, Invariance, PTL

\* The copy of the table never meets a digest twice.
THEOREM CopiesAreAccepted == Spec => []CopyNeverRefused
BY Invariance, PTL DEF Inv

\* A datastore that a temporary table keeps from being migrated needs no merging.
THEOREM StuckAreDeduped == Spec => []StuckMeansDeduped
BY Invariance, PTL DEF Inv

\* Without refused locks a datastore at a revision has the columns of the models.
THEOREM MarkedHaveColumns == Spec => []MarkedMeansColumns
BY Invariance, PTL DEF Inv

\* No project loses a flowchart or is given an old one.
THEOREM ProjectsKeepTheirs == Spec => LinksKept
<1> DEFINE kept == /\ LinkedCharts(tables) \subseteq LinkedCharts(tables')
                   /\ \A l \in LinkedCharts(tables') \ LinkedCharts(tables) :
                         \A f \in tables.flowcharts : Key(f) # l.flowchart
<1>1. ASSUME Inv, [Next]_vars PROVE kept
  <2>1. ASSUME NEW p \in Registrant, CreateFlowchart(p) PROVE kept
    BY <1>1, <2>1, CreatedKey
  <2>2. ASSUME NEW p \in Registrant, InsertJob(p) PROVE kept
    BY <1>1, <2>2, InsertedKey
  <2>3. CASE \A p \in Registrant : ~CreateFlowchart(p) /\ ~InsertJob(p)
    BY <1>1, <2>3, OtherSteps DEF Equivalent
  <2> QED
    BY <2>1, <2>2, <2>3
<1>2. Inv /\ [Next]_vars => [kept]_vars
  BY <1>1
<1> QED
  BY <1>2, Invariance, PTL DEF Spec, LinksKept

\* Every step is a step of the abstract register, or none.
LEMMA RefinementStep ==
  ASSUME Inv, [Next]_vars
  PROVE  [Registry!Next]_(Registry!vars)
<1>1. ASSUME NEW p \in Registrant, CreateFlowchart(p)
      PROVE  [Registry!Next]_(Registry!vars)
  <2>1. PICK r \in FlowchartRow :
           /\ Library(tables') = Library(tables)
                                    \cup {[id |-> Key(r), digest |-> r.digest]}
           /\ \A f \in tables.flowcharts :
                 Key(f) # Key(r) /\ (r.digest # Null => f.digest # r.digest)
           /\ JobCharts(tables') = JobCharts(tables)
    BY <1>1, CreatedKey
  <2>2. PICK row : row = [id |-> Key(r), digest |-> r.digest]
    OBVIOUS
  <2>3. row.id = Key(r) /\ row.digest = r.digest
    BY <2>2
  <2>4. \A g \in Library(tables) :
           g.id # row.id /\ (row.digest # Null => g.digest # row.digest)
    BY <2>1, <2>3 DEF Library
  <2>5. row \in Library(tables') \ Library(tables)
    BY <2>1, <2>2, <2>4
  <2> QED
    BY <2>1, <2>2, <2>4, <2>5 DEF Registry!Next, Registry!Publish, Registry!Unpublished
<1>2. ASSUME NEW p \in Registrant, InsertJob(p)
      PROVE  [Registry!Next]_(Registry!vars)
  <2>1. Library(tables') = Library(tables)
    BY <1>2, InsertedKey
  <2>2. PICK j \in JobRow, f \in tables.flowcharts :
           /\ JobCharts(tables') = JobCharts(tables)
                                      \cup {[job |-> j.id, flowchart |-> Key(f)]}
           /\ \A k \in tables.jobs : k.id # j.id
    BY <1>2, InsertedKey
  <2>3. PICK e : e = [job |-> j.id, flowchart |-> Key(f)]
    OBVIOUS
  <2>4. e.job = j.id /\ e.flowchart = Key(f)
    BY <2>3
  <2>5. PICK t : t = tables
    OBVIOUS
  <2>6. \A d \in JobCharts(t) : d.job # e.job
    BY <2>2, <2>4, <2>5, JobChartsMean
  <2>7. \E g \in Library(tables) : g.id = e.flowchart
    <3>1. [id |-> Key(f), digest |-> f.digest] \in Library(tables)
      BY DEF Library
    <3>2. [id |-> Key(f), digest |-> f.digest].id = e.flowchart
      BY <2>4
    <3> QED
      BY <3>1, <3>2
  <2>8. e \in JobCharts(tables') \ JobCharts(tables)
    BY <2>2, <2>3, <2>5, <2>6
  <2> QED
    BY <2>1, <2>2, <2>3, <2>5, <2>6, <2>7, <2>8
       DEF Registry!Next, Registry!Enter, Registry!Enterable
<1>3. CASE \A p \in Registrant : ~CreateFlowchart(p) /\ ~InsertJob(p)
  BY <1>3, OtherSteps DEF Equivalent, Registry!vars
<1> QED
  BY <1>1, <1>2, <1>3

\* Seen by digest, registrations and migrations behave as the abstract register does.
THEOREM RegistryImplemented == Spec => ImplementsRegistry
<1>1. Init => Registry!Init
  <2> SUFFICES ASSUME Init PROVE Registry!Init
    OBVIOUS
  <2>1. WellFormed(tables)
    BY OldAssumption DEF Init
  <2>2. PICK t : t = tables
    OBVIOUS
  <2>3. ASSUME NEW d \in JobCharts(t), NEW e \in JobCharts(t), d.job = e.job PROVE d = e
    <3>1. PICK j \in t.jobs, f \in t.flowcharts :
             j.flowchart = f.id /\ d = [job |-> j.id, flowchart |-> Key(f)]
      BY JobChartsMean
    <3>2. PICK k \in t.jobs, g \in t.flowcharts :
             k.flowchart = g.id /\ e = [job |-> k.id, flowchart |-> Key(g)]
      BY JobChartsMean
    <3>3. j = k
      BY <2>1, <2>2, <2>3, <3>1, <3>2 DEF WellFormed
    <3>4. f = g
      BY <2>1, <2>2, <3>1, <3>2, <3>3 DEF WellFormed
    <3> QED
      BY <3>1, <3>2, <3>3, <3>4
  <2>4. ASSUME NEW e \in JobCharts(t) PROVE \E g \in Library(t) : g.id = e.flowchart
    <3>1. PICK j \in t.jobs, f \in t.flowcharts :
             j.flowchart = f.id /\ e = [job |-> j.id, flowchart |-> Key(f)]
      BY JobChartsMean
    <3>2. [id |-> Key(f), digest |-> f.digest] \in Library(t)
      BY DEF Library
    <3>3. [id |-> Key(f), digest |-> f.digest].id = e.flowchart
      BY <3>1
    <3> QED
      BY <3>2, <3>3
  <2> QED
    BY <2>2, <2>3, <2>4 DEF Registry!Init
<1>2. Inv /\ [Next]_vars => [Registry!Next]_(Registry!vars)
  BY RefinementStep
<1> QED
  BY <1>1, <1>2, Invariance, PTL DEF Spec, ImplementsRegistry, Registry!Spec

=============================================================================
