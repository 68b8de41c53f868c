-------------------------- MODULE ConnectionsProofs --------------------------
(***************************************************************************)
(* Proofs about Connections: types, the globals of the process, what stays *)
(* pending, and what finish_job's True is worth.                           *)
(***************************************************************************)
EXTENDS Connections, TLAPS

-----------------------------------------------------------------------------
(* The invariant                                                           *)

\* A datastore that is up has bound Base.query, to itself or to one after it.
QueryBound == up # {} => query \in Store

\* An object is in the session with the values that were read, or not at all.
Together ==
    \A d \in Store, j \in JobId : loaded[d][j] = NoRow <=> object[d][j] = NoRow

\* While finish_job runs its scope is open, and its job in the session queries go to.
FinishRight ==
    finishing # NoRow =>
        /\ finishing.store \in up /\ depth[finishing.store] > 0
        /\ loaded[query][finishing.job] # NoRow

\* What finish_job reported is what every reader of the datastore sees, and no object in
\* the session is going to change it.
ToldKept ==
    \A d \in Store, j \in JobId : told[d][j] # NoRow =>
        /\ stored[d][j] = told[d][j] /\ draft[d][j] = told[d][j]
        /\ object[d][j] = loaded[d][j]

Inv == TypeOK /\ QueryBound /\ Together /\ FinishRight /\ ToldKept

-----------------------------------------------------------------------------
(* What is written to the session and to the file                          *)

\* A flush with attributes for each loaded object gives rows, and leaves those alone
\* whose attributes are as they were read.
LEMMA FlushRows ==
  ASSUME TypeOK, NEW d \in Store, NEW set \in Rows,
         \A j \in JobId : loaded[d][j] # NoRow => set[j] # NoRow
  PROVE  /\ Flush(d, set) \in Rows
         /\ \A j \in JobId : set[j] = loaded[d][j] => Flush(d, set)[j] = draft[d][j]
<1> USE DEF TypeOK, Rows
<1>1. ASSUME NEW j \in JobId
      PROVE  /\ Flush(d, set)[j] \in Row \cup {NoRow}
             /\ set[j] = loaded[d][j] => Flush(d, set)[j] = draft[d][j]
  <2>1. CASE loaded[d][j] = NoRow \/ draft[d][j] = NoRow
    BY <2>1 DEF Flush
  <2>2. CASE loaded[d][j] # NoRow /\ draft[d][j] # NoRow
    <3>1. loaded[d][j] \in Row /\ draft[d][j] \in Row /\ set[j] \in Row
      BY <2>2
    <3>2. Flush(d, set)[j] =
            [status |-> Column(loaded[d][j].status, set[j].status, draft[d][j].status),
             finished |-> Column(loaded[d][j].finished, set[j].finished,
                                 draft[d][j].finished)]
      BY <2>2 DEF Flush
    <3> QED
      BY <3>1, <3>2 DEF Column, Row
  <2> QED
    BY <2>1, <2>2
<1> QED
  BY <1>1 DEF Flush

\* The rows that leaving the scope of d stores.
LEMMA LeaveRows ==
  ASSUME Inv, NEW d \in Store
  PROVE  /\ Flush(d, object[d]) \in Rows
         /\ \A j \in JobId : told[d][j] # NoRow => Flush(d, object[d])[j] = told[d][j]
<1>1. object[d] \in Rows /\ \A j \in JobId : loaded[d][j] # NoRow => object[d][j] # NoRow
  BY DEF Inv, TypeOK, Together
<1>2. \A j \in JobId : object[d][j] = loaded[d][j] => Flush(d, object[d])[j] = draft[d][j]
  BY <1>1, FlushRows DEF Inv
<1> QED
  BY <1>1, <1>2, FlushRows DEF Inv, ToldKept

\* The rows that finish_job commits: the one it reports, if the session's idea of it was
\* not stale, and those it had reported before.
LEMMA FinishRows ==
  ASSUME Inv, finishing # NoRow, NEW d \in Store, d = finishing.store
  PROVE  /\ FinishFlushed(d) \in Rows
         /\ \A j \in JobId : told[d][j] # NoRow /\ (query # d \/ j # finishing.job)
               => FinishFlushed(d)[j] = told[d][j]
         /\ query = d /\ loaded[d][finishing.job] = draft[d][finishing.job]
               => FinishFlushed(d)[finishing.job] = finishing.row
<1> USE DEF Inv, TypeOK
<1>1. finishing \in Finish /\ finishing.job \in JobId /\ finishing.row \in Row
  BY DEF Finish
<1>2. SetObjects(d) \in Rows
  BY <1>1 DEF SetObjects, Rows
<1>3. finishing.row # NoRow
  BY <1>1, RowAssumption
<1>4. \A j \in JobId : SetObjects(d)[j] =
        IF query = d /\ j = finishing.job THEN finishing.row ELSE object[d][j]
  BY <1>1 DEF SetObjects, Rows
<1>5. \A j \in JobId : loaded[d][j] # NoRow => SetObjects(d)[j] # NoRow
  BY <1>3, <1>4 DEF Together
<1>6. /\ Flush(d, SetObjects(d)) \in Rows
      /\ \A j \in JobId : SetObjects(d)[j] = loaded[d][j]
            => Flush(d, SetObjects(d))[j] = draft[d][j]
  BY <1>2, <1>5, FlushRows
<1>7. ASSUME NEW j \in JobId, told[d][j] # NoRow, query # d \/ j # finishing.job
      PROVE  FinishFlushed(d)[j] = told[d][j]
  BY <1>4, <1>6, <1>7 DEF FinishFlushed, ToldKept
<1>8. ASSUME query = d, loaded[d][finishing.job] = draft[d][finishing.job]
      PROVE  FinishFlushed(d)[finishing.job] = finishing.row
  <2>1. loaded[d][finishing.job] \in Row
    BY <1>1, <1>8 DEF FinishRight, Rows
  <2>2. PICK old : old = loaded[d][finishing.job]
    OBVIOUS
  <2>3. Flush(d, SetObjects(d))[finishing.job] =
          [status |-> Column(old.status, finishing.row.status, old.status),
           finished |-> Column(old.finished, finishing.row.finished, old.finished)]
    BY <1>1, <1>4, <1>8, <2>1, <2>2, RowAssumption DEF Flush
  <2> QED
    BY <1>1, <2>3 DEF FinishFlushed, Column, Row
<1> QED
  BY <1>6, <1>7, <1>8 DEF FinishFlushed

-----------------------------------------------------------------------------
(* Steps                                                                   *)

\* Where a session was closed, and the rows its file has then.
Closed(d, rows) ==
    /\ \A e \in Store : stored'[e] = IF e = d THEN rows ELSE stored[e]
    /\ \A e \in Store : draft'[e] = IF e = d THEN rows ELSE draft[e]
    /\ \A e \in Store : locked'[e] = IF e = d THEN FALSE ELSE locked[e]
    /\ \A e \in Store : loaded'[e] = IF e = d THEN NoRows ELSE loaded[e]
    /\ \A e \in Store : object'[e] = IF e = d THEN NoRows ELSE object[e]
    /\ crossed' = crossed \ {d}

\* The tables and the sessions keep their types when a session is closed.
SessionTypes ==
    /\ stored \in [Store -> Rows] /\ draft \in [Store -> Rows]
    /\ loaded \in [Store -> Rows] /\ object \in [Store -> Rows]
    /\ locked \in [Store -> BOOLEAN]

\* Closing a session: types, and the two parts of the invariant about its objects.
LEMMA CloseKeeps ==
  ASSUME Inv, NEW d \in Store, NEW rows \in Rows, Close(d, rows)
  PROVE  SessionTypes' /\ Together' /\ Closed(d, rows)
<1>1. NoRows \in Rows
  BY DEF NoRows, Rows
<1>2. SessionTypes' /\ Closed(d, rows)
  BY <1>1 DEF Inv, TypeOK, Close, SessionTypes, Closed
<1>3. Together'
  BY <1>2 DEF Closed, Together, Inv, NoRows
<1> QED
  BY <1>2, <1>3

\* What was reported stays so if it is in the rows of the session that is closed.
LEMMA CloseTold ==
  ASSUME Inv, NEW d \in Store, NEW rows \in Rows, Closed(d, rows),
         told' \in [Store -> Rows],
         \A e \in Store, j \in JobId :
            \/ told'[e][j] = NoRow
            \/ e # d /\ told'[e][j] = told[e][j]
            \/ e = d /\ told'[e][j] = rows[j]
  PROVE  ToldKept'
<1> SUFFICES ASSUME NEW e \in Store, NEW j \in JobId, told'[e][j] # NoRow
             PROVE  /\ stored'[e][j] = told'[e][j] /\ draft'[e][j] = told'[e][j]
                    /\ object'[e][j] = loaded'[e][j]
  BY DEF ToldKept
<1>1. CASE e = d
  BY <1>1 DEF Closed
<1>2. CASE e # d
  BY <1>2 DEF Closed, Inv, ToldKept
<1> QED
  BY <1>1, <1>2

\* The invariant after a step that closes one session and runs no finish_job.
LEMMA CloseInv ==
  ASSUME Inv, Idle, finishing' = finishing, NEW d \in Store, NEW rows \in Rows, Close(d, rows),
         told' = told \/ told' = [told EXCEPT ![d] = NoRows],
         told' = told => \A j \in JobId : told[d][j] # NoRow => rows[j] = told[d][j],
         depth' \in [Store -> 0 .. MaxDepth],
         up' \subseteq Store, login' \subseteq Store,
         query' \in Store \cup {NoStore}, asker' \in Store \cup {NoStore},
         up' # {} => query' \in Store,
         writes' = writes, failed' \in BOOLEAN
  PROVE  Inv'
<1>1. SessionTypes' /\ Together' /\ Closed(d, rows)
  BY CloseKeeps
<1>2. told' \in [Store -> Rows]
  <2>1. NoRows \in Rows
    BY DEF NoRows, Rows
  <2> QED
    BY <2>1 DEF Inv, TypeOK
<1>3. ASSUME NEW e \in Store, NEW j \in JobId
      PROVE  \/ told'[e][j] = NoRow
             \/ e # d /\ told'[e][j] = told[e][j]
             \/ e = d /\ told'[e][j] = rows[j]
  <2>1. CASE told' = told
    BY <2>1
  <2>2. CASE told' = [told EXCEPT ![d] = NoRows]
    <3>1. told'[e] = IF e = d THEN NoRows ELSE told[e]
      BY <2>2 DEF Inv, TypeOK
    <3> QED
      BY <3>1 DEF NoRows
  <2> QED
    BY <2>1, <2>2
<1>4. ToldKept'
  BY <1>1, <1>2, <1>3, CloseTold
<1>5. finishing' = NoRow
  BY DEF Idle
<1>6. crossed' \subseteq Store
  BY <1>1 DEF Closed, Inv, TypeOK
<1> QED
  BY <1>1, <1>2, <1>4, <1>5, <1>6 DEF Inv, TypeOK, SessionTypes, QueryBound, FinishRight

\* Reading a job adds an object that is not changed, or nothing.
LEMMA ReadKeeps ==
  ASSUME Inv, NEW j \in JobId, query \in Store, Read(j)
  PROVE  /\ loaded' \in [Store -> Rows] /\ object' \in [Store -> Rows] /\ Together'
         /\ \A e \in Store, k \in JobId :
               loaded[e][k] = object[e][k] => loaded'[e][k] = object'[e][k]
         /\ \A e \in Store, k \in JobId :
               loaded[e][k] # object[e][k] => loaded'[e][k] = loaded[e][k]
                                              /\ object'[e][k] = object[e][k]
         /\ draft[query][j] # NoRow => loaded'[query][j] # NoRow
<1> USE DEF Inv, TypeOK, Rows
<1>1. loaded' \in [Store -> Rows] /\ object' \in [Store -> Rows]
  BY DEF Read
<1>2. ASSUME NEW e \in Store, NEW k \in JobId
      PROVE  /\ loaded'[e][k] = IF e = query /\ k = j /\ loaded[e][k] = NoRow
                                THEN draft[e][k] ELSE loaded[e][k]
             /\ object'[e][k] = IF e = query /\ k = j /\ object[e][k] = NoRow
                                THEN draft[e][k] ELSE object[e][k]
  BY DEF Read
<1> HIDE DEF Inv, TypeOK, Rows
<1>3. \A e \in Store, k \in JobId : loaded[e][k] = NoRow <=> object[e][k] = NoRow
  BY DEF Inv, Together
<1>4. Together'
  BY <1>2, <1>3 DEF Together
<1>5. ASSUME NEW e \in Store, NEW k \in JobId
      PROVE  /\ loaded[e][k] = object[e][k] => loaded'[e][k] = object'[e][k]
             /\ loaded[e][k] # object[e][k] => loaded'[e][k] = loaded[e][k]
                                               /\ object'[e][k] = object[e][k]
  BY <1>2, <1>3
<1> QED
  BY <1>1, <1>2, <1>4, <1>5

\* The invariant holds at first.
LEMMA InvAtFirst == Init => Inv
<1> SUFFICES ASSUME Init PROVE Inv
  OBVIOUS
<1>1. NoRows \in Rows
  BY DEF NoRows, Rows
<1>2. stored \in [Store -> Rows]
  BY RowAssumption DEF Init
<1>3. TypeOK
  <2>1. /\ draft \in [Store -> Rows] /\ loaded \in [Store -> Rows]
        /\ object \in [Store -> Rows] /\ told \in [Store -> Rows]
    BY <1>1, <1>2 DEF Init
  <2>2. locked \in [Store -> BOOLEAN] /\ depth \in [Store -> 0 .. MaxDepth]
        /\ writes \in 0 .. MaxWrites
    BY BoundAssumption DEF Init
  <2>3. /\ up \subseteq Store /\ login \subseteq Store
        /\ query \in Store \cup {NoStore} /\ asker \in Store \cup {NoStore}
        /\ finishing \in Finish \cup {NoRow}
        /\ failed \in BOOLEAN /\ crossed \subseteq Store
    BY DEF Init
  <2> QED
    BY <1>2, <2>1, <2>2, <2>3 DEF TypeOK
<1> QED
  BY <1>3 DEF Init, Inv, QueryBound, Together, FinishRight, ToldKept, NoRows

\* The constructor, with or without initialize, whether or not it raises.
LEMMA ConnectInv ==
  ASSUME Inv, NEW d \in Store, Connect(d) \/ Initialize(d)
  PROVE  Inv'
<1>0. NoRows \in Rows
  BY DEF NoRows, Rows
<1>1. CASE Connect(d)
  <2>1. Idle /\ UNCHANGED <<writes, depth, finishing, told>>
    BY <1>1 DEF Connect
  <2>2. query' = d /\ asker' \in {d, asker} /\ up' \in {up, up \cup {d}}
        /\ login' \subseteq Store /\ failed' \in BOOLEAN
    BY <1>1 DEF Connect, Bind, Inv, TypeOK
  <2>3. PICK rows : rows = stored[d]
    OBVIOUS
  <2>4. Close(d, rows) /\ rows \in Rows
    BY <1>1, <2>3 DEF Connect, Inv, TypeOK
  <2>5. \A j \in JobId : told[d][j] # NoRow => rows[j] = told[d][j]
    BY <2>3 DEF Inv, ToldKept
  <2> QED
    BY <2>1, <2>2, <2>4, <2>5, CloseInv DEF Inv, TypeOK
<1>2. CASE Initialize(d)
  <2>1. Idle /\ UNCHANGED <<writes, depth, finishing>>
        /\ told' = [told EXCEPT ![d] = NoRows] /\ Close(d, NoRows)
    BY <1>2 DEF Initialize
  <2>2. query' = d /\ asker' \in {d, asker} /\ up' \in {up, up \cup {d}}
        /\ login' \subseteq Store /\ failed' \in BOOLEAN
    BY <1>2 DEF Initialize, Bind, Inv, TypeOK
  <2>3. told' = told => \A j \in JobId : told[d][j] # NoRow => NoRows[j] = told[d][j]
    BY <2>1 DEF Inv, TypeOK, NoRows
  <2> QED
    BY <1>0, <2>1, <2>2, <2>3, CloseInv DEF Inv, TypeOK
<1> QED
  BY <1>1, <1>2

\* A scope is left, or a finish_job ends without having changed anything.
LEMMA LeaveInv ==
  ASSUME Inv, NEW d \in Store, NEW j \in JobId,
         Leave(d) \/ LeaveFailing(d) \/ FinishNothing(d, j) \/ FinishRefused(d, j)
  PROVE  Inv'
<1>1. Idle /\ UNCHANGED <<writes, up, login, query, asker, failed, finishing, told>>
  BY DEF Leave, LeaveFailing, FinishNothing, FinishRefused, globals
<1>2. depth' \in [Store -> 0 .. MaxDepth]
  BY BoundAssumption DEF Leave, LeaveFailing, FinishNothing, FinishRefused, Inv, TypeOK
<1>3. PICK rows \in {stored[d], Flush(d, object[d])} : Close(d, rows)
  BY DEF Leave, LeaveFailing, FinishNothing, FinishRefused
<1>4. rows \in Rows /\ \A k \in JobId : told[d][k] # NoRow => rows[k] = told[d][k]
  BY LeaveRows DEF Inv, TypeOK, ToldKept
<1> QED
  BY <1>1, <1>2, <1>3, <1>4, CloseInv DEF Inv, TypeOK, QueryBound

\* Steps that touch neither tables nor sessions.
LEMMA SessionInv ==
  ASSUME Inv, NEW d \in Store, Login(d) \/ Logout(d) \/ Enter(d)
  PROVE  Inv'
<1>1. UNCHANGED <<stored, writes, draft, locked, loaded, object, up, query, asker, failed,
                  finishing, crossed, told>>
  BY DEF Login, Logout, Enter, files, sessions, globals, ghosts
<1>2. finishing' = NoRow /\ login' \subseteq Store /\ depth' \in [Store -> 0 .. MaxDepth]
  BY BoundAssumption
     DEF Login, Logout, Enter, Idle, globals, Inv, TypeOK
<1> QED
  BY <1>1, <1>2 DEF Inv, TypeOK, QueryBound, Together, FinishRight, ToldKept

\* Job.get, Job.get_by_id.
LEMMA LookInv ==
  ASSUME Inv, NEW j \in JobId, Look(j)
  PROVE  Inv'
<1>1. UNCHANGED <<stored, writes, draft, locked, depth, up, login, query, asker, failed,
                  finishing, crossed, told>> /\ finishing' = NoRow
  BY DEF Look, files, globals, ghosts, Idle
<1>2. query \in Store /\ Read(j)
  BY DEF Look, Inv, TypeOK
<1>3. ToldKept'
  BY <1>1, <1>2, ReadKeeps DEF Inv, ToldKept, TypeOK
<1> QED
  BY <1>1, <1>2, <1>3, ReadKeeps DEF Inv, TypeOK, QueryBound, FinishRight

\* Job.update.
LEMMA UpdateInv ==
  ASSUME Inv, NEW j \in JobId, NEW row \in Row, Update(j, row)
  PROVE  Inv'
<1> USE DEF Inv, TypeOK, Rows
<1>1. UNCHANGED <<stored, writes, depth, up, login, query, asker, failed, finishing>>
      /\ finishing' = NoRow /\ query \in Store
  BY DEF Update, files, globals, Idle
<1>2. /\ draft' \in [Store -> Rows] /\ loaded' \in [Store -> Rows]
      /\ object' \in [Store -> Rows] /\ told' \in [Store -> Rows]
      /\ locked' \in [Store -> BOOLEAN] /\ crossed' \subseteq Store
  BY <1>1 DEF Update
<1>3. ASSUME NEW e \in Store, NEW k \in JobId
      PROVE  /\ draft'[e][k] = IF e = query /\ k = j THEN row ELSE draft[e][k]
             /\ loaded'[e][k] = IF e = query /\ k = j THEN row ELSE loaded[e][k]
             /\ object'[e][k] = IF e = query /\ k = j THEN row ELSE object[e][k]
             /\ told'[e][k] = IF e = query /\ k = j THEN NoRow ELSE told[e][k]
  BY <1>1 DEF Update
<1>4. Together'
  <2>1. row # NoRow
    BY RowAssumption
  <2>2. \A e \in Store, k \in JobId : loaded[e][k] = NoRow <=> object[e][k] = NoRow
    BY DEF Together
  <2> HIDE DEF Inv, TypeOK, Rows
  <2> QED
    BY <1>3, <2>1, <2>2 DEF Together
<1>5. ToldKept'
  BY <1>1, <1>3 DEF ToldKept
<1> QED
  BY <1>1, <1>2, <1>4, <1>5 DEF QueryBound, FinishRight

\* finish_job finds its job.
LEMMA BeginFinishInv ==
  ASSUME Inv, NEW d \in Store, NEW j \in JobId, NEW row \in Row, BeginFinish(d, j, row)
  PROVE  Inv'
<1>1. UNCHANGED <<stored, writes, draft, locked, up, login, query, asker, failed,
                  crossed, told>>
  BY DEF BeginFinish, files, globals, ghosts
<1>2. query \in Store /\ Read(j) /\ draft[query][j] # NoRow /\ d \in up
  BY DEF BeginFinish, Inv, QueryBound
<1>3. finishing' \in Finish /\ finishing'.store = d /\ finishing'.job = j
  BY DEF BeginFinish, Finish
<1>4. depth' \in [Store -> 0 .. MaxDepth] /\ depth'[d] > 0
  BY BoundAssumption DEF BeginFinish, Inv, TypeOK
<1>5. ToldKept'
  BY <1>1, <1>2, ReadKeeps DEF Inv, ToldKept, TypeOK
<1>6. loaded'[query][j] # NoRow
  BY <1>2, ReadKeeps
<1> QED
  BY <1>1, <1>2, <1>3, <1>4, <1>5, <1>6, ReadKeeps
     DEF Inv, TypeOK, QueryBound, FinishRight

\* finish_job commits, or is refused, and closes the session of its datastore.
LEMMA EndFinishInv ==
  ASSUME Inv, NEW committed \in BOOLEAN, EndFinish(committed)
  PROVE  Inv'
<1> DEFINE d == finishing.store
           j == finishing.job
<1>1. finishing \in Finish /\ finishing # NoRow
  BY DEF EndFinish, Inv, TypeOK
<1>2. d \in Store /\ j \in JobId /\ finishing.row \in Row
  BY <1>1 DEF Finish
<1>3. query \in Store /\ depth[d] > 0 /\ loaded[query][j] # NoRow
  BY <1>1, <1>2 DEF Inv, FinishRight, QueryBound
<1>4. PICK rows : rows = IF committed THEN FinishFlushed(d) ELSE stored[d]
  OBVIOUS
<1>5. rows \in Rows
  BY <1>1, <1>2, <1>4, FinishRows DEF Inv, TypeOK
<1>6. UNCHANGED <<writes, up, login, query, asker, failed>> /\ finishing' = NoRow
  BY DEF EndFinish, globals
<1>7. /\ stored' = [stored EXCEPT ![d] = rows]
      /\ draft' = [draft EXCEPT ![d] = rows]
      /\ locked' = [locked EXCEPT ![d] = FALSE]
      /\ loaded' = [loaded EXCEPT ![d] = NoRows]
      /\ object' = [object EXCEPT ![query][j] = finishing.row, ![d] = NoRows]
      /\ depth' = [depth EXCEPT ![d] = @ - 1]
      /\ crossed' \subseteq Store
      /\ told' = IF query = d /\ ~committed THEN told
                 ELSE [told EXCEPT ![query][j] = NoRow,
                                   ![d][j] = IF /\ committed /\ query = d
                                                /\ loaded[d][j] = draft[d][j]
                                             THEN finishing.row ELSE NoRow]
  BY <1>2, <1>3, <1>4 DEF EndFinish, Inv, TypeOK
<1>8. told' \in [Store -> Rows] /\ object' \in [Store -> Rows]
  BY <1>2, <1>3, <1>7 DEF Inv, TypeOK, Rows, NoRows
<1>9. /\ stored' \in [Store -> Rows] /\ draft' \in [Store -> Rows]
      /\ loaded' \in [Store -> Rows] /\ locked' \in [Store -> BOOLEAN]
  BY <1>2, <1>5, <1>7 DEF Inv, TypeOK, Rows, NoRows
<1>10. depth' \in [Store -> 0 .. MaxDepth]
  BY <1>2, <1>3, <1>7, BoundAssumption DEF Inv, TypeOK
<1>11. ASSUME NEW e \in Store
       PROVE  /\ stored'[e] = IF e = d THEN rows ELSE stored[e]
              /\ draft'[e] = IF e = d THEN rows ELSE draft[e]
              /\ loaded'[e] = IF e = d THEN NoRows ELSE loaded[e]
  BY <1>2, <1>7 DEF Inv, TypeOK
<1>12. ASSUME NEW e \in Store, NEW k \in JobId
       PROVE  object'[e][k] = IF e = d THEN NoRow
                              ELSE IF e = query /\ k = j THEN finishing.row
                              ELSE object[e][k]
  BY <1>2, <1>3, <1>7 DEF Inv, TypeOK, Rows, NoRows
<1>13. Together'
  <2> SUFFICES ASSUME NEW e \in Store, NEW k \in JobId
               PROVE  loaded'[e][k] = NoRow <=> object'[e][k] = NoRow
    BY DEF Together
  <2>1. finishing.row # NoRow
    BY <1>2, RowAssumption
  <2> QED
    BY <1>3, <1>11, <1>12, <2>1 DEF Inv, Together, NoRows
<1>14. ASSUME NEW e \in Store, NEW k \in JobId, told'[e][k] # NoRow
       PROVE  \/ e # d /\ told'[e][k] = told[e][k] /\ ~(e = query /\ k = j)
              \/ e = d /\ told'[e][k] = rows[k]
  <2>1. CASE query = d /\ ~committed
    BY <1>4, <1>7, <1>14, <2>1 DEF Inv, ToldKept
  <2>2. CASE ~(query = d /\ ~committed)
    <3>1. told'[e][k] =
            IF e = d /\ k = j
            THEN IF committed /\ query = d /\ loaded[d][j] = draft[d][j]
                 THEN finishing.row ELSE NoRow
            ELSE IF e = query /\ k = j THEN NoRow ELSE told[e][k]
      BY <1>2, <1>3, <1>7, <2>2 DEF Inv, TypeOK, Rows
    <3>2. CASE e # d
      BY <1>14, <3>1, <3>2
    <3>3. CASE e = d /\ k = j
      BY <1>1, <1>2, <1>4, <1>14, <3>1, <3>3, FinishRows
    <3>4. CASE e = d /\ k # j /\ committed
      BY <1>1, <1>2, <1>4, <1>14, <3>1, <3>4, FinishRows
    <3>5. CASE e = d /\ k # j /\ ~committed
      BY <1>2, <1>4, <1>14, <3>1, <3>5 DEF Inv, ToldKept
    <3> QED
      BY <3>2, <3>3, <3>4, <3>5
  <2> QED
    BY <2>1, <2>2
<1> HIDE DEF d, j
<1>15. ToldKept'
  <2> SUFFICES ASSUME NEW e \in Store, NEW k \in JobId, told'[e][k] # NoRow
               PROVE  /\ stored'[e][k] = told'[e][k] /\ draft'[e][k] = told'[e][k]
                      /\ object'[e][k] = loaded'[e][k]
    BY DEF ToldKept
  <2>1. CASE e = d
    BY <1>11, <1>12, <1>14, <2>1 DEF NoRows
  <2>2. CASE e # d
    BY <1>11, <1>12, <1>14, <2>2 DEF Inv, ToldKept
  <2> QED
    BY <2>1, <2>2
<1>16. TypeOK'
  BY <1>6, <1>7, <1>8, <1>9, <1>10 DEF Inv, TypeOK
<1> QED
  BY <1>6, <1>13, <1>15, <1>16 DEF Inv, QueryBound, FinishRight

\* Another process writes the row.
LEMMA OtherWritesInv ==
  ASSUME Inv, NEW d \in Store, NEW j \in JobId, NEW row \in Row, OtherWrites(d, j, row)
  PROVE  Inv'
<1> USE DEF Inv, TypeOK, Rows
<1>1. UNCHANGED <<locked, loaded, object, depth, up, login, query, asker, failed, finishing,
                  crossed>>
  BY DEF OtherWrites, globals
<1>2. /\ stored' \in [Store -> Rows] /\ draft' \in [Store -> Rows]
      /\ told' \in [Store -> Rows] /\ writes' \in 0 .. MaxWrites
  BY BoundAssumption DEF OtherWrites
<1>3. ASSUME NEW e \in Store, NEW k \in JobId
      PROVE  /\ stored'[e][k] = IF e = d /\ k = j THEN row ELSE stored[e][k]
             /\ draft'[e][k] = IF e = d /\ k = j THEN row ELSE draft[e][k]
             /\ told'[e][k] = IF e = d /\ k = j THEN NoRow ELSE told[e][k]
  BY DEF OtherWrites
<1>4. ToldKept'
  BY <1>1, <1>3 DEF ToldKept
<1> QED
  BY <1>1, <1>2, <1>4 DEF QueryBound, FinishRight, Together

\* Every step keeps the invariant.
LEMMA InvStays == Inv /\ [Next]_vars => Inv'
<1> SUFFICES ASSUME Inv, [Next]_vars PROVE Inv'
  OBVIOUS
<1>1. CASE UNCHANGED vars
  BY <1>1 DEF vars, files, sessions, globals, ghosts, Inv, TypeOK, QueryBound, Together,
     FinishRight, ToldKept
<1>2. ASSUME NEW d \in Store, Leave(d) \/ LeaveFailing(d) PROVE Inv'
  <2>1. CASE JobId = {}
    <3>1. UNCHANGED <<writes, up, login, query, asker, failed, finishing, told>>
          /\ Idle
      BY <1>2 DEF Leave, LeaveFailing, globals
    <3>2. PICK rows \in {stored[d], Flush(d, object[d])} : Close(d, rows)
      BY <1>2 DEF Leave, LeaveFailing
    <3>3. rows \in Rows
      BY LeaveRows DEF Inv, TypeOK
    <3>4. depth' \in [Store -> 0 .. MaxDepth]
      BY <1>2, BoundAssumption DEF Leave, LeaveFailing, Inv, TypeOK
    <3> QED
      BY <2>1, <3>1, <3>2, <3>3, <3>4, CloseInv DEF Inv, TypeOK, QueryBound
  <2>2. CASE JobId # {}
    BY <1>2, <2>2, LeaveInv
  <2> QED
    BY <2>1, <2>2
<1> QED
  BY <1>1, <1>2, ConnectInv, SessionInv, LeaveInv, LookInv, UpdateInv, BeginFinishInv,
     EndFinishInv, OtherWritesInv DEF Next

\* The invariant, of every behaviour.
LEMMA Invariance == Spec => []Inv
BY InvAtFirst, InvStays, PTL DEF Spec

-----------------------------------------------------------------------------
(* The theorems                                                            *)

\* Every variable keeps its type.
THEOREM TypeCorrect == Spec => []TypeOK
BY Invariance, PTL DEF Inv

\* What finish_job returned True for is in the file of the datastore it was called on.
THEOREM FinishedAreStored == Spec => []FinishedIsStored
<1>1. Inv => FinishedIsStored
  BY DEF Inv, ToldKept, FinishedIsStored
<1> QED
  BY <1>1, Invariance, PTL

\* Queries go where nobody has a datastore only after a constructor has raised, and to one
\* that is up only when the user is asked for there, too.
THEOREM GlobalsGoTogether == Spec => []GlobalsAgree
<1>1. Init => GlobalsAgree
  BY DEF Init, GlobalsAgree
<1>2. TypeOK /\ GlobalsAgree /\ [Next]_vars => GlobalsAgree'
  <2> SUFFICES ASSUME TypeOK, GlobalsAgree, [Next]_vars PROVE GlobalsAgree'
    OBVIOUS
  <2>1. ASSUME NEW d \in Store, Connect(d) \/ Initialize(d) PROVE GlobalsAgree'
    BY <2>1, StoreAssumption DEF Connect, Initialize, Bind, GlobalsAgree, TypeOK
  <2>2. ASSUME UNCHANGED <<up, query, asker, failed>> PROVE GlobalsAgree'
    BY <2>2 DEF GlobalsAgree
  <2> QED
    BY <2>1, <2>2 DEF Next, vars, globals, Login, Logout, Enter, Leave, LeaveFailing,
       FinishNothing, FinishRefused, BeginFinish, EndFinish, Look, Update, OtherWrites
<1> QED
  BY <1>1, <1>2, TypeCorrect, PTL DEF Spec

\* A session that is closed has nothing to write.
LEMMA CloseCleans ==
  ASSUME Inv, NEW d \in Store, NEW rows \in Rows, Close(d, rows),
         NothingLeftPending,
         \A e \in Store : e # d => depth'[e] = depth[e]
  PROVE  NothingLeftPending'
<1>1. Closed(d, rows)
  BY CloseKeeps
<1> SUFFICES ASSUME NEW e \in Store, e \notin crossed', depth'[e] = 0
             PROVE  /\ ~locked'[e]
                    /\ \A j \in JobId : object'[e][j] = loaded'[e][j]
  BY DEF NothingLeftPending, Dirty
<1>2. CASE e = d
  BY <1>1, <1>2 DEF Closed
<1>3. CASE e # d
  <2>1. ~locked[e] /\ \A j \in JobId : object[e][j] = loaded[e][j]
    BY <1>1, <1>3 DEF NothingLeftPending, Dirty, Closed
  <2>2. locked'[e] = locked[e] /\ object'[e] = object[e] /\ loaded'[e] = loaded[e]
    BY <1>1, <1>3 DEF Closed
  <2> QED
    BY <2>1, <2>2
<1> QED
  BY <1>2, <1>3

\* Reading makes nothing pending.
LEMMA ReadCleans ==
  ASSUME Inv, NEW j \in JobId, query \in Store, Read(j), NothingLeftPending,
         UNCHANGED <<locked, crossed>>,
         \A e \in Store : depth'[e] = depth[e] \/ depth'[e] > 0
  PROVE  NothingLeftPending'
<1>1. \A e \in Store : Dirty(e)' => Dirty(e)
  BY ReadKeeps DEF Dirty
<1> QED
  BY <1>1 DEF NothingLeftPending

\* Outside of its scopes a session has nothing pending but what was changed there since
\* the last of them, through another datastore or none.
THEOREM NothingPends == Spec => []NothingLeftPending
<1>1. Init => NothingLeftPending
  BY DEF Init, NothingLeftPending, Dirty, NoRows
<1>2. Inv /\ NothingLeftPending /\ [Next]_vars => NothingLeftPending'
  <2> SUFFICES ASSUME Inv, NothingLeftPending, [Next]_vars PROVE NothingLeftPending'
    OBVIOUS
  <2>0. NoRows \in Rows
    BY DEF NoRows, Rows
  <2>1. ASSUME NEW d \in Store, Connect(d) \/ Initialize(d) PROVE NothingLeftPending'
    <3>1. PICK rows \in {stored[d], NoRows} : Close(d, rows)
      BY <2>1 DEF Connect, Initialize
    <3>2. depth' = depth
      BY <2>1 DEF Connect, Initialize
    <3>3. rows \in Rows
      BY <2>0, <3>1 DEF Inv, TypeOK
    <3> QED
      BY <3>1, <3>2, <3>3, CloseCleans
  <2>2. ASSUME NEW d \in Store,
               \/ Leave(d) \/ LeaveFailing(d)
               \/ \E j \in JobId : FinishNothing(d, j) \/ FinishRefused(d, j)
        PROVE  NothingLeftPending'
    <3>1. PICK rows \in {stored[d], Flush(d, object[d])} : Close(d, rows)
      BY <2>2 DEF Leave, LeaveFailing, FinishNothing, FinishRefused
    <3>2. rows \in Rows
      BY LeaveRows DEF Inv, TypeOK
    <3>3. \A e \in Store : e # d => depth'[e] = depth[e]
      BY <2>2 DEF Leave, LeaveFailing, FinishNothing, FinishRefused, Inv, TypeOK
    <3> QED
      BY <3>1, <3>2, <3>3, CloseCleans
  <2>3. ASSUME NEW j \in JobId, Look(j) PROVE NothingLeftPending'
    BY <2>3, ReadCleans DEF Look, ghosts, Inv, TypeOK
  <2>4. ASSUME NEW d \in Store, NEW j \in JobId, NEW row \in Row, BeginFinish(d, j, row)
        PROVE  NothingLeftPending'
    <3>1. \A e \in Store : depth'[e] = depth[e] \/ depth'[e] > 0
      BY <2>4 DEF BeginFinish, Inv, TypeOK
    <3>2. query \in Store /\ Read(j) /\ UNCHANGED <<locked, crossed>>
      BY <2>4 DEF BeginFinish, ghosts, Inv, QueryBound
    <3> QED
      BY <3>1, <3>2, ReadCleans
  <2>5. ASSUME NEW j \in JobId, NEW row \in Row, Update(j, row) PROVE NothingLeftPending'
    <3>1. /\ depth' = depth /\ crossed \subseteq crossed'
          /\ depth[query] = 0 => query \in crossed'
      BY <2>5 DEF Update
    <3>2. ASSUME NEW e \in Store, e # query
          PROVE  locked'[e] = locked[e] /\ loaded'[e] = loaded[e] /\ object'[e] = object[e]
      BY <2>5, <3>2 DEF Update, Inv, TypeOK
    <3> QED
      BY <3>1, <3>2 DEF NothingLeftPending, Dirty
  <2>6. ASSUME NEW committed \in BOOLEAN, EndFinish(committed) PROVE NothingLeftPending'
    <3> DEFINE d == finishing.store
    <3>1. d \in Store /\ finishing.job \in JobId
      BY <2>6 DEF EndFinish, Inv, TypeOK, Finish
    <3>2. query \in Store
      BY <2>6 DEF EndFinish, Inv, FinishRight, QueryBound
    <3>3. ASSUME NEW e \in Store
          PROVE  /\ locked'[e] = IF e = d THEN FALSE ELSE locked[e]
                 /\ loaded'[e] = IF e = d THEN NoRows ELSE loaded[e]
                 /\ e = d => object'[e] = NoRows
                 /\ e \notin {d, query} => object'[e] = object[e]
                 /\ e # d => depth'[e] = depth[e]
      BY <2>6, <3>1, <3>2 DEF EndFinish, Inv, TypeOK, Rows
    <3>4. crossed' = (crossed \ {d}) \cup {e \in {query} \ {d} : depth[e] = 0}
      BY <2>6 DEF EndFinish
    <3> SUFFICES ASSUME NEW e \in Store, e \notin crossed', depth'[e] = 0
                 PROVE  /\ ~locked'[e]
                        /\ \A k \in JobId : object'[e][k] = loaded'[e][k]
      BY DEF NothingLeftPending, Dirty
    <3>5. CASE e = d
      BY <3>3, <3>5
    <3>6. CASE e # d
      <4>1. depth[e] = 0 /\ e # query /\ e \notin crossed
        BY <3>3, <3>4, <3>6
      <4>2. ~locked[e] /\ \A k \in JobId : object[e][k] = loaded[e][k]
        BY <4>1 DEF NothingLeftPending, Dirty
      <4> QED
        BY <3>3, <3>6, <4>1, <4>2
    <3> QED
      BY <3>5, <3>6
  <2>7. ASSUME NEW d \in Store, Enter(d) PROVE NothingLeftPending'
    BY <2>7 DEF Enter, sessions, ghosts, NothingLeftPending, Dirty, Inv, TypeOK
  <2>8. ASSUME UNCHANGED <<locked, loaded, object, depth, crossed>> PROVE NothingLeftPending'
    BY <2>8 DEF NothingLeftPending, Dirty
  <2> QED
    BY <2>1, <2>2, <2>3, <2>4, <2>5, <2>6, <2>7, <2>8
       DEF Next, vars, sessions, ghosts, Login, Logout, OtherWrites
<1> QED
  BY <1>1, <1>2, Invariance, PTL DEF Spec

=============================================================================
