----------------------------- MODULE Connections -----------------------------
(***************************************************************************)
(* The datastores one process has connected to (seamm_datastore/connect.py)*)
(* and what it does to the jobs in them through finish_job and Job.update. *)
(*                                                                         *)
(* Every datastore has a file and one session per thread, which all        *)
(* session_scopes of the thread share.  But the models are classes of the  *)
(* process: Base.query leads to the session of the datastore constructed   *)
(* last, whichever datastore a call is made on, and flask_authorize asks   *)
(* the one constructed last who the current user is.  Other processes      *)
(* write to the same files at any time the session holds no lock.          *)
(***************************************************************************)
EXTENDS Naturals

CONSTANTS Store,      \* the datastores the process connects to
          NoStore,    \* none yet
          Accounts,   \* those in which the user has an account
          JobId, Status, Time,
          NoRow,      \* no such job, or none in the session
          Files,      \* the contents the files may have at first
          MaxDepth,   \* bound: how deep session_scopes are nested
          MaxWrites   \* bound: how often another process writes

Row == [status : Status, finished : Time]
Rows == [JobId -> Row \cup {NoRow}]

ASSUME StoreAssumption ==
    /\ NoStore \notin Store
    /\ Accounts \subseteq Store
ASSUME RowAssumption == NoRow \notin Row /\ Files \subseteq Rows
ASSUME BoundAssumption == MaxDepth \in Nat /\ MaxWrites \in Nat

VARIABLES stored,     \* the committed jobs of each datastore
          draft,      \* those its session sees: stored, and its own transaction
          locked,     \* its session has a transaction open that has written
          loaded,     \* the jobs in its session as they were read
          object,     \* ... and with the attributes set since
          depth,      \* how many of its scopes are open
          up,         \* the datastores whose constructor returned
          login,      \* those on which the user is logged in
          query,      \* the datastore Base.query belongs to
          asker,      \* the one flask_authorize asks for the current user
          finishing,  \* the finish_job that has found its job, or NoRow
          writes,     \* how often another process wrote
          failed,     \* a constructor has raised
          crossed,    \* the datastores whose session was changed outside their scopes
          told        \* what finish_job reported True for, until it is overwritten

files == <<stored, writes>>
sessions == <<draft, locked, loaded, object>>
globals == <<up, login, query, asker, failed>>
ghosts == <<crossed, told>>
vars == <<files, sessions, depth, globals, finishing, ghosts>>

NoRows == [j \in JobId |-> NoRow]

Finish == [store : Store, job : JobId, row : Row]

TypeOK ==
    /\ stored \in [Store -> Rows] /\ draft \in [Store -> Rows]
    /\ loaded \in [Store -> Rows] /\ object \in [Store -> Rows]
    /\ told \in [Store -> Rows]
    /\ locked \in [Store -> BOOLEAN]
    /\ depth \in [Store -> 0 .. MaxDepth]
    /\ up \subseteq Store /\ login \subseteq Store
    /\ query \in Store \cup {NoStore} /\ asker \in Store \cup {NoStore}
    /\ finishing \in Finish \cup {NoRow}
    /\ writes \in 0 .. MaxWrites
    /\ failed \in BOOLEAN /\ crossed \subseteq Store

Init ==
    /\ stored \in [Store -> Files]
    /\ draft = stored
    /\ loaded = [d \in Store |-> NoRows]
    /\ object = [d \in Store |-> NoRows]
    /\ told = [d \in Store |-> NoRows]
    /\ locked = [d \in Store |-> FALSE]
    /\ depth = [d \in Store |-> 0]
    /\ up = {} /\ login = {}
    /\ query = NoStore /\ asker = NoStore
    /\ finishing = NoRow /\ writes = 0
    /\ failed = FALSE /\ crossed = {}

\* The session starts anew, or close(): it forgets its objects, and its transaction is over.
Close(d, rows) ==
    /\ stored' = [stored EXCEPT ![d] = rows]
    /\ draft' = [draft EXCEPT ![d] = rows]
    /\ locked' = [locked EXCEPT ![d] = FALSE]
    /\ loaded' = [loaded EXCEPT ![d] = NoRows]
    /\ object' = [object EXCEPT ![d] = NoRows]
    /\ crossed' = crossed \ {d}

\* No call of the process is under way.
Idle == finishing = NoRow

-----------------------------------------------------------------------------
(* SEAMMDatastore.__init__, login and logout                               *)

\* Variant the runs refute: the query property is set up once for all models.
BindOnce(d, raised, asked) ==
    /\ query' = IF query = NoStore THEN d ELSE query
    /\ asker' = IF asked THEN d ELSE asker
    /\ up' = IF raised THEN up ELSE up \cup {d}
    /\ failed' = (failed \/ raised)

\* Base.query is rebound in any case, CURRENT_USER only when login has not raised.
Bind(d, raised, asked) ==
    /\ query' = d
    /\ asker' = IF asked THEN d ELSE asker
    /\ up' = IF raised THEN up ELSE up \cup {d}
    /\ failed' = (failed \/ raised)

\* With a username and an account for it: login() verifies the password, or raises.
\* The constructor ends with a check that default_project is there, which may raise.
Connect(d) ==
    /\ Idle /\ d \notin up
    /\ \/ /\ \E raised \in BOOLEAN : Bind(d, raised, TRUE)    \* no username
          /\ login' = login \ {d}
       \/ /\ d \in Accounts
          /\ \E raised \in BOOLEAN : Bind(d, raised, TRUE)
          /\ login' = login \cup {d}
       \/ /\ Bind(d, TRUE, FALSE)                           \* login() raises
          /\ login' = login
    /\ Close(d, stored[d])
    /\ UNCHANGED <<writes, depth, finishing, told>>

\* initialize: the tables are dropped and made anew, with the default project.  A
\* username then raises AttributeError, as there is no add_user().
Initialize(d) ==
    /\ Idle /\ d \notin up
    /\ \/ Bind(d, FALSE, TRUE) /\ login' = login \ {d}
       \/ Bind(d, TRUE, FALSE) /\ login' = login
    /\ Close(d, NoRows)
    /\ told' = [told EXCEPT ![d] = NoRows]
    /\ UNCHANGED <<writes, depth, finishing>>

\* The account is looked up where queries go; NoResultFound changes nothing.
Login(d) ==
    /\ Idle /\ d \in up /\ query \in Accounts
    /\ login' = login \cup {d}
    /\ UNCHANGED <<files, sessions, depth, up, query, asker, failed, finishing, ghosts>>

Logout(d) ==
    /\ Idle /\ d \in up
    /\ login' = login \ {d}
    /\ UNCHANGED <<files, sessions, depth, up, query, asker, failed, finishing, ghosts>>

\* CURRENT_USER() is somebody: the name that is logged in on the datastore that is
\* asked has an account where queries go.  An account may update all jobs here.
Authorized == asker \in login /\ query \in Accounts

-----------------------------------------------------------------------------
(* session_scope                                                           *)

\* The flush writes an attribute that differs from what was read, and only that.
Column(read, set, there) == IF set # read THEN set ELSE there

Flush(d, set) ==
    [j \in JobId |->
        IF loaded[d][j] = NoRow \/ draft[d][j] = NoRow THEN draft[d][j]
        ELSE [status |-> Column(loaded[d][j].status, set[j].status, draft[d][j].status),
              finished |-> Column(loaded[d][j].finished, set[j].finished,
                                  draft[d][j].finished)]]

Enter(d) ==
    /\ Idle /\ d \in up /\ depth[d] < MaxDepth
    /\ depth' = [depth EXCEPT ![d] = @ + 1]
    /\ UNCHANGED <<files, sessions, globals, finishing, ghosts>>

Leave(d) ==
    /\ Idle /\ depth[d] > 0
    /\ Close(d, Flush(d, object[d]))
    /\ depth' = [depth EXCEPT ![d] = @ - 1]
    /\ UNCHANGED <<writes, globals, finishing, told>>

\* Variant the runs refute: an exception leaves the scope, and nothing is undone.
LeaveOpen(d) ==
    /\ Idle /\ depth[d] > 0
    /\ depth' = [depth EXCEPT ![d] = @ - 1]
    /\ UNCHANGED <<files, sessions, globals, finishing, ghosts>>

\* An exception leaves the scope, or the commit is refused to the end.
LeaveFailing(d) ==
    /\ Idle /\ depth[d] > 0
    /\ Close(d, stored[d])
    /\ depth' = [depth EXCEPT ![d] = @ - 1]
    /\ UNCHANGED <<writes, globals, finishing, told>>

-----------------------------------------------------------------------------
(* Reading and changing jobs                                               *)

\* An object that is in the session already is not read again.
Read(j) ==
    /\ loaded' = [loaded EXCEPT ![query][j] = IF @ = NoRow THEN draft[query][j] ELSE @]
    /\ object' = [object EXCEPT ![query][j] = IF @ = NoRow THEN draft[query][j] ELSE @]

\* Job.get_by_id, Job.get: the session keeps what was read.
Look(j) ==
    /\ Idle /\ query # NoStore /\ Authorized
    /\ Read(j)
    /\ UNCHANGED <<files, draft, locked, depth, globals, finishing, ghosts>>

\* Job.update with a status and a time: the row is written at once, by an UPDATE whose
\* transaction stays open; objects in the session follow.  Without permission or
\* without the job it raises ValueError.
Update(j, row) ==
    /\ Idle /\ query # NoStore /\ Authorized
    /\ draft[query][j] # NoRow
    /\ draft' = [draft EXCEPT ![query][j] = row]
    /\ loaded' = [loaded EXCEPT ![query][j] = row]
    /\ object' = [object EXCEPT ![query][j] = row]
    /\ locked' = [locked EXCEPT ![query] = TRUE]
    /\ told' = [told EXCEPT ![query][j] = NoRow]
    /\ crossed' = crossed \cup {d \in {query} : depth[d] = 0}
    /\ UNCHANGED <<files, depth, globals, finishing>>

\* Variant the runs refute: the scope is not counted.
BeginFinishUncounted(d, j, row) ==
    /\ Idle /\ d \in up /\ depth[d] < MaxDepth
    /\ draft[query][j] # NoRow /\ Authorized
    /\ Read(j)
    /\ finishing' = [store |-> d, job |-> j, row |-> row]
    /\ UNCHANGED <<files, draft, locked, depth, globals, ghosts>>

\* finish_job: its own scope on d, and the job looked up by Base.query.
BeginFinish(d, j, row) ==
    /\ Idle /\ d \in up /\ depth[d] < MaxDepth
    /\ draft[query][j] # NoRow /\ Authorized
    /\ Read(j)
    /\ finishing' = [store |-> d, job |-> j, row |-> row]
    /\ depth' = [depth EXCEPT ![d] = @ + 1]
    /\ UNCHANGED <<files, draft, locked, globals, ghosts>>

\* It returns False when there is no such job, which ends the scope normally ...
FinishNothing(d, j) ==
    /\ Idle /\ d \in up /\ depth[d] < MaxDepth
    /\ draft[query][j] = NoRow
    /\ Close(d, Flush(d, object[d]))
    /\ UNCHANGED <<writes, depth, globals, finishing, told>>

\* ... and raises NotAuthorizedError if there is one the user may not update.
FinishRefused(d, j) ==
    /\ Idle /\ d \in up /\ depth[d] < MaxDepth
    /\ draft[query][j] # NoRow /\ ~Authorized
    /\ Close(d, stored[d])
    /\ UNCHANGED <<writes, depth, globals, finishing, told>>

\* The objects of d's session once the attributes of the job are set.
SetObjects(d) ==
    IF query = d THEN [object[d] EXCEPT ![finishing.job] = finishing.row] ELSE object[d]

\* Variant the runs refute: the session is closed without a commit.
NothingFlushed(d) == stored[d]

FinishFlushed(d) == Flush(d, SetObjects(d))

\* The attributes are set, the session of d is committed and closed, and True is returned;
\* or the commit is refused, and the exception leaves the scope.  In either case the
\* session of another datastore keeps the object, with the attributes set.
EndFinish(committed) ==
    /\ finishing # NoRow
    /\ LET d == finishing.store
           j == finishing.job
           rows == IF committed THEN FinishFlushed(d) ELSE stored[d]
           kept == query = d /\ loaded[d][j] = draft[d][j]
       IN  /\ stored' = [stored EXCEPT ![d] = rows]
           /\ draft' = [draft EXCEPT ![d] = rows]
           /\ locked' = [locked EXCEPT ![d] = FALSE]
           /\ loaded' = [loaded EXCEPT ![d] = NoRows]
           /\ object' = [object EXCEPT ![query][j] = finishing.row, ![d] = NoRows]
           /\ depth' = [depth EXCEPT ![d] = @ - 1]
           /\ crossed' = (crossed \ {d}) \cup {e \in {query} \ {d} : depth[e] = 0}
           /\ told' = IF query = d /\ ~committed THEN told
                      ELSE [told EXCEPT ![query][j] = NoRow,
                                        ![d][j] = IF committed /\ kept THEN finishing.row
                                                  ELSE NoRow]
    /\ finishing' = NoRow
    /\ UNCHANGED <<writes, globals>>

\* Another process finishes or updates the job, also while finish_job runs.
OtherWrites(d, j, row) ==
    /\ writes < MaxWrites /\ ~locked[d]
    /\ stored[d][j] # NoRow
    /\ writes' = writes + 1
    /\ stored' = [stored EXCEPT ![d][j] = row]
    /\ draft' = [draft EXCEPT ![d][j] = row]
    /\ told' = [told EXCEPT ![d][j] = NoRow]
    /\ UNCHANGED <<locked, loaded, object, depth, globals, finishing, crossed>>

Next ==
    \/ \E d \in Store :
          \/ Connect(d) \/ Initialize(d) \/ Login(d) \/ Logout(d)
          \/ Enter(d) \/ Leave(d) \/ LeaveFailing(d)
    \/ \E d \in Store, j \in JobId : FinishNothing(d, j) \/ FinishRefused(d, j)
    \/ \E d \in Store, j \in JobId, row \in Row : BeginFinish(d, j, row)
    \/ \E committed \in BOOLEAN : EndFinish(committed)
    \/ \E j \in JobId : Look(j)
    \/ \E j \in JobId, row \in Row : Update(j, row)
    \/ \E d \in Store, j \in JobId, row \in Row : OtherWrites(d, j, row)

Spec == Init /\ [][Next]_vars

-----------------------------------------------------------------------------
(* Properties                                                              *)

\* Queries go to a datastore nobody has only after a constructor has raised; and once they
\* go to one that is up, by a later constructor, the user is asked for there, too: what a
\* constructor that raised has bound, of another datastore than its own perhaps, does not
\* outlive the next one that returns (connect.py:187, 201, 205, 210).
GlobalsAgree ==
    /\ ~failed => query \in up \cup {NoStore}
    /\ query \in up \cup {NoStore} => asker = query

Dirty(d) == \E j \in JobId : object[d][j] # loaded[d][j]

\* Outside of its scopes a session has no change pending and no lock on its file,
\* whatever calls returned False or raised within them.  A job changed through another
\* datastore, or outside any scope, is pending in the session queries go to and in no
\* other, and only until a scope of that session ends: if one is open the change needs
\* no exception at all (connect.py:55-63, 187, 328-339).
NothingLeftPending ==
    \A d \in Store : depth[d] = 0 => d \in crossed \/ (~locked[d] /\ ~Dirty(d))

\* What finish_job returned True for is in the file of the datastore it was called on,
\* and no scope around it that fails takes it back.  It is so only if queries go to that
\* datastore, and the session's idea of the row was not stale (connect.py:320, 331-339).
FinishedIsStored ==
    \A d \in Store, j \in JobId :
        told[d][j] # NoRow => stored[d][j] = told[d][j]

=============================================================================
