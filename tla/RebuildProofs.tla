----------------------------- MODULE RebuildProofs -----------------------------
(***************************************************************************)
(* Proofs about Rebuild: types, what is kept of the old datastore, whose   *)
(* the rows are, what is imported, and that no job is lost.                *)
(***************************************************************************)
EXTENDS Rebuild, TLAPS

-----------------------------------------------------------------------------
(* The invariant                                                           *)

\* The tables are as empty as they can be before they are made.
Empty ==
    /\ ~file => db = Nothing /\ waiting = {}
    /\ pc \in Running => file /\ db.specials = {}
    /\ pc = "initialize" => db = Nothing /\ waiting = {}

\* The stages after the accounts are the final ones.
Settled == pc \in {"choose", "import", "restore"}

\* What a call has kept by the time it is at a stage.
Kept ==
    /\ pc \in {"accounts", "restore"} => call.keep
    /\ Settled /\ call.keep => db.users = old.users /\ db.groups = old.groups

\* What there may be before the import: the default project, and early jobs.
Early ==
    /\ pc \in {"accounts", "choose"} => \A p \in db.projects : p.name = Default
    /\ pc = "accounts" => \A j \in db.jobs \cup waiting : j.early

\* Whose the rows are before the details are restored.
Owned ==
    Settled =>
        /\ \A p \in db.projects : OwnedByMaker(p) \/ p.name = Default
        /\ \A j \in db.jobs : OwnedByMaker(j) \/ j.early

\* And whose those will be that are about to be entered, also after the call.
Pending ==
    Settled \/ pc = "returned" => \A w \in waiting : OwnedByMaker(w) \/ w.early

\* The projects made for the import belong to the one it is done for.
MadeForImporter ==
    pc = "import" =>
        \A p \in db.projects : p.name = Default \/ \A u \in Importer : p.owner = u.id

\* The job has been imported, or need not be.
Dealt(j) ==
    \/ \E k \in db.jobs : k.id = j.id
    \/ j.holds # "job" \/ j.lists = {} \/ j \in missed \/ Importer = {}
    \/ Default \in j.lists /\ \A u \in Importer : ~u.admin

\* The directories that are done.
Done == pc \in {"import", "restore"} =>
    /\ \A j \in disk.jobs : j \in todo.jobs \/ Dealt(j)
    /\ pc = "restore" => todo.jobs = {}

Inv ==
    /\ TypeOK /\ Empty /\ Kept /\ Early /\ Owned /\ Pending /\ MadeForImporter /\ Done
    /\ KeptAsOld /\ OwnersAreTheirs /\ ImportedForUser

-----------------------------------------------------------------------------
(* Facts about rows                                                        *)

\* What a well-formed datastore consists of.
LEMMA Parts ==
  ASSUME NEW b \in Datastore
  PROVE  /\ b.users \subseteq UserRow /\ b.groups \subseteq GroupRow
         /\ b.projects \subseteq ProjectRow /\ b.jobs \subseteq JobRow
         /\ b.specials \subseteq SpecialRow
BY DEF Datastore

\* The datastore that _build_initial makes.
LEMMA InitialRight ==
  /\ Initial \in Datastore /\ WellFormed(Initial)
  /\ Initial.jobs = {} /\ Initial.specials = {}
  /\ \A p \in Initial.projects : p.name = Default
<1> USE NameAssumption DEF Initial
<1>1. Initial.users \subseteq UserRow /\ Initial.groups \subseteq GroupRow
  BY DEF UserRow, GroupRow
<1>2. Initial.projects \subseteq ProjectRow
  BY DEF ProjectRow
<1>3. Initial.jobs \subseteq JobRow /\ Initial.specials \subseteq SpecialRow
  OBVIOUS
<1>4. Initial \in Datastore
  BY <1>1, <1>2, <1>3 DEF Datastore
<1>5. \A u, v \in Initial.users : u.id = v.id \/ u.name = v.name => u = v
  <2> DEFINE a == [id |-> 1, name |-> Admin, admin |-> TRUE, groups |-> {1, 2}]
             b == [id |-> 2, name |-> Me, admin |-> TRUE, groups |-> {2}]
  <2>1. Initial.users = {a, b}
    OBVIOUS
  <2>2. a.id # b.id /\ a.name # b.name
    OBVIOUS
  <2> HIDE DEF a, b
  <2> QED
    BY <2>1, <2>2
<1>6. \A g, h \in Initial.groups : g.id = h.id \/ g.name = h.name => g = h
  OBVIOUS
<1>7. \A p, q \in Initial.projects : p.name = q.name => p = q
  OBVIOUS
<1>8. WellFormed(Initial)
  BY <1>5, <1>6, <1>7 DEF WellFormed
<1> QED
  BY <1>4, <1>8

\* There is at most one account to import for.
LEMMA OneImporter ==
  ASSUME TypeOK, NEW u \in Importer, NEW v \in Importer
  PROVE  u = v /\ u \in db.users
BY DEF TypeOK, WellFormed, Importer

\* The row of a project that is created for u, in a group that is known.
LEMMA NewProjectRight ==
  ASSUME TypeOK, NEW n \in ProjectName, NEW u \in db.users, NEW d, ~GroupUnknown(d)
  PROVE  /\ NewProject(n, u, d) \in ProjectRow
         /\ NewProject(n, u, d).name = n /\ NewProject(n, u, d).owner = u.id
         /\ NewProject(n, u, d).by = u.name
<1>1. \E g \in db.groups : g.name = d.group
  BY DEF GroupUnknown
<1>2. (CHOOSE g \in db.groups : g.name = d.group) \in db.groups
  BY <1>1
<1>3. db.users \subseteq UserRow /\ db.groups \subseteq GroupRow
  BY Parts DEF TypeOK
<1>4. (CHOOSE g \in db.groups : g.name = d.group).id \in Nat
  BY <1>2, <1>3 DEF GroupRow
<1>5. u.id \in Nat /\ u.name \in Account
  BY <1>3 DEF UserRow
<1> QED
  BY <1>4, <1>5, NameAssumption DEF NewProject, ProjectRow

\* The row of a job that is created for u.
LEMMA NewJobRight ==
  ASSUME TypeOK, NEW j \in disk.jobs, NEW u \in db.users
  PROVE  /\ j.id \in JobId /\ j.lists \subseteq ProjectName /\ j.dir \in Directory
         /\ j.dir \in disk.dirs
         /\ NewJob(j, u) \in JobRow /\ NewJob(j, u).id = j.id
         /\ NewJob(j, u).owner = u.id /\ NewJob(j, u).by = u.name
         /\ pc = "accounts" => NewJob(j, u).early
<1>1. disk \in Disk /\ j \in JobDirectory
  BY DiskAssumption DEF TypeOK, Disk
<1>2. u \in UserRow
  BY Parts DEF TypeOK
<1> QED
  BY <1>1, <1>2, NameAssumption, DiskAssumption
     DEF TypeOK, JobDirectory, NewJob, JobRow, UserRow

-----------------------------------------------------------------------------
(* Steps                                                                   *)

\* The invariant holds at first.
LEMMA InvAtFirst == Init => Inv
<1> SUFFICES ASSUME Init PROVE Inv
  OBVIOUS
<1>1. Nothing \in Datastore /\ WellFormed(Nothing)
  BY DEF Nothing, Datastore, WellFormed
<1>2. TypeOK
  <2>1. todo \in [dirs : SUBSET disk.dirs, jobs : SUBSET disk.jobs]
    BY DEF Init, NoDirectories
  <2>2. call \in Call /\ user \in Account /\ calls \in 0 .. MaxCalls
    BY NameAssumption, BoundAssumption DEF Init, Call
  <2> QED
    BY <1>1, <2>1, <2>2 DEF Init, TypeOK
<1> QED
  BY <1>2 DEF Init, Inv, Empty, Kept, Early, Owned, Pending, Settled, MadeForImporter, Done, Running,
     KeptAsOld, OwnersAreTheirs, ImportedForUser, Returned

\* A call ends without having returned, or begins with a file that is there.
LEMMA RaisedInv ==
  ASSUME Inv, TypeOK', pc' = "raised", ~file' => db' = Nothing /\ waiting' = {}
  PROVE  Inv'
BY DEF Inv, Empty, Kept, Early, Owned, Pending, Settled, MadeForImporter, Done, Running,
   KeptAsOld, OwnersAreTheirs, ImportedForUser, Returned

\* A call begins.
LEMMA BeginInv == ASSUME Inv, Begin PROVE Inv'
<1>1. TypeOK'
  <2>1. calls' \in 0 .. MaxCalls /\ call' \in Call
    BY BoundAssumption DEF Begin, Inv, TypeOK
  <2> QED
    BY <2>1 DEF Begin, Inv, TypeOK, Running
<1>2. CASE file
  BY <1>1, <1>2, RaisedInv DEF Begin
<1>3. CASE ~file
  <2>1. pc' = "initialize" /\ file' /\ db' = Nothing /\ waiting' = {}
    BY <1>3 DEF Begin, Inv, Empty
  <2> QED
    BY <1>1, <2>1 DEF Inv, Empty, Kept, Early, Owned, Pending, Settled, MadeForImporter, Done,
       Running, KeptAsOld, OwnersAreTheirs, ImportedForUser, Returned, Nothing
<1> QED
  BY <1>2, <1>3

\* The datastore is made.
LEMMA InitializeInv == ASSUME Inv, Initialize PROVE Inv'
<1>1. TypeOK'
  BY InitialRight DEF Initialize, Inv, TypeOK, Running
<1>2. /\ pc' \in {"accounts", "choose"} /\ (pc' = "accounts" <=> call.keep)
      /\ db' = Initial /\ file' = file /\ call' = call /\ waiting' = waiting
  BY DEF Initialize, Inv, TypeOK, Call
<1>3. file /\ waiting = {}
  BY DEF Initialize, Inv, Empty, Running
<1> QED
  BY <1>1, <1>2, <1>3, InitialRight
     DEF Inv, Empty, Kept, Early, Owned, Pending, Settled, MadeForImporter, Done, Running,
     KeptAsOld, OwnersAreTheirs, ImportedForUser, Returned

\* The accounts are exchanged.
LEMMA KeepAccountsInv == ASSUME Inv, KeepAccounts PROVE Inv'
<1>1. /\ db' \in Datastore /\ db'.users = old.users /\ db'.groups = old.groups
      /\ db'.projects = db.projects /\ db'.jobs = db.jobs /\ db'.specials = db.specials
  BY OldAssumption DEF KeepAccounts, Inv, TypeOK, Datastore
<1>2. WellFormed(db')
  BY <1>1, OldAssumption DEF Inv, TypeOK, WellFormed
<1>3. TypeOK'
  BY <1>1, <1>2 DEF KeepAccounts, Inv, TypeOK, Running
<1>4. pc = "accounts" /\ pc' = "choose" /\ UNCHANGED <<old, file, call, waiting>>
  BY DEF KeepAccounts
<1> QED
  BY <1>1, <1>3, <1>4
     DEF Inv, Empty, Kept, Early, Owned, Pending, Settled, MadeForImporter, Done, Running,
     KeptAsOld, OwnersAreTheirs, ImportedForUser, Returned

\* The user is chosen, and the directories are listed.
LEMMA ChooseUserInv == ASSUME Inv, ChooseUser PROVE Inv'
<1>1. disk \in [dirs : SUBSET disk.dirs, jobs : SUBSET disk.jobs]
  <2>1. disk \in Disk
    BY DiskAssumption DEF Inv, TypeOK
  <2> QED
    BY <2>1 DEF Disk
<1>2. user' \in Account
  BY NameAssumption DEF ChooseUser, Inv, TypeOK, Call
<1>3. TypeOK'
  BY <1>1, <1>2 DEF ChooseUser, Inv, TypeOK, Running
<1>4. pc = "choose" /\ pc' = "import" /\ todo' = disk
      /\ UNCHANGED <<disk, old, file, db, call, waiting>>
  BY DEF ChooseUser
<1> QED
  BY <1>3, <1>4
     DEF Inv, Empty, Kept, Early, Owned, Pending, OwnedByMaker, Settled, MadeForImporter,
     Done, Running, KeptAsOld, OwnersAreTheirs, ImportedForUser, Returned

\* Rows are added: projects only by the import, for its user, and jobs for anyone.
LEMMA GrowInv ==
  ASSUME Inv, pc \in Running \ {"initialize"},
         NEW made \in SUBSET ProjectRow, NEW entered \in SUBSET JobRow,
         db' = [db EXCEPT !.projects = @ \cup made, !.jobs = @ \cup entered],
         pc = "import" \/ made = {},
         \A p \in made : p.name \notin Names
                         /\ \E u \in Importer : p.owner = u.id /\ p.by = u.name,
         \A p, q \in made : p.name = q.name => p = q,
         \A j \in entered : \A k \in db.jobs : k.id # j.id,
         \A j, k \in entered : j.id = k.id => j = k,
         \A j \in entered : OwnedByMaker(j) \/ j.early,
         pc = "accounts" => \A j \in entered : j.early,
         waiting' \subseteq waiting, missed \subseteq missed', missed' \subseteq disk.jobs,
         UNCHANGED <<disk, old, file, pc, call, user, calls>>,
         todo' \in [dirs : SUBSET todo.dirs, jobs : SUBSET todo.jobs],
         \A j \in disk.jobs : j \in todo'.jobs \/ j \notin todo.jobs \/ Dealt(j)'
  PROVE  Inv'
<1>1. /\ db' \in Datastore /\ db'.users = db.users /\ db'.groups = db.groups
      /\ db'.projects = db.projects \cup made /\ db'.jobs = db.jobs \cup entered
      /\ db'.specials = db.specials
  BY DEF Inv, TypeOK, Datastore
<1>2. WellFormed(db')
  <2>1. \A p, q \in db'.projects : p.name = q.name => p = q
    BY <1>1 DEF Inv, TypeOK, WellFormed, Names
  <2>2. \A j, k \in db'.jobs : j.id = k.id => j = k
    BY <1>1 DEF Inv, TypeOK, WellFormed
  <2> QED
    BY <1>1, <2>1, <2>2 DEF Inv, TypeOK, WellFormed
<1>3. TypeOK'
  BY <1>1, <1>2 DEF Inv, TypeOK
<1>4. Importer' = Importer /\ Importer \subseteq db.users
  BY <1>1 DEF Importer
<1>5. Empty' /\ Kept' /\ Pending'
  BY <1>1 DEF Inv, Empty, Kept, Pending, OwnedByMaker, Settled, Running
<1>6. Early'
  BY <1>1 DEF Inv, Early
<1>7. Owned'
  BY <1>1, <1>4 DEF Inv, Owned, OwnedByMaker, Settled
<1>8. MadeForImporter'
  <2> SUFFICES ASSUME pc = "import", NEW p \in made, NEW u \in Importer
               PROVE  p.owner = u.id
    BY <1>1, <1>4 DEF Inv, MadeForImporter
  <2> QED
    BY OneImporter DEF Inv
<1>9. Done'
  <2>1. \A j \in disk.jobs : Dealt(j) => Dealt(j)'
    BY <1>1, <1>4 DEF Dealt
  <2> QED
    BY <2>1 DEF Inv, Done
<1>10. ~Returned'
  BY DEF Returned, Running
<1> QED
  BY <1>3, <1>5, <1>6, <1>7, <1>8, <1>9, <1>10
     DEF Inv, KeptAsOld, OwnersAreTheirs, ImportedForUser

\* A directory becomes a project.
LEMMA ImportDirectoryInv ==
  ASSUME Inv, NEW d \in disk.dirs, ImportDirectory(d)
  PROVE  Inv'
<1> DEFINE made == {NewProject(d.name, u, d) : u \in {v \in Importer : d.name \notin Names}}
<1>1. d.name \in ProjectName
  <2>1. disk \in Disk
    BY DiskAssumption DEF Inv, TypeOK
  <2> QED
    BY <2>1 DEF Disk, Directory
<1>2. ASSUME NEW u \in Importer, d.name \notin Names
      PROVE  /\ NewProject(d.name, u, d) \in ProjectRow
             /\ NewProject(d.name, u, d).name = d.name
             /\ NewProject(d.name, u, d).owner = u.id /\ NewProject(d.name, u, d).by = u.name
  <2>1. ~GroupUnknown(d) /\ u \in db.users
    BY <1>2 DEF ImportDirectory, Importer
  <2> QED
    BY <1>1, <2>1, NewProjectRight DEF Inv
<1>3. made \in SUBSET ProjectRow
  BY <1>2
<1>4. \A p \in made : p.name \notin Names
                      /\ \E u \in Importer : p.owner = u.id /\ p.by = u.name
  BY <1>2
<1>5. \A p, q \in made : p.name = q.name => p = q
  BY OneImporter DEF Inv
<1> DEFINE entered == {}
<1>6. db' = [db EXCEPT !.projects = @ \cup made, !.jobs = @ \cup entered]
  BY DEF ImportDirectory, Inv, TypeOK, Datastore
<1>7. todo' \in [dirs : SUBSET todo.dirs, jobs : SUBSET todo.jobs] /\ todo'.jobs = todo.jobs
  BY DEF ImportDirectory, Inv, TypeOK
<1>8. pc = "import" /\ pc \in Running \ {"initialize"} /\ missed' \subseteq disk.jobs
      /\ UNCHANGED <<disk, old, file, waiting, pc, call, user, missed, calls>>
  BY DEF ImportDirectory, Running, Inv, TypeOK
<1>9. /\ entered \in SUBSET JobRow
      /\ \A i \in entered : \A k \in db.jobs : k.id # i.id
      /\ \A i, k \in entered : i.id = k.id => i = k
      /\ \A i \in entered : OwnedByMaker(i) \/ i.early
      /\ pc = "accounts" => \A i \in entered : i.early
  OBVIOUS
<1>10. \A j \in disk.jobs : j \in todo'.jobs \/ j \notin todo.jobs \/ Dealt(j)'
  BY <1>7
<1> HIDE DEF made, entered
<1> QED
  BY <1>3, <1>4, <1>5, <1>6, <1>7, <1>8, <1>9, <1>10, GrowInv

\* The projects that are made before a job is entered.
LEMMA MadeRight ==
  ASSUME Inv, NEW j \in disk.jobs, Listable(j)
  PROVE  /\ Made(j) \in SUBSET ProjectRow
         /\ \A p \in Made(j) : p.name \notin Names
                              /\ \E u \in Importer : p.owner = u.id /\ p.by = u.name
         /\ \A p, q \in Made(j) : p.name = q.name => p = q
         /\ Importer # {} => \A n \in Missing(j) : \E p \in Made(j) : p.name = n
<1>1. Missing(j) \subseteq ProjectName
  BY NewJobRight, DiskAssumption DEF Missing, Inv, TypeOK, Disk, JobDirectory
<1>2. ASSUME NEW n \in Missing(j), NEW u \in Importer
      PROVE  /\ NewProject(n, u, j.dir) \in ProjectRow
             /\ NewProject(n, u, j.dir).name = n
             /\ NewProject(n, u, j.dir).owner = u.id /\ NewProject(n, u, j.dir).by = u.name
  <2>1. ~GroupUnknown(j.dir) /\ u \in db.users
    BY <1>2 DEF Listable, Importer
  <2> QED
    BY <1>1, <2>1, NewProjectRight DEF Inv
<1>3. Made(j) \in SUBSET ProjectRow
  BY <1>2 DEF Made
<1>4. \A p \in Made(j) : p.name \notin Names
                         /\ \E u \in Importer : p.owner = u.id /\ p.by = u.name
  BY <1>2 DEF Made, Missing
<1>5. \A p, q \in Made(j) : p.name = q.name => p = q
  BY <1>2, OneImporter DEF Inv, Made
<1>6. ASSUME NEW u \in Importer, NEW n \in Missing(j) PROVE \E p \in Made(j) : p.name = n
  BY <1>2, <1>6 DEF Made
<1> QED
  BY <1>3, <1>4, <1>5, <1>6

\* What a step with a job in hand leaves alone.
LEMMA InHandLeaves ==
  ASSUME Inv, NEW j \in disk.jobs, InHand(j)
  PROVE  /\ pc = "import" /\ pc \in Running \ {"initialize"} /\ j \in todo.jobs
         /\ UNCHANGED <<disk, old, file, waiting, pc, call, user, calls>>
         /\ todo' \in [dirs : SUBSET todo.dirs, jobs : SUBSET todo.jobs]
         /\ todo'.jobs = todo.jobs \ {j}
BY DEF InHand, Running, Inv, TypeOK

\* A job is entered, after the projects it lists, or refused.
LEMMA ImportJobInv ==
  ASSUME Inv, NEW j \in disk.jobs, ImportJob(j)
  PROVE  Inv'
<1> DEFINE made == Made(j)
           takers == {v \in Importer : Accepted(j, v, db.projects \cup made)}
           entered == {NewJob(j, u) : u \in takers}
<1>1. InHand(j) /\ Listable(j) /\ UNCHANGED missed /\ missed' \subseteq disk.jobs
  BY DEF ImportJob, Inv, TypeOK
<1>2. /\ pc = "import" /\ pc \in Running \ {"initialize"}
      /\ UNCHANGED <<disk, old, file, waiting, pc, call, user, calls>>
      /\ todo' \in [dirs : SUBSET todo.dirs, jobs : SUBSET todo.jobs]
      /\ todo'.jobs = todo.jobs \ {j}
  BY <1>1, InHandLeaves
<1>3. /\ made \in SUBSET ProjectRow
      /\ \A p \in made : p.name \notin Names
                          /\ \E u \in Importer : p.owner = u.id /\ p.by = u.name
      /\ \A p, q \in made : p.name = q.name => p = q
      /\ Importer # {} => \A n \in Missing(j) : \E p \in made : p.name = n
  BY <1>1, MadeRight
<1>4. takers \subseteq Importer /\ takers \subseteq db.users
  BY DEF Importer
<1>5. /\ \A u \in takers : \A k \in db.jobs : k.id # j.id
      /\ \A u, v \in takers : u = v
  BY OneImporter DEF Accepted, Inv
<1>6. ASSUME NEW u \in takers
      PROVE  /\ NewJob(j, u) \in JobRow /\ NewJob(j, u).id = j.id
             /\ NewJob(j, u).owner = u.id /\ NewJob(j, u).by = u.name
  BY <1>4, NewJobRight DEF Inv
<1>7. db' = [db EXCEPT !.projects = @ \cup made, !.jobs = @ \cup entered]
  BY DEF ImportJob
<1>8. db'.jobs = db.jobs \cup entered /\ db'.users = db.users
  BY <1>7 DEF Inv, TypeOK, Datastore
<1>9. Dealt(j)'
  <2> SUFFICES ASSUME ~\E k \in db'.jobs : k.id = j.id, j.lists # {}, j.holds = "job",
                      NEW u \in Importer, u.admin \/ Default \notin j.lists
               PROVE  FALSE
    <3>1. Importer' = Importer
      BY <1>2, <1>8 DEF Importer
    <3>2. CASE \E u \in Importer : u.admin \/ Default \notin j.lists
      BY <3>2 DEF Dealt
    <3>3. CASE \A u \in Importer : ~u.admin /\ Default \in j.lists
      BY <3>1, <3>3 DEF Dealt
    <3> QED
      BY <3>2, <3>3
  <2> DEFINE listed == {p \in db.projects \cup made : p.name \in j.lists}
  <2>1. PICK n \in j.lists : TRUE
    OBVIOUS
  <2>2. \E p \in db.projects \cup made : p.name = n
    <3>1. CASE n \in Names
      BY <3>1 DEF Names
    <3>2. CASE n \notin Names
      <4>1. n \in Missing(j)
        BY <3>2 DEF Missing
      <4> QED
        BY <4>1, <1>3
    <3> QED
      BY <3>1, <3>2
  <2>3. listed # {}
    BY <2>2
  <2>4. ASSUME NEW p \in listed PROVE MayUpdate(u, p)
    <3>1. CASE p \in made
      BY <3>1, <1>3, OneImporter DEF MayUpdate, Inv
    <3>2. CASE p \in db.projects
      BY <1>2, <3>2 DEF MayUpdate, Inv, MadeForImporter
    <3> QED
      BY <3>1, <3>2
  <2>5. \A k \in db.jobs : k.id # j.id
    BY <1>8
  <2>6. Accepted(j, u, db.projects \cup made)
    BY <2>3, <2>4, <2>5 DEF Accepted
  <2>7. u \in takers
    BY <2>6
  <2> HIDE DEF takers
  <2>8. NewJob(j, u) \in entered /\ NewJob(j, u).id = j.id
    <3>1. NewJob(j, u) \in entered
      BY <2>7
    <3>2. NewJob(j, u).id = j.id
      BY <1>6, <2>7
    <3> QED
      BY <3>1, <3>2
  <2> HIDE DEF entered
  <2> QED
    BY <2>8, <1>8
<1>10. /\ entered \in SUBSET JobRow
       /\ \A i \in entered : \A k \in db.jobs : k.id # i.id
       /\ \A i, k \in entered : i.id = k.id => i = k
       /\ \A i \in entered : OwnedByMaker(i)
  <2> HIDE DEF takers
  <2>1. \A i \in entered : \E u \in takers : i = NewJob(j, u)
    OBVIOUS
  <2> HIDE DEF entered
  <2> QED
    BY <1>4, <1>5, <1>6, <2>1 DEF OwnedByMaker
<1> HIDE DEF made, entered, takers
<1>11. \A i \in disk.jobs : i \in todo'.jobs \/ i \notin todo.jobs \/ Dealt(i)'
  BY <1>2, <1>9
<1> QED
  BY <1>1, <1>2, <1>3, <1>7, <1>10, <1>11, GrowInv

\* A job is passed over, with or without its projects.
LEMMA SkipJobInv ==
  ASSUME Inv, NEW j \in disk.jobs, SkipJob(j)
  PROVE  Inv'
<1> DEFINE entered == {}
<1>1. InHand(j)
  BY DEF SkipJob
<1>2. /\ pc = "import" /\ pc \in Running \ {"initialize"}
      /\ UNCHANGED <<disk, old, file, waiting, pc, call, user, calls>>
      /\ todo' \in [dirs : SUBSET todo.dirs, jobs : SUBSET todo.jobs]
      /\ todo'.jobs = todo.jobs \ {j}
  BY <1>1, InHandLeaves
<1>3. \E made \in SUBSET ProjectRow :
         /\ db' = [db EXCEPT !.projects = @ \cup made, !.jobs = @ \cup entered]
         /\ \A p \in made : p.name \notin Names
                             /\ \E u \in Importer : p.owner = u.id /\ p.by = u.name
         /\ \A p, q \in made : p.name = q.name => p = q
  <2>1. CASE UNCHANGED db
    <3>1. db' = [db EXCEPT !.projects = @ \cup {}, !.jobs = @ \cup entered]
      BY <2>1 DEF Inv, TypeOK, Datastore
    <3>2. /\ {} \in SUBSET ProjectRow
          /\ \A p \in {} : p.name \notin Names
                          /\ \E u \in Importer : p.owner = u.id /\ p.by = u.name
          /\ \A p, q \in {} : p.name = q.name => p = q
      OBVIOUS
    <3> HIDE DEF entered
    <3> QED
      BY <3>1, <3>2
  <2>2. CASE Listable(j) /\ db' = [db EXCEPT !.projects = @ \cup Made(j)]
    <3>1. db' = [db EXCEPT !.projects = @ \cup Made(j), !.jobs = @ \cup entered]
      BY <2>2 DEF Inv, TypeOK, Datastore
    <3> QED
      BY <2>2, <3>1, MadeRight
  <2> QED
    BY <2>1, <2>2 DEF SkipJob
<1>4. PICK made \in SUBSET ProjectRow :
         /\ db' = [db EXCEPT !.projects = @ \cup made, !.jobs = @ \cup entered]
         /\ \A p \in made : p.name \notin Names
                             /\ \E u \in Importer : p.owner = u.id /\ p.by = u.name
         /\ \A p, q \in made : p.name = q.name => p = q
  BY <1>3
<1>5. /\ missed \subseteq missed' /\ missed' \subseteq disk.jobs
      /\ j.holds # "job" \/ j \in missed'
  BY DEF SkipJob, Inv, TypeOK
<1>6. \A i \in disk.jobs : i \in todo'.jobs \/ i \notin todo.jobs \/ Dealt(i)'
  BY <1>2, <1>5 DEF Dealt
<1>7. /\ entered \in SUBSET JobRow
      /\ \A i \in entered : \A k \in db.jobs : k.id # i.id
      /\ \A i, k \in entered : i.id = k.id => i = k
      /\ \A i \in entered : OwnedByMaker(i) \/ i.early
      /\ pc = "accounts" => \A i \in entered : i.early
  OBVIOUS
<1> HIDE DEF entered
<1> QED
  BY <1>2, <1>4, <1>5, <1>6, <1>7, GrowInv

\* A job looks up its account, which stays its account unless it is early.
LEMMA LookUpAccountInv ==
  ASSUME Inv, NEW j \in disk.jobs, NEW u \in db.users, LookUpAccount(j, u)
  PROVE  Inv'
<1>1. /\ NewJob(j, u) \in JobRow
      /\ NewJob(j, u).owner = u.id /\ NewJob(j, u).by = u.name
      /\ pc = "accounts" => NewJob(j, u).early
  BY NewJobRight DEF Inv
<1>2. PICK w : w = NewJob(j, u)
  OBVIOUS
<1>3. /\ pc \in Running \ {"initialize"} /\ waiting' = waiting \cup {w}
      /\ UNCHANGED <<disk, old, file, db, pc, call, user, todo, missed, calls>>
  BY <1>2 DEF LookUpAccount
<1>4. w \in JobRow /\ OwnedByMaker(w) /\ (pc = "accounts" => w.early)
  BY <1>1, <1>2 DEF OwnedByMaker
<1>5. TypeOK'
  BY <1>3, <1>4 DEF Inv, TypeOK
<1>6. Empty' /\ Early' /\ Pending'
  BY <1>3, <1>4 DEF Inv, Empty, Early, Pending, OwnedByMaker, Settled, Running
<1>7. Kept' /\ Owned' /\ MadeForImporter' /\ Done'
  BY <1>3 DEF Inv, Kept, Owned, OwnedByMaker, Settled, MadeForImporter, Done, Dealt, Importer
<1>8. ~Returned'
  BY <1>3 DEF Returned, Running
<1> QED
  BY <1>5, <1>6, <1>7, <1>8 DEF Inv, KeptAsOld, OwnersAreTheirs, ImportedForUser

\* It enters its row, during a call or after it.
LEMMA RegisterItselfInv ==
  ASSUME Inv, NEW w \in waiting, RegisterItself(w)
  PROVE  Inv'
<1> DEFINE row == [w EXCEPT !.late = pc \notin Running]
           entered == IF \E k \in db.jobs : k.id = w.id THEN {} ELSE {row}
           made == {}
<1>1. w \in JobRow /\ file /\ pc # "initialize"
  BY DEF Inv, TypeOK, Empty
<1>2. /\ row \in JobRow /\ row.id = w.id /\ row.owner = w.owner /\ row.by = w.by
      /\ row.early = w.early /\ row.late = (pc \notin Running)
  BY <1>1 DEF JobRow
<1>3. /\ waiting' = waiting \ {w}
      /\ db' = [db EXCEPT !.projects = @ \cup made, !.jobs = @ \cup entered]
      /\ UNCHANGED <<disk, old, file, pc, call, user, todo, missed, calls>>
  BY DEF RegisterItself, Inv, TypeOK, Datastore
<1> HIDE DEF row
<1>4. /\ entered \in SUBSET JobRow
      /\ \A i \in entered : \A k \in db.jobs : k.id # i.id
      /\ \A i, k \in entered : i.id = k.id => i = k
      /\ \A i \in entered : i = row
  BY <1>2
<1> HIDE DEF entered
<1>5. CASE pc \in Running
  <2>1. pc \in {"accounts"} \/ Settled
    BY <1>1, <1>5 DEF Running, Settled
  <2>2. /\ OwnedByMaker(row) \/ row.early
        /\ pc = "accounts" => row.early
    BY <1>2, <2>1 DEF Inv, Pending, Early, OwnedByMaker
  <2>3. /\ \A i \in entered : OwnedByMaker(i) \/ i.early
        /\ pc = "accounts" => \A i \in entered : i.early
    BY <1>4, <2>2
  <2>4. /\ todo' \in [dirs : SUBSET todo.dirs, jobs : SUBSET todo.jobs]
        /\ todo'.jobs = todo.jobs /\ missed' \subseteq disk.jobs
    BY <1>3 DEF Inv, TypeOK
  <2>5. \A i \in disk.jobs : i \in todo'.jobs \/ i \notin todo.jobs \/ Dealt(i)'
    BY <2>4
  <2>6. /\ made \in SUBSET ProjectRow /\ (pc = "import" \/ made = {})
        /\ \A p \in made : p.name \notin Names
                            /\ \E v \in Importer : p.owner = v.id /\ p.by = v.name
        /\ \A p, q \in made : p.name = q.name => p = q
    OBVIOUS
  <2> HIDE DEF made
  <2> QED
    BY <1>1, <1>3, <1>4, <1>5, <2>3, <2>4, <2>5, <2>6, GrowInv
<1>6. CASE pc \notin Running
  <2>1. /\ db' \in Datastore /\ db'.users = db.users /\ db'.groups = db.groups
        /\ db'.projects = db.projects /\ db'.jobs = db.jobs \cup entered
        /\ db'.specials = db.specials
    BY <1>3, <1>4 DEF Inv, TypeOK, Datastore
  <2>2. WellFormed(db')
    BY <1>4, <2>1 DEF Inv, TypeOK, WellFormed
  <2>3. TypeOK'
    BY <1>3, <2>1, <2>2 DEF Inv, TypeOK
  <2>4. pc = "raised" \/ pc = "returned"
    BY <1>6 DEF Inv, TypeOK
  <2>5. CASE pc = "raised"
    BY <1>1, <1>3, <2>3, <2>5, RaisedInv
  <2>6. CASE pc = "returned"
    <3>1. (OwnedByMaker(row) \/ row.early) /\ row.late
      BY <1>2, <1>6, <2>6 DEF Inv, Pending, OwnedByMaker
    <3>2. KeptAsOld'
      BY <1>1, <1>3, <1>4, <2>1, <2>6, <3>1 DEF Inv, KeptAsOld, Returned
    <3>3. OwnersAreTheirs'
      BY <1>1, <1>3, <1>4, <2>1, <2>6, <3>1 DEF Inv, OwnersAreTheirs, OwnedByMaker, Returned
    <3>4. ImportedForUser'
      BY <1>1, <1>3, <2>1, <2>6 DEF Inv, ImportedForUser, Importer, Returned
    <3>5. Pending'
      BY <1>3, <2>1, <2>6 DEF Inv, Pending, OwnedByMaker
    <3> QED
      BY <1>1, <1>3, <2>3, <2>6, <3>2, <3>3, <3>4, <3>5
         DEF Inv, Empty, Kept, Early, Owned, Settled, MadeForImporter, Done, Running
  <2> QED
    BY <2>4, <2>5, <2>6
<1> QED
  BY <1>5, <1>6

\* What all jobs on disk being dealt with means for a call that returns.
LEMMA ImportedInv ==
  ASSUME \A j \in disk.jobs : Dealt(j)
  PROVE  ImportedForUser
BY DEF Dealt, ImportedForUser

\* The import ends.
LEMMA EndImportInv == ASSUME Inv, EndImport PROVE Inv'
<1>1. /\ pc = "import" /\ todo.jobs = {}
      /\ UNCHANGED <<disk, old, file, db, waiting, call, user, todo, missed, calls>>
      /\ pc' = IF call.keep THEN "restore" ELSE "returned"
  BY DEF EndImport, NoDirectories
<1>2. TypeOK'
  BY <1>1 DEF Inv, TypeOK, Running
<1>3. \A j \in disk.jobs : Dealt(j)
  BY <1>1 DEF Inv, Done
<1>4. \A j \in disk'.jobs : Dealt(j)'
  BY <1>1, <1>3 DEF Dealt, Importer
<1>5. ImportedForUser'
  BY <1>4 DEF Dealt, ImportedForUser
<1>6. OwnersAreTheirs' /\ Pending'
  BY <1>1 DEF Inv, Owned, Pending, Settled, OwnersAreTheirs, Returned, OwnedByMaker
<1>7. KeptAsOld'
  BY <1>1 DEF KeptAsOld, Returned
<1>8. Empty' /\ Kept' /\ Early' /\ Owned' /\ MadeForImporter' /\ Done'
  BY <1>1, <1>4 DEF Inv, Empty, Kept, Early, Owned, Settled, MadeForImporter, Done, Running,
     OwnedByMaker
<1> QED
  BY <1>2, <1>5, <1>6, <1>7, <1>8 DEF Inv

-----------------------------------------------------------------------------
(* The details of the old rows                                             *)

\* A project with the details of the old one of its name.
LEMMA DetailedRight ==
  ASSUME NEW p \in ProjectRow, NEW o \in ProjectRow
  PROVE  /\ Detailed(p, o) \in ProjectRow /\ Detailed(p, o).name = p.name
         /\ Detailed(Detailed(p, o), o) = Detailed(p, o)
BY DEF Detailed, ProjectRow

\* A job with the details of the old one with its id.
LEMMA JobDetailedRight ==
  ASSUME NEW j \in JobRow, NEW o \in JobRow
  PROVE  /\ JobDetailed(j, o) \in JobRow /\ JobDetailed(j, o).id = j.id
         /\ JobDetailed(j, o).by = j.by /\ JobDetailed(j, o).early = j.early
         /\ JobDetailed(JobDetailed(j, o), o) = JobDetailed(j, o)
BY DEF JobDetailed, JobRow

\* Each row there will be comes from one there was, and each there was has its row.
LEMMA RestoredRows ==
  ASSUME TypeOK
  PROVE  /\ \A q \in RestoredProjects :
               \/ q \in db.projects /\ \A o \in old.projects : o.name # q.name
               \/ \E p \in db.projects, o \in old.projects :
                     p.name = o.name /\ q = Detailed(p, o)
         /\ \A k \in RestoredJobs :
               \/ k \in db.jobs /\ \A o \in old.jobs : o.id # k.id
               \/ \E j \in db.jobs, o \in old.jobs : j.id = o.id /\ k = JobDetailed(j, o)
         /\ \A p \in db.projects : \E q \in RestoredProjects : q.name = p.name
         /\ \A j \in db.jobs : \E k \in RestoredJobs : k.id = j.id /\ k.by = j.by
<1>1. /\ db.projects \subseteq ProjectRow /\ old.projects \subseteq ProjectRow
      /\ db.jobs \subseteq JobRow /\ old.jobs \subseteq JobRow
  BY Parts, OldAssumption DEF TypeOK
<1>2. ASSUME NEW q \in RestoredProjects
      PROVE  \/ q \in db.projects /\ \A o \in old.projects : o.name # q.name
             \/ \E p \in db.projects, o \in old.projects :
                   p.name = o.name /\ q = Detailed(p, o)
  BY DEF RestoredProjects
<1>3. ASSUME NEW k \in RestoredJobs
      PROVE  \/ k \in db.jobs /\ \A o \in old.jobs : o.id # k.id
             \/ \E j \in db.jobs, o \in old.jobs : j.id = o.id /\ k = JobDetailed(j, o)
  BY DEF RestoredJobs
<1>4. ASSUME NEW p \in db.projects PROVE \E q \in RestoredProjects : q.name = p.name
  <2>1. CASE \A o \in old.projects : o.name # p.name
    BY <2>1 DEF RestoredProjects
  <2>2. ASSUME NEW o \in old.projects, o.name = p.name
        PROVE  \E q \in RestoredProjects : q.name = p.name
    <3>1. <<p, o>> \in {y \in db.projects \X old.projects : y[1].name = y[2].name}
      BY <2>2
    <3>2. Detailed(p, o) \in RestoredProjects
      BY <3>1 DEF RestoredProjects
    <3> QED
      BY <1>1, <3>2, DetailedRight
  <2> QED
    BY <2>1, <2>2
<1>5. ASSUME NEW j \in db.jobs PROVE \E k \in RestoredJobs : k.id = j.id /\ k.by = j.by
  <2>1. CASE \A o \in old.jobs : o.id # j.id
    BY <2>1 DEF RestoredJobs
  <2>2. ASSUME NEW o \in old.jobs, o.id = j.id
        PROVE  \E k \in RestoredJobs : k.id = j.id /\ k.by = j.by
    <3>1. <<j, o>> \in {y \in db.jobs \X old.jobs : y[1].id = y[2].id}
      BY <2>2
    <3>2. JobDetailed(j, o) \in RestoredJobs
      BY <3>1 DEF RestoredJobs
    <3> QED
      BY <1>1, <3>2, JobDetailedRight
  <2> QED
    BY <2>1, <2>2
<1> QED
  BY <1>2, <1>3, <1>4, <1>5

\* The details are restored.
LEMMA RestoreInv == ASSUME Inv, Restore PROVE Inv'
<1>1. /\ pc = "restore" /\ pc' = "returned" /\ file /\ call.keep
      /\ UNCHANGED <<disk, old, file, waiting, call, user, todo, missed, calls>>
      /\ db.users = old.users /\ db.groups = old.groups /\ db.specials = {}
  BY DEF Restore, Inv, Kept, Empty, Settled, Running
<1>2. /\ db.projects \subseteq ProjectRow /\ old.projects \subseteq ProjectRow
      /\ db.jobs \subseteq JobRow /\ old.jobs \subseteq JobRow
      /\ old.specials \subseteq SpecialRow /\ WellFormed(old) /\ WellFormed(db)
  BY Parts, OldAssumption DEF Inv, TypeOK
<1>3. \A q \in RestoredProjects :
         /\ q \in ProjectRow
         /\ \/ q \in db.projects /\ \A o \in old.projects : o.name # q.name
            \/ \E p \in db.projects, o \in old.projects :
                  p.name = o.name /\ q = Detailed(p, o) /\ q.name = p.name
                  /\ q = Detailed(q, o)
  BY <1>2, RestoredRows, DetailedRight DEF Inv
<1>4. \A k \in RestoredJobs :
         /\ k \in JobRow
         /\ \/ k \in db.jobs /\ \A o \in old.jobs : o.id # k.id
            \/ \E j \in db.jobs, o \in old.jobs :
                  j.id = o.id /\ k = JobDetailed(j, o) /\ k.id = j.id
                  /\ k = JobDetailed(k, o)
  BY <1>2, RestoredRows, JobDetailedRight DEF Inv
<1>5. \A p, q \in RestoredProjects : p.name = q.name => p = q
  BY <1>2, <1>3 DEF WellFormed
<1>6. \A j, k \in RestoredJobs : j.id = k.id => j = k
  BY <1>2, <1>4 DEF WellFormed
<1>7. /\ db'.users = db.users /\ db'.groups = db.groups
      /\ db'.projects = RestoredProjects /\ db'.jobs = RestoredJobs
      /\ db'.specials = KeptSpecials /\ db' \in Datastore
  BY <1>1, <1>2, <1>3, <1>4 DEF Restore, Inv, TypeOK, Datastore, KeptSpecials
<1>8. WellFormed(db')
  BY <1>2, <1>5, <1>6, <1>7 DEF WellFormed
<1>9. TypeOK'
  BY <1>1, <1>7, <1>8 DEF Inv, TypeOK
<1>10. KeptAsOld'
  <2>1. \A p \in RestoredProjects, o \in old.projects : p.name = o.name => p = Detailed(p, o)
    BY <1>2, <1>3 DEF WellFormed
  <2>2. \A j \in RestoredJobs, o \in old.jobs : j.id = o.id => j = JobDetailed(j, o)
    BY <1>2, <1>4 DEF WellFormed
  <2>3. \A n \in Names : \E p \in RestoredProjects : p.name = n
    BY RestoredRows DEF Names, Inv
  <2>4. \A p \in RestoredProjects : p.name \in Names
    BY <1>3 DEF Names
  <2>5. KeptSpecials = {s \in old.specials : \E p \in RestoredProjects : p.name = s.project}
    BY <2>3, <2>4 DEF KeptSpecials
  <2> QED
    BY <1>1, <1>7, <2>1, <2>2, <2>5 DEF KeptAsOld
<1>11. OwnersAreTheirs'
  <2>1. ASSUME NEW q \in RestoredProjects, \A o \in old.projects : o.name # q.name
        PROVE  OwnedByMaker(q) \/ q.name = Default
    BY <1>1, <1>3, <2>1 DEF Inv, Owned, Settled
  <2>2. ASSUME NEW k \in RestoredJobs, \A o \in old.jobs : o.id # k.id
        PROVE  OwnedByMaker(k) \/ k.early
    BY <1>1, <1>4, <2>2 DEF Inv, Owned, Settled
  <2> QED
    BY <1>1, <1>7, <2>1, <2>2 DEF OwnersAreTheirs, OwnedByMaker
<1>12. ImportedForUser'
  <2>1. \A j \in disk.jobs : Dealt(j)
    BY <1>1 DEF Inv, Done
  <2>2. \A j \in db.jobs : \E k \in RestoredJobs : k.id = j.id
    BY RestoredRows DEF Inv
  <2> QED
    BY <1>1, <1>7, <2>1, <2>2 DEF Dealt, ImportedForUser, Importer
<1>13. Pending'
  BY <1>1, <1>7 DEF Inv, Pending, Settled, OwnedByMaker
<1> QED
  BY <1>1, <1>9, <1>10, <1>11, <1>12, <1>13
     DEF Inv, Empty, Kept, Early, Owned, Settled, MadeForImporter, Done, Running

-----------------------------------------------------------------------------
(* The theorems                                                            *)

\* Every step keeps the invariant.
LEMMA InvStays == Inv /\ [Next]_vars => Inv'
<1> SUFFICES ASSUME Inv, [Next]_vars PROVE Inv'
  OBVIOUS
<1>1. CASE UNCHANGED vars
  BY <1>1 DEF vars, Inv, TypeOK, Empty, Kept, Early, Owned, Pending, Settled, MadeForImporter, Done,
     Dealt, Importer, KeptAsOld, OwnersAreTheirs, ImportedForUser, Returned, OwnedByMaker
<1>2. CASE Fail
  <2>1. TypeOK'
    <3>1. NoDirectories \in [dirs : SUBSET disk.dirs, jobs : SUBSET disk.jobs]
      BY DEF NoDirectories
    <3> QED
      BY <1>2, <3>1 DEF Fail, Inv, TypeOK
  <2> QED
    BY <1>2, <2>1, RaisedInv DEF Fail, Inv, Empty
<1>3. CASE RemoveFile
  <2>1. TypeOK'
    <3>1. Nothing \in Datastore /\ WellFormed(Nothing)
      BY DEF Nothing, Datastore, WellFormed
    <3> QED
      BY <1>3, <3>1 DEF RemoveFile, Inv, TypeOK
  <2>2. pc' \notin Running /\ ~file' /\ db' = Nothing /\ waiting' = {}
    BY <1>3 DEF RemoveFile
  <2> QED
    BY <2>1, <2>2 DEF Inv, Empty, Kept, Early, Owned, Pending, Settled, MadeForImporter, Done,
       Running, KeptAsOld, OwnersAreTheirs, ImportedForUser, Returned
<1> QED
  BY <1>1, <1>2, <1>3, BeginInv, InitializeInv, KeepAccountsInv, ChooseUserInv,
     ImportDirectoryInv, ImportJobInv, SkipJobInv, EndImportInv, RestoreInv,
     LookUpAccountInv, RegisterItselfInv
     DEF Next, Build, Over

\* The invariant, of every behaviour.
LEMMA Invariance == Spec => []Inv
BY InvAtFirst, InvStays, PTL DEF Spec

\* Every variable keeps its type, and no table breaks a constraint.
THEOREM TypeCorrect == Spec => []TypeOK
BY Invariance, PTL DEF Inv

\* A call with keep_from that returned has the accounts and the details of the old
\* datastore, whatever registered itself meanwhile.
THEOREM DetailsKept == Spec => []KeptAsOld
BY Invariance, PTL DEF Inv

\* After a call that returned the rows the old datastore did not know are their makers',
\* but for those of jobs that had looked up their account before the exchange.
THEOREM MakersOwn == Spec => []OwnersAreTheirs
BY Invariance, PTL DEF Inv

\* A call that returned has imported what could be read, its user could import, and no
\* lock kept out.
THEOREM AllImported == Spec => []ImportedForUser
BY Invariance, PTL DEF Inv

\* No job is lost, whatever a rebuild does, while the file is there.
THEOREM NoJobLost == Spec => RegisteredStay
<1>1. ASSUME Inv, [Next]_vars, file, file', NEW j \in db.jobs
      PROVE  \E k \in db'.jobs : k.id = j.id /\ k.by = j.by
  <2>1. CASE db' = db \/ RemoveFile
    BY <1>1, <2>1 DEF RemoveFile
  <2>2. CASE Initialize
    BY <1>1, <2>2 DEF Initialize, Inv, Empty, Nothing
  <2>3. CASE KeepAccounts
    BY <1>1, <2>3 DEF KeepAccounts, Inv, TypeOK, Datastore
  <2>4. ASSUME NEW d \in disk.dirs, ImportDirectory(d)
        PROVE  \E k \in db'.jobs : k.id = j.id /\ k.by = j.by
    <3>1. db'.jobs = db.jobs
      BY <1>1, <2>4 DEF ImportDirectory, Inv, TypeOK, Datastore
    <3> QED
      BY <3>1
  <2>5. ASSUME NEW i \in disk.jobs, ImportJob(i) \/ SkipJob(i)
        PROVE  \E k \in db'.jobs : k.id = j.id /\ k.by = j.by
    <3>1. db.jobs \subseteq db'.jobs
      BY <1>1, <2>5 DEF ImportJob, SkipJob, Inv, TypeOK, Datastore
    <3> QED
      BY <3>1
  <2>6. CASE Restore
    <3>1. db'.jobs = RestoredJobs
      BY <1>1, <2>6 DEF Restore, Inv, TypeOK, Datastore
    <3> QED
      BY <1>1, <3>1, RestoredRows DEF Inv
  <2>7. ASSUME NEW w \in waiting, RegisterItself(w)
        PROVE  \E k \in db'.jobs : k.id = j.id /\ k.by = j.by
    <3>1. db.jobs \subseteq db'.jobs
      BY <1>1, <2>7 DEF RegisterItself, Inv, TypeOK, Datastore
    <3> QED
      BY <3>1
  <2> QED
    BY <1>1, <2>1, <2>2, <2>3, <2>4, <2>5, <2>6, <2>7
       DEF Next, Build, Over, vars, Begin, ChooseUser, EndImport, Fail, LookUpAccount
<1>2. Inv /\ [Next]_vars
      => [file /\ file' =>
            \A j \in db.jobs : \E k \in db'.jobs : k.id = j.id /\ k.by = j.by]_vars
  BY <1>1
<1> QED
  BY <1>2, Invariance, PTL DEF Spec, RegisteredStay

=============================================================================
