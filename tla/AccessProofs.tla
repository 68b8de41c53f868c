----------------------------- MODULE AccessProofs -----------------------------
(***************************************************************************)
(* Proofs about Access: types, agreement of the two ways to decide about a *)
(* row, what readers reach, and that creations grant nothing.              *)
(***************************************************************************)
EXTENDS Access, TLAPS

-----------------------------------------------------------------------------
(* Types                                                                   *)

\* Granting something puts one row in place of the one that was there, if any.
LEMMA GrantKeepsKeys ==
  ASSUME NEW Entity, NEW rows \in SUBSET Association(Entity), KeysAreUnique(rows),
         NEW entity \in Entity, NEW p \in ProjectId, NEW ops \in SUBSET Op
  PROVE  /\ GrantTo(rows, entity, p, ops) \subseteq Association(Entity)
         /\ KeysAreUnique(GrantTo(rows, entity, p, ops))
BY DEF GrantTo, KeysAreUnique, Association

\* A row that a job or a new flowchart is given is a row.
LEMMA NewWorkRow ==
  ASSUME NEW u \in User, NEW g \in Group, NEW ps \in SUBSET ProjectId
  PROVE  [owner |-> u, group |-> g, permissions |-> Default, projects |-> ps] \in WorkRow
BY PermissionAssumption DEF WorkRow

\* The datastore made by _build_initial is well typed.
LEMMA TypeAtFirst == Init => TypeOK
<1> SUFFICES ASSUME Init PROVE TypeOK
  OBVIOUS
<1>1. member \in [User -> SUBSET groups]
  BY DEF Init
<1>2. project \in [ProjectId -> ProjectRow \cup {NoRow}]
  <2>1. [owner |-> Founder, group |-> FounderGroup, permissions |-> Default] \in ProjectRow
    BY NameAssumption, PermissionAssumption DEF ProjectRow
  <2> QED
    BY <2>1 DEF Init
<1>3. changes \in 0 .. MaxChanges
  BY PermissionAssumption DEF Init
<1> QED
  BY <1>1, <1>2, <1>3, NameAssumption DEF Init, TypeOK, KeysAreUnique

\* No step breaks the types.
LEMMA TypeStays == TypeOK /\ [Next]_vars => TypeOK'
<1> SUFFICES ASSUME TypeOK, [Next]_vars PROVE TypeOK'
  OBVIOUS
<1> USE DEF TypeOK
<1>1. ASSUME NEW u \in User, NEW named \in Named, NEW admin \in BOOLEAN,
             CreateUser(u, named, admin)
      PROVE  TypeOK'
  <2>1. groups' \subseteq Group /\ groups \subseteq groups'
    BY <1>1, NameAssumption DEF CreateUser
  <2> QED
    BY <1>1, <2>1 DEF CreateUser, work, specials
<1>2. ASSUME NEW g \in Group, NEW us \in SUBSET Actor, CreateGroup(g, us)
      PROVE  TypeOK'
  BY <1>2 DEF CreateGroup, work, specials
<1>3. ASSUME NEW u \in Actor, NEW p \in ProjectId, NEW g \in Group, CreateProject(u, p, g)
      PROVE  TypeOK'
  <2>1. [owner |-> u, group |-> g, permissions |-> Default] \in ProjectRow
    BY NameAssumption, PermissionAssumption DEF ProjectRow
  <2> QED
    BY <1>3, <2>1 DEF CreateProject, accounts, specials
<1>4. ASSUME NEW u \in Actor, NEW j \in JobId, NEW c \in Chart, NEW ps \in SUBSET ProjectId,
             CreateJob(u, j, c, ps)
      PROVE  TypeOK'
  <2>1. PICK g \in member[u] :
          LET row == [owner |-> u, group |-> g, permissions |-> Default, projects |-> ps]
          IN  job' = [job EXCEPT ![j] = row] /\ chart' = ChartWithJob(c, row)
    BY <1>4 DEF CreateJob
  <2>2. [owner |-> u, group |-> g, permissions |-> Default, projects |-> ps] \in WorkRow
    BY NewWorkRow, NameAssumption
  <2>3. /\ job' \in [JobId -> WorkRow \cup {NoRow}]
        /\ chart' \in [Chart -> WorkRow \cup {NoRow}]
    BY <2>1, <2>2 DEF ChartWithJob
  <2>4. runs' \in [JobId -> Chart \cup {NoRow}] /\ borrowed' \subseteq JobId
    BY <1>4 DEF CreateJob
  <2> QED
    BY <1>4, <2>3, <2>4 DEF CreateJob, accounts, specials
<1>5. ASSUME NEW p \in ProjectId, NEW permissions \in OtherPermissions,
             ChangePermissions(p, permissions)
      PROVE  TypeOK'
  <2>1. [project[p] EXCEPT !.permissions = permissions] \in ProjectRow
    BY <1>5, PermissionAssumption DEF ChangePermissions, ProjectRow
  <2>2. project' \in [ProjectId -> ProjectRow \cup {NoRow}]
    BY <1>5, <2>1 DEF ChangePermissions
  <2>3. changes' \in 0 .. MaxChanges
    BY <1>5, PermissionAssumption DEF ChangePermissions, Change
  <2> QED
    BY <1>5, <2>2, <2>3 DEF ChangePermissions, accounts, specials
<1>6. ASSUME NEW u \in User, NEW p \in ProjectId, NEW ops \in Grants, GrantUser(u, p, ops)
      PROVE  TypeOK'
  <2>1. forUsers' \subseteq Association(User) /\ KeysAreUnique(forUsers')
    BY <1>6, GrantKeepsKeys, PermissionAssumption DEF GrantUser
  <2>2. changes' \in 0 .. MaxChanges
    BY <1>6, PermissionAssumption DEF GrantUser, Change
  <2> QED
    BY <1>6, <2>1, <2>2 DEF GrantUser, accounts, work, KeysAreUnique
<1>7. ASSUME NEW g \in Group, NEW p \in ProjectId, NEW ops \in Grants, GrantGroup(g, p, ops)
      PROVE  TypeOK'
  <2>1. forGroups' \subseteq Association(Group) /\ KeysAreUnique(forGroups')
    BY <1>7, GrantKeepsKeys, PermissionAssumption DEF GrantGroup
  <2>2. changes' \in 0 .. MaxChanges
    BY <1>7, PermissionAssumption DEF GrantGroup, Change
  <2> QED
    BY <1>7, <2>1, <2>2 DEF GrantGroup, accounts, work, KeysAreUnique
<1>8. CASE UNCHANGED vars
  BY <1>8 DEF vars, accounts, work, specials, KeysAreUnique
<1> QED
  BY <1>1, <1>2, <1>3, <1>4, <1>5, <1>6, <1>7, <1>8 DEF Next

\* Every variable keeps its type, and the association tables their primary keys.
THEOREM TypeCorrect == Spec => []TypeOK
BY TypeAtFirst, TypeStays, PTL DEF Spec

-----------------------------------------------------------------------------
(* Groups                                                                  *)

\* Making an account or a group leaves nobody without a group.
LEMMA GroupsStay == TypeOK /\ EveryoneHasAGroup /\ [Next]_vars => EveryoneHasAGroup'
<1> SUFFICES ASSUME TypeOK, EveryoneHasAGroup, [Next]_vars PROVE EveryoneHasAGroup'
  OBVIOUS
<1> USE DEF TypeOK, EveryoneHasAGroup
<1>1. ASSUME NEW u \in User, NEW named \in Named, NEW admin \in BOOLEAN,
             CreateUser(u, named, admin)
      PROVE  EveryoneHasAGroup'
  BY <1>1 DEF CreateUser
<1>2. ASSUME NEW g \in Group, NEW us \in SUBSET Actor, CreateGroup(g, us)
      PROVE  EveryoneHasAGroup'
  BY <1>2 DEF CreateGroup
<1>3. ASSUME UNCHANGED <<users, member>> PROVE EveryoneHasAGroup'
  BY <1>3
<1> QED
  BY <1>1, <1>2, <1>3 DEF Next, vars, accounts, CreateProject, CreateJob,
     ChangePermissions, GrantUser, GrantGroup

\* Every account has a group, so that owner.groups[0] is there (models.py:910).
THEOREM GroupsForAll == Spec => []EveryoneHasAGroup
<1>1. Init => EveryoneHasAGroup
  BY NameAssumption DEF Init, EveryoneHasAGroup
<1> QED
  BY <1>1, TypeCorrect, GroupsStay, PTL DEF Spec

-----------------------------------------------------------------------------
(* The two ways to decide                                                  *)

\* Permissions in the columns of a row mean the same to both.
LEMMA ColumnsAgree ==
  ASSUME NEW u, NEW op, NEW row
  PROVE  AllowedByColumns(u, op, row) <=> ByColumns(row, u, op)
BY DEF AllowedByColumns, ByColumns

\* The query holds the rows that allowed() passes, and of projects only those.
THEOREM QueriesAgree == Spec => []QueryAgreesWithCheck
<1>1. QueryAgreesWithCheck
  <2> SUFFICES ASSUME NEW u \in users, NEW op \in Op
               PROVE  /\ \A p \in Existing(project) :
                            p \in Projects(u, op) <=> AllowedProject(u, op, p)
                      /\ \A j \in Existing(job) :
                            AllowedWork(u, op, job[j]) => j \in Work(job, u, op)
                      /\ \A c \in Existing(chart) :
                            AllowedWork(u, op, chart[c]) => c \in Work(chart, u, op)
    BY DEF QueryAgreesWithCheck
  <2>1. ASSUME NEW p \in Existing(project)
        PROVE  p \in Projects(u, op) <=> AllowedProject(u, op, p)
    <3>1. p \in SpecialProjects(u, op) <=>
            \/ \E a \in forUsers : a.resource = p /\ a.entity = u /\ op \in a.permissions
            \/ \E a \in forGroups :
                  a.resource = p /\ a.entity \in GroupsOf(u) /\ op \in a.permissions
      BY DEF SpecialProjects
    <3> QED
      BY <3>1, ColumnsAgree DEF Projects, AllowedProject
  <2>2. ASSUME NEW j \in Existing(job), AllowedWork(u, op, job[j])
        PROVE  j \in Work(job, u, op)
    BY <2>2, ColumnsAgree DEF AllowedWork, Work
  <2>3. ASSUME NEW c \in Existing(chart), AllowedWork(u, op, chart[c])
        PROVE  c \in Work(chart, u, op)
    BY <2>3, ColumnsAgree DEF AllowedWork, Work
  <2> QED
    BY <2>1, <2>2, <2>3
<1> QED
  BY <1>1, PTL

-----------------------------------------------------------------------------
(* What rows refer to                                                      *)

\* Groups and projects that rows name are there.
RowRefers(row) == row.group \in groups /\ row.projects \subseteq Existing(project)

\* A flowchart that came with a job is in the projects of the job.
ChartRefers(j) ==
    /\ runs[j] \in Existing(chart)
    /\ j \notin borrowed => job[j].projects \subseteq chart[runs[j]].projects

RowsRefer ==
    /\ \A p \in Existing(project) : project[p].group \in groups
    /\ \A j \in Existing(job) : RowRefers(job[j]) /\ ChartRefers(j)
    /\ \A c \in Existing(chart) : RowRefers(chart[c])
    /\ \A a \in forGroups : a.entity \in groups

\* A row keeps what it refers to, as groups and projects stay.
LEMMA RefersLasts ==
  ASSUME NEW r, groups \subseteq groups', Existing(project) \subseteq Existing(project)',
         RowRefers(r)
  PROVE  RowRefers(r)'
BY DEF RowRefers

\* The groups, projects and flowcharts that rows refer to at first are there.
LEMMA RefersAtFirst == Init => RowsRefer
BY DEF Init, RowsRefer, Existing

\* Steps that leave jobs and flowcharts alone, and lose no group or project.
LEMMA QuietRefers ==
  ASSUME RowsRefer, UNCHANGED <<job, runs, chart, borrowed>>,
         groups \subseteq groups', Existing(project) \subseteq Existing(project)',
         \A p \in Existing(project)' : project'[p].group \in groups',
         \A a \in forGroups' : a.entity \in groups'
  PROVE  RowsRefer'
<1>1. ASSUME NEW j \in Existing(job)
      PROVE  RowRefers(job[j])' /\ ChartRefers(j)'
  <2>1. PICK r : r = job[j]
    OBVIOUS
  <2>2. RowRefers(r)'
    BY <2>1, RefersLasts DEF RowsRefer
  <2> QED
    BY <2>1, <2>2 DEF RowsRefer, ChartRefers, Existing, RowRefers
<1>2. ASSUME NEW c \in Existing(chart)
      PROVE  RowRefers(chart[c])'
  <2>1. PICK r : r = chart[c]
    OBVIOUS
  <2>2. RowRefers(r)'
    BY <2>1, RefersLasts DEF RowsRefer
  <2> QED
    BY <2>1, <2>2 DEF RowRefers
<1>3. Existing(job)' = Existing(job) /\ Existing(chart)' = Existing(chart)
  BY DEF Existing
<1> QED
  BY <1>1, <1>2, <1>3 DEF RowsRefer

\* A job is made in projects that are there, with a group of its creator, and so is the
\* flowchart that comes with it.
LEMMA CreateJobRefers ==
  ASSUME TypeOK, RowsRefer, NEW u \in Actor, NEW j \in JobId, NEW c \in Chart,
         NEW ps \in SUBSET ProjectId, CreateJob(u, j, c, ps)
  PROVE  RowsRefer'
<1> USE DEF TypeOK
<1>0. NoRow \notin WorkRow
  BY RowAssumption
<1>1. PICK g \in member[u] :
        LET row == [owner |-> u, group |-> g, permissions |-> Default, projects |-> ps]
        IN  job' = [job EXCEPT ![j] = row] /\ chart' = ChartWithJob(c, row)
  BY DEF CreateJob
<1>2. PICK row : row = [owner |-> u, group |-> g, permissions |-> Default, projects |-> ps]
  OBVIOUS
<1>3. row \in WorkRow /\ row # NoRow
  BY <1>0, <1>2, NewWorkRow, NameAssumption
<1>4. ps \subseteq Existing(project)
  BY DEF CreateJob, Projects
<1>5. UNCHANGED <<groups, project, forGroups>>
  BY DEF CreateJob, accounts, specials
<1>6. \A r : RowRefers(r)' <=> RowRefers(r)
  BY <1>5 DEF RowRefers, Existing
<1>7. RowRefers(row)
  BY <1>2, <1>4, NameAssumption DEF RowRefers
<1>8. job' = [job EXCEPT ![j] = row] /\ chart' = [chart EXCEPT ![c] = IF @ = NoRow THEN row ELSE @]
  BY <1>1, <1>2 DEF ChartWithJob
<1>9. \A k \in JobId : job'[k] = IF k = j THEN row ELSE job[k]
  BY <1>8
<1>10. \A d \in Chart : chart'[d] = IF d = c /\ chart[c] = NoRow THEN row ELSE chart[d]
  BY <1>8
<1>11. \A k \in JobId : runs'[k] = IF k = j THEN c ELSE runs[k]
  BY DEF CreateJob
<1>12. borrowed' = IF chart[c] = NoRow THEN borrowed ELSE borrowed \cup {j}
  BY DEF CreateJob
<1>13. DOMAIN job' = JobId /\ DOMAIN chart' = Chart /\ DOMAIN job = JobId /\ DOMAIN chart = Chart
  BY <1>8
<1>14. ASSUME NEW k \in Existing(job)'
       PROVE  RowRefers(job[k])' /\ ChartRefers(k)'
  <2>1. k \in JobId /\ job'[k] # NoRow
    BY <1>13 DEF Existing
  <2>2. CASE k = j
    <3>1. job'[k] = row /\ runs'[k] = c
      BY <2>1, <2>2, <1>9, <1>11
    <3>2. c \in Existing(chart)'
      BY <1>3, <1>10, <1>13 DEF Existing
    <3>3. k \notin borrowed' => chart'[c] = row
      BY <2>2, <1>10, <1>12
    <3>4. RowRefers(job[k])'
      BY <3>1, <1>6, <1>7 DEF RowRefers
    <3> QED
      BY <3>1, <3>2, <3>3, <3>4 DEF ChartRefers
  <2>3. CASE k # j
    <3>1. job'[k] = job[k] /\ runs'[k] = runs[k] /\ k \in Existing(job)
      BY <2>1, <2>3, <1>9, <1>11, <1>13 DEF Existing
    <3>2. RowRefers(job[k]) /\ ChartRefers(k)
      BY <3>1 DEF RowsRefer
    <3>3. PICK d : d = runs[k]
      OBVIOUS
    <3>4. d \in Existing(chart) /\ d \in Chart /\ chart[d] # NoRow
      BY <3>2, <3>3, <1>13 DEF ChartRefers, Existing
    <3>5. chart'[d] = chart[d]
      BY <3>4, <1>10
    <3>6. d \in Existing(chart)'
      BY <3>4, <3>5, <1>13 DEF Existing
    <3>7. k \notin borrowed' => k \notin borrowed
      BY <1>12
    <3>8. ChartRefers(k)'
      BY <3>1, <3>2, <3>3, <3>5, <3>6, <3>7 DEF ChartRefers
    <3>9. RowRefers(job[k])'
      BY <3>1, <3>2, <1>5 DEF RowRefers, Existing
    <3> QED
      BY <3>8, <3>9
  <2> QED
    BY <2>2, <2>3
<1>15. ASSUME NEW d \in Existing(chart)'
       PROVE  RowRefers(chart[d])'
  <2>1. d \in Chart /\ chart'[d] # NoRow
    BY <1>13 DEF Existing
  <2>2. chart'[d] = row \/ (chart'[d] = chart[d] /\ d \in Existing(chart))
    BY <2>1, <1>10, <1>13 DEF Existing
  <2> QED
    BY <2>2, <1>5, <1>7 DEF RowsRefer, RowRefers, Existing
<1> QED
  BY <1>5, <1>14, <1>15 DEF RowsRefer, Existing

\* No step leaves a row with a group or project that is not there, or takes the
\* flowchart of a job out of its projects.
LEMMA RefersStays == TypeOK /\ RowsRefer /\ [Next]_vars => RowsRefer'
<1> SUFFICES ASSUME TypeOK, RowsRefer, [Next]_vars PROVE RowsRefer'
  OBVIOUS
<1> USE DEF TypeOK
<1>1. ASSUME NEW u \in User, NEW named \in Named, NEW admin \in BOOLEAN,
             CreateUser(u, named, admin)
      PROVE  RowsRefer'
  <2>1. groups \subseteq groups' /\ UNCHANGED <<project, job, runs, chart, borrowed, forGroups>>
    BY <1>1 DEF CreateUser, work, specials
  <2> QED
    BY <2>1, QuietRefers DEF RowsRefer, Existing
<1>2. ASSUME NEW g \in Group, NEW us \in SUBSET Actor, CreateGroup(g, us)
      PROVE  RowsRefer'
  <2>1. groups \subseteq groups' /\ UNCHANGED <<project, job, runs, chart, borrowed, forGroups>>
    BY <1>2 DEF CreateGroup, work, specials
  <2> QED
    BY <2>1, QuietRefers DEF RowsRefer, Existing
<1>3. ASSUME NEW u \in Actor, NEW p \in ProjectId, NEW g \in Group, CreateProject(u, p, g)
      PROVE  RowsRefer'
  <2>1. UNCHANGED <<groups, job, runs, chart, borrowed, forGroups>> /\ g \in groups
    BY <1>3 DEF CreateProject, accounts, specials
  <2>2. PICK row : row = [owner |-> u, group |-> g, permissions |-> Default]
    OBVIOUS
  <2>3. row # NoRow
    BY <2>2, NameAssumption, PermissionAssumption, RowAssumption DEF ProjectRow
  <2>4. project' = [project EXCEPT ![p] = row] /\ project[p] = NoRow
    BY <1>3, <2>2 DEF CreateProject
  <2>5. Existing(project) \subseteq Existing(project)'
    BY <2>3, <2>4 DEF Existing
  <2>6. \A q \in Existing(project)' : project'[q].group \in groups'
    BY <2>1, <2>2, <2>4 DEF RowsRefer, Existing
  <2> QED
    BY <2>1, <2>5, <2>6, QuietRefers DEF RowsRefer
<1>4. ASSUME NEW u \in Actor, NEW j \in JobId, NEW c \in Chart, NEW ps \in SUBSET ProjectId,
             CreateJob(u, j, c, ps)
      PROVE  RowsRefer'
  BY <1>4, CreateJobRefers
<1>5. ASSUME NEW p \in ProjectId, NEW permissions \in OtherPermissions,
             ChangePermissions(p, permissions)
      PROVE  RowsRefer'
  <2>1. UNCHANGED <<groups, job, runs, chart, borrowed, forGroups>>
    BY <1>5 DEF ChangePermissions, accounts, specials
  <2>2. PICK row : row = [project[p] EXCEPT !.permissions = permissions]
    OBVIOUS
  <2>3. project[p] \in ProjectRow
    BY <1>5 DEF ChangePermissions
  <2>4. row \in ProjectRow /\ row.group = project[p].group
    BY <2>2, <2>3, PermissionAssumption DEF ProjectRow
  <2>5. project' = [project EXCEPT ![p] = row]
    BY <1>5, <2>2 DEF ChangePermissions
  <2>6. Existing(project)' = Existing(project)
    BY <1>5, <2>4, <2>5, RowAssumption DEF Existing, ChangePermissions
  <2>7. \A q \in Existing(project) : project'[q].group \in groups
    BY <2>4, <2>5 DEF RowsRefer, Existing
  <2> QED
    BY <2>1, <2>6, <2>7, QuietRefers DEF RowsRefer
<1>6. ASSUME NEW u \in User, NEW p \in ProjectId, NEW ops \in Grants, GrantUser(u, p, ops)
      PROVE  RowsRefer'
  <2>1. UNCHANGED <<groups, project, job, runs, chart, borrowed, forGroups>>
    BY <1>6 DEF GrantUser, accounts, work
  <2> QED
    BY <2>1, QuietRefers DEF RowsRefer, Existing
<1>7. ASSUME NEW g \in Group, NEW p \in ProjectId, NEW ops \in Grants, GrantGroup(g, p, ops)
      PROVE  RowsRefer'
  <2>1. UNCHANGED <<groups, project, job, runs, chart, borrowed>>
    BY <1>7 DEF GrantGroup, accounts, work
  <2>2. \A a \in forGroups' : a.entity \in groups
    BY <1>7 DEF GrantGroup, GrantTo, RowsRefer
  <2> QED
    BY <2>1, <2>2, QuietRefers DEF RowsRefer, Existing
<1>8. CASE UNCHANGED vars
  BY <1>8, QuietRefers DEF vars, accounts, work, specials, RowsRefer, Existing
<1> QED
  BY <1>1, <1>2, <1>3, <1>4, <1>5, <1>6, <1>7, <1>8 DEF Next

\* Groups, projects and flowcharts that rows refer to are there.
LEMMA Refers == Spec => [](TypeOK /\ RowsRefer)
BY TypeAtFirst, TypeStays, RefersAtFirst, RefersStays, PTL DEF Spec

-----------------------------------------------------------------------------
(* Readers of a project                                                    *)

\* Who may read a project may read its jobs and the flowcharts that came with them.
THEOREM ReadersReach == Spec => []ReadersReachTheWork
<1>1. TypeOK /\ RowsRefer => ReadersReachTheWork
  <2> SUFFICES ASSUME TypeOK, RowsRefer, NEW u \in users \cup {Nobody},
                      NEW j \in Existing(job),
                      job[j].projects \cap Projects(u, "read") # {}
               PROVE  /\ j \in Work(job, u, "read")
                      /\ j \notin borrowed => runs[j] \in Work(chart, u, "read")
    BY DEF ReadersReachTheWork
  <2>1. j \in Work(job, u, "read")
    BY DEF Work
  <2>2. ASSUME j \notin borrowed PROVE runs[j] \in Work(chart, u, "read")
    <3>1. runs[j] \in Existing(chart) /\ job[j].projects \subseteq chart[runs[j]].projects
      BY <2>2 DEF RowsRefer, ChartRefers
    <3> QED
      BY <3>1 DEF Work
  <2> QED
    BY <2>1, <2>2
<1> QED
  BY <1>1, Refers, PTL

-----------------------------------------------------------------------------
(* Creations grant nothing                                                 *)

\* What creations have in common, for a user who was there, or nobody.
CreationFor(u) ==
    /\ u \in admins' <=> u \in admins
    /\ GroupsOf(u)' \cap groups = GroupsOf(u)
    /\ UNCHANGED <<forUsers, forGroups>>
    /\ \A p \in Existing(project) : p \in Existing(project)' /\ project'[p] = project[p]
    /\ \A j \in Existing(job) : j \in Existing(job)' /\ job'[j] = job[j]
    /\ \A c \in Existing(chart) : c \in Existing(chart)' /\ chart'[c] = chart[c]

\* The columns of a row that is there mean what they meant.
LEMMA ColumnsStay ==
  ASSUME NEW u, NEW op, NEW row, row.group \in groups, CreationFor(u)
  PROVE  ByColumns(row, u, op)' <=> ByColumns(row, u, op)
BY DEF ByColumns, CreationFor

\* What the user may do with projects that are there stays.
LEMMA ProjectsStay ==
  ASSUME TypeOK, RowsRefer, NEW u, NEW op, CreationFor(u)
  PROVE  Projects(u, op) = Projects(u, op)' \cap Existing(project)
<1>1. SpecialProjects(u, op)' = SpecialProjects(u, op)
  <2>1. \A x \in forGroups : x.entity \in GroupsOf(u)' <=> x.entity \in GroupsOf(u)
    BY DEF CreationFor, RowsRefer
  <2> QED
    BY <2>1 DEF SpecialProjects, CreationFor
<1>2. ASSUME NEW p \in Existing(project)
      PROVE  p \in Projects(u, op)' <=> p \in Projects(u, op)
  <2>1. PICK row : row = project[p]
    OBVIOUS
  <2>2. row.group \in groups
    BY <2>1 DEF RowsRefer
  <2>3. ByColumns(row, u, op)' <=> ByColumns(row, u, op)
    BY <2>2, ColumnsStay
  <2>4. project'[p] = row /\ p \in Existing(project)'
    BY <2>1 DEF CreationFor
  <2>5. ByColumns(project[p], u, op)' <=> ByColumns(project[p], u, op)
    BY <2>1, <2>3, <2>4 DEF ByColumns
  <2> QED
    BY <1>1, <2>4, <2>5 DEF Projects, CreationFor
<1>3. Projects(u, op) \subseteq Existing(project)
  BY DEF Projects
<1> QED
  BY <1>2, <1>3

\* What the user may do with jobs and flowcharts that are there stays.
LEMMA WorkStays ==
  ASSUME TypeOK, RowsRefer, NEW u, NEW op, CreationFor(u)
  PROVE  /\ Work(job, u, op) = Work(job, u, op)' \cap Existing(job)
         /\ Work(chart, u, op) = Work(chart, u, op)' \cap Existing(chart)
<1>0. \A p \in Existing(project) : p \in Projects(u, op)' <=> p \in Projects(u, op)
  BY ProjectsStay
<1>1. ASSUME NEW row, RowRefers(row)
      PROVE  (\/ u \in admins \/ ByColumns(row, u, op)
              \/ \E p \in row.projects : p \in Projects(u, op))'
             <=>
             (\/ u \in admins \/ ByColumns(row, u, op)
              \/ \E p \in row.projects : p \in Projects(u, op))
  BY <1>0, <1>1, ColumnsStay DEF RowRefers, CreationFor
<1>2. ASSUME NEW j \in Existing(job)
      PROVE  j \in Work(job, u, op)' <=> j \in Work(job, u, op)
  <2>1. PICK row : row = job[j]
    OBVIOUS
  <2>2. RowRefers(row)
    BY <2>1 DEF RowsRefer
  <2>3. job'[j] = row /\ j \in Existing(job)'
    BY <2>1 DEF CreationFor
  <2> QED
    BY <1>1, <2>1, <2>2, <2>3 DEF Work, ByColumns
<1>3. ASSUME NEW c \in Existing(chart)
      PROVE  c \in Work(chart, u, op)' <=> c \in Work(chart, u, op)
  <2>1. PICK row : row = chart[c]
    OBVIOUS
  <2>2. RowRefers(row)
    BY <2>1 DEF RowsRefer
  <2>3. chart'[c] = row /\ c \in Existing(chart)'
    BY <2>1 DEF CreationFor
  <2> QED
    BY <1>1, <2>1, <2>2, <2>3 DEF Work, ByColumns
<1>4. Work(job, u, op) \subseteq Existing(job) /\ Work(chart, u, op) \subseteq Existing(chart)
  BY DEF Work
<1> QED
  BY <1>2, <1>3, <1>4

\* Every step that changes no permissions is such a creation, or nothing.
LEMMA CreationsAre ==
  ASSUME TypeOK, [Next]_vars, changes' = changes, NEW u \in users \cup {Nobody}
  PROVE  CreationFor(u)
<1> USE DEF TypeOK
<1>0. Nobody \notin User
  BY NameAssumption
<1>1. ASSUME NEW v \in User, NEW named \in Named, NEW admin \in BOOLEAN,
             CreateUser(v, named, admin)
      PROVE  CreationFor(u)
  <2>1. v # u
    BY <1>0, <1>1 DEF CreateUser
  <2>2. GroupsOf(u)' = GroupsOf(u)
    BY <1>0, <1>1, <2>1 DEF CreateUser, GroupsOf
  <2>3. GroupsOf(u) \subseteq groups
    BY DEF GroupsOf
  <2> QED
    BY <1>1, <2>1, <2>2, <2>3 DEF CreateUser, CreationFor, work, specials, Existing
<1>2. ASSUME NEW g \in Group, NEW us \in SUBSET Actor, CreateGroup(g, us)
      PROVE  CreationFor(u)
  <2>1. GroupsOf(u)' \cap groups = GroupsOf(u)
    BY <1>0, <1>2 DEF CreateGroup, GroupsOf
  <2> QED
    BY <1>2, <2>1 DEF CreateGroup, CreationFor, work, specials, Existing
<1>3. ASSUME NEW v \in Actor, NEW p \in ProjectId, NEW g \in Group, CreateProject(v, p, g)
      PROVE  CreationFor(u)
  <2>1. GroupsOf(u)' = GroupsOf(u) /\ GroupsOf(u) \subseteq groups
    BY <1>3 DEF CreateProject, accounts, GroupsOf
  <2>2. \A q \in Existing(project) : q \in Existing(project)' /\ project'[q] = project[q]
    BY <1>3 DEF CreateProject, Existing
  <2> QED
    BY <1>3, <2>1, <2>2 DEF CreateProject, CreationFor, accounts, specials, Existing
<1>4. ASSUME NEW v \in Actor, NEW j \in JobId, NEW c \in Chart, NEW ps \in SUBSET ProjectId,
             CreateJob(v, j, c, ps)
      PROVE  CreationFor(u)
  <2>1. GroupsOf(u)' = GroupsOf(u) /\ GroupsOf(u) \subseteq groups
    BY <1>4 DEF CreateJob, accounts, GroupsOf
  <2>2. PICK row : job' = [job EXCEPT ![j] = row] /\ chart' = ChartWithJob(c, row)
    BY <1>4 DEF CreateJob
  <2>3. \A k \in Existing(job) : k \in Existing(job)' /\ job'[k] = job[k]
    BY <1>4, <2>2 DEF CreateJob, Existing
  <2>4. \A d \in Existing(chart) : d \in Existing(chart)' /\ chart'[d] = chart[d]
    BY <2>2 DEF ChartWithJob, Existing
  <2> QED
    BY <1>4, <2>1, <2>3, <2>4 DEF CreateJob, CreationFor, accounts, specials, Existing
<1>5. ASSUME Change PROVE FALSE
  BY <1>5, PermissionAssumption DEF Change
<1>6. CASE UNCHANGED vars
  <2>1. GroupsOf(u)' = GroupsOf(u) /\ GroupsOf(u) \subseteq groups
    BY <1>6 DEF vars, accounts, GroupsOf
  <2> QED
    BY <1>6, <2>1 DEF vars, accounts, work, specials, CreationFor, Existing
<1> QED
  BY <1>1, <1>2, <1>3, <1>4, <1>5, <1>6
     DEF Next, ChangePermissions, GrantUser, GrantGroup

\* No new account, group, project or job changes what those who are there may do with
\* what is there.
THEOREM CreationsAreHarmless == Spec => CreationsGrantNothing
<1>1. ASSUME TypeOK, RowsRefer, [Next]_vars
      PROVE  [changes' = changes =>
                \A u \in users \cup {Nobody}, op \in Op :
                   /\ Projects(u, op) = Projects(u, op)' \cap Existing(project)
                   /\ Work(job, u, op) = Work(job, u, op)' \cap Existing(job)
                   /\ Work(chart, u, op) = Work(chart, u, op)' \cap Existing(chart)]_vars
  BY <1>1, CreationsAre, ProjectsStay, WorkStays
<1> QED
  BY <1>1, Refers, PTL DEF Spec, CreationsGrantNothing

=============================================================================
