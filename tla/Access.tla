------------------------------- MODULE Access -------------------------------
(***************************************************************************)
(* Accounts, groups, and who may do what (database/models.py: User, Group, *)
(* Resource, Project; flask_authorize_patch.py).                           *)
(*                                                                         *)
(* The same question is answered twice.  Queries filter by authorized(),   *)
(* which Resource.permissions_query widens by what is allowed on projects; *)
(* allowed() looks at one object.  Rows have an owner, a group and         *)
(* permissions for the two and for others; projects have association       *)
(* tables as well, with permissions of single users and groups.            *)
(*                                                                         *)
(* A call that raises has changed nothing once its session_scope is left,  *)
(* and is no step; so is one that loses to a unique constraint.            *)
(***************************************************************************)
EXTENDS Naturals

CONSTANTS User, Group,             \* names; an account may have a group of its name
          Nobody,                  \* CURRENT_USER() is None
          NoRow,
          Admin, AdminGroup,       \* what _build_initial makes
          Founder, FounderGroup, DefaultProject,
          ProjectId, JobId,
          Chart,                   \* flowcharts, by their digest
          Op,                      \* "read", "update"
          Default,                 \* AUTHORIZE_DEFAULT_PERMISSIONS
          OtherPermissions,        \* those an administrator may put in their place
          Grants,                  \* the sets of operations granted to single entities
          Actor,                   \* bound: users who make rows, or join a new group
          Named,                   \* bound: the groups an account may be made with
          MaxChanges               \* bound: how often permissions are changed

Permissions == [{"owner", "group", "other"} -> SUBSET Op]

ProjectRow == [owner : User, group : Group, permissions : Permissions]
WorkRow == [owner : User, group : Group, permissions : Permissions,
            projects : SUBSET ProjectId]         \* a job or a flowchart

ASSUME NameAssumption ==
    /\ User \ {Admin, Founder} \subseteq Group /\ Nobody \notin User
    /\ {Admin, Founder} \subseteq User /\ Actor \subseteq User
    /\ Named \subseteq SUBSET Group
    /\ {AdminGroup, FounderGroup} \subseteq Group
ASSUME RowAssumption ==
    /\ NoRow \notin ProjectRow /\ NoRow \notin WorkRow
    /\ DefaultProject \in ProjectId
ASSUME PermissionAssumption ==
    /\ Default \in Permissions /\ OtherPermissions \subseteq Permissions
    /\ Grants \subseteq SUBSET Op /\ MaxChanges \in Nat

VARIABLES users, admins, groups,   \* the accounts, those with the role admin, the groups
          member,                  \* user_group: the groups of an account
          project,                 \* the projects, or NoRow
          job, runs,               \* the jobs, or NoRow, and the flowchart of each
          chart,                   \* the flowcharts, or NoRow
          forUsers, forGroups,     \* users_projects_association, groups_...
          changes,                 \* how often permissions were changed
          borrowed                 \* the jobs whose flowchart was there before them

accounts == <<users, admins, groups, member>>
work == <<project, job, runs, chart, borrowed>>
specials == <<forUsers, forGroups>>
vars == <<accounts, work, specials, changes>>

Association(Entity) == [entity : Entity, resource : ProjectId, permissions : SUBSET Op]

\* entity and resource are the primary key.
KeysAreUnique(rows) ==
    \A a, b \in rows : a.entity = b.entity /\ a.resource = b.resource => a = b

TypeOK ==
    /\ {Admin, Founder} \subseteq users /\ users \subseteq User
    /\ admins \subseteq users /\ groups \subseteq Group
    /\ member \in [User -> SUBSET groups]
    /\ project \in [ProjectId -> ProjectRow \cup {NoRow}]
    /\ job \in [JobId -> WorkRow \cup {NoRow}]
    /\ chart \in [Chart -> WorkRow \cup {NoRow}]
    /\ runs \in [JobId -> Chart \cup {NoRow}]
    /\ borrowed \subseteq JobId
    /\ forUsers \subseteq Association(User) /\ KeysAreUnique(forUsers)
    /\ forGroups \subseteq Association(Group) /\ KeysAreUnique(forGroups)
    /\ changes \in 0 .. MaxChanges

Init ==
    /\ users = {Admin, Founder} /\ admins = {Admin, Founder}
    /\ groups = {AdminGroup, FounderGroup}
    /\ member = [u \in User |-> CASE u = Admin -> {AdminGroup, FounderGroup}
                                  [] u = Founder /\ u # Admin -> {FounderGroup}
                                  [] OTHER -> {}]
    /\ project = [p \in ProjectId |->
                     IF p = DefaultProject
                     THEN [owner |-> Founder, group |-> FounderGroup,
                           permissions |-> Default]
                     ELSE NoRow]
    /\ job = [j \in JobId |-> NoRow] /\ runs = [j \in JobId |-> NoRow]
    /\ chart = [c \in Chart |-> NoRow]
    /\ forUsers = {} /\ forGroups = {}
    /\ changes = 0 /\ borrowed = {}

Existing(table) == {r \in DOMAIN table : table[r] # NoRow}

GroupsOf(u) == IF u \in users THEN member[u] ELSE {}

-----------------------------------------------------------------------------
(* authorized(check) and permissions_query                                 *)

\* PermissionsMixin.authorized, on the columns of a row.
ByColumns(row, u, op) ==
    \/ op \in row.permissions["other"]
    \/ u = row.owner /\ op \in row.permissions["owner"]
    \/ row.group \in GroupsOf(u) /\ op \in row.permissions["group"]

\* Variant the runs refute: permissions of groups are forgotten.
SpecialOfUser(u, op) ==
    {a.resource : a \in {x \in forUsers : x.entity = u /\ op \in x.permissions}}

\* The ids that a user's associations, and those of the user's groups, give.
SpecialProjects(u, op) ==
    {a.resource : a \in {x \in forUsers : x.entity = u /\ op \in x.permissions}}
      \cup
    {a.resource : a \in {x \in forGroups :
                            x.entity \in GroupsOf(u) /\ op \in x.permissions}}

\* Project.permissions_query.
Projects(u, op) ==
    {p \in Existing(project) :
        u \in admins \/ ByColumns(project[p], u, op) \/ p \in SpecialProjects(u, op)}

\* Variant the runs refute: the projects count for nothing.
WorkByColumns(table, u, op) ==
    {r \in Existing(table) : u \in admins \/ ByColumns(table[r], u, op)}

\* Resource.permissions_query, for jobs and flowcharts: also through any project.
Work(table, u, op) ==
    {r \in Existing(table) :
        \/ u \in admins \/ ByColumns(table[r], u, op)
        \/ \E p \in table[r].projects : p \in Projects(u, op)}

-----------------------------------------------------------------------------
(* allowed(): one permission, one object, user = current_user              *)

AllowedByColumns(u, op, row) ==
    LET others == op \in row.permissions["other"]
        owner == IF row.owner = u THEN op \in row.permissions["owner"] ELSE FALSE
        group == IF row.group \in GroupsOf(u) THEN op \in row.permissions["group"]
                 ELSE FALSE
    IN  others \/ owner \/ group

AllowedProject(u, op, p) ==
    \/ u \in admins
    \/ AllowedByColumns(u, op, project[p])
    \/ \E a \in forUsers : a.resource = p /\ a.entity = u /\ op \in a.permissions
    \/ \E a \in forGroups :
          a.resource = p /\ a.entity \in GroupsOf(u) /\ op \in a.permissions

\* Jobs and flowcharts have no association tables, and their projects are not asked.
AllowedWork(u, op, row) == u \in admins \/ AllowedByColumns(u, op, row)

-----------------------------------------------------------------------------
(* Accounts                                                                *)

\* Variant the runs refute: the user's own group is left to its administrator.
CreateUserAlone(u, named, admin) ==
    /\ u \notin users /\ named \subseteq groups
    /\ groups' = groups
    /\ member' = [member EXCEPT ![u] = named]
    /\ users' = users \cup {u}
    /\ admins' = IF admin THEN admins \cup {u} ELSE admins
    /\ UNCHANGED <<work, specials, changes>>

\* Variant the runs refute: the user's own group is left to be stored by others.
CreateUserOnly(u, named, admin) ==
    /\ u \notin users /\ named \subseteq groups
    /\ groups' = groups
    /\ member' = [member EXCEPT ![u] = IF named = {} THEN {u} ELSE named]
    /\ users' = users \cup {u}
    /\ admins' = IF admin THEN admins \cup {u} ELSE admins
    /\ UNCHANGED <<work, specials, changes>>

\* User.create and its commit: without groups the user gets one of the same name, which
\* Group.create makes or refuses.
CreateUser(u, named, admin) ==
    /\ u \notin users
    /\ \/ /\ named = {} /\ u \notin groups
          /\ groups' = groups \cup {u}
          /\ member' = [member EXCEPT ![u] = {u}]
       \/ /\ named # {} /\ named \subseteq groups
          /\ groups' = groups
          /\ member' = [member EXCEPT ![u] = named]
    /\ users' = users \cup {u}
    /\ admins' = IF admin THEN admins \cup {u} ELSE admins
    /\ UNCHANGED <<work, specials, changes>>

\* Group.create with the names of its users.
CreateGroup(g, us) ==
    /\ g \notin groups /\ us \subseteq users
    /\ groups' = groups \cup {g}
    /\ member' = [u \in User |-> IF u \in us THEN member[u] \cup {g} ELSE member[u]]
    /\ UNCHANGED <<users, admins, work, specials, changes>>

-----------------------------------------------------------------------------
(* Projects, jobs and flowcharts                                           *)

\* Project.create: the group is the user's first, or one given by name.
CreateProject(u, p, g) ==
    /\ u \in users
    /\ project[p] = NoRow
    /\ g \in groups
    /\ project' = [project EXCEPT ![p] =
                      [owner |-> u, group |-> g, permissions |-> Default]]
    /\ UNCHANGED <<accounts, job, runs, chart, borrowed, specials, changes>>

\* Variant the runs refute: a flowchart that is there joins the projects of the job.
ChartWithJobAlways(c, row) ==
    [chart EXCEPT ![c] = IF @ = NoRow THEN row
                         ELSE [@ EXCEPT !.projects = @ \cup row.projects]]

\* get_or_create_from_file: only a new flowchart is put into the projects.
ChartWithJob(c, row) == [chart EXCEPT ![c] = IF @ = NoRow THEN row ELSE @]

\* Job.create, by a user who is logged in and may update every project.  The columns
\* owner and group of the job and a new flowchart default to the user and a group of his.
CreateJob(u, j, c, ps) ==
    /\ u \in users
    /\ job[j] = NoRow
    /\ ps # {} /\ ps \subseteq Projects(u, "update")
    /\ \E g \in member[u] :
          LET row == [owner |-> u, group |-> g, permissions |-> Default, projects |-> ps]
          IN  /\ job' = [job EXCEPT ![j] = row]
              /\ chart' = ChartWithJob(c, row)
    /\ runs' = [runs EXCEPT ![j] = c]
    /\ borrowed' = IF chart[c] = NoRow THEN borrowed ELSE borrowed \cup {j}
    /\ UNCHANGED <<accounts, project, specials, changes>>

-----------------------------------------------------------------------------
(* Permissions are changed from outside: the code here only reads them     *)

Change ==
    /\ changes < MaxChanges
    /\ changes' = changes + 1

ChangePermissions(p, permissions) ==
    /\ Change
    /\ project[p] # NoRow
    /\ project' = [project EXCEPT ![p].permissions = permissions]
    /\ UNCHANGED <<accounts, job, runs, chart, borrowed, specials>>

GrantTo(rows, entity, p, ops) ==
    {a \in rows : a.entity # entity \/ a.resource # p}
      \cup {[entity |-> entity, resource |-> p, permissions |-> ops]}

GrantUser(u, p, ops) ==
    /\ Change
    /\ u \in users /\ project[p] # NoRow
    /\ forUsers' = GrantTo(forUsers, u, p, ops)
    /\ UNCHANGED <<accounts, work, forGroups>>

GrantGroup(g, p, ops) ==
    /\ Change
    /\ g \in groups /\ project[p] # NoRow
    /\ forGroups' = GrantTo(forGroups, g, p, ops)
    /\ UNCHANGED <<accounts, work, forUsers>>

Next ==
    \/ \E u \in User, named \in Named, admin \in BOOLEAN :
          CreateUser(u, named, admin)
    \/ \E g \in Group, us \in SUBSET Actor : CreateGroup(g, us)
    \/ \E u \in Actor, p \in ProjectId, g \in Group : CreateProject(u, p, g)
    \/ \E u \in Actor, j \in JobId, c \in Chart, ps \in SUBSET ProjectId :
          CreateJob(u, j, c, ps)
    \/ \E p \in ProjectId, permissions \in OtherPermissions :
          ChangePermissions(p, permissions)
    \/ \E u \in User, p \in ProjectId, ops \in Grants : GrantUser(u, p, ops)
    \/ \E g \in Group, p \in ProjectId, ops \in Grants : GrantGroup(g, p, ops)

Spec == Init /\ [][Next]_vars

-----------------------------------------------------------------------------
(* Properties                                                              *)

\* For a user who is logged in, a project is in the query for an operation exactly if
\* allowed() allows the operation on it; a job or flowchart that allowed() passes is in
\* the query, which may hold more (models.py:256, flask_authorize_patch.py:145).
QueryAgreesWithCheck ==
    \A u \in users, op \in Op :
        /\ \A p \in Existing(project) : p \in Projects(u, op) <=> AllowedProject(u, op, p)
        /\ \A j \in Existing(job) :
              AllowedWork(u, op, job[j]) => j \in Work(job, u, op)
        /\ \A c \in Existing(chart) :
              AllowedWork(u, op, chart[c]) => c \in Work(chart, u, op)

\* Everybody has a group, however the account was made: owner.groups[0] in Project.create
\* and the default group of what a user makes are there (models.py:175-181, 910).
EveryoneHasAGroup == \A u \in users : member[u] # {}

\* Who may read a project may read its jobs, and the flowcharts that came with them; one
\* that was there before is not put into the projects of a later job, and stays with
\* those of the first (models.py:388, 724, 257).
ReadersReachTheWork ==
    \A u \in users \cup {Nobody}, j \in Existing(job) :
        job[j].projects \cap Projects(u, "read") # {} =>
            /\ j \in Work(job, u, "read")
            /\ j \notin borrowed => runs[j] \in Work(chart, u, "read")

\* No new account, group, project or job changes what those who are there may do with
\* what is there: access changes only with permissions (models.py:126-235, 439-476, 690).
CreationsGrantNothing ==
    [][changes' = changes =>
          \A u \in users \cup {Nobody}, op \in Op :
              /\ Projects(u, op) = Projects(u, op)' \cap Existing(project)
              /\ Work(job, u, op) = Work(job, u, op)' \cap Existing(job)
              /\ Work(chart, u, op) = Work(chart, u, op)' \cap Existing(chart)]_vars

=============================================================================
