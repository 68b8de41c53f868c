------------------------------ MODULE MCRebuild ------------------------------
(* Instances of Rebuild small enough for TLC.                               *)
EXTENDS Rebuild

CONSTANTS admin, me, other, mine, default, water, open, closed

MCAccount == {admin, me, other, mine}
MCProjectName == {default, water}
MCPerms == {open, closed}

Dir(n, g) == [name |-> n, group |-> g]
JobDir(j, d, lists, holds) == [id |-> j, dir |-> d, lists |-> lists, holds |-> holds]

\* A job in the default project and one that lists a project without a directory; a
\* directory whose group the accounts may not know, with a job that lists nothing; and
\* jobs whose data or flowchart cannot be read.
MCDisks ==
    LET a == Dir(default, mine)
        b == Dir(water, other)
    IN  {[dirs |-> {a},
           jobs |-> {JobDir(1, a, {default}, "job"), JobDir(2, a, {water}, "job")}],
         [dirs |-> {a, b},
           jobs |-> {JobDir(1, b, {default, water}, "job"), JobDir(2, b, {}, "job")}],
         [dirs |-> {a},
           jobs |-> {JobDir(1, a, {default}, "no data"),
                     JobDir(2, a, {water}, "no flowchart")}]}

User(id, name, adm, groups) ==
    [id |-> id, name |-> name, admin |-> adm, groups |-> groups]
Group(id, name) == [id |-> id, name |-> name]
OldProject(n, owner, group, perms) ==
    [name |-> n, owner |-> owner, group |-> group, perms |-> perms, by |-> other]
OldJob(j, owner, perms) ==
    [id |-> j, owner |-> owner, perms |-> perms, by |-> other,
     early |-> FALSE, late |-> FALSE]

\* Accounts in another order, with the user as an ordinary one; and accounts among which
\* neither the user nor "admin" is, nor the group of the directories.
MCOlds ==
    {[users |-> {User(1, me, FALSE, {2}), User(2, admin, TRUE, {1, 2}), User(3, other, FALSE, {3})},
      groups |-> {Group(1, admin), Group(2, mine), Group(3, other)},
      projects |-> {OldProject(default, 3, 3, closed), OldProject(water, 1, 2, open)},
      jobs |-> {OldJob(1, 3, closed)},
      specials |-> {[entity |-> 1, project |-> default]}],
     [users |-> {User(7, other, FALSE, {3})},
      groups |-> {Group(3, other)},
      projects |-> {OldProject(water, 7, 3, closed)},
      jobs |-> {OldJob(2, 7, open)},
      specials |-> {[entity |-> 7, project |-> water]}]}

=============================================================================
