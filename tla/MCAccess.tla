------------------------------ MODULE MCAccess ------------------------------
(* Instances of Access small enough for TLC.                                *)
EXTENDS Access, TLC

CONSTANTS admin, founder, ann, adminGroup, staff, default, other, chart1, j1, j2

\* connect.py:132: what the owner and the group may do; delete does as update.
MCDefault == [owner |-> {"read", "update"}, group |-> {"read", "update"}, other |-> {}]

\* A project all may read, and one closed to its owner and group.
MCOtherPermissions ==
    {[owner |-> {"read", "update"}, group |-> {"read"}, other |-> {"read"}],
     [owner |-> {"read"}, group |-> {}, other |-> {}]}

\* To update, but not to read.
MCGrants == {{"update"}}

\* No group, the one of the founder, and two.
MCNamed == {{}, {staff}, {adminGroup, staff}}

\* Jobs are told apart by nothing.
Symmetry == Permutations(JobId)

=============================================================================
