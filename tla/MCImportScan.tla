---------------------------- MODULE MCImportScan ----------------------------
(* Instances of ImportScan small enough for TLC.                            *)
EXTENDS ImportScan, FiniteSets, TLC

CONSTANTS s1, s2, x, y, a, b, c, d1

MCName == {a, b, c}
EveryName == MCName \cup {NoPath}

Default == [id |-> 1, path |-> NoPath, name |-> c]
Old == [id |-> 2, path |-> b, name |-> b]
Moved == [id |-> 1, path |-> b, name |-> c]

Dir(folder, id, names, chart) ==
    [folder |-> folder, file |-> "readable", id |-> id, names |-> names, chart |-> chart]

Disk(atX, atY) == (x :> atX) @@ (y :> atY)

Ask(data, foreign, user, old, closed) ==
    [folders |-> {a, b}, data |-> data, foreign |-> foreign, user |-> user,
     old |-> old, closed |-> closed]

\* Two folders, with a job that lists the project of the other folder, or one that has
\* no folder, and jobs that share a flowchart or an id.
Good == Disk(Dir(a, 1, {a}, d1), Dir(b, 2, {a, c}, d1))
SameId == Disk(Dir(a, 1, {a}, d1), Dir(b, 1, {b, c}, d1))

\* Beside a good job: one whose data or flowchart cannot be read, or that lists nothing.
Unreadable == Disk(Dir(a, 1, {a}, d1), [Dir(a, 2, {a}, d1) EXCEPT !.file = "unreadable"])
NoFlowchart == Disk(Dir(a, 1, {a}, d1), Dir(a, 2, {a, b}, Bad))
NoProject == Disk(Dir(a, 1, {a}, d1), Dir(a, 2, {}, d1))
Malformed == Disk(Dir(a, 1, {a}, d1), [Dir(a, 2, {a}, d1) EXCEPT !.file = "no list"])

MCWorlds ==
    {Ask(Good, {}, TRUE, {}, {}), Ask(Good, {}, TRUE, {Default, Old}, {2}),
     Ask(SameId, {}, TRUE, {Default, Old}, {1}), Ask(Good, {b}, TRUE, {Default}, {}),
     Ask(Good, {}, FALSE, {Old}, {2}), Ask(Good, {}, TRUE, {Moved}, {}),
     Ask(Unreadable, {}, TRUE, {}, {}), Ask(NoFlowchart, {}, TRUE, {}, {}),
     Ask(NoProject, {}, TRUE, {}, {}), Ask(Malformed, {}, TRUE, {}, {})}

\* The one in which two scans have most to do.
BusyWorlds == {Ask(Good, {}, TRUE, {Default}, {})}

MalformedWorlds == {Ask(Malformed, {}, TRUE, {}, {})}
GoodWorlds == {Ask(Good, {}, TRUE, {}, {})}

Symmetry == Permutations(Scan)

=============================================================================
