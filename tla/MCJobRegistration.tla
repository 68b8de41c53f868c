------------------------- MODULE MCJobRegistration -------------------------
(* Instances of JobRegistration small enough for TLC.                       *)
EXTENDS JobRegistration, FiniteSets, TLC

CONSTANTS p1, p2, p3, d1, d2, proj, gone, closed, one, two, old

MCProjectName == {proj, gone, closed}
MCProject == {proj, closed}
MCUpdatable == {proj}

Names(once, twice) ==
    [n \in MCProjectName |-> IF n \in twice THEN 2 ELSE IF n \in once THEN 1 ELSE 0]

Ask(job, digest, listed, path) ==
    [job |-> job, path |-> path, digest |-> digest, listed |-> listed]

Ordinary == Names({proj, gone}, {})

\* A job array's: new ids, the same flowchart or another, or the id of another's.
RaceRequests ==
    {Ask(1, d, Ordinary, one) : d \in {d1, d2}} \cup {Ask(2, d, Ordinary, two) : d \in {d1, d2}}

\* Flowcharts without a digest, the path of another process's job or of an old one,
\* a project listed twice, no path, and the refused requests.
OddRequests ==
    {Ask(1, d1, Names({}, {proj}), NoPath), Ask(2, Null, Ordinary, one),
     Ask(3, Missing, Ordinary, old), Ask(2, d1, Names({gone}, {}), two),
     Ask(2, d1, Names({proj, closed}, {}), two)}

\* Jobs sharing a flowchart, one id asked for with two flowcharts, and one path for
\* two ids, with a flowchart that has no digest.
ContendedRequests ==
    {Ask(1, d1, Ordinary, one), Ask(2, d1, Ordinary, two), Ask(2, d2, Ordinary, two),
     Ask(3, Missing, Ordinary, one)}

\* Two jobs of an array.
ArrayRequests == {Ask(1, d1, Ordinary, one), Ask(2, d1, Ordinary, two)}

UndigestedRequests == {Ask(1, Missing, Ordinary, one), Ask(2, Null, Ordinary, two)}

MCRequests == RaceRequests \cup OddRequests

OldRow(id, d) == [id |-> id, digest |-> d, projects |-> {proj}]

OldJob(id, path) ==
    [id |-> id, path |-> path, flowchart |-> 2, projects |-> {proj}, by |-> Nobody]

Old(rows, entered) == [flowcharts |-> rows, jobs |-> entered]

\* Flowcharts with no digest, and a job whose path is asked for; with one; and from
\* before the index, with one that a race has left twice, and a job without a path.
MCOldTables ==
    {Old({OldRow(2, Null)}, {OldJob(4, old)}),
     Old({OldRow(1, d2), OldRow(2, Null)}, {}),
     Old({OldRow(1, d1), OldRow(2, d1)}, {OldJob(3, NoPath)})}

NewTables == {Old({}, {})}

AllDatabases == Database
PatientDatabases == {d \in Database : d.patient}
IndexedDatabases == {d \in PatientDatabases : d.unique}

Symmetry == Permutations(Process)

=============================================================================
