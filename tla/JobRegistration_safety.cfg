\* Three processes, every kind of request, every kind of database.
SPECIFICATION Spec
CONSTANTS
    p1 = p1
    p2 = p2
    p3 = p3
    d1 = d1
    d2 = d2
    proj = proj
    gone = gone
    closed = closed
    one = one
    two = two
    old = old
    Process = {p1, p2, p3}
    JobId = {1, 2, 3, 4}
    Path = {one, two, old}
    NoPath = NoPath
    Digest = {d1, d2}
    Null = Null
    Missing = Missing
    Nobody = Nobody
    ProjectName <- MCProjectName
    Project <- MCProject
    Updatable <- MCUpdatable
    Requests <- MCRequests
    OldTables <- MCOldTables
    FirstId = 3
    Databases <- AllDatabases
SYMMETRY Symmetry
INVARIANTS
    TypeOK
    NoNewDuplicate
    JobRunsItsFlowchart
    StoredIffReturned
    ConstraintMeansTaken
    LockedMeansProgress
    OrphansAreFailures
    IndexNeverNeeded
PROPERTIES
    ImplementsRegistry
