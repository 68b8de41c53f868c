\* Jobs sharing flowcharts and ids: the calls end.
SPECIFICATION FairSpec
CONSTANTS
    p1 = p1
    p2 = p2
    p3 = p3
    d1 = d1
    d2 = d2
    proj = proj
    gone = gone
    closed = closed
    one = one
    two = two
    old = old
    Process = {p1, p2, p3}
    JobId = {1, 2, 3, 4}
    Path = {one, two, old}
    NoPath = NoPath
    Digest = {d1, d2}
    Null = Null
    Missing = Missing
    Nobody = Nobody
    ProjectName <- MCProjectName
    Project <- MCProject
    Updatable <- MCUpdatable
    Requests <- ContendedRequests
    OldTables <- NewTables
    FirstId = 1
    Databases <- IndexedDatabases
PROPERTIES
    EveryCallEnds
    ImplementsRegistrants
