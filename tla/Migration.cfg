\* Both migrations, up and down and interrupted, while two jobs are registered.
SPECIFICATION Spec
CONSTANTS
    p1 = p1
    p2 = p2
    d1 = d1
    d2 = d2
    n1 = n1
    n2 = n2
    Null = Null
    Registrant = {p1, p2}
    JobId = {1, 2, 3}
    Digest = {d1, d2}
    Project = {n1, n2}
    Requests <- MCRequests
    OldDatastores <- MCOldDatastores
    OldColumns <- MCOldColumns
    MaxStarts = 3
    FlowchartId = {1, 2, 3, 4, 5, 6}
SYMMETRY Symmetry
INVARIANTS
    TypeOK
    NothingDangles
    CopyNeverRefused
    StuckMeansDeduped
    MarkedMeansColumns
PROPERTIES
    LinksKept
    ImplementsRegistry
