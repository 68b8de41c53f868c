\* Two scans that overlap and are repeated, in one directory.
SPECIFICATION Spec
CONSTANTS
    s1 = s1
    s2 = s2
    x = x
    y = y
    a = a
    b = b
    c = c
    d1 = d1
    Scan = {s1, s2}
    Name <- MCName
    NoPath = NoPath
    JobDir = {x, y}
    JobId = {1, 2}
    Digest = {d1}
    Bad = Bad
    None = None
    Given = {a, b}
    ProjectId = {1, 2, 3, 4, 5}
    MaxNames = 1
    Worlds <- BusyWorlds
SYMMETRY Symmetry
INVARIANTS
    TypeOK
    ScanMissesNothing
    JobKeepsItsProjects
    AddedAreStored
    AbortHeals
PROPERTIES
    ImplementsRegistry
