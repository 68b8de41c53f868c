\* A job whose list of projects is null.
SPECIFICATION Spec
CONSTANTS
    s1 = s1
    s2 = s2
    x = x
    y = y
    a = a
    b = b
    c = c
    d1 = d1
    Scan = {s1}
    Name <- MCName
    NoPath = NoPath
    JobDir = {x, y}
    JobId = {1, 2}
    Digest = {d1}
    Bad = Bad
    None = None
    Given <- EveryName
    ProjectId = {1, 2, 3, 4, 5}
    MaxNames = 0
    Worlds <- MalformedWorlds
INVARIANTS
    JobStopsNothing
