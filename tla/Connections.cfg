\* A process with two datastores, one without an account for its user.
SPECIFICATION Spec
CONSTANTS
    a = a
    b = b
    running = running
    done = done
    t1 = t1
    t2 = t2
    NoStore = NoStore
    NoRow = NoRow
    Store = {a, b}
    Accounts = {a}
    JobId = {1}
    Status = {running, done}
    Time = {t1, t2}
    Files <- MCFiles
    MaxDepth = 2
    MaxWrites = 2
INVARIANTS
    TypeOK
    GlobalsAgree
    NothingLeftPending
    FinishedIsStored
