\* A datastore built again, for the user, "admin", another user or nobody.
SPECIFICATION Spec
CONSTANTS
    admin = admin
    me = me
    other = other
    mine = mine
    default = default
    water = water
    open = open
    closed = closed
    Account <- MCAccount
    ProjectName <- MCProjectName
    Perms <- MCPerms
    Default <- default
    Standard <- open
    JobId = {1, 2}
    Admin <- admin
    Me <- me
    None = None
    MyGroup <- mine
    Disks <- MCDisks
    Olds <- MCOlds
    MaxCalls = 2
INVARIANTS
    TypeOK
    KeptAsOld
    OwnersAreTheirs
    
PROPERTIES
    RegisteredStay
