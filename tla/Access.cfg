\* Two built-in accounts and one that is made, two projects, two jobs of one flowchart.
SPECIFICATION Spec
CONSTANTS
    admin = admin
    founder = founder
    ann = ann
    adminGroup = adminGroup
    staff = staff
    default = default
    other = other
    chart1 = chart1
    j1 = j1
    j2 = j2
    Nobody = Nobody
    NoRow = NoRow
    User = {admin, founder, ann}
    Group = {ann, adminGroup, staff}
    Admin = admin
    AdminGroup = adminGroup
    Founder = founder
    FounderGroup = staff
    DefaultProject = default
    ProjectId = {default, other}
    JobId = {j1, j2}
    Chart = {chart1}
    Op = {"read", "update"}
    Default <- MCDefault
    OtherPermissions <- MCOtherPermissions
    Grants <- MCGrants
    Actor = {founder, ann}
    Named <- MCNamed
    MaxChanges = 1
SYMMETRY Symmetry
INVARIANTS
    TypeOK
    QueryAgreesWithCheck
    EveryoneHasAGroup
    ReadersReachTheWork
PROPERTIES
    CreationsGrantNothing
CHECK_DEADLOCK FALSE
