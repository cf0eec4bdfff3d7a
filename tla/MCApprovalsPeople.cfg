\* Two attempts at one milestone and its project while the two approvers change
\* role and are deactivated.
CONSTANTS
    pm = pm
    sup = sup
    boss = boss
    p1 = p1
    t1 = t1
    NoTask = NoTask
    Nobody = Nobody
    User = {pm, sup, boss}
    ManagedUser = {pm, sup}
    AssignableRole = {"project_manager", "supervisor"}
    SupervisorChoice = {pm, sup, Nobody}
    Project = {p1}
    Course = {}
    Milestone = {m1}
    Task = {}
    ProjectOf <- mcProjectOf
    OwnerOf <- mcOwnerOf
    ParentOf <- mcParentOf
    InitialRole <- mcInitialRole
    MaxAttempt = 2
    Delayed = {}
SPECIFICATION Spec
INVARIANTS
    TypeOK MilestonePendingIffOpen OnlyLatestAttemptOpen TablesAgree
    TwoDifferentApprovers
PROPERTIES HistoryImmutable
CHECK_DEADLOCK FALSE
