\* Project completion against docs/WORKFLOWS.md:43.
CONSTANTS
    pm = pm
    sup = sup
    boss = boss
    p1 = p1
    t1 = t1
    NoTask = NoTask
    Nobody = Nobody
    User = {pm, sup}
    ManagedUser = {}
    AssignableRole = {"project_manager", "supervisor"}
    SupervisorChoice = {sup}
    Project = {p1}
    Course = {c1}
    Milestone = {}
    Task = {t1, t2}
    ProjectOf <- mcProjectOf
    OwnerOf <- mcOwnerOf
    ParentOf <- mcParentOf
    InitialRole <- mcInitialRole
    MaxAttempt = 1
    Delayed = {}
SPECIFICATION Spec
INVARIANTS ActiveCourseOnlyInActiveProject
CHECK_DEADLOCK FALSE
