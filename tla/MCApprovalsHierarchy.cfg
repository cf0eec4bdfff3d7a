\* A project, its course, a task of the course and a subtask, with fixed people:
\* edits, archives and restores race with the approvals of each of them.
CONSTANTS
    pm = pm
    sup = sup
    boss = boss
    p1 = p1
    t1 = t1
    NoTask = NoTask
    Nobody = Nobody
    User = {pm, sup}
    ManagedUser = {}
    AssignableRole = {"project_manager", "supervisor"}
    SupervisorChoice = {sup}
    Project = {p1}
    Course = {c1}
    Milestone = {}
    Task = {t1, t2}
    ProjectOf <- mcProjectOf
    OwnerOf <- mcOwnerOf
    ParentOf <- mcParentOf
    InitialRole <- mcInitialRole
    MaxAttempt = 1
    Delayed = {c1, t1}
SPECIFICATION Spec
CONSTRAINTS FewRequests FewLate
INVARIANTS
    CompletedIffApproved OpenTargetUnmoved LiveRecordsHaveLiveOwners
    ActiveCourseProject
CHECK_DEADLOCK FALSE
