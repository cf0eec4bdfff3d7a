------------------------------ MODULE Approvals ------------------------------
(***************************************************************************)
(* Completion approval and the lifecycles it is entangled with.            *)
(*                                                                         *)
(* Projects own courses, milestones and direct tasks; courses own tasks.   *)
(* A task, course, milestone or project is completed by a request that its *)
(* project's supervisor and then its project manager approve.  While the   *)
(* request is open the ordinary services go on editing, archiving and      *)
(* restoring the same rows, accounts change role, and accounts are         *)
(* deactivated and reactivated.                                            *)
(*                                                                         *)
(* Every service is one database transaction holding the row lock of the   *)
(* record it changes, so every service is one action, at the moment it     *)
(* commits.  A service that raises is rolled back: it is the absence of a  *)
(* step.  What a form or an open transaction has read of a record's owners *)
(* without locking them is read earlier: the views.  Names follow          *)
(* apps/approvals/services.py and the models it reads.                     *)
(*                                                                         *)
(* Not kept: dates, codes, names, budgets, departments (all accounts and   *)
(* projects share one), clients and categories, task assignments (any      *)
(* active account may be the primary assignee), a task's move to another   *)
(* parent, the administrators who edit the accounts, audit events and      *)
(* notifications.                                                          *)
(***************************************************************************)
EXTENDS Naturals

CONSTANTS
    User,            \* accounts
    Project, Course, Milestone, Task,
    ProjectOf,       \* the project of a course or milestone (never changes)
    OwnerOf,         \* the project or course a task belongs to (never changes)
    ParentOf,        \* the parent of a subtask, or NoTask
    NoTask, Nobody,
    InitialRole,     \* the roles the accounts are created with
    ManagedUser,     \* BOUND: the accounts an administrator edits
    AssignableRole,  \* BOUND: the roles an administrator gives them
    SupervisorChoice,\* BOUND: the supervisors a project form selects from
    Delayed,         \* BOUND: the records whose forms may be kept waiting
    MaxAttempt       \* BOUND: completion attempts per record

Role == {"technical_admin", "ceo", "executive_manager", "project_manager",
         "supervisor", "employee", "contractor"}
Target == Project \cup Course \cup Milestone \cup Task
Attempt == 1 .. MaxAttempt
Sequence == {1, 2}

ASSUME HierarchyAssumption ==
    /\ ProjectOf \in [Course \cup Milestone -> Project]
    /\ OwnerOf \in [Task -> Project \cup Course]
    /\ ParentOf \in [Task -> Task \cup {NoTask}]
    /\ \A t \in Task : ParentOf[t] # NoTask => OwnerOf[ParentOf[t]] = OwnerOf[t]

ASSUME KindsAssumption ==
    /\ Project \cap (Course \cup Milestone \cup Task) = {}
    /\ Course \cap (Milestone \cup Task) = {}
    /\ Milestone \cap Task = {}
    /\ NoTask \notin Task

ASSUME AccountsAssumption ==
    /\ InitialRole \in [User -> Role]
    /\ ManagedUser \subseteq User
    /\ AssignableRole \subseteq Role
    /\ SupervisorChoice \subseteq User \cup {Nobody}
    /\ Nobody \notin User

ASSUME DelayedAssumption == Delayed \subseteq Course \cup Milestone \cup Task

ASSUME MaxAttemptAssumption == MaxAttempt \in Nat \ {0}

VARIABLES
    role,       \* the one managed role of each account
    active,     \* User.is_active
    manager,    \* Project.manager
    supervisor, \* Project.supervisor, Nobody when null
    status,     \* status of every record; "absent" before it is created
    archived,   \* is_archived of every record
    request,    \* ApprovalRequest.status per record and attempt
    step,       \* ApprovalStep rows: approver and status per sequence
    decision,   \* ApprovalDecision rows: actor and outcome per sequence
    views,      \* what forms and transactions open on a record may have read
    late        \* history: records last validated on what was true no longer

accountVars == <<role, active>>
peopleVars == <<manager, supervisor>>
recordVars == <<status, archived>>
approvalVars == <<request, step, decision>>
vars == <<accountVars, peopleVars, recordVars, approvalVars, views, late>>

-----------------------------------------------------------------------------
(* Status vocabularies and the transitions the edit services allow.        *)

MilestoneTransitions ==
    [draft            |-> {"in_progress", "cancelled"},
     in_progress      |-> {"cancelled"},
     pending_approval |-> {},
     completed        |-> {},
     cancelled        |-> {"draft"}]

\* Mutant: the edit form offers "completed".
ProjectTransitionsCompletable ==
    [draft     |-> {"active", "cancelled"},
     active    |-> {"on_hold", "cancelled", "completed"},
     on_hold   |-> {"active", "cancelled"},
     cancelled |-> {"draft"},
     completed |-> {}]

ProjectTransitions ==
    [draft     |-> {"active", "cancelled"},
     active    |-> {"on_hold", "cancelled"},
     on_hold   |-> {"active", "cancelled"},
     cancelled |-> {"draft"},
     completed |-> {}]

CourseTransitions == ProjectTransitions

TaskTransitions ==
    [todo        |-> {"in_progress", "cancelled"},
     in_progress |-> {"blocked", "completed", "cancelled"},
     blocked     |-> {"in_progress", "cancelled"},
     completed   |-> {"in_progress"},
     cancelled   |-> {"todo"}]

RequestStatus == {"pending_supervisor", "pending_manager", "approved", "rejected"}
StepStatus == {"waiting", "pending", "approved", "rejected"}
Outcome == {"approved", "rejected"}

\* The request status under which the step of each sequence is current.
PendingStatus == [q \in Sequence |->
                    IF q = 1 THEN "pending_supervisor" ELSE "pending_manager"]

NoStep == [approver |-> Nobody, status |-> "absent"]
NoDecision == [actor |-> Nobody, outcome |-> "absent"]

Exists(t) == status[t] # "absent"

TargetProject(t) ==
    IF t \in Project THEN t
    ELSE IF t \in Course \cup Milestone THEN ProjectOf[t]
    ELSE IF OwnerOf[t] \in Project THEN OwnerOf[t]
    ELSE ProjectOf[OwnerOf[t]]

-----------------------------------------------------------------------------
(* Who may do what.                                                         *)

\* The add, change, archive and restore permissions are seeded for Executive
\* Managers everywhere and for Project Managers in the projects they own.
Manages(a, p) ==
    /\ active[a]
    /\ \/ role[a] = "executive_manager"
       \/ role[a] = "project_manager" /\ manager[p] = a

\* The eligible roles, and the constraint manager_supervisor_distinct.
ValidPeople(m, s) ==
    /\ m \in User /\ active[m] /\ role[m] = "project_manager"
    /\ s # Nobody => s \in User /\ active[s] /\ role[s] = "supervisor"
    /\ m # s

CanSubmit(a, t) ==
    /\ active[a]
    /\ \/ role[a] = "executive_manager"
       \/ manager[TargetProject(t)] = a
       \/ t \in Task       \* the primary assignee; assignments are not kept

DeciderRole == [q \in Sequence |->
                  IF q = 1 THEN "supervisor" ELSE "project_manager"]

\* Mutant: the permission is enough, whoever the step names.
AuthorizeDecisionByRole(a, t, n, q) ==
    /\ active[a] /\ role[a] = DeciderRole[q]
    /\ step[t][n][q].status = "pending"

AuthorizeDecision(a, t, n, q) ==
    /\ step[t][n][q].approver = a
    /\ active[a] /\ role[a] = DeciderRole[q]
    /\ step[t][n][q].status = "pending"

-----------------------------------------------------------------------------
(* Progress: only "is it exactly 100 percent with a value" matters here.   *)

Countable(t) == status[t] \notin {"absent", "cancelled"} /\ ~archived[t]

Subtasks(t) == {k \in Task : ParentOf[k] = t /\ Countable(k)}
RootTasks(o) ==
    {k \in Task : OwnerOf[k] = o /\ ParentOf[k] = NoTask /\ Countable(k)}

TaskDone[t \in Task] ==
    IF Subtasks(t) = {} THEN status[t] = "completed"
    ELSE \A k \in Subtasks(t) : TaskDone[k]

CourseDone(c) == RootTasks(c) # {} /\ \A k \in RootTasks(c) : TaskDone[k]

ProjectDone(p) ==
    LET courses == {c \in Course : ProjectOf[c] = p /\ Countable(c)}
        milestones == {m \in Milestone : ProjectOf[m] = p /\ Countable(m)}
    IN  /\ RootTasks(p) \cup courses \cup milestones # {}
        /\ \A k \in RootTasks(p) : TaskDone[k]
        /\ \A c \in courses : CourseDone(c)
        /\ \A m \in milestones : status[m] = "completed"

FullProgress(t) ==
    /\ Countable(t)
    /\ t \in Task => TaskDone[t]
    /\ t \in Course => CourseDone(t)
    /\ t \in Project => ProjectDone(t)

-----------------------------------------------------------------------------
(* The state of a record's requests.                                        *)

\* Mutant: PENDING_APPROVAL_STATUSES forgets the manager's half.
HasPendingApprovalFirstHalf(t) ==
    \E n \in Attempt : request[t][n] = "pending_supervisor"

HasPendingApproval(t) ==
    \E n \in Attempt : request[t][n] \in {"pending_supervisor", "pending_manager"}

\* Mutant: a resubmission reopens the first attempt.
IsNextAttemptReopened(t, n) == n = 1

\* n is one more than the largest attempt stored for t.
IsNextAttempt(t, n) ==
    /\ \A k \in Attempt : request[t][k] # "absent" => k < n
    /\ n > 1 => request[t][n - 1] # "absent"

ValidateSubmissionTarget(t) ==
    LET p == TargetProject(t)
    IN  /\ ~archived[p] /\ status[p] # "cancelled"
        /\ supervisor[p] # Nobody
        /\ active[supervisor[p]] /\ active[manager[p]]
        /\ ~archived[t]
        /\ t \in Milestone => status[t] = "in_progress"
        /\ t \in Task => status[t] = "completed"
        /\ t \in Course \cup Project => status[t] = "active"
        /\ t \notin Milestone => FullProgress(t)

-----------------------------------------------------------------------------
(* What validation reads of the owners.  The services lock the record, not  *)
(* its owners: a form (CourseForm, MilestoneForm, TaskForm) has read them   *)
(* before the transaction, restore_task in it, and setattr puts the form's  *)
(* instance in the place of the locked one.  Any of the views that held     *)
(* since the record was created or archived may decide.                     *)

View == {"live", "open", "active", "parent"}

ViewsOf(t) == IF t \in Course THEN {"live", "active"}
              ELSE IF t \in Milestone THEN {"open"} ELSE {"live", "parent"}

\* Mutant: only the project's archive flag is looked at.
HoldsProjectOnly(t, v) ==
    IF v = "parent" THEN ParentOf[t] # NoTask => ~archived[ParentOf[t]]
    ELSE /\ ~archived[TargetProject(t)]
         /\ v = "open" => status[TargetProject(t)] \notin {"cancelled", "completed"}
         /\ v = "active" => status[TargetProject(t)] = "active"

\* live: no owner is archived; open and active also tell the project's status;
\* parent: the parent task is not archived.
Holds(t, v) ==
    IF v = "parent" THEN ParentOf[t] # NoTask => ~archived[ParentOf[t]]
    ELSE /\ ~archived[TargetProject(t)]
         /\ t \in Task => ~archived[OwnerOf[t]]
         /\ v = "open" => status[TargetProject(t)] \notin {"cancelled", "completed"}
         /\ v = "active" => status[TargetProject(t)] = "active"

CurrentViews(t) == {v \in ViewsOf(t) : Holds(t, v)}

\* t commits on the views it needs: those of now, or of an earlier moment.
Validated(t, needed) ==
    /\ needed \subseteq CurrentViews(t) \cup IF t \in Delayed THEN views[t] ELSE {}
    /\ late' = IF needed \subseteq CurrentViews(t) THEN late \ {t} ELSE late \cup {t}

\* The same under the owner's own lock (select_for_update with select_related).
ValidatedLocked(t, needed) ==
    /\ needed \subseteq CurrentViews(t)
    /\ late' = late \ {t}

\* Nobody has a form open on t that its service would still save: an archived or
\* completed course or milestone (restore_task has no form and reads as it runs).
Closed(t) == t \notin Task /\ (archived[t] \/ status[t] = "completed")

Begins(t) == \/ status[t] = "absent" /\ status'[t] # "absent"
             \/ ~archived[t] /\ archived'[t]

\* What is read from now on adds to the views; the views of a form or of a
\* transaction begin with the record, and again with its archive.
Read ==
    views' = [t \in Delayed |->
                IF Closed(t)' THEN {}
                ELSE CurrentViews(t)' \cup IF Begins(t) THEN {} ELSE views[t]]

-----------------------------------------------------------------------------
Init ==
    /\ role = InitialRole
    /\ active = [u \in User |-> TRUE]
    /\ manager = [p \in Project |-> Nobody]
    /\ supervisor = [p \in Project |-> Nobody]
    /\ status = [t \in Target |-> "absent"]
    /\ archived = [t \in Target |-> FALSE]
    /\ request = [t \in Target |-> [n \in Attempt |-> "absent"]]
    /\ step = [t \in Target |-> [n \in Attempt |-> [q \in Sequence |-> NoStep]]]
    /\ decision =
         [t \in Target |-> [n \in Attempt |-> [q \in Sequence |-> NoDecision]]]
    /\ views = [t \in Delayed |-> CurrentViews(t)]
    /\ late = {}

-----------------------------------------------------------------------------
(* Accounts (apps/accounts/services.py).                                    *)

UpdateAccount(u, r) ==
    /\ role' = [role EXCEPT ![u] = r]
    /\ UNCHANGED <<active, peopleVars, recordVars, approvalVars, late>>

DeactivateAccount(u) ==
    /\ active[u]
    /\ active' = [active EXCEPT ![u] = FALSE]
    /\ UNCHANGED <<role, peopleVars, recordVars, approvalVars, late>>

ReactivateAccount(u) ==
    /\ ~active[u]
    /\ active' = [active EXCEPT ![u] = TRUE]
    /\ UNCHANGED <<role, peopleVars, recordVars, approvalVars, late>>

-----------------------------------------------------------------------------
(* Archiving and restoring leave the status alone.                          *)

Archive(t) ==
    /\ Exists(t) /\ ~archived[t]
    /\ archived' = [archived EXCEPT ![t] = TRUE]
    /\ UNCHANGED <<status, accountVars, peopleVars, approvalVars, late>>

Restore(t) ==
    /\ Exists(t) /\ archived[t]
    /\ archived' = [archived EXCEPT ![t] = FALSE]
    /\ UNCHANGED <<status, accountVars, peopleVars, approvalVars>>

\* A new row, or an edit, that gives t the status s.
SetStatus(t, s) ==
    /\ status' = [status EXCEPT ![t] = s]
    /\ UNCHANGED <<archived, accountVars, peopleVars, approvalVars>>

-----------------------------------------------------------------------------
(* Projects (apps/projects/services.py).                                    *)

CreateProject(a, p, m, s) ==
    /\ ~Exists(p)
    /\ active[a]
    /\ role[a] = "executive_manager" \/ (role[a] = "project_manager" /\ m = a)
    /\ ValidPeople(m, s)
    /\ status' = [status EXCEPT ![p] = "draft"]
    /\ manager' = [manager EXCEPT ![p] = m]
    /\ supervisor' = [supervisor EXCEPT ![p] = s]
    /\ UNCHANGED <<archived, accountVars, approvalVars, late>>

UpdateProject(a, p, st, m, s) ==
    /\ Exists(p) /\ ~HasPendingApproval(p)
    /\ Manages(a, p) /\ ~archived[p] /\ status[p] # "completed"
    /\ role[a] # "executive_manager" => m = a
    /\ status[p] = "active" /\ st # "active" =>
         \A c \in Course :
             ProjectOf[c] = p /\ ~archived[c] => status[c] # "active"
    /\ st = status[p] \/ st \in ProjectTransitions[status[p]]
    /\ ValidPeople(m, s)
    /\ status' = [status EXCEPT ![p] = st]
    /\ manager' = [manager EXCEPT ![p] = m]
    /\ supervisor' = [supervisor EXCEPT ![p] = s]
    /\ UNCHANGED <<archived, accountVars, approvalVars, late>>

ArchiveProject(a, p) ==
    /\ ~HasPendingApproval(p)
    /\ Manages(a, p)
    /\ \A c \in Course : ProjectOf[c] = p /\ Exists(c) => archived[c]
    /\ \A k \in Task : OwnerOf[k] = p /\ Exists(k) => archived[k]
    /\ Archive(p)

RestoreProject(a, p) == Manages(a, p) /\ Restore(p) /\ UNCHANGED late

-----------------------------------------------------------------------------
(* Courses (apps/courses/services.py).                                      *)

\* Mutant: the project's status is not looked at.
CourseViewsArchiveOnly(st) == {"live"}

\* What _validate_course asks of the project for a course of status st.
CourseViews(st) == IF st = "active" THEN {"live", "active"} ELSE {"live"}

CreateCourse(a, c) ==
    /\ Exists(ProjectOf[c]) /\ ~Exists(c)
    /\ Manages(a, ProjectOf[c])
    /\ Validated(c, CourseViews("draft"))
    /\ SetStatus(c, "draft")

UpdateCourse(a, c, st) ==
    /\ Exists(c) /\ ~HasPendingApproval(c)
    /\ Manages(a, ProjectOf[c]) /\ ~archived[c] /\ status[c] # "completed"
    /\ st \in CourseTransitions[status[c]]
    /\ Validated(c, CourseViews(st))
    /\ SetStatus(c, st)

ArchiveCourse(a, c) ==
    /\ ~HasPendingApproval(c)
    /\ Manages(a, ProjectOf[c])
    /\ \A k \in Task : OwnerOf[k] = c /\ Exists(k) => archived[k]
    /\ Archive(c)

RestoreCourse(a, c) ==
    /\ Manages(a, ProjectOf[c])
    /\ ValidatedLocked(c, CourseViews(status[c]))
    /\ Restore(c)

-----------------------------------------------------------------------------
(* Milestones (apps/approvals/services.py).                                 *)

\* What _validate_milestone asks of the project.
MilestoneViews == {"open"}

CreateMilestone(a, m) ==
    /\ Exists(ProjectOf[m]) /\ ~Exists(m)
    /\ Manages(a, ProjectOf[m])
    /\ Validated(m, MilestoneViews)
    /\ SetStatus(m, "draft")

UpdateMilestone(a, m, st) ==
    /\ Exists(m)
    /\ Manages(a, ProjectOf[m]) /\ ~archived[m]
    /\ status[m] \notin {"pending_approval", "completed"}
    /\ ~HasPendingApproval(m)
    /\ st \in MilestoneTransitions[status[m]]
    /\ Validated(m, MilestoneViews)
    /\ SetStatus(m, st)

ArchiveMilestone(a, m) ==
    /\ Manages(a, ProjectOf[m])
    /\ ~HasPendingApproval(m)
    /\ Archive(m)

RestoreMilestone(a, m) ==
    /\ Manages(a, ProjectOf[m])
    /\ ValidatedLocked(m, MilestoneViews)
    /\ Restore(m)

-----------------------------------------------------------------------------
(* Tasks (apps/tasks/services.py).                                          *)

\* What _validate_task asks of the project and the course.
TaskViews == {"live"}

CreateTask(a, k) ==
    /\ Exists(OwnerOf[k]) /\ ~Exists(k)
    /\ ParentOf[k] # NoTask => Exists(ParentOf[k])
    /\ Manages(a, TargetProject(k))
    /\ Validated(k, TaskViews)
    /\ SetStatus(k, "todo")

\* update_task by a manager, or update_assigned_task by an assignee.
UpdateTask(a, k, st) ==
    /\ Exists(k) /\ ~HasPendingApproval(k)
    /\ active[a] /\ ~archived[k]
    /\ st \in TaskTransitions[status[k]]
    /\ Validated(k, TaskViews)
    /\ SetStatus(k, st)

\* The one archive service that does not ask for a pending approval.
ArchiveTask(a, k) ==
    /\ Manages(a, TargetProject(k))
    /\ \A j \in Task : ParentOf[j] = k /\ Exists(j) => archived[j]
    /\ Archive(k)

RestoreTask(a, k) ==
    /\ Manages(a, TargetProject(k))
    /\ Validated(k, TaskViews \cup {"parent"})
    /\ Restore(k)

-----------------------------------------------------------------------------
(* The approval workflow (apps/approvals/services.py).                      *)

SubmitCompletion(a, t, n) ==
    /\ Exists(t)
    /\ CanSubmit(a, t)
    /\ ~HasPendingApproval(t)
    /\ ValidateSubmissionTarget(t)
    /\ IsNextAttempt(t, n)
    /\ request' = [request EXCEPT ![t][n] = "pending_supervisor"]
    /\ step' = [step EXCEPT ![t][n] =
         [q \in Sequence |->
            IF q = 1
            THEN [approver |-> supervisor[TargetProject(t)], status |-> "pending"]
            ELSE [approver |-> manager[TargetProject(t)], status |-> "waiting"]]]
    /\ status' = IF t \in Milestone
                 THEN [status EXCEPT ![t] = "pending_approval"] ELSE status
    /\ UNCHANGED <<archived, decision, accountVars, peopleVars, late>>

\* The step of sequence q with its status changed; its approver never changes.
StepAs(t, n, q, s) == [approver |-> step[t][n][q].approver, status |-> s]

SetStep(t, n, q, s) == step' = [step EXCEPT ![t][n][q] = StepAs(t, n, q, s)]

\* The decision row, written with the decided step.
RecordDecision(a, t, n, q, outcome) ==
    decision' = [decision EXCEPT ![t][n][q] = [actor |-> a, outcome |-> outcome]]

\* Mutant: the second step goes to whoever manages the project by now.
ApproveSupervisorStepCurrentManager(a, t, n) ==
    /\ request[t][n] = PendingStatus[1]
    /\ AuthorizeDecision(a, t, n, 1)
    /\ RecordDecision(a, t, n, 1, "approved")
    /\ step' = [step EXCEPT
         ![t][n][1] = StepAs(t, n, 1, "approved"),
         ![t][n][2] = [approver |-> manager[TargetProject(t)], status |-> "pending"]]
    /\ request' = [request EXCEPT ![t][n] = "pending_manager"]
    /\ UNCHANGED <<recordVars, accountVars, peopleVars, late>>

ApproveSupervisorStep(a, t, n) ==
    /\ request[t][n] = PendingStatus[1]
    /\ AuthorizeDecision(a, t, n, 1)
    /\ RecordDecision(a, t, n, 1, "approved")
    /\ step' = [step EXCEPT ![t][n][1] = StepAs(t, n, 1, "approved"),
                            ![t][n][2] = StepAs(t, n, 2, "pending")]
    /\ request' = [request EXCEPT ![t][n] = "pending_manager"]
    /\ UNCHANGED <<recordVars, accountVars, peopleVars, late>>

\* A task is only rechecked; the other records become completed.
CompleteTarget(t) ==
    IF t \in Task
    THEN status[t] = "completed" /\ UNCHANGED status
    ELSE status' = [status EXCEPT ![t] = "completed"]

ApproveManagerStep(a, t, n) ==
    /\ request[t][n] = PendingStatus[2]
    /\ AuthorizeDecision(a, t, n, 2)
    /\ RecordDecision(a, t, n, 2, "approved")
    /\ SetStep(t, n, 2, "approved")
    /\ CompleteTarget(t)
    /\ request' = [request EXCEPT ![t][n] = "approved"]
    /\ UNCHANGED <<archived, accountVars, peopleVars, late>>

\* Mutant: every rejected record returns to "active".
RejectTargetActive(t) == status' = [status EXCEPT ![t] = "active"]

\* Mutant: a rejected milestone keeps its status.
RejectTargetMilestoneKept(t) ==
    status' = [status EXCEPT ![t] =
                 IF t \in Task THEN "in_progress"
                 ELSE IF t \in Milestone THEN status[t] ELSE "active"]

RejectTarget(t) ==
    status' = [status EXCEPT ![t] =
                 IF t \in Task \cup Milestone THEN "in_progress" ELSE "active"]

RejectRequest(a, t, n, q) ==
    /\ request[t][n] = PendingStatus[q]
    /\ AuthorizeDecision(a, t, n, q)
    /\ RecordDecision(a, t, n, q, "rejected")
    /\ SetStep(t, n, q, "rejected")
    /\ RejectTarget(t)
    /\ request' = [request EXCEPT ![t][n] = "rejected"]
    /\ UNCHANGED <<archived, accountVars, peopleVars, late>>

-----------------------------------------------------------------------------
AccountStep ==
    \E u \in ManagedUser :
        \/ \E r \in AssignableRole : UpdateAccount(u, r)
        \/ DeactivateAccount(u)
        \/ ReactivateAccount(u)

ProjectStep(a) ==
    \E p \in Project :
        \/ \E m \in User, s \in SupervisorChoice :
              \/ CreateProject(a, p, m, s)
              \/ \E st \in DOMAIN ProjectTransitions : UpdateProject(a, p, st, m, s)
        \/ ArchiveProject(a, p)
        \/ RestoreProject(a, p)

CourseStep(a) ==
    \E c \in Course :
        \/ CreateCourse(a, c)
        \/ \E st \in DOMAIN CourseTransitions : UpdateCourse(a, c, st)
        \/ ArchiveCourse(a, c)
        \/ RestoreCourse(a, c)

MilestoneStep(a) ==
    \E m \in Milestone :
        \/ CreateMilestone(a, m)
        \/ \E st \in DOMAIN MilestoneTransitions : UpdateMilestone(a, m, st)
        \/ ArchiveMilestone(a, m)
        \/ RestoreMilestone(a, m)

TaskStep(a) ==
    \E k \in Task :
        \/ CreateTask(a, k)
        \/ \E st \in DOMAIN TaskTransitions : UpdateTask(a, k, st)
        \/ ArchiveTask(a, k)
        \/ RestoreTask(a, k)

ApprovalStep(a) ==
    \E t \in Target, n \in Attempt :
        \/ SubmitCompletion(a, t, n)
        \/ ApproveSupervisorStep(a, t, n)
        \/ ApproveManagerStep(a, t, n)
        \/ \E q \in Sequence : RejectRequest(a, t, n, q)

Step ==
    \/ AccountStep
    \/ \E a \in User :
          ProjectStep(a) \/ CourseStep(a) \/ MilestoneStep(a) \/ TaskStep(a)
            \/ ApprovalStep(a)

Next == Step /\ Read

Spec == Init /\ [][Next]_vars
-----------------------------------------------------------------------------
(* Properties.                                                              *)

Open(t, n) == request[t][n] \in {"pending_supervisor", "pending_manager"}

AnyStatus == {"absent"} \cup DOMAIN ProjectTransitions
                        \cup DOMAIN MilestoneTransitions \cup DOMAIN TaskTransitions

StatusesOf(t) ==
    {"absent"} \cup IF t \in Task THEN DOMAIN TaskTransitions
                   ELSE IF t \in Milestone THEN DOMAIN MilestoneTransitions
                   ELSE DOMAIN ProjectTransitions

StepRow == [approver : User \cup {Nobody}, status : StepStatus \cup {"absent"}]
DecisionRow == [actor : User \cup {Nobody}, outcome : Outcome \cup {"absent"}]

\* Every column holds a value its model declares.
TypeOK ==
    /\ role \in [User -> Role]
    /\ active \in [User -> BOOLEAN]
    /\ manager \in [Project -> User \cup {Nobody}]
    /\ supervisor \in [Project -> User \cup {Nobody}]
    /\ status \in [Target -> AnyStatus] /\ \A t \in Target : status[t] \in StatusesOf(t)
    /\ archived \in [Target -> BOOLEAN]
    /\ request \in [Target -> [Attempt -> RequestStatus \cup {"absent"}]]
    /\ step \in [Target -> [Attempt -> [Sequence -> StepRow]]]
    /\ decision \in [Target -> [Attempt -> [Sequence -> DecisionRow]]]
    /\ views \in [Delayed -> SUBSET View]
    /\ late \subseteq Delayed

\* A milestone reads "pending approval" exactly while one of its requests is
\* open: no edit, archive, restore, decision or resubmission separates the two.
MilestonePendingIffOpen ==
    \A m \in Milestone :
        status[m] = "pending_approval" <=> \E n \in Attempt : Open(m, n)

\* At most one request of a record is open and it is the latest: whoever asks
\* "is an approval pending" and whoever decides it speak of the same attempt.
OnlyLatestAttemptOpen ==
    \A t \in Target, n, k \in Attempt :
        Open(t, n) /\ k > n => request[t][k] = "absent"

\* The state of one request's two steps and decisions under each request status.
StepState(t, n, q, st) ==
    /\ step[t][n][q].status = st
    /\ decision[t][n][q] =
         IF st \in Outcome
         THEN [actor |-> step[t][n][q].approver, outcome |-> st]
         ELSE NoDecision

RequestState(t, n) ==
    CASE request[t][n] = "absent" ->
            StepState(t, n, 1, "absent") /\ StepState(t, n, 2, "absent")
      [] request[t][n] = "pending_supervisor" ->
            StepState(t, n, 1, "pending") /\ StepState(t, n, 2, "waiting")
      [] request[t][n] = "pending_manager" ->
            StepState(t, n, 1, "approved") /\ StepState(t, n, 2, "pending")
      [] request[t][n] = "approved" ->
            StepState(t, n, 1, "approved") /\ StepState(t, n, 2, "approved")
      [] request[t][n] = "rejected" ->
            \/ StepState(t, n, 1, "rejected") /\ StepState(t, n, 2, "waiting")
            \/ StepState(t, n, 1, "approved") /\ StepState(t, n, 2, "rejected")

\* The three tables of one request always tell the same story: the manager's
\* step opens only after the supervisor's approval, an approved request holds
\* both approvals, a rejected one exactly one rejection, and every decision was
\* taken by the approver its step named at submission.
TablesAgree == \A t \in Target, n \in Attempt : RequestState(t, n)

\* The two steps of a request name two different people, whatever becomes of the
\* accounts and of the project's staff before or after it is submitted: the
\* constraint keeps the project's pair apart and the pair is fixed at submission.
TwoDifferentApprovers ==
    \A t \in Target, n \in Attempt :
        request[t][n] # "absent" =>
            step[t][n][1].approver # step[t][n][2].approver

\* A course, milestone or project is completed exactly when a request for it
\* was approved: no edit reaches or leaves "completed".
CompletedIffApproved ==
    \A t \in Course \cup Milestone \cup Project :
        status[t] = "completed" <=> \E n \in Attempt : request[t][n] = "approved"

\* While a request is open its target stays in the state it was submitted in,
\* so the final approval never finds a changed task and never revives an
\* archived course, milestone or project.
OpenTargetUnmoved ==
    \A t \in Target, n \in Attempt :
        Open(t, n) =>
            /\ t \in Task => status[t] = "completed"
            /\ t \in Course \cup Project => status[t] = "active"
            /\ t \notin Task => ~archived[t]

\* An unarchived course lies in an unarchived project and an unarchived task in
\* unarchived owners, unless the record itself was last created, edited or
\* restored on an owner archived since it was read: no archive, restore or
\* approval of another record strands it.
LiveRecordsHaveLiveOwners ==
    \A t \in Course \cup Task :
        Exists(t) /\ ~archived[t] /\ t \notin late =>
            /\ ~archived[TargetProject(t)]
            /\ t \in Task => ~archived[OwnerOf[t]]

\* An unarchived active course lies in a project that is active, or that was
\* completed around it, unless the course itself was made active on a form that
\* had read the project when it still was.
ActiveCourseProject ==
    \A c \in Course :
        status[c] = "active" /\ ~archived[c] /\ c \notin late =>
            status[ProjectOf[c]] \in {"active", "completed"}

\* Resolved requests, decided steps and decisions never change, and no row
\* disappears.
HistoryImmutable ==
    [][\A t \in Target, n \in Attempt :
         /\ request[t][n] # "absent" => request'[t][n] # "absent"
         /\ request[t][n] \in {"approved", "rejected"} =>
              UNCHANGED <<request[t][n], step[t][n]>>
         /\ \A q \in Sequence :
              decision[t][n][q] # NoDecision =>
                UNCHANGED <<decision[t][n][q], step[t][n][q]>>]_vars

-----------------------------------------------------------------------------
(* What the documents say and the code does not do.                         *)

\* docs/WORKFLOWS.md:103 "Pending targets cannot be normally edited or
\* archived": archive_task archives a task whose completion is pending.
PendingTargetNotArchived ==
    \A t \in Target : (\E n \in Attempt : Open(t, n)) => ~archived[t]

\* docs/WORKFLOWS.md:43 "A course may be Active only while its project is
\* Active": the approval of a project completes it around an active course.
ActiveCourseOnlyInActiveProject ==
    \A c \in Course :
        status[c] = "active" /\ ~archived[c] => status[ProjectOf[c]] = "active"
=============================================================================
