--------------------------- MODULE ApprovalsProofs ---------------------------
(***************************************************************************)
(* Proofs about Approvals, for every hierarchy of records, every set of    *)
(* accounts and every number of attempts.                                  *)
(***************************************************************************)
EXTENDS Approvals, TLAPS

-----------------------------------------------------------------------------
(* The transition tables only lead to statuses of the same table, and never *)
(* to "completed" or "pending_approval" except for tasks.                   *)

LEMMA ProjectTable ==
    ASSUME NEW x \in DOMAIN ProjectTransitions, NEW y \in ProjectTransitions[x]
    PROVE  y \in DOMAIN ProjectTransitions /\ y # "completed" /\ y # "absent"
BY DEF ProjectTransitions

LEMMA MilestoneTable ==
    ASSUME NEW x \in DOMAIN MilestoneTransitions, NEW y \in MilestoneTransitions[x]
    PROVE  /\ y \in DOMAIN MilestoneTransitions
           /\ y \notin {"completed", "pending_approval", "absent"}
BY DEF MilestoneTransitions

LEMMA TaskTable ==
    ASSUME NEW x \in DOMAIN TaskTransitions, NEW y \in TaskTransitions[x]
    PROVE  y \in DOMAIN TaskTransitions /\ y # "absent"
BY DEF TaskTransitions

LEMMA Tables ==
    /\ DOMAIN ProjectTransitions = {"draft", "active", "on_hold", "cancelled", "completed"}
    /\ DOMAIN MilestoneTransitions =
         {"draft", "in_progress", "pending_approval", "completed", "cancelled"}
    /\ DOMAIN TaskTransitions =
         {"todo", "in_progress", "blocked", "completed", "cancelled"}
BY DEF ProjectTransitions, MilestoneTransitions, TaskTransitions

LEMMA OwnProject ==
    ASSUME NEW t \in Target
    PROVE  TargetProject(t) \in Project
BY HierarchyAssumption DEF TargetProject, Target

LEMMA CourseOwner ==
    \A c \in Course : c \notin Task /\ TargetProject(c) = ProjectOf[c]
BY KindsAssumption DEF TargetProject

LEMMA Kinds ==
    /\ Project \subseteq Target /\ Course \subseteq Target
    /\ Milestone \subseteq Target /\ Task \subseteq Target
    /\ \A t \in Target : t \notin Task \cup Milestone => t \in Project \cup Course
    /\ 1 \in Sequence /\ 2 \in Sequence
    /\ \A q \in Sequence : q = 1 \/ q = 2
BY DEF Target, Sequence

-----------------------------------------------------------------------------
(* Type correctness.                                                        *)

\* The columns that no row holds: what may have been read, and who is late.
HistoryOK == views \in [Delayed -> SUBSET View] /\ late \subseteq Delayed

LEMMA ViewsTyped ==
    ASSUME NEW t
    PROVE  CurrentViews(t) \subseteq View /\ CurrentViews(t)' \subseteq View
BY DEF CurrentViews, ViewsOf, View

LEMMA TypeInit == Init => TypeOK
<1> SUFFICES ASSUME Init PROVE TypeOK
  OBVIOUS
<1>1. HistoryOK
  BY ViewsTyped DEF Init, HistoryOK
<1> QED
  BY <1>1, AccountsAssumption, Tables
     DEF Init, TypeOK, HistoryOK, StatusesOf, AnyStatus, StepRow, DecisionRow, NoStep,
         NoDecision

\* Only a validation writes who is late, and only of the record it validates.
LEMMA LateStep ==
    ASSUME Step
    PROVE  \/ late' = late
           \/ \E t \in Course \cup Milestone \cup Task, needed \in SUBSET View :
                Validated(t, needed) \/ ValidatedLocked(t, needed)
<1> DEFINE Late == late' = late \/ \E t \in Course \cup Milestone \cup Task,
                     needed \in SUBSET View :
                       Validated(t, needed) \/ ValidatedLocked(t, needed)
<1> SUFFICES Late
  OBVIOUS
<1>1. ASSUME NEW t \in Course \cup Milestone \cup Task, NEW needed \in SUBSET View,
             Validated(t, needed) \/ ValidatedLocked(t, needed)
      PROVE  Late
  BY <1>1
<1>2. CASE AccountStep
  BY <1>2 DEF AccountStep, UpdateAccount, DeactivateAccount, ReactivateAccount
<1>3. ASSUME NEW a \in User, ProjectStep(a) PROVE Late
  BY <1>3 DEF ProjectStep, CreateProject, UpdateProject, ArchiveProject, RestoreProject,
              Archive
<1>4. ASSUME NEW a \in User, CourseStep(a) PROVE Late
  <2>1. \A st : CourseViews(st) \in SUBSET View
    BY DEF CourseViews, View
  <2> HIDE DEF Late
  <2> SUFFICES ASSUME NEW c \in Course, NEW st,
                      \/ CreateCourse(a, c)
                      \/ UpdateCourse(a, c, st)
                      \/ ArchiveCourse(a, c)
                      \/ RestoreCourse(a, c)
               PROVE  Late
    BY <1>4 DEF CourseStep
  <2>2. CASE ArchiveCourse(a, c)
    BY <2>2 DEF ArchiveCourse, Archive, Late
  <2>3. CASE CreateCourse(a, c) \/ UpdateCourse(a, c, st) \/ RestoreCourse(a, c)
    <3>1. \E s : Validated(c, CourseViews(s)) \/ ValidatedLocked(c, CourseViews(s))
      BY <2>3 DEF CreateCourse, UpdateCourse, RestoreCourse
    <3> QED
      BY <3>1, <2>1, <1>1
  <2> QED
    BY <2>2, <2>3
<1>5. ASSUME NEW a \in User, MilestoneStep(a) PROVE Late
  <2>1. MilestoneViews \in SUBSET View
    BY DEF MilestoneViews, View
  <2> HIDE DEF Late
  <2> SUFFICES ASSUME NEW m \in Milestone, NEW st,
                      \/ CreateMilestone(a, m)
                      \/ UpdateMilestone(a, m, st)
                      \/ ArchiveMilestone(a, m)
                      \/ RestoreMilestone(a, m)
               PROVE  Late
    BY <1>5 DEF MilestoneStep
  <2>2. CASE ArchiveMilestone(a, m)
    BY <2>2 DEF ArchiveMilestone, Archive, Late
  <2>3. CASE CreateMilestone(a, m) \/ UpdateMilestone(a, m, st) \/ RestoreMilestone(a, m)
    <3>1. Validated(m, MilestoneViews) \/ ValidatedLocked(m, MilestoneViews)
      BY <2>3 DEF CreateMilestone, UpdateMilestone, RestoreMilestone
    <3> QED
      BY <3>1, <2>1, <1>1
  <2> QED
    BY <2>2, <2>3
<1>6. ASSUME NEW a \in User, TaskStep(a) PROVE Late
  <2>1. TaskViews \in SUBSET View /\ TaskViews \cup {"parent"} \in SUBSET View
    BY DEF TaskViews, View
  <2> HIDE DEF Late
  <2> SUFFICES ASSUME NEW k \in Task, NEW st,
                      \/ CreateTask(a, k)
                      \/ UpdateTask(a, k, st)
                      \/ ArchiveTask(a, k)
                      \/ RestoreTask(a, k)
               PROVE  Late
    BY <1>6 DEF TaskStep
  <2>2. CASE ArchiveTask(a, k)
    BY <2>2 DEF ArchiveTask, Archive, Late
  <2>3. CASE CreateTask(a, k) \/ UpdateTask(a, k, st) \/ RestoreTask(a, k)
    <3>1. Validated(k, TaskViews) \/ Validated(k, TaskViews \cup {"parent"})
      BY <2>3 DEF CreateTask, UpdateTask, RestoreTask
    <3> QED
      BY <3>1, <2>1, <1>1
  <2> QED
    BY <2>2, <2>3
<1>7. ASSUME NEW a \in User, ApprovalStep(a) PROVE Late
  BY <1>7 DEF ApprovalStep, SubmitCompletion, ApproveSupervisorStep, ApproveManagerStep,
              RejectRequest
<1> QED
  BY <1>2, <1>3, <1>4, <1>5, <1>6, <1>7 DEF Step

\* Only a record whose form may be kept waiting is ever late.
LEMMA HistoryNext ==
    ASSUME TypeOK, [Next]_vars
    PROVE  HistoryOK'
<1>1. CASE UNCHANGED vars
  BY <1>1 DEF TypeOK, HistoryOK, vars
<1>2. CASE Next
  <2>1. late' \subseteq Delayed
    <3>1. ASSUME NEW t, NEW needed, Validated(t, needed) \/ ValidatedLocked(t, needed)
          PROVE  late' \subseteq Delayed
      BY <3>1 DEF Validated, ValidatedLocked, TypeOK
    <3> QED
      BY <1>2, <3>1, LateStep DEF Next, TypeOK
  <2>2. views' \in [Delayed -> SUBSET View]
    BY <1>2, ViewsTyped DEF Next, Read, TypeOK
  <2> QED
    BY <2>1, <2>2 DEF HistoryOK
<1> QED
  BY <1>1, <1>2

\* A step that only gives t the status s.
LEMMA TypeSetStatus ==
    ASSUME TypeOK, NEW t \in Target, NEW s \in StatusesOf(t), SetStatus(t, s),
           HistoryOK'
    PROVE  TypeOK'
BY Tables DEF TypeOK, HistoryOK, StatusesOf, AnyStatus, SetStatus, accountVars, peopleVars,
              approvalVars

\* A step that only archives or restores t.
LEMMA TypeArchive ==
    ASSUME TypeOK, NEW t \in Target, Archive(t) \/ Restore(t),
           HistoryOK'
    PROVE  TypeOK'
BY DEF TypeOK, HistoryOK, StatusesOf, Archive, Restore, accountVars, peopleVars,
       approvalVars

LEMMA TypeNext == TypeOK /\ [Next]_vars => TypeOK'
<1> SUFFICES ASSUME TypeOK, [Next]_vars, HistoryOK' PROVE TypeOK'
  BY HistoryNext
<1> USE DEF HistoryOK
<1>1. CASE AccountStep
  <2> SUFFICES ASSUME NEW u \in User,
                      \/ \E r \in Role : UpdateAccount(u, r)
                      \/ DeactivateAccount(u)
                      \/ ReactivateAccount(u)
               PROVE  TypeOK'
    BY <1>1, AccountsAssumption DEF AccountStep
  <2> QED
    BY DEF UpdateAccount, DeactivateAccount, ReactivateAccount, TypeOK, StatusesOf,
           peopleVars, recordVars, approvalVars
<1>2. ASSUME NEW a \in User, ProjectStep(a) PROVE TypeOK'
  <2> SUFFICES ASSUME NEW p \in Project, NEW m \in User, NEW s \in User \cup {Nobody},
                      NEW st \in DOMAIN ProjectTransitions,
                      \/ CreateProject(a, p, m, s)
                      \/ UpdateProject(a, p, st, m, s)
                      \/ ArchiveProject(a, p)
                      \/ RestoreProject(a, p)
               PROVE  TypeOK'
    BY <1>2, AccountsAssumption, Tables DEF ProjectStep
  <2>1. CASE CreateProject(a, p, m, s)
    BY <2>1, KindsAssumption, Tables
       DEF CreateProject, TypeOK, StatusesOf, AnyStatus, accountVars, approvalVars
  <2>2. CASE UpdateProject(a, p, st, m, s)
    BY <2>2, KindsAssumption, Tables
       DEF UpdateProject, TypeOK, StatusesOf, AnyStatus, accountVars, approvalVars
  <2>3. CASE ArchiveProject(a, p) \/ RestoreProject(a, p)
    BY Kinds, <2>3, TypeArchive DEF ArchiveProject, RestoreProject
  <2> QED
    BY <2>1, <2>2, <2>3
<1>3. ASSUME NEW a \in User, CourseStep(a) PROVE TypeOK'
  <2> SUFFICES ASSUME NEW c \in Course, NEW st \in DOMAIN CourseTransitions,
                      \/ CreateCourse(a, c)
                      \/ UpdateCourse(a, c, st)
                      \/ ArchiveCourse(a, c)
                      \/ RestoreCourse(a, c)
               PROVE  TypeOK'
    BY <1>3, Tables DEF CourseStep, CourseTransitions
  <2>1. st \in StatusesOf(c) /\ "draft" \in StatusesOf(c)
    BY KindsAssumption, Tables DEF StatusesOf, CourseTransitions
  <2> QED
    BY Kinds, <2>1, TypeSetStatus, TypeArchive
       DEF CreateCourse, UpdateCourse, ArchiveCourse, RestoreCourse
<1>4. ASSUME NEW a \in User, MilestoneStep(a) PROVE TypeOK'
  <2> SUFFICES ASSUME NEW m \in Milestone, NEW st \in DOMAIN MilestoneTransitions,
                      \/ CreateMilestone(a, m)
                      \/ UpdateMilestone(a, m, st)
                      \/ ArchiveMilestone(a, m)
                      \/ RestoreMilestone(a, m)
               PROVE  TypeOK'
    BY <1>4, Tables DEF MilestoneStep
  <2>1. st \in StatusesOf(m) /\ "draft" \in StatusesOf(m)
    BY KindsAssumption, Tables DEF StatusesOf
  <2> QED
    BY Kinds, <2>1, TypeSetStatus, TypeArchive
       DEF CreateMilestone, UpdateMilestone, ArchiveMilestone, RestoreMilestone
<1>5. ASSUME NEW a \in User, TaskStep(a) PROVE TypeOK'
  <2> SUFFICES ASSUME NEW k \in Task, NEW st \in DOMAIN TaskTransitions,
                      \/ CreateTask(a, k)
                      \/ UpdateTask(a, k, st)
                      \/ ArchiveTask(a, k)
                      \/ RestoreTask(a, k)
               PROVE  TypeOK'
    BY <1>5, Tables DEF TaskStep
  <2>1. st \in StatusesOf(k) /\ "todo" \in StatusesOf(k)
    BY Tables DEF StatusesOf
  <2> QED
    BY Kinds, <2>1, TypeSetStatus, TypeArchive
       DEF CreateTask, UpdateTask, ArchiveTask, RestoreTask
<1>6. ASSUME NEW a \in User, ApprovalStep(a) PROVE TypeOK'
  <2> SUFFICES ASSUME NEW t \in Target, NEW n \in Attempt, NEW q \in Sequence,
                      \/ SubmitCompletion(a, t, n)
                      \/ ApproveSupervisorStep(a, t, n)
                      \/ ApproveManagerStep(a, t, n)
                      \/ RejectRequest(a, t, n, q)
               PROVE  TypeOK'
    BY Kinds, <1>6 DEF ApprovalStep
  <2>0. /\ "pending_approval" \in StatusesOf(t) \/ t \notin Milestone
        /\ "completed" \in StatusesOf(t)
        /\ t \in Task \cup Milestone => "in_progress" \in StatusesOf(t)
        /\ t \notin Task \cup Milestone => "active" \in StatusesOf(t)
    BY KindsAssumption, Tables DEF StatusesOf
  <2>a. \A s \in StatusesOf(t) :
          LET new == [status EXCEPT ![t] = s]
          IN  new \in [Target -> AnyStatus] /\ \A x \in Target : new[x] \in StatusesOf(x)
    BY DEF TypeOK, StatusesOf, AnyStatus
  <2>b. ASSUME NEW o \in Outcome, NEW r \in Sequence, RecordDecision(a, t, n, r, o)
        PROVE  decision' \in [Target -> [Attempt -> [Sequence -> DecisionRow]]]
    <3>1. [actor |-> a, outcome |-> o] \in DecisionRow
      BY DEF DecisionRow
    <3> QED
      BY <2>b, <3>1 DEF TypeOK, RecordDecision
  <2>c. ASSUME NEW r \in Sequence, NEW s \in StepStatus
        PROVE  StepAs(t, n, r, s) \in StepRow
    <3>1. step[t][n][r] \in StepRow
      BY DEF TypeOK
    <3>2. step[t][n][r].approver \in User \cup {Nobody}
      BY <3>1 DEF StepRow
    <3> QED
      BY <3>2 DEF StepAs, StepRow
  <2>1. CASE SubmitCompletion(a, t, n)
    <3>1. TargetProject(t) \in Project
      BY OwnProject
    <3>2. /\ [approver |-> supervisor[TargetProject(t)], status |-> "pending"] \in StepRow
          /\ [approver |-> manager[TargetProject(t)], status |-> "waiting"] \in StepRow
      BY <3>1 DEF TypeOK, StepRow, StepStatus
    <3>3. step' \in [Target -> [Attempt -> [Sequence -> StepRow]]]
      BY <2>1, <3>2 DEF SubmitCompletion, TypeOK
    <3> QED
      BY <2>1, <2>0, <2>a, <3>3
         DEF SubmitCompletion, TypeOK, RequestStatus, StatusesOf, accountVars, peopleVars
  <2>2. CASE ApproveSupervisorStep(a, t, n)
    <3>1. step' \in [Target -> [Attempt -> [Sequence -> StepRow]]]
      BY Kinds, <2>2, <2>c DEF ApproveSupervisorStep, TypeOK, StepStatus
    <3> QED
      BY Kinds, <2>2, <2>b, <3>1
         DEF ApproveSupervisorStep, TypeOK, RequestStatus, StatusesOf, Outcome,
             accountVars, peopleVars, recordVars
  <2>3. CASE ApproveManagerStep(a, t, n)
    <3>1. step' \in [Target -> [Attempt -> [Sequence -> StepRow]]]
      BY Kinds, <2>3, <2>c DEF ApproveManagerStep, SetStep, TypeOK, StepStatus
    <3>2. status' = status \/ status' = [status EXCEPT ![t] = "completed"]
      BY <2>3 DEF ApproveManagerStep, CompleteTarget
    <3>3. status' \in [Target -> AnyStatus] /\ \A x \in Target : status'[x] \in StatusesOf(x)
      <4>1. CASE status' = status
        BY <4>1 DEF TypeOK, StatusesOf
      <4>2. CASE status' = [status EXCEPT ![t] = "completed"]
        <5>1. status'[t] = "completed" /\ \A x \in Target : x # t => status'[x] = status[x]
          BY <4>2 DEF TypeOK
        <5>2. \A x \in Target : StatusesOf(x)' = StatusesOf(x)
          BY DEF StatusesOf
        <5>3. \A x \in Target : status'[x] \in StatusesOf(x)
          BY <5>1, <2>0 DEF TypeOK
        <5>4. status' \in [Target -> AnyStatus]
          BY <4>2, <2>0, <2>a DEF TypeOK
        <5> QED
          BY <5>3, <5>4
      <4> QED
        BY <3>2, <4>1, <4>2
    <3>4. request' \in [Target -> [Attempt -> RequestStatus \cup {"absent"}]]
      BY <2>3 DEF ApproveManagerStep, TypeOK, RequestStatus
    <3>5. decision' \in [Target -> [Attempt -> [Sequence -> DecisionRow]]]
      BY <2>3, <2>b, Kinds DEF ApproveManagerStep, Outcome
    <3>6. UNCHANGED <<archived, role, active, manager, supervisor>>
      BY <2>3 DEF ApproveManagerStep, accountVars, peopleVars
    <3> QED
      BY <3>1, <3>3, <3>4, <3>5, <3>6 DEF TypeOK, StatusesOf
  <2>4. CASE RejectRequest(a, t, n, q)
    <3>1. step' \in [Target -> [Attempt -> [Sequence -> StepRow]]]
      BY <2>4, <2>c DEF RejectRequest, SetStep, TypeOK, StepStatus
    <3> QED
      BY <2>4, <2>0, <2>a, <2>b, <3>1
         DEF RejectRequest, RejectTarget, TypeOK, RequestStatus, StatusesOf, Outcome,
             accountVars, peopleVars
  <2> QED
    BY <2>1, <2>2, <2>3, <2>4
<1>7. CASE UNCHANGED vars
  BY <1>7 DEF TypeOK, StatusesOf, vars, accountVars, peopleVars, recordVars, approvalVars
<1> QED
  BY <1>1, <1>2, <1>3, <1>4, <1>5, <1>6, <1>7 DEF Next, Step

\* Every column of every reachable state holds a value its model declares.
THEOREM TypeCorrect == Spec => []TypeOK
BY TypeInit, TypeNext, PTL DEF Spec

-----------------------------------------------------------------------------
(* The three tables of the workflow.                                        *)

\* A step of the workflow, with its arguments named.
Decide(a, t, n, q) ==
    \/ SubmitCompletion(a, t, n)
    \/ ApproveSupervisorStep(a, t, n)
    \/ ApproveManagerStep(a, t, n)
    \/ RejectRequest(a, t, n, q)

\* A step of any other service.
OtherStep ==
    \/ AccountStep
    \/ \E a \in User : ProjectStep(a) \/ CourseStep(a) \/ MilestoneStep(a) \/ TaskStep(a)

LEMMA StepKinds ==
    ASSUME [Next]_vars
    PROVE  \/ UNCHANGED vars
           \/ OtherStep
           \/ \E a \in User, t \in Target, n \in Attempt, q \in Sequence : Decide(a, t, n, q)
BY Kinds DEF Next, Step, OtherStep, ApprovalStep, Decide

\* Nothing but the workflow writes its tables.
LEMMA OthersLeaveTables ==
    ASSUME OtherStep
    PROVE  UNCHANGED approvalVars
<1>1. CASE AccountStep
  BY <1>1 DEF AccountStep, UpdateAccount, DeactivateAccount, ReactivateAccount, approvalVars
<1>2. ASSUME NEW a \in User, ProjectStep(a) PROVE UNCHANGED approvalVars
  BY <1>2 DEF ProjectStep, CreateProject, UpdateProject, ArchiveProject, RestoreProject,
              Archive, Restore, approvalVars
<1>3. ASSUME NEW a \in User, CourseStep(a) PROVE UNCHANGED approvalVars
  BY <1>3 DEF CourseStep, CreateCourse, UpdateCourse, ArchiveCourse, RestoreCourse,
              SetStatus, Archive, Restore, approvalVars
<1>4. ASSUME NEW a \in User, MilestoneStep(a) PROVE UNCHANGED approvalVars
  BY <1>4 DEF MilestoneStep, CreateMilestone, UpdateMilestone, ArchiveMilestone,
              RestoreMilestone, SetStatus, Archive, Restore, approvalVars
<1>5. ASSUME NEW a \in User, TaskStep(a) PROVE UNCHANGED approvalVars
  BY <1>5 DEF TaskStep, CreateTask, UpdateTask, ArchiveTask, RestoreTask,
              SetStatus, Archive, Restore, approvalVars
<1> QED
  BY <1>1, <1>2, <1>3, <1>4, <1>5 DEF OtherStep

\* A workflow step writes the rows of one attempt of one record.
LEMMA OneAttempt ==
    ASSUME TypeOK, NEW a \in User, NEW t \in Target, NEW n \in Attempt,
           NEW q \in Sequence, Decide(a, t, n, q),
           NEW x \in Target, NEW k \in Attempt, x # t \/ k # n
    PROVE  UNCHANGED <<request[x][k], step[x][k], decision[x][k]>>
<1>1. UNCHANGED request[x][k]
  BY DEF TypeOK, Decide, SubmitCompletion, ApproveSupervisorStep, ApproveManagerStep,
         RejectRequest
<1>2. UNCHANGED step[x][k]
  BY DEF TypeOK, Decide, SubmitCompletion, ApproveSupervisorStep, ApproveManagerStep,
         RejectRequest, SetStep
<1>3. UNCHANGED decision[x][k]
  BY DEF TypeOK, Decide, SubmitCompletion, ApproveSupervisorStep, ApproveManagerStep,
         RejectRequest, RecordDecision
<1> QED
  BY <1>1, <1>2, <1>3

LEMMA TablesInit == Init => TablesAgree
BY Kinds DEF Init, TablesAgree, RequestState, StepState, NoStep, NoDecision, Outcome

LEMMA TablesStable ==
    ASSUME NEW t, NEW n, UNCHANGED <<request[t][n], step[t][n], decision[t][n]>>,
           RequestState(t, n)
    PROVE  RequestState(t, n)'
BY DEF RequestState, StepState

\* What a decision leaves in the rows of the attempt it decides.
LEMMA DecisionRows ==
    ASSUME TypeOK, NEW a, NEW t \in Target, NEW n \in Attempt, NEW q \in Sequence,
           NEW o, RecordDecision(a, t, n, q, o)
    PROVE  /\ decision'[t][n][q] = [actor |-> a, outcome |-> o]
           /\ \A r \in Sequence : r # q => decision'[t][n][r] = decision[t][n][r]
BY DEF TypeOK, RecordDecision

LEMMA OtherDecisions ==
    ASSUME TypeOK, NEW a, NEW t \in Target, NEW n \in Attempt, NEW q \in Sequence,
           NEW o, RecordDecision(a, t, n, q, o), NEW r \in Sequence, r # q
    PROVE  decision'[t][n][r] = decision[t][n][r]
BY DEF TypeOK, RecordDecision

LEMMA StepRows ==
    ASSUME TypeOK, NEW t \in Target, NEW n \in Attempt, NEW q \in Sequence,
           NEW s, SetStep(t, n, q, s)
    PROVE  /\ step'[t][n][q] = StepAs(t, n, q, s)
           /\ \A r \in Sequence : r # q => step'[t][n][r] = step[t][n][r]
BY DEF TypeOK, SetStep

LEMMA TablesDecide ==
    ASSUME TypeOK, TablesAgree, NEW a \in User, NEW t \in Target, NEW n \in Attempt,
           NEW q \in Sequence, Decide(a, t, n, q)
    PROVE  RequestState(t, n)'
<1> USE Kinds
<1>0. RequestState(t, n)
  BY DEF TablesAgree
<1>1. CASE SubmitCompletion(a, t, n)
  <2>1. request[t][n] = "absent"
    BY <1>1 DEF SubmitCompletion, IsNextAttempt, Attempt
  <2>2. \A r \in Sequence : decision[t][n][r] = NoDecision
    BY <1>0, <2>1 DEF RequestState, StepState, Outcome
  <2>3. /\ request'[t][n] = "pending_supervisor" /\ decision' = decision
        /\ step'[t][n][1].status = "pending" /\ step'[t][n][2].status = "waiting"
    BY <1>1 DEF SubmitCompletion, TypeOK
  <2> QED
    BY <2>2, <2>3 DEF RequestState, StepState, Outcome
<1>2. CASE ApproveSupervisorStep(a, t, n)
  <2>1. /\ step[t][n][1].approver = a /\ request[t][n] = "pending_supervisor"
        /\ request'[t][n] = "pending_manager"
    BY <1>2 DEF ApproveSupervisorStep, AuthorizeDecision, PendingStatus, TypeOK
  <2>2. /\ step'[t][n][1] = StepAs(t, n, 1, "approved")
        /\ step'[t][n][2] = StepAs(t, n, 2, "pending")
    BY <1>2 DEF ApproveSupervisorStep, TypeOK
  <2>3. /\ decision'[t][n][1] = [actor |-> a, outcome |-> "approved"]
        /\ decision'[t][n][2] = decision[t][n][2]
    BY <1>2, DecisionRows DEF ApproveSupervisorStep
  <2>4. decision[t][n][2] = NoDecision
    BY <1>0, <2>1 DEF RequestState, StepState, Outcome
  <2> QED
    BY <2>1, <2>2, <2>3, <2>4 DEF RequestState, StepState, Outcome, StepAs
<1>3. CASE ApproveManagerStep(a, t, n)
  <2>1. /\ step[t][n][2].approver = a /\ request[t][n] = "pending_manager"
        /\ request'[t][n] = "approved"
    BY <1>3 DEF ApproveManagerStep, AuthorizeDecision, PendingStatus, TypeOK
  <2>2. step'[t][n][2] = StepAs(t, n, 2, "approved") /\ step'[t][n][1] = step[t][n][1]
    BY <1>3, StepRows DEF ApproveManagerStep
  <2>3. /\ decision'[t][n][2] = [actor |-> a, outcome |-> "approved"]
        /\ decision'[t][n][1] = decision[t][n][1]
    BY <1>3, DecisionRows DEF ApproveManagerStep
  <2>4. StepState(t, n, 1, "approved")
    BY <1>0, <2>1 DEF RequestState
  <2> QED
    BY <2>1, <2>2, <2>3, <2>4 DEF RequestState, StepState, Outcome, StepAs
<1>4. CASE RejectRequest(a, t, n, q)
  <2>1. /\ step[t][n][q].approver = a /\ request[t][n] = PendingStatus[q]
        /\ request'[t][n] = "rejected"
    BY <1>4 DEF RejectRequest, AuthorizeDecision, TypeOK
  <2>2. /\ step'[t][n][q] = StepAs(t, n, q, "rejected")
        /\ \A r \in Sequence : r # q => step'[t][n][r] = step[t][n][r]
    BY <1>4, StepRows DEF RejectRequest
  <2>3. /\ decision'[t][n][q] = [actor |-> a, outcome |-> "rejected"]
        /\ \A r \in Sequence : r # q => decision'[t][n][r] = decision[t][n][r]
    BY <1>4, DecisionRows DEF RejectRequest
  <2>4. StepState(t, n, q, "rejected")'
    BY <2>1, <2>2, <2>3 DEF StepState, Outcome, StepAs
  <2>5. CASE q = 1
    <3>1. StepState(t, n, 2, "waiting")
      BY <1>0, <2>1, <2>5 DEF RequestState, PendingStatus
    <3> QED
      BY <2>1, <2>2, <2>3, <2>4, <2>5, <3>1 DEF RequestState, StepState, Outcome
  <2>6. CASE q = 2
    <3>1. StepState(t, n, 1, "approved")
      BY <1>0, <2>1, <2>6 DEF RequestState, PendingStatus
    <3> QED
      BY <2>1, <2>2, <2>3, <2>4, <2>6, <3>1 DEF RequestState, StepState, Outcome
  <2> QED
    BY <2>5, <2>6
<1> QED
  BY <1>1, <1>2, <1>3, <1>4 DEF Decide

LEMMA TablesNext == TypeOK /\ TablesAgree /\ [Next]_vars => TablesAgree'
<1> SUFFICES ASSUME TypeOK, TablesAgree, [Next]_vars,
                    NEW x \in Target, NEW k \in Attempt
             PROVE  RequestState(x, k)'
  BY DEF TablesAgree
<1>0. RequestState(x, k)
  BY DEF TablesAgree
<1>1. CASE UNCHANGED vars \/ OtherStep
  <2>1. UNCHANGED approvalVars
    BY <1>1, OthersLeaveTables DEF vars
  <2> QED
    BY <1>0, <2>1, TablesStable DEF approvalVars
<1>2. ASSUME NEW a \in User, NEW t \in Target, NEW n \in Attempt, NEW q \in Sequence,
             Decide(a, t, n, q)
      PROVE  RequestState(x, k)'
  <2>1. CASE x = t /\ k = n
    BY <1>2, <2>1, TablesDecide
  <2>2. CASE x # t \/ k # n
    BY <1>0, <1>2, <2>2, OneAttempt, TablesStable
  <2> QED
    BY <2>1, <2>2
<1> QED
  BY <1>1, <1>2, StepKinds

-----------------------------------------------------------------------------
(* One open attempt at a time.                                              *)

LEMMA LatestInit == Init => OnlyLatestAttemptOpen
BY DEF Init, OnlyLatestAttemptOpen, Open

LEMMA LatestNext ==
    TypeOK /\ OnlyLatestAttemptOpen /\ [Next]_vars => OnlyLatestAttemptOpen'
<1> SUFFICES ASSUME TypeOK, OnlyLatestAttemptOpen, [Next]_vars,
                    NEW x \in Target, NEW j \in Attempt, NEW k \in Attempt,
                    Open(x, j)', k > j
             PROVE  request'[x][k] = "absent"
  BY DEF OnlyLatestAttemptOpen
<1>1. CASE UNCHANGED vars \/ OtherStep
  <2>1. UNCHANGED request
    BY <1>1, OthersLeaveTables DEF vars, approvalVars
  <2> QED
    BY <2>1 DEF OnlyLatestAttemptOpen, Open
<1>2. ASSUME NEW a \in User, NEW t \in Target, NEW n \in Attempt, NEW q \in Sequence,
             Decide(a, t, n, q)
      PROVE  request'[x][k] = "absent"
  <2>1. CASE x # t
    <3>1. request'[x] = request[x]
      BY <1>2, <2>1 DEF TypeOK, Decide, SubmitCompletion, ApproveSupervisorStep,
                        ApproveManagerStep, RejectRequest
    <3> QED
      BY <3>1 DEF OnlyLatestAttemptOpen, Open
  <2>2. CASE x = t /\ SubmitCompletion(a, t, n)
    <3>1. /\ ~HasPendingApproval(t) /\ IsNextAttempt(t, n)
          /\ \A i \in Attempt : i # n => request'[t][i] = request[t][i]
      BY <2>2 DEF SubmitCompletion, TypeOK
    <3>2. j = n
      BY <2>2, <3>1 DEF HasPendingApproval, Open
    <3> QED
      BY <2>2, <3>1, <3>2 DEF IsNextAttempt, Attempt
  <2>3. CASE x = t /\ ~SubmitCompletion(a, t, n)
    <3>1. /\ Open(t, n)
          /\ \A i \in Attempt : i # n => request'[t][i] = request[t][i]
      BY <1>2, <2>3 DEF Decide, ApproveSupervisorStep, ApproveManagerStep, RejectRequest,
                        PendingStatus, Open, TypeOK, Sequence
    <3>2. \A i \in Attempt : i > n => request[t][i] = "absent"
      BY <3>1 DEF OnlyLatestAttemptOpen
    <3>3. \A i \in Attempt : n > i => ~Open(t, i)
      BY <3>1 DEF OnlyLatestAttemptOpen, Open
    <3>4. j = n
      BY <2>3, <3>1, <3>2, <3>3 DEF Open, Attempt
    <3> QED
      BY <2>3, <3>1, <3>2, <3>4 DEF Attempt
  <2> QED
    BY <2>1, <2>2, <2>3
<1> QED
  BY <1>1, <1>2, StepKinds

-----------------------------------------------------------------------------
(* Two different approvers: the constraint keeps a project's supervisor and *)
(* manager apart, a request copies them and no later step renames an        *)
(* approver.                                                                *)

StaffDiffer ==
    \A p \in Project : supervisor[p] # Nobody => manager[p] # supervisor[p]

LEMMA StaffInit == Init => StaffDiffer /\ TwoDifferentApprovers
BY DEF Init, StaffDiffer, TwoDifferentApprovers

LEMMA StaffNext == TypeOK /\ StaffDiffer /\ [Next]_vars => StaffDiffer'
<1> SUFFICES ASSUME TypeOK, StaffDiffer, [Next]_vars PROVE StaffDiffer'
  OBVIOUS
<1>1. ASSUME NEW a \in User, NEW p \in Project, NEW m \in User,
             NEW s \in SupervisorChoice,
             \/ CreateProject(a, p, m, s)
             \/ \E st \in DOMAIN ProjectTransitions : UpdateProject(a, p, st, m, s)
      PROVE  StaffDiffer'
  <2>1. s # Nobody => m # s
    BY <1>1 DEF CreateProject, UpdateProject, ValidPeople
  <2>2. /\ manager' = [manager EXCEPT ![p] = m]
        /\ supervisor' = [supervisor EXCEPT ![p] = s]
    BY <1>1 DEF CreateProject, UpdateProject
  <2> QED
    BY <2>1, <2>2 DEF TypeOK, StaffDiffer
<1>2. CASE UNCHANGED peopleVars
  BY <1>2 DEF StaffDiffer, peopleVars
<1>3. CASE AccountStep
  BY <1>2, <1>3 DEF AccountStep, UpdateAccount, DeactivateAccount, ReactivateAccount
<1>4. ASSUME NEW a \in User, ProjectStep(a) PROVE StaffDiffer'
  BY <1>1, <1>2, <1>4 DEF ProjectStep, ArchiveProject, RestoreProject, Archive, Restore
<1>5. ASSUME NEW a \in User, CourseStep(a) PROVE StaffDiffer'
  BY <1>2, <1>5 DEF CourseStep, CreateCourse, UpdateCourse, ArchiveCourse, RestoreCourse,
                    SetStatus, Archive, Restore
<1>6. ASSUME NEW a \in User, MilestoneStep(a) PROVE StaffDiffer'
  BY <1>2, <1>6 DEF MilestoneStep, CreateMilestone, UpdateMilestone, ArchiveMilestone,
                    RestoreMilestone, SetStatus, Archive, Restore
<1>7. ASSUME NEW a \in User, TaskStep(a) PROVE StaffDiffer'
  BY <1>2, <1>7 DEF TaskStep, CreateTask, UpdateTask, ArchiveTask, RestoreTask,
                    SetStatus, Archive, Restore
<1>8. ASSUME NEW a \in User, ApprovalStep(a) PROVE StaffDiffer'
  BY <1>2, <1>8 DEF ApprovalStep, SubmitCompletion, ApproveSupervisorStep,
                    ApproveManagerStep, RejectRequest
<1>9. CASE UNCHANGED vars
  BY <1>2, <1>9 DEF vars
<1> QED
  BY <1>3, <1>4, <1>5, <1>6, <1>7, <1>8, <1>9 DEF Next, Step

LEMMA ApproversNext ==
    TypeOK /\ StaffDiffer /\ TwoDifferentApprovers /\ [Next]_vars
      => TwoDifferentApprovers'
<1> SUFFICES ASSUME TypeOK, StaffDiffer, TwoDifferentApprovers, [Next]_vars,
                    NEW x \in Target, NEW k \in Attempt, request'[x][k] # "absent"
             PROVE  step'[x][k][1].approver # step'[x][k][2].approver
  BY DEF TwoDifferentApprovers
<1> USE Kinds
<1>1. CASE UNCHANGED vars \/ OtherStep
  <2>1. UNCHANGED <<request, step>>
    BY <1>1, OthersLeaveTables DEF vars, approvalVars
  <2> QED
    BY <2>1 DEF TwoDifferentApprovers
<1>2. ASSUME NEW a \in User, NEW t \in Target, NEW n \in Attempt, NEW q \in Sequence,
             Decide(a, t, n, q)
      PROVE  step'[x][k][1].approver # step'[x][k][2].approver
  <2>1. CASE x # t \/ k # n
    BY <1>2, <2>1, OneAttempt DEF TwoDifferentApprovers
  <2>2. CASE x = t /\ k = n /\ SubmitCompletion(a, t, n)
    <3>1. TargetProject(t) \in Project
      BY OwnProject
    <3>2. supervisor[TargetProject(t)] # manager[TargetProject(t)]
      BY <2>2, <3>1 DEF SubmitCompletion, ValidateSubmissionTarget, StaffDiffer
    <3>3. /\ step'[t][n][1].approver = supervisor[TargetProject(t)]
          /\ step'[t][n][2].approver = manager[TargetProject(t)]
      BY <2>2 DEF SubmitCompletion, TypeOK
    <3> QED
      BY <2>2, <3>2, <3>3
  <2>3. CASE x = t /\ k = n /\ ~SubmitCompletion(a, t, n)
    <3>1. request[t][n] # "absent"
      BY <1>2, <2>3 DEF Decide, ApproveSupervisorStep, ApproveManagerStep, RejectRequest,
                        PendingStatus
    <3>2. \A r \in Sequence : step'[t][n][r].approver = step[t][n][r].approver
      <4>1. CASE ApproveSupervisorStep(a, t, n)
        <5>1. /\ step'[t][n][1] = StepAs(t, n, 1, "approved")
              /\ step'[t][n][2] = StepAs(t, n, 2, "pending")
          BY <4>1 DEF ApproveSupervisorStep, TypeOK
        <5> QED
          BY <5>1 DEF StepAs
      <4>2. CASE ApproveManagerStep(a, t, n)
        <5>1. /\ step'[t][n][2] = StepAs(t, n, 2, "approved")
              /\ step'[t][n][1] = step[t][n][1]
          BY <4>2, StepRows DEF ApproveManagerStep
        <5> QED
          BY <5>1 DEF StepAs
      <4>3. CASE RejectRequest(a, t, n, q)
        <5>1. /\ step'[t][n][q] = StepAs(t, n, q, "rejected")
              /\ \A r \in Sequence : r # q => step'[t][n][r] = step[t][n][r]
          BY <4>3, StepRows DEF RejectRequest
        <5> QED
          BY <5>1 DEF StepAs
      <4> QED
        BY <1>2, <2>3, <4>1, <4>2, <4>3 DEF Decide
    <3> QED
      BY <2>3, <3>1, <3>2 DEF TwoDifferentApprovers
  <2> QED
    BY <2>1, <2>2, <2>3
<1> QED
  BY <1>1, <1>2, StepKinds

-----------------------------------------------------------------------------
(* The lifecycle of the targets.                                            *)

\* What a service outside the workflow may do to the record x.
EditAllowed(x) ==
    /\ status'[x] # status[x] =>
         /\ status[x] = "absent" \/ ~HasPendingApproval(x)
         /\ x \in Milestone => "pending_approval" \notin {status[x], status'[x]}
         /\ x \notin Task => "completed" \notin {status[x], status'[x]}
    /\ archived'[x] # archived[x] /\ x \notin Task =>
         archived[x] \/ ~HasPendingApproval(x)

LEMMA StatusEdit ==
    ASSUME TypeOK, NEW t \in Target, NEW s, SetStatus(t, s),
           status[t] = "absent" \/ ~HasPendingApproval(t),
           t \in Milestone => "pending_approval" \notin {status[t], s},
           t \notin Task => "completed" \notin {status[t], s},
           NEW x \in Target
    PROVE  EditAllowed(x)
BY DEF TypeOK, SetStatus, EditAllowed

LEMMA ArchiveEdit ==
    ASSUME TypeOK, NEW t \in Target,
           \/ Archive(t) /\ (t \in Task \/ ~HasPendingApproval(t))
           \/ Restore(t),
           NEW x \in Target
    PROVE  EditAllowed(x)
BY DEF TypeOK, Archive, Restore, EditAllowed

LEMMA OthersEdit ==
    ASSUME TypeOK, OtherStep, NEW x \in Target
    PROVE  EditAllowed(x)
<1> USE Kinds, KindsAssumption, Tables
<1>1. CASE UNCHANGED recordVars
  BY <1>1 DEF recordVars, EditAllowed
<1>2. CASE AccountStep
  BY <1>1, <1>2 DEF AccountStep, UpdateAccount, DeactivateAccount, ReactivateAccount
<1>3. ASSUME NEW a \in User, ProjectStep(a) PROVE EditAllowed(x)
  <2> SUFFICES ASSUME NEW p \in Project, NEW m \in User, NEW s \in User \cup {Nobody},
                      NEW st \in DOMAIN ProjectTransitions,
                      \/ CreateProject(a, p, m, s)
                      \/ UpdateProject(a, p, st, m, s)
                      \/ ArchiveProject(a, p)
                      \/ RestoreProject(a, p)
               PROVE  EditAllowed(x)
    BY <1>3, AccountsAssumption DEF ProjectStep
  <2>1. CASE CreateProject(a, p, m, s)
    BY <2>1 DEF CreateProject, TypeOK, Exists, EditAllowed
  <2>2. CASE UpdateProject(a, p, st, m, s)
    <3>1. /\ ~HasPendingApproval(p) /\ status[p] # "completed" /\ status[p] # "absent"
          /\ status' = [status EXCEPT ![p] = st] /\ archived' = archived
          /\ st = status[p] \/ st \in ProjectTransitions[status[p]]
      BY <2>2 DEF UpdateProject, Exists
    <3>2. status[p] \in DOMAIN ProjectTransitions
      BY <3>1 DEF TypeOK, StatusesOf
    <3>3. st # "completed"
      BY <3>1, <3>2, ProjectTable
    <3> QED
      BY <3>1, <3>3 DEF TypeOK, EditAllowed
  <2>3. CASE ArchiveProject(a, p) \/ RestoreProject(a, p)
    BY <2>3, ArchiveEdit DEF ArchiveProject, RestoreProject
  <2> QED
    BY <2>1, <2>2, <2>3
<1>4. ASSUME NEW a \in User, CourseStep(a) PROVE EditAllowed(x)
  <2> SUFFICES ASSUME NEW c \in Course, NEW st \in DOMAIN CourseTransitions,
                      \/ CreateCourse(a, c)
                      \/ UpdateCourse(a, c, st)
                      \/ ArchiveCourse(a, c)
                      \/ RestoreCourse(a, c)
               PROVE  EditAllowed(x)
    BY <1>4 DEF CourseStep, CourseTransitions
  <2>1. CASE CreateCourse(a, c)
    BY <2>1, StatusEdit DEF CreateCourse, Exists
  <2>2. CASE UpdateCourse(a, c, st)
    <3>1. /\ ~HasPendingApproval(c) /\ status[c] # "completed" /\ status[c] # "absent"
          /\ st \in ProjectTransitions[status[c]] /\ SetStatus(c, st)
      BY <2>2 DEF UpdateCourse, CourseTransitions, Exists
    <3>2. status[c] \in DOMAIN ProjectTransitions
      BY <3>1 DEF TypeOK, StatusesOf
    <3> QED
      BY <3>1, <3>2, ProjectTable, StatusEdit
  <2>3. CASE ArchiveCourse(a, c) \/ RestoreCourse(a, c)
    BY <2>3, ArchiveEdit DEF ArchiveCourse, RestoreCourse
  <2> QED
    BY <2>1, <2>2, <2>3
<1>5. ASSUME NEW a \in User, MilestoneStep(a) PROVE EditAllowed(x)
  <2> SUFFICES ASSUME NEW m \in Milestone, NEW st \in DOMAIN MilestoneTransitions,
                      \/ CreateMilestone(a, m)
                      \/ UpdateMilestone(a, m, st)
                      \/ ArchiveMilestone(a, m)
                      \/ RestoreMilestone(a, m)
               PROVE  EditAllowed(x)
    BY <1>5 DEF MilestoneStep
  <2>1. CASE CreateMilestone(a, m)
    BY <2>1, StatusEdit DEF CreateMilestone, Exists
  <2>2. CASE UpdateMilestone(a, m, st)
    <3>1. /\ ~HasPendingApproval(m) /\ SetStatus(m, st)
          /\ status[m] \notin {"pending_approval", "completed", "absent"}
          /\ st \in MilestoneTransitions[status[m]]
      BY <2>2 DEF UpdateMilestone, Exists
    <3>2. status[m] \in DOMAIN MilestoneTransitions
      BY <3>1 DEF TypeOK, StatusesOf
    <3> QED
      BY <3>1, <3>2, MilestoneTable, StatusEdit
  <2>3. CASE ArchiveMilestone(a, m) \/ RestoreMilestone(a, m)
    BY <2>3, ArchiveEdit DEF ArchiveMilestone, RestoreMilestone
  <2> QED
    BY <2>1, <2>2, <2>3
<1>6. ASSUME NEW a \in User, TaskStep(a) PROVE EditAllowed(x)
  <2> SUFFICES ASSUME NEW k \in Task, NEW st,
                      \/ CreateTask(a, k)
                      \/ UpdateTask(a, k, st)
                      \/ ArchiveTask(a, k)
                      \/ RestoreTask(a, k)
               PROVE  EditAllowed(x)
    BY <1>6 DEF TaskStep
  <2>1. CASE CreateTask(a, k) \/ UpdateTask(a, k, st)
    BY <2>1, StatusEdit DEF CreateTask, UpdateTask, Exists
  <2>2. CASE ArchiveTask(a, k) \/ RestoreTask(a, k)
    BY <2>2, ArchiveEdit DEF ArchiveTask, RestoreTask
  <2> QED
    BY <2>1, <2>2
<1> QED
  BY <1>2, <1>3, <1>4, <1>5, <1>6 DEF OtherStep

\* The three lifecycle invariants, for one record.
Lifecycle(x) ==
    /\ x \in Milestone =>
         (status[x] = "pending_approval" <=> \E n \in Attempt : Open(x, n))
    /\ x \notin Task =>
         (status[x] = "completed" <=> \E n \in Attempt : request[x][n] = "approved")
    /\ \A n \in Attempt :
         Open(x, n) =>
            /\ x \in Task => status[x] = "completed"
            /\ x \in Course \cup Project => status[x] = "active"
            /\ x \notin Task => ~archived[x]

LifecycleInv == \A x \in Target : Lifecycle(x)

LEMMA LifecycleParts ==
    /\ LifecycleInv => MilestonePendingIffOpen
    /\ LifecycleInv => CompletedIffApproved
    /\ LifecycleInv => OpenTargetUnmoved
BY KindsAssumption, Kinds
   DEF LifecycleInv, Lifecycle, MilestonePendingIffOpen, CompletedIffApproved,
       OpenTargetUnmoved

LEMMA LifecycleInit == Init => LifecycleInv
BY DEF Init, LifecycleInv, Lifecycle, Open

LEMMA LifecycleOthers ==
    ASSUME TypeOK, NEW x \in Target, Lifecycle(x), EditAllowed(x),
           UNCHANGED request
    PROVE  Lifecycle(x)'
<1>1. (\E n \in Attempt : Open(x, n)) <=> HasPendingApproval(x)
  BY DEF Open, HasPendingApproval
<1>2. \A n \in Attempt : Open(x, n)' <=> Open(x, n)
  BY DEF Open
<1>3. HasPendingApproval(x) => status[x] # "absent"
  BY <1>1, Kinds DEF Lifecycle
<1>4. HasPendingApproval(x) => status'[x] = status[x]
  BY <1>3 DEF EditAllowed
<1>5. HasPendingApproval(x) /\ x \notin Task => archived'[x] = archived[x]
  BY <1>1 DEF EditAllowed, Lifecycle
<1>6. x \in Milestone => (status'[x] = "pending_approval" <=> status[x] = "pending_approval")
  BY DEF EditAllowed
<1>7. x \notin Task => (status'[x] = "completed" <=> status[x] = "completed")
  BY DEF EditAllowed
<1> QED
  BY <1>1, <1>2, <1>4, <1>5, <1>6, <1>7 DEF Lifecycle

LEMMA LifecycleDecide ==
    ASSUME TypeOK, OnlyLatestAttemptOpen, NEW a \in User, NEW t \in Target,
           NEW n \in Attempt, NEW q \in Sequence, Decide(a, t, n, q), Lifecycle(t)
    PROVE  Lifecycle(t)'
<1> USE KindsAssumption, Kinds
<1>a. archived' = archived
  BY DEF Decide, SubmitCompletion, ApproveSupervisorStep, ApproveManagerStep,
         RejectRequest, recordVars
<1>b. \A i \in Attempt : i # n => request'[t][i] = request[t][i]
  <2> SUFFICES ASSUME NEW i \in Attempt, i # n PROVE request'[t][i] = request[t][i]
    OBVIOUS
  <2>1. UNCHANGED <<request[t][i], step[t][i], decision[t][i]>>
    BY OneAttempt
  <2> QED
    BY <2>1
<1>1. archived' = archived /\ \A i \in Attempt : i # n => request'[t][i] = request[t][i]
  BY <1>a, <1>b
<1>2. CASE SubmitCompletion(a, t, n)
  <2>0. request[t][n] = "absent"
    BY <1>2 DEF SubmitCompletion, IsNextAttempt, Attempt
  <2>1. /\ request'[t][n] = "pending_supervisor"
        /\ status'[t] = IF t \in Milestone THEN "pending_approval" ELSE status[t]
    BY <1>2 DEF SubmitCompletion, TypeOK
  <2>2. /\ ~archived[t]
        /\ t \in Milestone => status[t] = "in_progress"
        /\ t \in Task => status[t] = "completed"
        /\ t \in Course \cup Project => status[t] = "active"
    BY <1>2 DEF SubmitCompletion, ValidateSubmissionTarget
  <2> QED
    BY <1>1, <2>0, <2>1, <2>2 DEF Lifecycle, Open
<1>3. CASE ApproveSupervisorStep(a, t, n)
  <2>1. /\ request[t][n] = "pending_supervisor" /\ request'[t][n] = "pending_manager"
        /\ status' = status
    BY <1>3 DEF ApproveSupervisorStep, PendingStatus, TypeOK, recordVars
  <2> QED
    BY <1>1, <2>1 DEF Lifecycle, Open
<1>4. ASSUME ApproveManagerStep(a, t, n) \/ RejectRequest(a, t, n, q)
      PROVE  /\ Open(t, n)
             /\ \A i \in Attempt : ~Open(t, i)'
             /\ t \notin Task => \A i \in Attempt : request[t][i] # "approved"
  <2>1. Open(t, n) /\ request'[t][n] \in {"approved", "rejected"}
    BY <1>4 DEF ApproveManagerStep, RejectRequest, PendingStatus, Open, TypeOK
  <2>2. \A i \in Attempt : i # n => ~Open(t, i)
    BY <2>1 DEF OnlyLatestAttemptOpen, Open, Attempt
  <2>3. t \notin Task => status[t] # "completed"
    BY <2>1 DEF Lifecycle
  <2> QED
    BY <1>1, <2>1, <2>2, <2>3 DEF Lifecycle, Open
<1>5. CASE ApproveManagerStep(a, t, n)
  <2>1. request'[t][n] = "approved" /\ (t \notin Task => status'[t] = "completed")
    BY <1>5 DEF ApproveManagerStep, CompleteTarget, TypeOK
  <2> QED
    BY <1>4, <1>5, <2>1 DEF Lifecycle
<1>6. CASE RejectRequest(a, t, n, q)
  <2>1. request'[t][n] = "rejected" /\ status'[t] \in {"in_progress", "active"}
    BY <1>6 DEF RejectRequest, RejectTarget, TypeOK
  <2> QED
    BY <1>1, <1>4, <1>6, <2>1 DEF Lifecycle
<1> QED
  BY <1>2, <1>3, <1>5, <1>6 DEF Decide

LEMMA LifecycleNext ==
    TypeOK /\ OnlyLatestAttemptOpen /\ LifecycleInv /\ [Next]_vars => LifecycleInv'
<1> SUFFICES ASSUME TypeOK, OnlyLatestAttemptOpen, LifecycleInv, [Next]_vars,
                    NEW x \in Target
             PROVE  Lifecycle(x)'
  BY DEF LifecycleInv
<1>0. Lifecycle(x)
  BY DEF LifecycleInv
<1>1. CASE UNCHANGED vars
  BY <1>0, <1>1 DEF vars, recordVars, approvalVars, Lifecycle, Open
<1>2. CASE OtherStep
  BY <1>0, <1>2, OthersEdit, OthersLeaveTables, LifecycleOthers DEF approvalVars
<1>3. ASSUME NEW a \in User, NEW t \in Target, NEW n \in Attempt, NEW q \in Sequence,
             Decide(a, t, n, q)
      PROVE  Lifecycle(x)'
  <2>1. CASE x = t
    BY <1>0, <1>3, <2>1, LifecycleDecide
  <2>2. CASE x # t
    <3>1. UNCHANGED <<request[x], status[x], archived[x]>>
      BY <1>3, <2>2
         DEF TypeOK, Decide, SubmitCompletion, ApproveSupervisorStep, ApproveManagerStep,
             RejectRequest, CompleteTarget, RejectTarget, recordVars
    <3> QED
      BY <1>0, <3>1 DEF Lifecycle, Open
  <2> QED
    BY <2>1, <2>2
<1> QED
  BY <1>1, <1>2, <1>3, StepKinds

-----------------------------------------------------------------------------
(* The inductive invariant: the properties hold each other up.              *)

IInv ==
    /\ TypeOK
    /\ TablesAgree
    /\ OnlyLatestAttemptOpen
    /\ StaffDiffer
    /\ TwoDifferentApprovers
    /\ LifecycleInv

LEMMA Inductive == Spec => []IInv
<1>1. Init => IInv
  BY TypeInit, TablesInit, LatestInit, StaffInit, LifecycleInit DEF IInv
<1>2. IInv /\ [Next]_vars => IInv'
  BY TypeNext, TablesNext, LatestNext, StaffNext, ApproversNext, LifecycleNext DEF IInv
<1> QED
  BY <1>1, <1>2, PTL DEF Spec

\* The request, its two steps and its two decisions always tell the same story.
THEOREM Tables_Agree == Spec => []TablesAgree
<1>1. IInv => TablesAgree
  BY DEF IInv
<1> QED
  BY <1>1, Inductive, PTL

\* At most one request of a record is open, and it is the latest.
THEOREM Only_Latest_Open == Spec => []OnlyLatestAttemptOpen
<1>1. IInv => OnlyLatestAttemptOpen
  BY DEF IInv
<1> QED
  BY <1>1, Inductive, PTL

\* No request is decided twice by the same person.
THEOREM Two_Approvers == Spec => []TwoDifferentApprovers
<1>1. IInv => TwoDifferentApprovers
  BY DEF IInv
<1> QED
  BY <1>1, Inductive, PTL

\* A milestone reads "pending approval" exactly while a request for it is open.
THEOREM Milestone_Pending == Spec => []MilestonePendingIffOpen
<1>1. IInv => MilestonePendingIffOpen
  BY LifecycleParts DEF IInv
<1> QED
  BY <1>1, Inductive, PTL

\* Courses, milestones and projects are completed by approval and only so.
THEOREM Completed_Approved == Spec => []CompletedIffApproved
<1>1. IInv => CompletedIffApproved
  BY LifecycleParts DEF IInv
<1> QED
  BY <1>1, Inductive, PTL

\* The target of an open request stays as it was submitted.
THEOREM Open_Target_Unmoved == Spec => []OpenTargetUnmoved
<1>1. IInv => OpenTargetUnmoved
  BY LifecycleParts DEF IInv
<1> QED
  BY <1>1, Inductive, PTL

-----------------------------------------------------------------------------
(* History.                                                                 *)

\* What one step may do to the history of one attempt of x.
HistoryKept(x, k) ==
    /\ request[x][k] # "absent" => request'[x][k] # "absent"
    /\ request[x][k] \in {"approved", "rejected"} =>
         UNCHANGED <<request[x][k], step[x][k]>>
    /\ \A r \in Sequence :
         decision[x][k][r] # NoDecision =>
           UNCHANGED <<decision[x][k][r], step[x][k][r]>>

LEMMA HistoryStep ==
    ASSUME TypeOK, TablesAgree, [Next]_vars, NEW x \in Target, NEW k \in Attempt
    PROVE  HistoryKept(x, k)
<1> USE Kinds
<1>1. CASE UNCHANGED <<request[x][k], step[x][k], decision[x][k]>>
  BY <1>1 DEF HistoryKept
<1>2. CASE UNCHANGED vars \/ OtherStep
  BY <1>1, <1>2, OthersLeaveTables DEF vars, approvalVars
<1>3. ASSUME NEW a \in User, NEW t \in Target, NEW n \in Attempt, NEW q \in Sequence,
             Decide(a, t, n, q)
      PROVE  HistoryKept(x, k)
  <2>1. CASE x # t \/ k # n
    BY <1>1, <1>3, <2>1, OneAttempt
  <2>2. RequestState(t, n)
    BY DEF TablesAgree
  <2>3. CASE x = t /\ k = n /\ SubmitCompletion(a, t, n)
    <3>1. request[t][n] = "absent"
      BY <2>3 DEF SubmitCompletion, IsNextAttempt, Attempt
    <3>2. \A r \in Sequence : decision[t][n][r] = NoDecision
      BY <2>2, <3>1 DEF RequestState, StepState, Outcome
    <3> QED
      BY <2>3, <3>1, <3>2 DEF HistoryKept
  <2>4. CASE x = t /\ k = n /\ ApproveSupervisorStep(a, t, n)
    <3>1. request[t][n] = "pending_supervisor" /\ request'[t][n] = "pending_manager"
      BY <2>4 DEF ApproveSupervisorStep, PendingStatus, TypeOK
    <3>2. \A r \in Sequence : decision[t][n][r] = NoDecision
      BY <2>2, <3>1 DEF RequestState, StepState, Outcome
    <3> QED
      BY <2>4, <3>1, <3>2 DEF HistoryKept
  <2>5. CASE x = t /\ k = n /\ ApproveManagerStep(a, t, n)
    <3>1. request[t][n] = "pending_manager" /\ request'[t][n] = "approved"
      BY <2>5 DEF ApproveManagerStep, PendingStatus, TypeOK
    <3>2. decision[t][n][2] = NoDecision
      BY <2>2, <3>1 DEF RequestState, StepState, Outcome
    <3>3. decision'[t][n][1] = decision[t][n][1]
      <4>1. RecordDecision(a, t, n, 2, "approved")
        BY <2>5 DEF ApproveManagerStep
      <4> QED
        BY <4>1, OtherDecisions
    <3>4. step'[t][n][1] = step[t][n][1]
      <4>1. SetStep(t, n, 2, "approved")
        BY <2>5 DEF ApproveManagerStep
      <4> QED
        BY <4>1, StepRows
    <3> QED
      BY <2>5, <3>1, <3>2, <3>3, <3>4 DEF HistoryKept
  <2>6. CASE x = t /\ k = n /\ RejectRequest(a, t, n, q)
    <3>1. /\ request[t][n] \in {"pending_supervisor", "pending_manager"}
          /\ request[t][n] = PendingStatus[q] /\ request'[t][n] = "rejected"
      BY <2>6 DEF RejectRequest, PendingStatus, TypeOK
    <3>2. decision[t][n][q] = NoDecision
      BY <2>2, <3>1 DEF RequestState, StepState, Outcome, PendingStatus
    <3>3. \A r \in Sequence : r # q => decision'[t][n][r] = decision[t][n][r]
      BY <2>6, OtherDecisions DEF RejectRequest
    <3>4. \A r \in Sequence : r # q => step'[t][n][r] = step[t][n][r]
      BY <2>6, StepRows DEF RejectRequest
    <3> QED
      BY <2>6, <3>1, <3>2, <3>3, <3>4 DEF HistoryKept
  <2> QED
    BY <1>3, <2>1, <2>3, <2>4, <2>5, <2>6 DEF Decide
<1> QED
  BY <1>2, <1>3, StepKinds

\* Resolved requests, decided steps and decisions never change or disappear.
THEOREM History_Immutable == Spec => HistoryImmutable
<1>1. IInv /\ [Next]_vars =>
        [\A t \in Target, n \in Attempt :
           /\ request[t][n] # "absent" => request'[t][n] # "absent"
           /\ request[t][n] \in {"approved", "rejected"} =>
                UNCHANGED <<request[t][n], step[t][n]>>
           /\ \A q \in Sequence :
                decision[t][n][q] # NoDecision =>
                  UNCHANGED <<decision[t][n][q], step[t][n][q]>>]_vars
  BY HistoryStep DEF IInv, HistoryKept
<1> QED
  BY <1>1, Inductive, PTL DEF Spec, HistoryImmutable

-----------------------------------------------------------------------------
(* Records and their owners.                                                *)

\* No task without its owner: an archived course holds no unarchived task only
\* because a course that is not there holds none.
TasksOwned == \A k \in Task : Exists(k) => Exists(OwnerOf[k])

HierarchyInv == TasksOwned /\ LiveRecordsHaveLiveOwners /\ ActiveCourseProject

\* The projects in which an active course may lie.
Around == {"active", "completed"}

\* A step that makes no record live or active and takes nothing live from the
\* owners of live records keeps the hierarchy.
LEMMA CalmStep ==
    ASSUME HierarchyInv,
           \A x \in Project \cup Course : Exists(x) => Exists(x)',
           \A x \in Course \cup Task :
              /\ Exists(x)' => Exists(x)
              /\ Exists(x)' /\ ~archived'[x] => ~archived[x],
           \A x \in Course : archived'[x] => archived[x],
           \A p \in Project : /\ archived'[p] => archived[p]
                              /\ status[p] \in Around => status'[p] \in Around,
           \A c \in Course : status'[c] = "active" => status[c] = "active",
           \A x \in Course \cup Task : x \in late' <=> x \in late
    PROVE  HierarchyInv'
<1> USE HierarchyAssumption, Kinds, CourseOwner
<1>1. TasksOwned'
  BY DEF HierarchyInv, TasksOwned
<1>2. LiveRecordsHaveLiveOwners'
  <2>1. \A c \in Course : Exists(c)' /\ ~archived'[c] /\ c \notin late' => ~archived'[ProjectOf[c]]
    BY DEF HierarchyInv, LiveRecordsHaveLiveOwners
  <2>2. \A k \in Task : Exists(k)' /\ ~archived'[k] /\ k \notin late' => ~archived'[OwnerOf[k]]
    BY DEF HierarchyInv, LiveRecordsHaveLiveOwners
  <2>3. \A k \in Task : Exists(k)' /\ ~archived'[k] /\ k \notin late' =>
          ~archived'[TargetProject(k)]
    BY OwnProject DEF HierarchyInv, LiveRecordsHaveLiveOwners
  <2> QED
    BY <2>1, <2>2, <2>3 DEF LiveRecordsHaveLiveOwners
<1>3. ActiveCourseProject'
  <2> SUFFICES ASSUME NEW c \in Course, status'[c] = "active", ~archived'[c],
                      c \notin late'
               PROVE  status'[ProjectOf[c]] \in Around
    BY DEF ActiveCourseProject, Around
  <2>1. Exists(c)' /\ status[c] = "active"
    BY DEF Exists
  <2>2. ~archived[c]
    BY <2>1
  <2>3. status[ProjectOf[c]] \in Around
    BY <2>1, <2>2 DEF HierarchyInv, ActiveCourseProject, Around
  <2> QED
    BY <2>3
<1> QED
  BY <1>1, <1>2, <1>3 DEF HierarchyInv

\* The workflow makes nothing live: it decides on targets that are unmoved.
LEMMA HierarchyDecide ==
    ASSUME TypeOK, LifecycleInv, HierarchyInv, NEW a \in User, NEW t \in Target,
           NEW n \in Attempt, NEW q \in Sequence, Decide(a, t, n, q)
    PROVE  HierarchyInv'
<1> USE Kinds, KindsAssumption
<1>1. archived' = archived /\ late' = late
  BY DEF Decide, SubmitCompletion, ApproveSupervisorStep, ApproveManagerStep,
         RejectRequest, recordVars
<1>2. \A x \in Target : x # t => status'[x] = status[x]
  BY DEF TypeOK, Decide, SubmitCompletion, ApproveSupervisorStep, ApproveManagerStep,
         RejectRequest, CompleteTarget, RejectTarget, recordVars
<1>3. /\ Exists(t) /\ Exists(t)'
      /\ t \in Course => (status'[t] = "active" => status[t] = "active")
      /\ t \in Project => status'[t] \in Around
  <2>1. CASE SubmitCompletion(a, t, n)
    BY <2>1 DEF SubmitCompletion, ValidateSubmissionTarget, Exists, TypeOK, Around
  <2>2. CASE ~SubmitCompletion(a, t, n)
    <3>1. Open(t, n) /\ Lifecycle(t)
      BY <2>2 DEF Decide, ApproveSupervisorStep, ApproveManagerStep, RejectRequest,
                  PendingStatus, Open, LifecycleInv
    <3>2. /\ t \in Task => status[t] = "completed"
          /\ t \in Course \cup Project => status[t] = "active"
          /\ t \in Milestone => status[t] = "pending_approval"
      BY <3>1 DEF Lifecycle
    <3>3. /\ status'[t] = status[t] \/ status'[t] \in {"completed", "in_progress", "active"}
          /\ t \in Project => status'[t] \in {status[t], "completed", "active"}
      BY <2>2 DEF TypeOK, Decide, ApproveSupervisorStep, ApproveManagerStep, RejectRequest,
                  CompleteTarget, RejectTarget, recordVars
    <3> QED
      BY <3>2, <3>3 DEF Exists, Around, Target
  <2> QED
    BY <2>1, <2>2
<1> QED
  BY <1>1, <1>2, <1>3, CalmStep DEF Exists

\* Projects: only what is empty is archived, and what lies in an active project
\* that leaves "active" is not.
LEMMA HierarchyProject ==
    ASSUME TypeOK, HierarchyInv, NEW a \in User, ProjectStep(a)
    PROVE  HierarchyInv'
<1> USE Kinds, KindsAssumption, HierarchyAssumption, CourseOwner
<1> SUFFICES ASSUME NEW p \in Project, NEW m \in User, NEW s \in User \cup {Nobody},
                    NEW st \in DOMAIN ProjectTransitions,
                    \/ CreateProject(a, p, m, s)
                    \/ UpdateProject(a, p, st, m, s)
                    \/ ArchiveProject(a, p)
                    \/ RestoreProject(a, p)
             PROVE  HierarchyInv'
  BY AccountsAssumption, Tables DEF ProjectStep
<1>1. CASE CreateProject(a, p, m, s)
  <2>1. /\ status[p] = "absent" /\ status' = [status EXCEPT ![p] = "draft"]
        /\ archived' = archived /\ late' = late
    BY <1>1 DEF CreateProject, Exists
  <2> QED
    BY <2>1, CalmStep DEF Exists, TypeOK, Around
<1>2. CASE UpdateProject(a, p, st, m, s)
  <2>1. /\ Exists(p) /\ status[p] # "completed" /\ archived' = archived
        /\ late' = late
        /\ status' = [status EXCEPT ![p] = st] /\ st # "absent"
        /\ status[p] = "active" /\ st # "active" =>
             \A c \in Course : ProjectOf[c] = p /\ ~archived[c] => status[c] # "active"
    BY <1>2, Tables DEF UpdateProject
  <2>2. \A x \in Target : x # p => status'[x] = status[x]
    BY <2>1 DEF TypeOK
  <2>3. status'[p] = st
    BY <2>1 DEF TypeOK
  <2>4. TasksOwned'
    BY <2>1, <2>2, <2>3 DEF HierarchyInv, TasksOwned, Exists
  <2>5. LiveRecordsHaveLiveOwners'
    BY <2>1, <2>2 DEF HierarchyInv, LiveRecordsHaveLiveOwners, Exists
  <2>6. ActiveCourseProject'
    <3> SUFFICES ASSUME NEW c \in Course, status'[c] = "active", ~archived'[c],
                      c \notin late'
                 PROVE  status'[ProjectOf[c]] \in Around
      BY DEF ActiveCourseProject, Around
    <3>1. status[c] = "active" /\ ~archived[c] /\ c \notin late
      BY <2>1, <2>2
    <3>2. status[ProjectOf[c]] \in Around
      BY <3>1 DEF HierarchyInv, ActiveCourseProject, Around
    <3> QED
      BY <2>1, <2>2, <2>3, <3>1, <3>2 DEF Around
  <2> QED
    BY <2>4, <2>5, <2>6 DEF HierarchyInv
<1>3. CASE ArchiveProject(a, p)
  <2>1. /\ archived' = [archived EXCEPT ![p] = TRUE] /\ status' = status
        /\ late' = late
        /\ \A c \in Course : ProjectOf[c] = p /\ Exists(c) => archived[c]
        /\ \A k \in Task : OwnerOf[k] = p /\ Exists(k) => archived[k]
    BY <1>3 DEF ArchiveProject, Archive
  <2>2. \A x \in Target : x # p => archived'[x] = archived[x]
    BY <2>1 DEF TypeOK
  <2>3. \A c \in Course : Exists(c) /\ ~archived[c] => ProjectOf[c] # p
    BY <2>1
  <2>4. \A k \in Task : Exists(k) /\ ~archived[k] /\ k \notin late =>
          OwnerOf[k] # p /\ TargetProject(k) # p
    <3> SUFFICES ASSUME NEW k \in Task, Exists(k), ~archived[k], k \notin late
                 PROVE  OwnerOf[k] # p /\ TargetProject(k) # p
      OBVIOUS
    <3>1. OwnerOf[k] # p
      BY <2>1
    <3>2. CASE OwnerOf[k] \in Project
      BY <3>1, <3>2 DEF TargetProject
    <3>3. CASE OwnerOf[k] \in Course
      <4>1. Exists(OwnerOf[k]) /\ ~archived[OwnerOf[k]]
        BY DEF HierarchyInv, TasksOwned, LiveRecordsHaveLiveOwners
      <4>2. TargetProject(k) = ProjectOf[OwnerOf[k]]
        BY <3>3 DEF TargetProject
      <4> QED
        BY <2>3, <3>1, <3>3, <4>1, <4>2
    <3> QED
      BY <3>2, <3>3
  <2>5. TasksOwned' /\ ActiveCourseProject'
    BY <2>1, <2>2 DEF HierarchyInv, TasksOwned, ActiveCourseProject, Exists
  <2>6. LiveRecordsHaveLiveOwners'
    <3>1. \A c \in Course : Exists(c)' /\ ~archived'[c] /\ c \notin late' =>
            ~archived'[ProjectOf[c]]
      BY <2>1, <2>2, <2>3 DEF HierarchyInv, LiveRecordsHaveLiveOwners, Exists
    <3>2. \A k \in Task : Exists(k)' /\ ~archived'[k] /\ k \notin late' =>
            Exists(k) /\ ~archived[k] /\ k \notin late
      BY <2>1, <2>2 DEF Exists
    <3>3. \A k \in Task : Exists(k)' /\ ~archived'[k] /\ k \notin late' =>
            ~archived'[OwnerOf[k]] /\ ~archived'[TargetProject(k)]
      BY <2>2, <2>4, <3>2, OwnProject DEF HierarchyInv, LiveRecordsHaveLiveOwners
    <3> QED
      BY <3>1, <3>3 DEF LiveRecordsHaveLiveOwners
  <2> QED
    BY <2>5, <2>6 DEF HierarchyInv
<1>4. CASE RestoreProject(a, p)
  <2>1. archived' = [archived EXCEPT ![p] = FALSE] /\ status' = status /\ late' = late
    BY <1>4 DEF RestoreProject, Restore
  <2> QED
    BY <2>1, CalmStep DEF Exists, TypeOK
<1> QED
  BY <1>1, <1>2, <1>3, <1>4

\* A course that is not late was validated on what holds of its project now.
LEMMA CourseLate ==
    ASSUME NEW c \in Course, NEW s,
           Validated(c, CourseViews(s)) \/ ValidatedLocked(c, CourseViews(s))
    PROVE  /\ \A x : x # c => (x \in late' <=> x \in late)
           /\ c \notin late' => /\ ~archived[ProjectOf[c]]
                                /\ s = "active" => status[ProjectOf[c]] = "active"
<1>1. \A x : x # c => (x \in late' <=> x \in late)
  BY DEF Validated, ValidatedLocked
<1>2. c \notin late' => CourseViews(s) \subseteq CurrentViews(c)
  BY DEF Validated, ValidatedLocked
<1>3. TargetProject(c) = ProjectOf[c] /\ c \notin Task
  BY KindsAssumption DEF TargetProject
<1>4. "live" \in CurrentViews(c) => ~archived[ProjectOf[c]]
  BY <1>3 DEF CurrentViews, Holds
<1>5. "active" \in CurrentViews(c) => status[ProjectOf[c]] = "active"
  BY <1>3 DEF CurrentViews, Holds
<1> QED
  BY <1>1, <1>2, <1>4, <1>5 DEF CourseViews

\* The same for a task and its owners.
LEMMA TaskLate ==
    ASSUME NEW k \in Task, NEW needed, "live" \in needed, Validated(k, needed)
    PROVE  /\ \A x : x # k => (x \in late' <=> x \in late)
           /\ k \notin late' => ~archived[TargetProject(k)] /\ ~archived[OwnerOf[k]]
<1>1. \A x : x # k => (x \in late' <=> x \in late)
  BY DEF Validated
<1>2. k \notin late' => "live" \in CurrentViews(k)
  BY DEF Validated
<1>3. Holds(k, "live") => ~archived[TargetProject(k)] /\ ~archived[OwnerOf[k]]
  BY DEF Holds
<1> QED
  BY <1>1, <1>2, <1>3 DEF CurrentViews

\* Courses: one comes to life only in a live project, becomes active only in an
\* active one, and is archived only when its tasks are.
LEMMA HierarchyCourse ==
    ASSUME TypeOK, HierarchyInv, NEW a \in User, CourseStep(a)
    PROVE  HierarchyInv'
<1> USE Kinds, KindsAssumption, HierarchyAssumption, CourseOwner
<1> SUFFICES ASSUME NEW c \in Course, NEW st \in DOMAIN CourseTransitions,
                    \/ CreateCourse(a, c)
                    \/ UpdateCourse(a, c, st)
                    \/ ArchiveCourse(a, c)
                    \/ RestoreCourse(a, c)
             PROVE  HierarchyInv'
  BY Tables DEF CourseStep, CourseTransitions
<1>1. ASSUME NEW s, SetStatus(c, s), s # "absent", Validated(c, CourseViews(s)),
             status[c] = "absent" => \A k \in Task : OwnerOf[k] = c => ~Exists(k)
      PROVE  HierarchyInv'
  <2>1. /\ archived' = archived /\ status'[c] = s
        /\ \A x \in Target : x # c => status'[x] = status[x]
        /\ \A x : x # c => (x \in late' <=> x \in late)
        /\ c \notin late' => /\ ~archived[ProjectOf[c]]
                             /\ s = "active" => status[ProjectOf[c]] = "active"
    <3>1. /\ \A x : x # c => (x \in late' <=> x \in late)
          /\ c \notin late' => /\ ~archived[ProjectOf[c]]
                               /\ s = "active" => status[ProjectOf[c]] = "active"
      BY <1>1, CourseLate
    <3>2. /\ archived' = archived /\ status'[c] = s
          /\ \A x \in Target : x # c => status'[x] = status[x]
      BY <1>1 DEF SetStatus, TypeOK
    <3> QED
      BY <3>1, <3>2
  <2>2. TasksOwned'
    BY <1>1, <2>1 DEF HierarchyInv, TasksOwned, Exists
  <2>3. LiveRecordsHaveLiveOwners'
    <3> SUFFICES ASSUME NEW x \in Course \cup Task, Exists(x)', ~archived'[x],
                        x \notin late'
                 PROVE  /\ ~archived'[TargetProject(x)]
                        /\ x \in Task => ~archived'[OwnerOf[x]]
      BY DEF LiveRecordsHaveLiveOwners
    <3>1. CASE x = c
      <4>1. c \notin late'
        BY <3>1
      <4>2. archived' = archived /\ ~archived[ProjectOf[c]]
        BY <2>1, <4>1
      <4>3. x \notin Task /\ TargetProject(x) = ProjectOf[c]
        BY <3>1
      <4> QED
        BY <4>2, <4>3
    <3>2. CASE x # c
      <4>1. Exists(x) /\ ~archived[x] /\ x \notin late
        BY <2>1, <3>2 DEF Exists
      <4> QED
        BY <2>1, <4>1 DEF HierarchyInv, LiveRecordsHaveLiveOwners
    <3> QED
      BY <3>1, <3>2
  <2>4. ActiveCourseProject'
    <3> SUFFICES ASSUME NEW x \in Course, status'[x] = "active", ~archived'[x],
                        x \notin late'
                 PROVE  status'[ProjectOf[x]] \in Around
      BY DEF ActiveCourseProject, Around
    <3>1. status'[ProjectOf[x]] = status[ProjectOf[x]]
      BY <2>1
    <3>2. CASE x = c
      <4>1. c \notin late' /\ s = "active"
        BY <2>1, <3>2
      <4>2. status[ProjectOf[c]] = "active"
        BY <2>1, <4>1
      <4> QED
        BY <3>1, <3>2, <4>2 DEF Around
    <3>3. CASE x # c
      <4>1. status[x] = "active" /\ ~archived[x] /\ x \notin late
        BY <2>1, <3>3
      <4> QED
        BY <3>1, <4>1 DEF HierarchyInv, ActiveCourseProject, Around
    <3> QED
      BY <3>2, <3>3
  <2> QED
    BY <2>2, <2>3, <2>4 DEF HierarchyInv
<1>2. CASE CreateCourse(a, c)
  <2>1. \A k \in Task : OwnerOf[k] = c => ~Exists(k)
    BY <1>2 DEF CreateCourse, HierarchyInv, TasksOwned
  <2> QED
    BY <1>1, <1>2, <2>1 DEF CreateCourse
<1>3. CASE UpdateCourse(a, c, st)
  <2>1. status[c] # "absent" /\ st # "absent"
    BY <1>3, Tables DEF UpdateCourse, Exists, CourseTransitions
  <2> QED
    BY <1>1, <1>3, <2>1 DEF UpdateCourse
<1>4. CASE ArchiveCourse(a, c)
  <2>1. /\ archived' = [archived EXCEPT ![c] = TRUE] /\ status' = status
        /\ late' = late
        /\ \A k \in Task : OwnerOf[k] = c /\ Exists(k) => archived[k]
    BY <1>4 DEF ArchiveCourse, Archive
  <2>2. /\ archived'[c] /\ \A x \in Target : x # c => archived'[x] = archived[x]
    BY <2>1 DEF TypeOK
  <2>3. TasksOwned' /\ ActiveCourseProject'
    BY <2>1, <2>2 DEF HierarchyInv, TasksOwned, ActiveCourseProject, Exists
  <2>4. \A x \in Course : Exists(x)' /\ ~archived'[x] /\ x \notin late' =>
          ~archived'[ProjectOf[x]]
    BY <2>1, <2>2 DEF HierarchyInv, LiveRecordsHaveLiveOwners, Exists
  <2>5. \A k \in Task : Exists(k)' /\ ~archived'[k] /\ k \notin late' =>
          ~archived'[OwnerOf[k]] /\ ~archived'[TargetProject(k)]
    BY <2>1, <2>2, OwnProject DEF HierarchyInv, LiveRecordsHaveLiveOwners, Exists
  <2> QED
    BY <2>3, <2>4, <2>5 DEF HierarchyInv, LiveRecordsHaveLiveOwners
<1>5. CASE RestoreCourse(a, c)
  <2>1. /\ archived' = [archived EXCEPT ![c] = FALSE] /\ status' = status
        /\ \A x : x # c => (x \in late' <=> x \in late)
        /\ c \notin late' => /\ ~archived[ProjectOf[c]]
                             /\ status[c] = "active" => status[ProjectOf[c]] = "active"
    BY <1>5, CourseLate DEF RestoreCourse, Restore
  <2>2. /\ ~archived'[c] /\ \A x \in Target : x # c => archived'[x] = archived[x]
    BY <2>1 DEF TypeOK
  <2>3. TasksOwned' /\ ActiveCourseProject'
    <3>1. TasksOwned'
      BY <2>1 DEF HierarchyInv, TasksOwned, Exists
    <3>2. ASSUME NEW x \in Course, status'[x] = "active", ~archived'[x], x \notin late'
          PROVE  status'[ProjectOf[x]] \in Around
      <4>1. CASE x = c
        <5>1. c \notin late' /\ status[c] = "active"
          BY <2>1, <3>2, <4>1
        <5>2. status[ProjectOf[c]] = "active"
          BY <2>1, <5>1
        <5> QED
          BY <2>1, <4>1, <5>2 DEF Around
      <4>2. CASE x # c
        BY <2>1, <2>2, <3>2, <4>2 DEF HierarchyInv, ActiveCourseProject, Around
      <4> QED
        BY <4>1, <4>2
    <3> QED
      BY <3>1, <3>2 DEF ActiveCourseProject, Around
  <2>4. ASSUME NEW x \in Course, Exists(x)', ~archived'[x], x \notin late'
        PROVE  ~archived'[ProjectOf[x]]
    <3>1. CASE x = c
      <4>1. c \notin late'
        BY <2>4, <3>1
      <4>2. ~archived[ProjectOf[c]]
        BY <2>1, <4>1
      <4> QED
        BY <2>2, <3>1, <4>2
    <3>2. CASE x # c
      BY <2>1, <2>2, <2>4, <3>2 DEF HierarchyInv, LiveRecordsHaveLiveOwners, Exists
    <3> QED
      BY <3>1, <3>2
  <2>5. \A k \in Task : Exists(k)' /\ ~archived'[k] /\ k \notin late' =>
          ~archived'[OwnerOf[k]] /\ ~archived'[TargetProject(k)]
    BY <2>1, <2>2, OwnProject DEF HierarchyInv, LiveRecordsHaveLiveOwners, Exists
  <2> QED
    BY <2>3, <2>4, <2>5 DEF HierarchyInv, LiveRecordsHaveLiveOwners
<1> QED
  BY <1>2, <1>3, <1>4, <1>5

\* Tasks: one comes to life only under a live owner in a live project.
LEMMA HierarchyTask ==
    ASSUME TypeOK, HierarchyInv, NEW a \in User, TaskStep(a)
    PROVE  HierarchyInv'
<1> USE Kinds, KindsAssumption, HierarchyAssumption, CourseOwner
<1> SUFFICES ASSUME NEW k \in Task, NEW st \in DOMAIN TaskTransitions,
                    \/ CreateTask(a, k)
                    \/ UpdateTask(a, k, st)
                    \/ ArchiveTask(a, k)
                    \/ RestoreTask(a, k)
             PROVE  HierarchyInv'
  BY Tables DEF TaskStep
<1>1. ASSUME NEW s, SetStatus(k, s), Validated(k, TaskViews), Exists(OwnerOf[k])
      PROVE  HierarchyInv'
  <2>1. /\ archived' = archived /\ \A x \in Target : x # k => status'[x] = status[x]
        /\ \A x : x # k => (x \in late' <=> x \in late)
        /\ k \notin late' => ~archived[TargetProject(k)] /\ ~archived[OwnerOf[k]]
    <3>1. /\ \A x : x # k => (x \in late' <=> x \in late)
          /\ k \notin late' => ~archived[TargetProject(k)] /\ ~archived[OwnerOf[k]]
      BY <1>1, TaskLate DEF TaskViews
    <3>2. archived' = archived /\ \A x \in Target : x # k => status'[x] = status[x]
      BY <1>1 DEF SetStatus, TypeOK
    <3> QED
      BY <3>1, <3>2
  <2>2. TasksOwned' /\ ActiveCourseProject'
    BY <1>1, <2>1 DEF HierarchyInv, TasksOwned, ActiveCourseProject, Exists
  <2>3. LiveRecordsHaveLiveOwners'
    BY <2>1 DEF HierarchyInv, LiveRecordsHaveLiveOwners, Exists
  <2> QED
    BY <2>2, <2>3 DEF HierarchyInv
<1>2. CASE CreateTask(a, k)
  BY <1>1, <1>2 DEF CreateTask
<1>3. CASE UpdateTask(a, k, st)
  BY <1>1, <1>3 DEF UpdateTask, HierarchyInv, TasksOwned
<1>4. CASE ArchiveTask(a, k)
  <2>1. archived' = [archived EXCEPT ![k] = TRUE] /\ status' = status /\ late' = late
    BY <1>4 DEF ArchiveTask, Archive
  <2> QED
    BY <2>1, CalmStep DEF Exists, TypeOK
<1>5. CASE RestoreTask(a, k)
  <2>1. /\ archived' = [archived EXCEPT ![k] = FALSE] /\ status' = status
        /\ \A x : x # k => (x \in late' <=> x \in late)
        /\ k \notin late' => ~archived[TargetProject(k)] /\ ~archived[OwnerOf[k]]
    <3>1. /\ \A x : x # k => (x \in late' <=> x \in late)
          /\ k \notin late' => ~archived[TargetProject(k)] /\ ~archived[OwnerOf[k]]
      BY <1>5, TaskLate DEF RestoreTask, TaskViews
    <3> QED
      BY <1>5, <3>1 DEF RestoreTask, Restore
  <2>2. \A x \in Target : x # k => archived'[x] = archived[x]
    BY <2>1 DEF TypeOK
  <2>3. TasksOwned' /\ ActiveCourseProject'
    BY <2>1, <2>2 DEF HierarchyInv, TasksOwned, ActiveCourseProject, Exists
  <2>4. \A x \in Course : Exists(x)' /\ ~archived'[x] /\ x \notin late' =>
          ~archived'[ProjectOf[x]]
    BY <2>1, <2>2 DEF HierarchyInv, LiveRecordsHaveLiveOwners, Exists
  <2>5. \A j \in Task : Exists(j)' /\ ~archived'[j] /\ j \notin late' =>
          ~archived'[OwnerOf[j]] /\ ~archived'[TargetProject(j)]
    BY <2>1, <2>2, OwnProject DEF HierarchyInv, LiveRecordsHaveLiveOwners, Exists
  <2> QED
    BY <2>3, <2>4, <2>5 DEF HierarchyInv, LiveRecordsHaveLiveOwners
<1> QED
  BY <1>2, <1>3, <1>4, <1>5

\* A step on milestones alone.
LEMMA HierarchyMilestone ==
    ASSUME TypeOK, HierarchyInv, NEW a \in User, MilestoneStep(a)
    PROVE  HierarchyInv'
<1> USE Kinds, KindsAssumption
<1> SUFFICES ASSUME NEW m \in Milestone, NEW st,
                    \/ CreateMilestone(a, m)
                    \/ UpdateMilestone(a, m, st)
                    \/ ArchiveMilestone(a, m)
                    \/ RestoreMilestone(a, m)
             PROVE  HierarchyInv'
  BY DEF MilestoneStep
<1>1. \A x \in Target : x \notin Milestone =>
        status'[x] = status[x] /\ archived'[x] = archived[x]
  BY DEF CreateMilestone, UpdateMilestone, ArchiveMilestone, RestoreMilestone,
         SetStatus, Archive, Restore, TypeOK
<1>2. \A x \in Target : x \notin Milestone => (x \in late' <=> x \in late)
  BY DEF CreateMilestone, UpdateMilestone, ArchiveMilestone, RestoreMilestone,
         Validated, ValidatedLocked, Archive
<1> QED
  BY <1>1, <1>2, CalmStep DEF Exists

\* The other services only edit what is not in the hierarchy.
LEMMA HierarchyOthers ==
    ASSUME TypeOK, HierarchyInv, OtherStep
    PROVE  HierarchyInv'
<1>1. CASE AccountStep
  <2>1. UNCHANGED <<recordVars, late>>
    BY <1>1 DEF AccountStep, UpdateAccount, DeactivateAccount, ReactivateAccount
  <2> QED
    BY <2>1, CalmStep DEF recordVars, Exists
<1> QED
  BY <1>1, HierarchyProject, HierarchyCourse, HierarchyMilestone, HierarchyTask
     DEF OtherStep

\* The hierarchy holds in every reachable state.
LEMMA HierarchyInductive == Spec => []HierarchyInv
<1>1. Init => HierarchyInv
  BY Kinds DEF Init, HierarchyInv, TasksOwned, LiveRecordsHaveLiveOwners,
               ActiveCourseProject, Exists
<1>2. IInv /\ HierarchyInv /\ [Next]_vars => HierarchyInv'
  <2> SUFFICES ASSUME IInv, HierarchyInv, [Next]_vars PROVE HierarchyInv'
    OBVIOUS
  <2>1. CASE UNCHANGED vars
    BY <2>1, CalmStep DEF vars, recordVars, Exists
  <2> QED
    BY <2>1, StepKinds, HierarchyOthers, HierarchyDecide DEF IInv
<1> QED
  BY <1>1, <1>2, Inductive, PTL DEF Spec

\* Nothing unarchived lies in something archived, for every hierarchy and whatever
\* is archived, restored, created or decided in between, but what was itself saved
\* on a reading of its owners that was true no longer.
THEOREM Live_Owners == Spec => []LiveRecordsHaveLiveOwners
<1>1. HierarchyInv => LiveRecordsHaveLiveOwners
  BY DEF HierarchyInv
<1> QED
  BY <1>1, HierarchyInductive, PTL

\* An unarchived active course lies in a project that is active or was completed
\* around it, but a course that was itself saved on a stale project.
THEOREM Active_Course_Project == Spec => []ActiveCourseProject
<1>1. HierarchyInv => ActiveCourseProject
  BY DEF HierarchyInv
<1> QED
  BY <1>1, HierarchyInductive, PTL
=============================================================================
