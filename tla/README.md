# Verification of project_tracker

TLA+ modules for the Django project in `src/`, TLC configurations that check
them on small instances, and proofs checked by TLAPS. The code under `src/apps`
is the reference; names follow it.

## 1. Inventory

The program is a Django application on PostgreSQL (READ COMMITTED), with Celery
workers and Beat on Redis. State lives in rows. Every service function is one
`@transaction.atomic` block that locks the rows it changes, unless noted below.
Interactions are calls between services, rows shared by foreign keys, Celery
messages sent after a commit, and signed HTTP calls from n8n.

| Component | State | Operations | Hard behaviour | What makes it correct |
|---|---|---|---|---|
| `approvals` | milestones, requests, steps, decisions | milestone create/update/archive/restore, submit, approve, reject | open requests race with every other edit of the same row; approvers fixed early, checked late | tables agree, one open attempt, two people decide, target unmoved while open, completed iff approved |
| `projects`, `courses`, `tasks` | status, archive flag, people, hierarchy | create, update, archive, restore, assign, move | rules across owners and children are checked in each service; some reads are not locked | no live record under an archived owner, course active only in an active project, depth and cycles |
| `accounts` | role, is_active, sessions, avatars | update, deactivate, reactivate | authority changes under running workflows; last administrator rule | an administrator remains |
| `progress` | none (computed) | task, course, milestone, project progress | averages, exclusions, rounding at 100 % | agrees with the average it documents |
| `project_agents` | run, steps, tool calls, proposals, memory, reviewed event, nonces | request, process (worker loop), decide, execute, review, cancel, recover, expire; event claim/ack | unlocked saves in the worker's loop, redelivery, crashes, two workers after recovery | business write once, steps contiguous, one proposal, memory only of clean runs, work ends |
| `notifications` | notification, delivery attempt | notify, deliver, dispatch, read | e-mail is sent between two transactions; stale deliveries are re-dispatched | attempts bounded, duplicates only after faults, sent stays sent, every mail ends |
| `executive_bot`, `ai_briefings` | generation jobs, one-time download, alerts with leases; the shared Groq budget in Redis | request, generate, complete, requeue, fail, recover; claim/ack alerts; reserve, reconcile, release capacity | a slow worker and its replacement work on one job; leases of alerts and of the Redis lock expire | one result per job, one download, an alert acknowledged by its lease holder, a budget over-committed only after a fault |
| `attendance` | session, trainer link, submission, review, correction | create, archive, issue link, submit, review, correct | link and session locked in both orders; rejection reopens a link | one usable link, immutable reviews |
| `trainees` | enrollment, import batch and rows | enroll, preview, confirm, cancel | confirmation long after preview, concurrent numbering | unique numbers, capacity, a batch confirmed once |
| `workspace`, `organizations`, `reports`, `audit`, `operations`, `config` | preferences, departments, none, events, none, settings | single-row writes, queries, I/O | – | not modelled (section 7) |

`PROJECT.json` lists every component with its status, and every hazard at its
line with the properties aimed at it or the reason none is yet.

## 2. Modules

| Module | Models | Kind |
|---|---|---|
| `Approvals` (`MCApprovals`, `ApprovalsProofs`) | approvals with the services of accounts, projects, courses and tasks that touch the same rows | state machine |
| `AgentRun` (`AgentRunProofs`, `AgentStepsProofs`) | one run of `project_agents` from request to memory | state machine, extends `ReviewedEvent` |
| `ReviewedEvent` | the event a reviewed run leaves for n8n, claimed by lease | component of `AgentRun` |
| `Job` | what the program promises of one generated text | abstract specification |
| `GenerationJob` (`GenerationJobProofs`) | a report, an answer or a briefing with workers, broker and Beat | refines `Job` |
| `GroqRate` (`MCGroqRate`, `GroqRateProofs`) | the provider budget shared by all worker processes | state machine |
| `Delivery` (`DeliveryProofs`) | the e-mail of one notification | state machine |
| `Trainees` (`MCTrainees`, `TraineesProofs`) | enrollments and imports of one course | state machine |
| `Attendance` (`AttendanceProofs`) | one session with links, submission, reviews, corrections | state machine |
| `TaskTree` | moves and creations of tasks, form and service apart | state machine |

**`Approvals.tla`** models `apps/approvals` with the services of `accounts`,
`projects`, `courses` and `tasks` that touch the same rows, since an approval is
only right if *they* respect it. One action per service function; a service that
raises is rolled back, so it is the absence of a step. Nine variables are the
columns the properties need: `role`, `active` (accounts), `manager`,
`supervisor` (projects), `status`, `archived` (all four kinds of record in one
function each), and `request`, `step`, `decision` per record and attempt.
Projects, courses, milestones and tasks are disjoint sets; `ProjectOf`,
`OwnerOf` and `ParentOf` fix who belongs to whom. Progress is kept as "is it
exactly 100 % and not excluded", which is all submission asks. `Manages` is the
seeded permissions with the ownership test, `CanSubmit` and `AuthorizeDecision`
are the functions of those names. Status tables are written as in the policy
files. A service locks the record it changes; what it validates of the owners was
read before, by a form or earlier in its transaction, and `setattr` even replaces
a locked project by the form's (`courses/services.py:115`). `views[t]` is what may
so have been read of the owners of `t` since `t` exists (`Read`, conjoined to
every step), `Validated` lets any of it decide, and the history variable `late`
holds the records whose last validation was on what was true no longer. Where the
service does lock the owner (`restore_course`, `restore_milestone`) it is
`ValidatedLocked`.

**`AgentRun.tla`** models one run of `apps/project_agents`. `process_agent_run`
is the only service that is not one transaction: it calls a model between two
reads of the run and saves the row without a lock. A worker therefore has a
program counter, and its loop is cut where another process can interleave:

| `pc` | next | code (`services.py`) |
|---|---|---|
| `off` | `Claim` | locked claim, 471-493 |
| `top` | `Top` | loop head: re-read and checks, 500-518 |
| `call` | `Return`, `Requeue` | the model call, the second re-read, validation, 520-580; temporary error, 724-726 |
| `insert` | `InsertStep` | `_create_step`: INSERT with the unique sequence, 250-268 |
| `bump` | `BumpStep` | `_create_step`: save of `current_step`, 269-271 |
| `act` | `Act` | what follows the step: tool result, proposal row, status save, 583-722 |
| `fail` | `Fail` | `mark_agent_run_failed`, locked |

A worker keeps the `run.current_step` of its last read (`cur`) and the step it is
about to store (`item`). Cancelling, deciding, executing, reviewing, recovering
and expiring hold row locks: one action each. `VerifyTerminalProposals` is part
of the action that resolves the last proposal. An execution that fails on the
taken sequence number rolls back (`VerificationClash`). Time is four values:
`unstarted`, `fresh`, `late` (over the 600 s budget) and `stale` (no save for 15
minutes); the deployed values make `late` come first. `StepsContiguous` and
`OneProposal`, and their theorems, rest on that: with a stale time shorter than
the budget a second worker could store steps beside the first.

**`ReviewedEvent.tla`** is the hand-over of a reviewed run
(`integration_services.py`): `ClaimReviewedEvent` under a five-minute lease,
`AcknowledgeReviewedEvent` with its three ways out (confirmed again, settled,
refused). Each of the workflow's executions keeps what it was told, so that a
lost response and a repeated acknowledgement can be followed. `Review` of
`AgentRun` creates the event in its own step, as the code does in its transaction.

**`Job.tla`** states the promise of one generated text: asked for, pending, then
completed with one answer or given up, for good; used once at most.
**`GenerationJob.tla`** is how the code keeps it. Reports, answers and briefings
have the same services in three places; `kind` selects which one the job is, and
`map` names the lines of one representative of each action. `Claim`, `Complete`,
`Defer`, `RetryOrFail`, `Recover` are separate transactions of worker and Beat.
`outbox` is a process between its commit and its publication, `messages[r]` are
the messages in the broker at retry `r`. A completion that the row's lifecycle
constraint refuses is a step that changes nothing but the worker. `Promise` is
the refinement mapping.

**`GroqRate.tla`** models `groq_rate_limits.py`: the two counters in Redis behind
a lock whose lease ends by itself, and each process's private copy. A lock whose
lease has ended protects nothing between two commands, so the sections it guards
are cut: reserving into `Acquire`, `ReadUsage`, `AddEntry`, `CountDay`; settling
an answer into `Settle`, `TakeEntry`, `PutEntry`, `SettleDay`; giving a refused
call back into `Refuse`, `GiveBack`, `ReleaseDay`. Redis may fail between any two
(`FallBack`, `RedisFails`). The time of a reservation is the one read before
waiting for the lock. The provider counts tokens itself and the estimate of the
prompt is a heuristic, so an answer may have used less or more than was reserved
(`Answers`, `Corrections`), and its count may never be written (`LeaveReserved`).
Two history variables follow this: `ledger` has, of every open or answered call
of Redis, what the day's counter holds for it (`tokens`) and what the provider
counted (`limit`); `excess` is what was counted above reservations, by day.

**`Delivery.tla`** models one delivery row with `deliver_notification_email` (the
claim, the sending outside any transaction, the locked save of its outcome),
`dispatch_pending_deliveries` of Beat, and the retries that a task sends itself.
`mails` counts what the mail server has taken.

**`Trainees.tla`** models the course's enrollments in the order of their keys and
its import batches. `PreviewImport` freezes a classification of the rows,
`ConfirmImport` repeats the checks it repeats in the code and writes all rows or
none. **`Attendance.tla`** models one session: the first `IssueTrainerLink` locks
the roster, `SubmitAttendance` closes the link, a rejection opens it again,
`CorrectAttendance` rewrites an approved sheet. In both the course around moves
by itself.

**`TaskTree.tla`** keeps apart what one web request does in two halves: the form
validates and keeps the ancestors it has read (`FormValid`), the service locks
the task's own row and validates over those ancestors again (`CreateTask`,
`UpdateTask`).

The `MC…` modules only add what TLC needs (instance functions, symmetry).
`…Proofs` modules hold the theorems.

Operators whose comment starts with "Mutant:" or "Bug:" are plausible bugs of the
definition that follows. No specification uses them: putting one in place of its
definition makes the property listed with it in `PROJECT.json` fail.

## 3. Runs

| Run | Configuration | Question | Result |
|---|---|---|---|
| people | `MCApprovalsPeople.cfg` | Do requests, steps and decisions stay consistent over two attempts while approvers are replaced, change role, are deactivated and come back? | holds, 303 120 states |
| hierarchy | `MCApprovalsHierarchy.cfg` | Do edits, archives and restores of a project, course, task and subtask respect open requests and each other, and does a stale reading strand only the record it was made for? | holds, 319 586 states |
| agent_run | `AgentRun.cfg` | Is the business write made exactly once, are steps contiguous, is one proposal made, does work end, is the event handed to one execution at a time and settled once? | holds, 607 702 states |
| generation_job | `GenerationJob.cfg` | Does the job's row tell one story, implement `Job`, never wait for nothing, and end? | holds, 102 901 states |
| delivery | `Delivery.cfg` | Are duplicates and surplus attempts only the price of faults, does sent stay sent, does every mail end? | holds, 236 117 states |
| groq_rate | `MCGroqRate.cfg` | Is the shared budget over-committed only after a fault, and do the counters cover what the provider counted? | holds, 1 770 635 states |
| trainees | `MCTrainees.cfg` | Do capacity, identities and numbers hold, is a batch imported once and whole? | holds, 1 010 648 states |
| attendance | `Attendance.cfg` | Is there one way in, does the sheet cover the locked roster, does history explain the entries? | holds, 297 444 states |
| archived_while_pending | `MCApprovalsArchived.cfg` | docs/WORKFLOWS.md:103 | violated |
| active_course | `MCApprovalsActive.cfg` | docs/WORKFLOWS.md:43 | violated |
| task_cycle | `TaskTree.cfg` | docs/BUSINESS_RULES.md:12 | violated |
| agent_memory | `AgentRunMemory.cfg` | docs/DECISIONS/0022, lines 39-40 | violated |

What the violations show:

* `archive_task` is the one archive service that does not ask
  `has_pending_approval`: a completed task under approval is archived, and the
  request goes on.
* `_complete_target` completes a project without the check `update_project`
  makes: its courses stay active in a completed project. `ActiveCourseProject`
  is the weaker rule that does hold.
* Two requests move two tasks under each other. Each form reads the parent and
  its ancestors before the other request is saved; `update_task` then locks only
  the moved task's own row and validates again over the cached ancestors. Both
  are saved and the tasks are above themselves. (The limit of three levels can be
  passed by one person alone: `Task.clean` counts ancestors only, so a task with
  subtasks may move under a second-level task. No run is spent on it.)
* A run cancelled between the worker's re-read and its save is made "running"
  again by the unlocked save, goes on to "completed", and is reviewed into
  memory. No crash or lost message is needed.

More facts met while modelling, for which no run is listed:

* The services lock the record they save, not its owners. A course or task saved
  on a form from before its project (or course) was archived is live under an
  archived owner, and a course saved as active on such a form is active in a
  project that has gone on hold: `update_course` validates the form's instance of
  the project, not the one it has locked. `LiveRecordsHaveLiveOwners` and
  `ActiveCourseProject` except the record that raced (`late`) and say that nothing
  else is stranded with it.

* A task may be reopened after its course was submitted, and the course is
  completed all the same.
* When a worker is suspended between storing the proposal and the report, people
  can decide and execute the proposal first, after which the worker overwrites
  the run's outcome, even with "failed". The obvious property "a run with an
  executed proposal never reads failed" is therefore not listed.
* `RecordFailure` of an old worker would overwrite "sent": only the constraint
  on `sent_at` refuses it. `SentStands` rests on that constraint alone.
* A job that a slow worker completes after Beat has re-queued it loses its
  answer to the lifecycle constraint; the replacement generates it again.
* A rejected submission whose link has expired can neither be sent again nor be
  given a new link; nor can the link be replaced once the roster is locked and an
  enrollment has changed.
* The provider may count more tokens than were reserved: the minute and the day
  then pass their limits without any fault, and `OverrunsNeedFaults` bounds what
  is reserved and, for the day, everything but that excess. If the settling fails
  then (Redis, or a lock that is busy for a second), the counters keep the
  reservation, less than was used, although the comment at
  `groq_rate_limits.py:112` calls what remains "worst-case": `CountersCoverUse` is
  therefore about the lesser of the two for a call that is not settled.
* Settling removes the entry of the minute before writing it anew. When Redis
  fails between the two the minute forgets the call, the day does not:
  `CountersCoverUse` allows one forgotten call for each such failure.
* An import may update the trainee of a duplicate that was archived since the
  preview.

### Bounds

* *people*: three accounts of different roles of which two are edited, one
  project, one milestone, `MaxAttempt = 2`. Two attempts are the least in which a
  resubmission exists, and every rule about attempts compares two of them. The
  supervisor's form offers the two edited accounts and nobody, so the manager may
  become supervisor and back between the attempts.
* *hierarchy*: one project, course, task and subtask, fixed people,
  `MaxAttempt = 1`: every owner-child relation of the model occurs once. Direct
  project tasks and sibling records add no new relation to any checked rule. The
  forms of the course and of the task may wait (`Delayed`), two records may be
  submitted, the subtask not by itself (`FewRequests`), and one record at a time
  may stand on a stale reading (`FewLate`): a request meets one other and a race
  meets one request. In the other runs of `Approvals` nobody's form waits, so that
  what they show needs no race; the theorems hold for every `Delayed`.
* *agent_run*: two workers (recovery starts at most one beside a slow one while
  faults are bounded by one), the deployed order of budget and stale time, eight
  steps as deployed, `MaxFaults = 1`: a crash, a lost message, or a worker
  suspended until its row is stale. Two executions of the workflow, the least in
  which a lease is handed on, and two outcomes to report. `AtRest` in
  `AgentRun.tla` lets the workflow start only when the run has come to rest: after
  the review the run and its event share no variable, so every other interleaving
  permutes independent steps.
* *generation_job*: two workers (the slow one and its replacement), two
  automatic retries where the tasks have more (a first, a middle and a last
  already differ), four faults (deaths, slow workers, second deliveries) and one
  lost message.
* *delivery*: three workers, three attempts where the code has four
  (`MAX_DELIVERY_ATTEMPTS`; three already separates first, middle and last), three
  faults, one message of Beat in the broker at a time.
* *groq_rate*: two processes of two calls each; the minute is two ticks long, the
  day three, and four instants exist, so both end under an open reservation. The
  limits (two requests a minute and three a day, four usable tokens a minute and
  six a day, one of input and one or two of output a call) make requests and
  tokens of minute and day each the binding one. The provider counts two tokens
  less or one more than was reserved; one fault. Processes are interchangeable and
  only invariants are checked, so `MCGroqRate` uses symmetry.
* *trainees*: three identities, two batches of at most two rows, three
  enrollments, a capacity of one or two. Two batches are the least that conflict;
  rows, single enrollments and restores then compete for the last seat. Symmetry
  in identities and batches; only invariants are checked.
* *attendance*: two trainees, two links, two attendance values, two reviews (a
  rejection and what follows), two corrections (the second has a predecessor).
* *task_cycle*: three tasks and two requests, the least number that meets.
* *agent_memory*: one worker and no fault, to show none is needed.

`CHECK_DEADLOCK FALSE` everywhere: with bounded attempts, or after a run, job or
delivery has ended, the system may really stop.

### Fairness

`Approvals`, `Trainees`, `Attendance`, `GroqRate` and `TaskTree` state none:
people are not obliged to act, and a Groq call may hang until its timeout.

`AgentRun`'s `FairSpec` has weak fairness of each worker's step (Celery workers
run until their task ends; every model call has a timeout), of `Recover` (Beat
runs it periodically), and of the two clock steps. Under it `WorkEnds` says that
a run does not stay "planning" or "running" for ever. It deliberately says
nothing of queued and executing runs: recovery does not look at them, so a lost
message leaves them there.

`GenerationJob`'s `Spec` has weak fairness of each worker (taking a message,
finishing what it took, its retry), of each publisher, of `Recover` and of the
stale time passing. Under it `Settles` says that every request ends completed or
failed *or a message was lost*: Beat looks at processing rows only, so the
exception is the code's.

`Delivery`'s `Spec` has weak fairness of each worker, of Beat's dispatch and of
time (`BecomeDue`, `BecomeStale`). Here Beat looks at every waiting row, so
`Settles` needs no exception: every mail is sent or given up although messages
are lost and workers die.

Nothing is assumed of people, of the broker keeping a message, or of a crashed
worker coming back. Faults are bounded in every module, which is fairness too:
a system whose workers always die finishes nothing.

## 4. Proofs

Every safety property that a passing run checks, invariant or action property,
and the refinement of `Job`, is also a theorem, for every value of the constants
that satisfies the named assumptions. Sets of workers, processes, accounts and
records may be infinite. Each proof rests on an inductive invariant that TLC had
found to hold first, and has one lemma per conjunct with one step per action.

### Approvals

`ApprovalsProofs.tla` proves, for all sets of accounts and records, any
hierarchy and any number of attempts that satisfy the named assumptions of
`Approvals` (`HierarchyAssumption`, `KindsAssumption`, `AccountsAssumption`,
`DelayedAssumption`, `MaxAttemptAssumption`):

`TypeOK`, `TablesAgree`, `OnlyLatestAttemptOpen`, `TwoDifferentApprovers`,
`MilestonePendingIffOpen`, `CompletedIffApproved`, `OpenTargetUnmoved`,
`LiveRecordsHaveLiveOwners`, `ActiveCourseProject` as invariants and
`HistoryImmutable` as an action property.

None of the first safety invariants is inductive alone. The inductive invariant
`IInv` is their conjunction with two strengthenings:

* `TwoDifferentApprovers` holds at a submission only because a project's
  supervisor is not its manager. The constraint
  `projects_project_manager_supervisor_distinct` (`projects/models.py:306-312`),
  which `full_clean` applies in `create_project` and `update_project`, sees to
  that; it is part of `ValidPeople`, and `StaffDiffer` states what it keeps. After
  the submission it holds because no decision renames an approver, whoever staffs
  the project by then.
* `CompletedIffApproved`, `OpenTargetUnmoved` and `MilestonePendingIffOpen` need
  each other: a decision may set "completed" or return a record to work only
  because the record is unmoved and no other of its requests is open or approved.
  `Lifecycle(x)` states the three for one record, `LifecycleInv` for all.

The proof follows `Next`: first lemmas about the operators (`Kinds` on the
disjoint kinds of record), then for each conjunct one step per group of actions;
actions that touch neither tables nor status are dismissed together. The type
invariant comes first and is used by everything else.

The hierarchy has an invariant of its own on top of `IInv`, `HierarchyInv`: the
two properties and `TasksOwned`, that a task which exists has an owner which
exists. `archive_project` looks at the project's courses and at its direct tasks;
a live task in a course that does not exist would be overlooked. `CalmStep`
dismisses at once every step that makes nothing live or active and takes nothing
live from below it; the decisions of approvers are such steps because `Lifecycle`
fixes where an open request's target stands. A record in `late`, which was itself
saved on a stale reading, is excepted, and only it: a task that is not late has a
live course even if that course is late, because the archive services look at the
records below under their own lock.

### Generation jobs

`GenerationJobProofs.tla` proves, for any workers, retries and bounds
(`NoResultAssumption`, `BoundsAssumption`): `TypeOK`, `OneStory`,
`QueuedIsCarried` and the refinement `ImplementsJob`. The inductive invariant adds
`Unasked`: before the request there is no message, no publisher and no busy
worker; without it, failing a job could skip the abstract "pending". `OneStory`
carries the refinement: an abstract `Finish` must find no answer, and a refused
completion must be a stutter, which is the lifecycle constraint's doing. Each
conjunct has a step lemma with one step per action; the refinement maps
`Complete` to `Finish`, every `MarkFailed` of a live row to `GiveUp`, and all the
rest to a stutter.

### Agent runs

`AgentRunProofs.tla` proves, for any workers, steps, faults and executions:
`TypeOK`, `EffectIffExecuted`, `OneLiveLease`, `ToldTruth` as invariants and
`EventSettledForGood` as an action property. The type invariant is not inductive:
that a worker's `current_step` never passes `MaxSteps` needs to know where it
stands. `StepsOwned` says that whoever is between inserting a step and acting on
it stands on a step it has itself inserted; only the unique sequence number makes
it so. `EventInv` adds to the lease's properties that the event exists exactly when the
run is reviewed, that nobody has claimed it before, that it has a callback
exactly when it is settled, and that whoever still has a lease by then is the one
who settled it.

`AgentStepsProofs.tla` adds `StepsContiguous` and `OneProposal`, for the deployed
order of the two times (a stale time of 15 minutes above a budget of 600 s; the
specification has no other). The worker's saves are not locked, so neither follows
from the row alone: what keeps a second writer out is time. `OneWriter` says that
while the budget lasts at most one worker is in the loop and none while the run is
queued; a run goes back into the queue under a busy worker only when it is stale,
and then the budget is spent and whoever takes it can only fail. `BeforeProposal`,
`WriterAt` and `NothingAfterEnd` place that one writer: nothing but the report
follows the proposal, the stored steps are those counted plus the one it has
inserted, and a resolved run has no writer but one late report whose number is
already taken.

### Deliveries

`DeliveryProofs.tla` proves `TypeOK`, `DuplicatesNeedFaults`, `AttemptsBounded`
and the action property `SentStands` for any workers, attempts and faults. The
argument is one of accounts. `MailAccount`: mails sent, with workers that may
still send one, are paid for by the first mail and the faults, and a row that may
be claimed again (as it is, or after Beat has taken it back) has a payment left.
`AttemptAccount` says the same of attempts. `SentStands` needs of `TypeOK` that
`sent_at` is set exactly when the row is sent, which only the constraint keeps.

### Attendance

`AttendanceProofs.tla` proves `TypeOK`, `OneWayIn`, `SheetCoversRoster` and
`HistoryExplains` for any trainees, links and numbers of reviews and corrections.
`OneActive` restates `OneWayIn` without counting, with where the one link may be:
the rejected submission's own or none. `Submitted` ties a submission to its link
and its sheet to the locked roster. `Explained` restates `HistoryExplains` by the
index of each correction, each starting from the sheet the one before it left, so
that a new correction appends one fact.

### Trainees

`TraineesProofs.tla` proves `TypeOK`, `CapacityHeld`, `IdentitiesAgree`,
`NumbersNeverReused` and `ImportedOnce` for any identities, batches, rows and
capacities. `ImportedOnce` needs most: `NewPeople` (the new rows of a batch are
people, each once), `CreatedByConfirm` (just the new rows of confirmed batches
have an enrollment, one that exists) and `CreatedOnce` (no two rows have the same
one). A confirmation gives its new rows consecutive enrollments in the order of
the rows: `Counting` shows that ranking finitely many numbers is a bijection, and
`Appended` that the earlier enrollments stay where they were.

### The Groq budget

`GroqRateProofs.tla` proves `TypeOK`, `OverrunsNeedFaults` and `CountersCoverUse`
for any processes, settings that pass their validation, corrections and bounds.

* `LostLeases`: a process in a section of the lock that does not hold the lock
  has lost its lease to a fault of its own. At most as many as there were faults
  do so, and thus only finitely many processes are in a section.
* `MinuteHeld` and `DayHeld` bound what is written *together with* what is in
  hand: granted and not written yet, taken out to be written anew, or not counted
  to the day yet. A new grant fits with what its process has read; what it has
  not seen is in the hands of others that lost their lease, at most one budget
  for each fault. Writing moves an entry from one part to the other. The
  properties alone are not inductive: two grants may both be unwritten. In the
  minute every entry is counted at no more than its reservation, so that settling
  one never adds (`CountedExchange`); in the day what settling adds is `excess`.
* `MemoryHeld`: in the memory of one process each grant fits with all that came
  before, because it makes one call at a time.
* `Entries`: every call has one entry at most, the one it wrote, and the ledger
  has it while the call is open. Without it a settlement could change another
  call's entry, or give back more than was taken.
* `DayCovered` and `MinuteCovered` are the two halves of `CountersCoverUse` made
  inductive: the day's sums are compared with the ledger entry by entry, and
  window and ledger agree on every call both have (`Agreeing`), so that a recent
  call is missing from the window only while its process has it in hand, or since
  a failure of Redis left it out: one more lost call for one more fault.

`Tokens` is a fold, a recursive definition underneath. What it sums up to is
nevertheless proved, one entry at a time, without the library's induction
theorems: `SubsetInduction` takes a smallest exception among the subsets of a
finite set, which exists because the strict subset ordering is well-founded, and
passes the property as a set instead of an operator. `SumsUnique` and `SumsExist`
show that the fold is well-defined, `TokensWithout` that the order of summation
does not matter; monotonicity, subadditivity and the bound by the number of
entries follow.

### Only model-checked

Liveness (`WorkEnds` and both `Settles`): fairness and ENABLED are out of the
prover's reach. What the runs that expect a violation show needs no proof.

## 5. What the models leave out

Texts, dates, codes, project budgets, files, citations, audit events, the provider
fallback, the daily quota; token usage outside `GroqRate`.

* `Approvals`: all accounts share one department, a task's assignees are any
  active account and tasks do not move to another parent. Of what is read without
  a lock, the owners' archive flags and status and the parent's archive flag are
  kept (`views`); the project's people are read at the commit: a submission takes
  its pair of approvers from one read of one row, and a permission may be that of
  a manager replaced meanwhile, on which no property depends. A form that outlives
  an archive of its record is not kept, nor is the moment in which an archive and
  a creation that have not seen each other are both half committed: the archive
  comes first, the creation is late.
* `AgentRun`: there is one run, access checks may fail at any time, and the
  retries of a message are bounded only by the time budget. Request signing and
  nonces of the n8n calls are left out; an execution claims once.
* `GenerationJob`: evidence, prompts and validation of the output are whether
  the answer is usable; the three services with the same code are one action with
  the kind as a guard.
* `Delivery`: one channel, one recipient. Preferences and read marks are not in
  it. Which reminder goes out on which day is not either (`notifications/events.py`
  sends the overdue notice already on the due date).
* `GroqRate`: looking an entry up and removing it are one step, as are dropping
  old entries and reading the rest, and the two increments of a day unless Redis
  fails between them. The keys of a day never expire within the bound. A call
  that ended in an error is released as one "that produced no confirmed provider
  usage" (`groq_rate_limits.py:117`): what a timed-out call may have used is not
  in the ledger, nor are calls decided in memory, which Redis never counts.
* `Trainees`: parsing and normalising a file is the identity each row yields;
  the preview's unlocked read is one step.
* `Attendance`: one occurrence of a recurrence; evidence is a count. Services
  that PostgreSQL aborts because they lock link and session in opposite orders
  change nothing. Archiving the course leaves its sessions and links as they are,
  which is the code's doing.
* `TaskTree`: one owner, so that "same owner" is left out.

## 6. Plan

Done: approvals, agent run with its event, generation jobs with their abstract
specification, e-mail delivery, the Groq budget, enrollments and imports,
attendance, task moves.

The safety properties of all of them are proved (section 4).

Worth a module later, each with a hazard already listed: the last administrator,
critical-alert leases, rounding of progress. They are small or have the shape of
a module that exists.

## 7. Not modelled

* `workspace`, `organizations`: single-row writes, no interaction beyond a
  foreign key. `reports`: read-only. `audit`: append-only rows written by others.
* `operations`: backups, health and demonstration data, operating-system work.
* `executive_bot`'s critical alerts: leased, acknowledged and retried under the
  same row lock as the reviewed event, which is modelled; its evidence and PDF
  are content.
* `ai_briefings`' evidence, prompts and the other providers: content.
* `progress` averages, `accounts` sessions, passwords and avatars, files,
  comments and tags of tasks: no state that another component decides on.
* Views, forms (but for the task form), templates and translations: presentation
  over the services above. Migrations and the scripts under `output` and
  `operations/showcase.py` are not part of the running program.
