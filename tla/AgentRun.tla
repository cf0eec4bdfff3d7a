------------------------------ MODULE AgentRun ------------------------------
(***************************************************************************)
(* One project-agent run (apps/project_agents): a Celery worker asks a     *)
(* model for decisions and stores them step by step, a proposal waits for  *)
(* a person, an approved proposal is executed, and a completed run is      *)
(* reviewed into project memory.                                           *)
(*                                                                         *)
(* The worker's loop runs outside a transaction.  It re-reads the run      *)
(* after each model call, and then writes the row with one unlocked UPDATE *)
(* per save, so the loop is cut into the statements other processes can    *)
(* run between.  Cancelling, deciding, executing, recovering, expiring,    *)
(* failing and reviewing are transactions on locked rows: one action each. *)
(*                                                                         *)
(* Access rights come and go: a refused check is always possible.  Not     *)
(* kept: step contents, citations, token usage, the provider fallback, the *)
(* daily quota and audit events.  The event that a review leaves for the   *)
(* n8n workflow is module ReviewedEvent.                                   *)
(***************************************************************************)
EXTENDS Naturals, FiniteSets, ReviewedEvent

CONSTANTS
    Worker,      \* worker processes
    MaxSteps,    \* AgentRun.max_steps
    MaxFaults    \* BOUND: crashes and suspensions of workers, lost messages

ASSUME MaxStepsAssumption == MaxSteps \in Nat \ {0}
ASSUME MaxFaultsAssumption == MaxFaults \in Nat

VARIABLES
    status,       \* AgentRun.status
    current,      \* AgentRun.current_step
    stored,       \* the sequences of the stored AgentStep rows
    toolsDone,    \* completed AgentToolCall rows (their tools are distinct)
    proposal,     \* AgentProposal.status, per sequence of its step
    effects,      \* domain actions committed for each proposal
    cancelledAt,  \* cancelled_at is set
    failureCode,  \* safe_failure_code is set
    reviewed,     \* reviewed_at is set and the memory row exists
    runJobs,      \* process_project_agent messages in the broker
    proposalJobs, \* proposals with an execute_project_agent_proposal message
    pc, item, cur,\* each worker: where it is, the step it stores, its run.current_step
    clock,        \* age of started_at and updated_at
    aged,         \* proposals older than the time to live
    drifted,      \* proposals whose target changed since their state was read
    faults

rowVars == <<status, current, stored, cancelledAt, failureCode, reviewed>>
jobVars == <<runJobs, proposalJobs>>
workerVars == <<pc, item, cur>>
timeVars == <<clock, aged>>
runVars == <<rowVars, toolsDone, proposal, effects, jobVars, workerVars, timeVars,
             drifted, faults>>
vars == <<runVars, eventVars>>

Slot == 1 .. MaxSteps
RunStatus == {"queued", "planning", "running", "awaiting_approval", "executing",
              "completed", "failed", "cancelled", "expired", "stale"}
TERMINAL_RUN_STATUSES == {"completed", "failed", "cancelled", "expired", "stale"}
Working == {"planning", "running"}
ProposalStatus == {"none", "pending", "approved", "rejected", "executed", "stale",
                   "expired", "failed"}

\* Any save of the row renews updated_at.
Touch == clock' = IF clock = "stale" THEN "late" ELSE clock
OverBudget == clock \in {"late", "stale"}

-----------------------------------------------------------------------------
Init ==
    /\ status = "queued" /\ current = 0 /\ stored = {} /\ toolsDone = 0
    /\ cancelledAt = FALSE /\ failureCode = FALSE /\ reviewed = FALSE
    /\ proposal = [s \in Slot |-> "none"]
    /\ effects = [s \in Slot |-> 0]
    /\ runJobs = 1 /\ proposalJobs = {}
    /\ pc = [w \in Worker |-> "off"]
    /\ item = [w \in Worker |-> "plan"]
    /\ cur = [w \in Worker |-> 0]
    /\ clock = "unstarted" /\ aged = {} /\ drifted = {} /\ faults = 0
    /\ EventInit

-----------------------------------------------------------------------------
(* Transactions on the run.                                                 *)

\* mark_agent_run_failed: a terminal run keeps its outcome.
MarkRunFailed ==
    IF status \in TERMINAL_RUN_STATUSES
    THEN UNCHANGED <<status, failureCode, clock>>
    ELSE status' = "failed" /\ failureCode' = TRUE /\ Touch

GoTo(w, place) == pc' = [pc EXCEPT ![w] = place]

\* A worker takes a message: only a queued run is started.
Claim(w) ==
    /\ pc[w] = "off" /\ runJobs > 0
    /\ runJobs' = runJobs - 1
    /\ \/ /\ status # "queued"
          /\ UNCHANGED <<status, failureCode, workerVars, clock>>
       \/ /\ status = "queued"
          /\ MarkRunFailed                      \* access revoked
          /\ UNCHANGED workerVars
       \/ /\ status = "queued"
          /\ status' = IF current = 0 THEN "planning" ELSE "running"
          /\ clock' = IF clock = "unstarted" THEN "fresh"
                      ELSE IF clock = "stale" THEN "late" ELSE clock
          /\ GoTo(w, "top")
          /\ cur' = [cur EXCEPT ![w] = current]
          /\ UNCHANGED <<failureCode, item>>
    /\ UNCHANGED <<current, stored, cancelledAt, reviewed, toolsDone, proposal,
                   effects, proposalJobs, aged, drifted, faults>>

Fail(w) ==
    /\ pc[w] = "fail"
    /\ MarkRunFailed
    /\ GoTo(w, "off")
    /\ UNCHANGED <<current, stored, cancelledAt, reviewed, toolsDone, proposal,
                   effects, jobVars, item, cur, aged, drifted, faults>>

-----------------------------------------------------------------------------
(* The loop.                                                                *)

\* Mutant: the time budget is not checked.
CheckedUntimed(w, next) ==
    \/ status \notin Working /\ next = "off"
    \/ status \in Working /\ next \in {"fail", "on"}

\* The checks on the freshly read run, before and after the model is called.
Checked(w, next) ==
    \/ status \notin Working /\ next = "off"
    \/ status \in Working /\ next = "fail"           \* access revoked
    \/ status \in Working /\ ~OverBudget /\ next = "on"

Top(w) ==
    /\ pc[w] = "top"
    /\ \/ cur[w] >= MaxSteps /\ GoTo(w, "fail") /\ UNCHANGED cur
       \/ /\ cur[w] < MaxSteps
          /\ cur' = [cur EXCEPT ![w] = current]
          /\ \E next \in {"off", "fail", "on"} :
                /\ Checked(w, next)
                /\ GoTo(w, IF next = "on" THEN "call" ELSE next)
    /\ UNCHANGED <<rowVars, toolsDone, proposal, effects, jobVars, item, timeVars,
                   drifted, faults>>

\* What the application accepts of a model's decision.
Acceptable(kind) ==
    /\ current = 0 => kind = "plan"
    /\ kind = "plan" => stored = {}
    /\ kind = "tool" => current + 2 <= MaxSteps
    /\ kind \in {"proposal", "final"} => toolsDone >= 2
    /\ kind = "proposal" => \A s \in Slot : proposal[s] = "none"
    /\ kind = "final" /\ (\A s \in Slot : proposal[s] = "none") => current < MaxSteps

\* The model answers; the run is read again and the answer validated.
Return(w) ==
    /\ pc[w] = "call"
    /\ \E next \in {"off", "fail", "on"} :
          /\ Checked(w, next)
          /\ IF next # "on"
             THEN GoTo(w, next) /\ UNCHANGED <<item, cur, clock, drifted>>
             ELSE /\ cur' = [cur EXCEPT ![w] = current]
                  /\ \/ GoTo(w, "fail") /\ UNCHANGED <<item, clock, drifted>>
                     \/ \E kind \in {"plan", "tool", "proposal", "final"} :
                           /\ Acceptable(kind)
                           /\ item' = [item EXCEPT ![w] = kind]
                           /\ GoTo(w, "insert")
                           /\ Touch                     \* _apply_usage
                           /\ drifted' = IF kind = "proposal"
                                         THEN drifted \ {current + 1} ELSE drifted
    /\ UNCHANGED <<rowVars, toolsDone, proposal, effects, jobVars, aged, faults>>

\* TemporaryProviderError: back to the queue, and the message is retried until
\* its retries are exhausted.
Requeue(w) ==
    /\ pc[w] = "call"
    /\ IF status \in Working
       THEN status' = "queued" /\ Touch
       ELSE UNCHANGED <<status, clock>>
    /\ \/ GoTo(w, "off") /\ runJobs' = runJobs + 1
       \/ GoTo(w, "fail") /\ UNCHANGED runJobs
    /\ UNCHANGED <<current, stored, cancelledAt, failureCode, reviewed, toolsDone,
                   proposal, effects, proposalJobs, item, cur, aged, drifted, faults>>

\* Mutant: the step limit is not checked.
InsertStepUnlimited(w) ==
    /\ pc[w] = "insert"
    /\ \/ cur[w] + 1 \in stored /\ GoTo(w, "off") /\ UNCHANGED stored
       \/ /\ cur[w] + 1 \notin stored
          /\ stored' = stored \cup {cur[w] + 1}
          /\ GoTo(w, "bump")
    /\ UNCHANGED <<status, current, cancelledAt, failureCode, reviewed, toolsDone,
                   proposal, effects, jobVars, item, cur, timeVars, drifted, faults>>

\* _create_step, first statement.  A taken sequence raises an IntegrityError
\* that nobody catches: the worker drops the message.
InsertStep(w) ==
    /\ pc[w] = "insert"
    /\ \/ cur[w] >= MaxSteps /\ GoTo(w, "fail") /\ UNCHANGED stored
       \/ cur[w] + 1 \in stored /\ GoTo(w, "off") /\ UNCHANGED stored
       \/ /\ cur[w] < MaxSteps /\ cur[w] + 1 \notin stored
          /\ stored' = stored \cup {cur[w] + 1}
          /\ GoTo(w, "bump")
    /\ UNCHANGED <<status, current, cancelledAt, failureCode, reviewed, toolsDone,
                   proposal, effects, jobVars, item, cur, timeVars, drifted, faults>>

\* _create_step, second statement.
BumpStep(w) ==
    /\ pc[w] = "bump"
    /\ current' = cur[w] + 1
    /\ cur' = [cur EXCEPT ![w] = cur[w] + 1]
    /\ GoTo(w, "act")
    /\ Touch
    /\ UNCHANGED <<status, stored, cancelledAt, failureCode, reviewed, toolsDone,
                   proposal, effects, jobVars, item, aged, drifted, faults>>

\* The unlocked save of the status: it overwrites whatever is there.
SaveStatus(s) == status' = s /\ Touch

HasPending == \E s \in Slot : proposal[s] = "pending"

\* What follows a stored step.
Act(w) ==
    /\ pc[w] = "act"
    /\ \/ /\ item[w] = "plan"
          /\ SaveStatus("running")
          /\ GoTo(w, "top")
          /\ UNCHANGED <<item, toolsDone, proposal>>
       \/ /\ item[w] = "tool"
          /\ \/ /\ toolsDone' = toolsDone + 1
                /\ item' = [item EXCEPT ![w] = "observation"]
                /\ GoTo(w, "insert")
             \/ GoTo(w, "fail") /\ UNCHANGED <<toolsDone, item>>
          /\ UNCHANGED <<status, clock, proposal>>
       \/ /\ item[w] = "observation"
          /\ GoTo(w, "top")
          /\ UNCHANGED <<status, clock, item, toolsDone, proposal>>
       \/ /\ item[w] = "proposal"
          /\ proposal' = [proposal EXCEPT ![cur[w]] = "pending"]
          /\ item' = [item EXCEPT ![w] = "report"]
          /\ GoTo(w, "insert")
          /\ UNCHANGED <<status, clock, toolsDone>>
       \/ /\ item[w] = "report"
          /\ SaveStatus("awaiting_approval")
          /\ GoTo(w, "off")
          /\ UNCHANGED <<item, toolsDone, proposal>>
       \/ /\ item[w] = "final"
          /\ SaveStatus(IF HasPending THEN "awaiting_approval" ELSE "completed")
          /\ GoTo(w, "off")
          /\ UNCHANGED <<item, toolsDone, proposal>>
    /\ UNCHANGED <<current, stored, cancelledAt, failureCode, reviewed, effects,
                   jobVars, cur, aged, drifted, faults>>

WorkerStep(w) ==
    \/ Claim(w) \/ Top(w) \/ Return(w) \/ Requeue(w)
    \/ InsertStep(w) \/ BumpStep(w) \/ Act(w) \/ Fail(w)

-----------------------------------------------------------------------------
(* People: the requester cancels, others decide and review.                 *)

Cancel ==
    /\ status \in {"queued", "planning", "running", "awaiting_approval"}
    /\ \A s \in Slot : proposal[s] \in {"none", "pending"}
    /\ proposal' = [s \in Slot |->
                      IF proposal[s] = "pending" THEN "rejected" ELSE "none"]
    /\ status' = "cancelled" /\ cancelledAt' = TRUE
    /\ Touch
    /\ UNCHANGED <<current, stored, failureCode, reviewed, toolsDone, effects,
                   jobVars, workerVars, aged, drifted, faults>>

Review ==
    /\ status = "completed" /\ ~reviewed
    /\ reviewed' = TRUE
    /\ Touch
    /\ CreateReviewedEvent
    /\ UNCHANGED <<status, current, stored, cancelledAt, failureCode, toolsDone,
                   proposal, effects, jobVars, workerVars, aged, drifted, faults>>

Unresolved(P) == \E s \in Slot : P[s] \in {"pending", "approved"}

\* The outcome a run takes from its resolved proposals.
Outcome(P) ==
    IF \E s \in Slot : P[s] = "expired" THEN "expired"
    ELSE IF \E s \in Slot : P[s] = "stale" THEN "stale"
    ELSE IF \E s \in Slot : P[s] = "failed" THEN "failed"
    ELSE "completed"

\* The verification step takes the next sequence, which may be taken.
VerificationClash(P) ==
    ~Unresolved(P) /\ current < MaxSteps /\ current + 1 \in stored

\* Mutant: the verification step is not counted.
VerifyUncounted(P) ==
    /\ proposal' = P
    /\ IF Unresolved(P)
       THEN UNCHANGED <<status, current, stored, failureCode, clock>>
       ELSE /\ status' = Outcome(P)
            /\ failureCode' = (failureCode \/ Outcome(P) \in {"expired", "failed"})
            /\ stored' = stored \cup ({current + 1} \cap Slot)
            /\ UNCHANGED current
            /\ Touch

\* _verify_terminal_proposals: whatever the run's status was, it becomes the
\* outcome of its proposals, now P.
VerifyTerminalProposals(P) ==
    /\ proposal' = P
    /\ IF Unresolved(P)
       THEN UNCHANGED <<status, current, stored, failureCode, clock>>
       ELSE /\ status' = Outcome(P)
            /\ failureCode' = (failureCode \/ Outcome(P) \in {"expired", "failed"})
            /\ current' = IF current < MaxSteps THEN current + 1 ELSE current
            /\ stored' = stored \cup {current'}
            /\ Touch

\* A proposal is decided whatever the status of its run; an old one expires.
DecideProposal(s) ==
    /\ proposal[s] = "pending"
    /\ \/ /\ s \notin aged
          /\ proposal' = [proposal EXCEPT ![s] = "approved"]
          /\ status' = "executing"
          /\ Touch
          /\ proposalJobs' = proposalJobs \cup {s}
          /\ UNCHANGED <<current, stored, failureCode>>
       \/ LET P == [proposal EXCEPT ![s] = IF s \in aged THEN "expired" ELSE "rejected"]
          IN  /\ ~VerificationClash(P)
              /\ VerifyTerminalProposals(P)
              /\ UNCHANGED proposalJobs
    /\ UNCHANGED <<cancelledAt, reviewed, toolsDone, effects, runJobs, workerVars,
                   aged, drifted, faults>>

-----------------------------------------------------------------------------
(* execute_project_agent_proposal.                                          *)

\* Mutant: a redelivered message executes again.
ExecutableTwice(s) == proposal[s] \in {"approved", "executed"}

Executable(s) == proposal[s] = "approved"

\* How an approved proposal can end: a changed target is not written to, and
\* access or the domain service may refuse.
Results(s) == IF s \in drifted THEN {"stale", "failed"} ELSE {"executed", "failed"}

\* One transaction with the domain action in it.  A message is kept when the
\* connection breaks at the commit and Celery retries it.
ExecuteProposal(s) ==
    /\ s \in proposalJobs
    /\ \/ /\ ~Executable(s)
          /\ proposalJobs' = proposalJobs \ {s}
          /\ UNCHANGED <<rowVars, proposal, effects, clock>>
       \/ /\ Executable(s)
          /\ \E result \in Results(s) :
                LET P == [proposal EXCEPT ![s] = result]
                IN  IF VerificationClash(P)
                    THEN /\ proposalJobs' = proposalJobs \ {s}
                         /\ UNCHANGED <<rowVars, proposal, effects, clock>>
                    ELSE /\ VerifyTerminalProposals(P)
                         /\ effects' = IF result = "executed"
                                       THEN [effects EXCEPT ![s] = @ + 1] ELSE effects
                         /\ proposalJobs' \in {proposalJobs, proposalJobs \ {s}}
                         /\ UNCHANGED <<cancelledAt, reviewed>>
    /\ UNCHANGED <<toolsDone, runJobs, workerVars, aged, drifted, faults>>

-----------------------------------------------------------------------------
(* recover_stale_project_agents, run by Celery Beat.                        *)

\* Mutant: a run that is still planning is not recovered.
RecoverRunning ==
    /\ status = "running" /\ clock = "stale"
    /\ status' = "queued"
    /\ runJobs' = runJobs + 1
    /\ Touch
    /\ UNCHANGED <<current, stored, cancelledAt, failureCode, reviewed, toolsDone,
                   proposal, effects, proposalJobs, workerVars, aged, drifted, faults>>

Recover ==
    /\ status \in Working /\ clock = "stale"
    /\ status' = "queued"
    /\ runJobs' = runJobs + 1
    /\ Touch
    /\ UNCHANGED <<current, stored, cancelledAt, failureCode, reviewed, toolsDone,
                   proposal, effects, proposalJobs, workerVars, aged, drifted, faults>>

ExpireProposal(s) ==
    LET P == [proposal EXCEPT ![s] = "expired"]
    IN  /\ proposal[s] = "pending" /\ s \in aged
        /\ ~VerificationClash(P)
        /\ VerifyTerminalProposals(P)
        /\ UNCHANGED <<cancelledAt, reviewed, toolsDone, effects, jobVars,
                       workerVars, aged, drifted, faults>>

-----------------------------------------------------------------------------
(* The environment.  The time budget (at most 600 s) is spent before a row  *)
(* counts as stale (15 minutes), and both before a proposal is old (72 h).  *)

SpendBudget ==
    /\ clock = "fresh"
    /\ clock' = "late"
    /\ UNCHANGED <<rowVars, toolsDone, proposal, effects, jobVars, workerVars, aged,
                   drifted, faults>>

\* A model call times out in 120 s and every answer saves the row, so a row
\* goes stale when no worker has it (or by the Fault below).
BecomeStale ==
    /\ clock = "late" /\ \A w \in Worker : pc[w] = "off"
    /\ clock' = "stale"
    /\ UNCHANGED <<rowVars, toolsDone, proposal, effects, jobVars, workerVars, aged,
                   drifted, faults>>

AgeProposals ==
    /\ clock = "stale"
    /\ aged' = {s \in Slot : proposal[s] # "none"}
    /\ UNCHANGED <<rowVars, toolsDone, proposal, effects, jobVars, workerVars, clock,
                   drifted, faults>>

\* Somebody edits the task or project that proposals are about.
EditTarget ==
    /\ drifted' = Slot
    /\ UNCHANGED <<rowVars, toolsDone, proposal, effects, jobVars, workerVars,
                   timeVars, faults>>

\* A message is lost by the broker, or was never published after the commit;
\* a worker process dies (messages are acknowledged when taken), or it is
\* suspended for so long that the row it works on counts as stale.
Fault ==
    /\ faults < MaxFaults
    /\ faults' = faults + 1
    /\ \/ runJobs > 0 /\ runJobs' = runJobs - 1 /\ UNCHANGED <<proposalJobs, pc, clock>>
       \/ \E s \in proposalJobs :
             proposalJobs' = proposalJobs \ {s} /\ UNCHANGED <<runJobs, pc, clock>>
       \/ \E w \in Worker :
             /\ pc[w] # "off"
             /\ \/ GoTo(w, "off") /\ UNCHANGED clock
                \/ clock = "late" /\ clock' = "stale" /\ UNCHANGED pc
             /\ UNCHANGED jobVars
    /\ UNCHANGED <<rowVars, toolsDone, proposal, effects, item, cur, aged, drifted>>

RunStep ==
    \/ \E w \in Worker : WorkerStep(w)
    \/ Cancel \/ Recover
    \/ \E s \in Slot : DecideProposal(s) \/ ExecuteProposal(s) \/ ExpireProposal(s)
    \/ SpendBudget \/ BecomeStale \/ AgeProposals \/ EditTarget \/ Fault

\* BOUND: after the review the run and its event share no variable, so the
\* workflow is followed only from where the run has come to rest.
AtRest ==
    /\ \A w \in Worker : pc[w] = "off"
    /\ runJobs = 0 /\ proposalJobs = {} /\ clock = "stale" /\ drifted = Slot

Next ==
    \/ RunStep /\ UNCHANGED eventVars
    \/ Review
    \/ AtRest /\ EventStep /\ UNCHANGED runVars

Spec == Init /\ [][Next]_vars

\* Workers keep working, Beat keeps recovering, time passes.
FairSpec ==
    /\ Spec
    /\ \A w \in Worker : WF_vars(WorkerStep(w) /\ UNCHANGED eventVars)
    /\ WF_vars(Recover /\ UNCHANGED eventVars)
    /\ WF_vars(SpendBudget /\ UNCHANGED eventVars)
    /\ WF_vars(BecomeStale /\ UNCHANGED eventVars)
-----------------------------------------------------------------------------
(* Properties.                                                              *)

\* Every column and every worker's place holds a value the code gives it.
TypeOK ==
    /\ status \in RunStatus
    /\ current \in 0 .. MaxSteps /\ stored \subseteq Slot /\ toolsDone \in Nat
    /\ cancelledAt \in BOOLEAN /\ failureCode \in BOOLEAN /\ reviewed \in BOOLEAN
    /\ proposal \in [Slot -> ProposalStatus] /\ effects \in [Slot -> Nat]
    /\ runJobs \in Nat /\ proposalJobs \subseteq Slot
    /\ pc \in [Worker -> {"off", "top", "call", "insert", "bump", "act", "fail"}]
    /\ item \in [Worker -> {"plan", "tool", "observation", "proposal", "report", "final"}]
    /\ cur \in [Worker -> 0 .. MaxSteps]
    /\ clock \in {"unstarted", "fresh", "late", "stale"}
    /\ aged \subseteq Slot /\ drifted \subseteq Slot /\ faults \in 0 .. MaxFaults
    /\ EventTypeOK /\ (reviewed <=> eventStatus # "none")

\* The business record is written exactly once for an executed proposal and
\* never for any other, whatever is cancelled, retried, redelivered or crashes.
EffectIffExecuted ==
    \A s \in Slot : effects[s] = IF proposal[s] = "executed" THEN 1 ELSE 0

\* Stored steps are numbered without a gap, and current_step counts them; only
\* the last may be uncounted, in a run that has not resolved its proposals: two
\* unlocked workers, a crash and the verification never skip or lose a number.
StepsContiguous ==
    \/ stored = 1 .. current
    \/ stored = 1 .. (current + 1) /\ status \notin {"completed", "expired", "stale"}

\* A run makes at most one proposal, although the check and the insert are two
\* statements and a recovered run may have two workers.
OneProposal ==
    Cardinality({s \in Slot : proposal[s] # "none"}) <= 1

\* A run does not stay with a worker for ever: it is completed, fails, waits
\* for people, or is put back in the queue for the last time.
WorkEnds == <>[](status \notin Working)

-----------------------------------------------------------------------------
(* What the documents say and the code does not do.                         *)

\* docs/DECISIONS/0022 "An unreviewed, failed, cancelled, expired, stale, or
\* out-of-scope run can never become memory": a cancelled or failed run is
\* completed afterwards, and reviewed.
MemoryOnlyOfCleanRun == reviewed => ~cancelledAt /\ ~failureCode
=============================================================================
