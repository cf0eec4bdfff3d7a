--------------------------- MODULE AgentRunProofs ---------------------------
(***************************************************************************)
(* What holds of AgentRun for any workers, steps, faults and executions.   *)
(*                                                                         *)
(* A domain action is written once because a proposal is made in a step of *)
(* its own: a worker between inserting a step and acting on it owns the    *)
(* step's sequence, nobody else is there and no proposal is.  The event is *)
(* touched by the review and by EventStep only.                            *)
(***************************************************************************)
EXTENDS AgentRun, TLAPS

\* A worker between the insert of a step and what follows from it.
Storing(w) == pc[w] \in {"bump", "act"}

\* The sequence of that step.
Own(w) == IF pc[w] = "bump" THEN cur[w] + 1 ELSE cur[w]

\* Proposals stand in stored steps; a worker's own step is stored, carries no
\* proposal yet and belongs to nobody else.
StepsOwned ==
    /\ \A s \in Slot : proposal[s] # "none" => s \in stored
    /\ \A w \in Worker : Storing(w) => Own(w) \in stored /\ proposal[Own(w)] = "none"
    /\ \A v, w \in Worker : v # w /\ Storing(v) /\ Storing(w) => Own(v) # Own(w)

USE MaxStepsAssumption, MaxFaultsAssumption, NoOneAssumption, ReportAssumption

\* The run's columns and its workers, apart from the event.
RunTypeOK ==
    /\ status \in RunStatus
    /\ current \in 0 .. MaxSteps /\ stored \subseteq Slot /\ toolsDone \in Nat
    /\ cancelledAt \in BOOLEAN /\ failureCode \in BOOLEAN /\ reviewed \in BOOLEAN
    /\ proposal \in [Slot -> ProposalStatus] /\ effects \in [Slot -> Nat]
    /\ runJobs \in Nat /\ proposalJobs \subseteq Slot
    /\ pc \in [Worker -> {"off", "top", "call", "insert", "bump", "act", "fail"}]
    /\ item \in [Worker -> {"plan", "tool", "observation", "proposal", "report", "final"}]
    /\ cur \in [Worker -> 0 .. MaxSteps]
    /\ clock \in {"unstarted", "fresh", "late", "stale"}
    /\ aged \subseteq Slot /\ drifted \subseteq Slot /\ faults \in 0 .. MaxFaults

\* Every step of a worker keeps the run's types: a stored step's sequence is
\* within the limit because the insert looked.
LEMMA WorkerTypes ==
    ASSUME RunTypeOK, StepsOwned, NEW w \in Worker, WorkerStep(w)
    PROVE  RunTypeOK'
<1> USE DEF RunTypeOK
<1>1. CASE Claim(w)
  <2>1. status' \in RunStatus /\ clock' \in {"unstarted", "fresh", "late", "stale"}
    BY <1>1 DEF Claim, MarkRunFailed, Touch, RunStatus
  <2>2. failureCode' \in BOOLEAN
    BY <1>1, Zenon DEF Claim, MarkRunFailed
  <2>4. runJobs' \in Nat
    BY <1>1 DEF Claim
  <2>3. /\ pc' \in [Worker -> {"off", "top", "call", "insert", "bump", "act", "fail"}]
        /\ cur' \in [Worker -> 0 .. MaxSteps] /\ item' = item
    BY <1>1 DEF Claim, GoTo, workerVars
  <2> QED
    BY <1>1, <2>1, <2>2, <2>3, <2>4 DEF Claim
<1>2. CASE Top(w)
  BY <1>2 DEF Top, Checked, GoTo, rowVars, jobVars, timeVars
<1>3. CASE Return(w)
  BY <1>3 DEF Return, Checked, GoTo, Touch, Acceptable, rowVars, jobVars
<1>4. CASE Requeue(w)
  <2>1. status' \in RunStatus /\ clock' \in {"unstarted", "fresh", "late", "stale"}
    BY <1>4 DEF Requeue, Touch, RunStatus
  <2>2. /\ pc' \in [Worker -> {"off", "top", "call", "insert", "bump", "act", "fail"}]
        /\ runJobs' \in Nat
    BY <1>4 DEF Requeue, GoTo
  <2> QED
    BY <1>4, <2>1, <2>2 DEF Requeue
<1>5. CASE InsertStep(w)
  <2>1. stored' \subseteq Slot
    <3>1. cur[w] \in 0 .. MaxSteps
      OBVIOUS
    <3>2. cur[w] < MaxSteps => cur[w] + 1 \in Slot
      BY <3>1 DEF Slot
    <3> QED
      BY <1>5, <3>2 DEF InsertStep
  <2>2. pc' \in [Worker -> {"off", "top", "call", "insert", "bump", "act", "fail"}]
    BY <1>5 DEF InsertStep, GoTo
  <2> QED
    BY <1>5, <2>1, <2>2 DEF InsertStep, jobVars, timeVars
<1>6. CASE BumpStep(w)
  BY <1>6 DEF BumpStep, GoTo, Touch, Slot, StepsOwned, Storing, Own, jobVars
<1>7. CASE Act(w)
  BY <1>7 DEF Act, GoTo, SaveStatus, Touch, RunStatus, ProposalStatus, jobVars
<1>8. CASE Fail(w)
  BY <1>8 DEF Fail, MarkRunFailed, GoTo, Touch, RunStatus, jobVars
<1> QED
  BY <1>1, <1>2, <1>3, <1>4, <1>5, <1>6, <1>7, <1>8 DEF WorkerStep

\* What the verification of resolved proposals keeps.
LEMMA VerifyTypes ==
    ASSUME RunTypeOK, NEW P \in [Slot -> ProposalStatus], VerifyTerminalProposals(P)
    PROVE  /\ proposal' = P
           /\ status' \in RunStatus /\ current' \in 0 .. MaxSteps
           /\ stored' \subseteq Slot /\ stored \subseteq stored'
           /\ failureCode' \in BOOLEAN
           /\ clock' \in {"unstarted", "fresh", "late", "stale"}
<1> USE DEF RunTypeOK
<1>1. CASE Unresolved(P)
  BY <1>1 DEF VerifyTerminalProposals
<1>2. CASE ~Unresolved(P)
  <2>1. status' \in RunStatus /\ clock' \in {"unstarted", "fresh", "late", "stale"}
    BY <1>2 DEF VerifyTerminalProposals, Outcome, Touch, RunStatus
  <2>2. current' \in Slot /\ stored' = stored \cup {current'}
    BY <1>2 DEF VerifyTerminalProposals, Slot
  <2>3. failureCode' \in BOOLEAN
    BY <1>2, Zenon DEF VerifyTerminalProposals
  <2>4. current' \in 0 .. MaxSteps
    BY <2>2 DEF Slot
  <2> QED
    BY <1>2, <2>1, <2>2, <2>3, <2>4 DEF VerifyTerminalProposals
<1> QED
  BY <1>1, <1>2

\* People, Beat, the clock and faults keep the run's types.
LEMMA OtherTypes ==
    ASSUME RunTypeOK
    PROVE  /\ Cancel => RunTypeOK'
           /\ Review => RunTypeOK'
           /\ Recover => RunTypeOK'
           /\ \A s \in Slot : DecideProposal(s) => RunTypeOK'
           /\ \A s \in Slot : ExecuteProposal(s) => RunTypeOK'
           /\ \A s \in Slot : ExpireProposal(s) => RunTypeOK'
           /\ SpendBudget \/ BecomeStale \/ AgeProposals \/ EditTarget => RunTypeOK'
           /\ Fault => RunTypeOK'
<1> USE DEF RunTypeOK
<1>1. Cancel => RunTypeOK'
  BY DEF Cancel, Touch, RunStatus, ProposalStatus, jobVars, workerVars
<1>2. Review => RunTypeOK'
  BY DEF Review, Touch, jobVars, workerVars
<1>3. Recover => RunTypeOK'
  BY DEF Recover, Touch, RunStatus, workerVars
<1>4. ASSUME NEW s \in Slot, DecideProposal(s) PROVE RunTypeOK'
  <2>1. CASE VerifyTerminalProposals([proposal EXCEPT ![s] =
                                IF s \in aged THEN "expired" ELSE "rejected"])
    <3>1. [proposal EXCEPT ![s] = IF s \in aged THEN "expired" ELSE "rejected"]
             \in [Slot -> ProposalStatus]
      BY DEF ProposalStatus
    <3> QED
      BY <1>4, <2>1, <3>1, VerifyTypes DEF DecideProposal, workerVars
  <2>2. CASE /\ proposal' = [proposal EXCEPT ![s] = "approved"]
             /\ status' = "executing" /\ Touch
             /\ proposalJobs' = proposalJobs \cup {s}
             /\ UNCHANGED <<current, stored, failureCode>>
    BY <1>4, <2>2 DEF DecideProposal, Touch, RunStatus, ProposalStatus, workerVars
  <2> QED
    BY <1>4, <2>1, <2>2 DEF DecideProposal
<1>5. ASSUME NEW s \in Slot, ExecuteProposal(s) PROVE RunTypeOK'
  <2>1. CASE UNCHANGED <<rowVars, proposal, effects, clock>>
    BY <1>5, <2>1 DEF ExecuteProposal, rowVars, workerVars
  <2>2. ASSUME NEW result \in Results(s), Executable(s),
               VerifyTerminalProposals([proposal EXCEPT ![s] = result]),
               effects' = IF result = "executed"
                          THEN [effects EXCEPT ![s] = @ + 1] ELSE effects,
               proposalJobs' \in {proposalJobs, proposalJobs \ {s}},
               UNCHANGED <<cancelledAt, reviewed>>
        PROVE  RunTypeOK'
    <3>1. [proposal EXCEPT ![s] = result] \in [Slot -> ProposalStatus]
      BY DEF ProposalStatus, Results
    <3>2. effects' \in [Slot -> Nat]
      BY <2>2
    <3> QED
      BY <1>5, <2>2, <3>1, <3>2, VerifyTypes DEF ExecuteProposal, workerVars
  <2> QED
    BY <1>5, <2>1, <2>2, Zenon DEF ExecuteProposal
<1>6. ASSUME NEW s \in Slot, ExpireProposal(s) PROVE RunTypeOK'
  <2>1. [proposal EXCEPT ![s] = "expired"] \in [Slot -> ProposalStatus]
    BY DEF ProposalStatus
  <2> QED
    BY <1>6, <2>1, VerifyTypes DEF ExpireProposal, jobVars, workerVars
<1>7. SpendBudget \/ BecomeStale \/ AgeProposals \/ EditTarget => RunTypeOK'
  BY DEF SpendBudget, BecomeStale, AgeProposals, EditTarget, rowVars, jobVars,
         workerVars, timeVars
<1>8. Fault => RunTypeOK'
  <2> SUFFICES ASSUME Fault PROVE RunTypeOK'
    OBVIOUS
  <2>1. runJobs' \in Nat /\ faults' \in 0 .. MaxFaults
    BY DEF Fault, jobVars
  <2>2. /\ proposalJobs' \subseteq Slot
        /\ clock' \in {"unstarted", "fresh", "late", "stale"}
    BY DEF Fault, jobVars
  <2>3. pc' \in [Worker -> {"off", "top", "call", "insert", "bump", "act", "fail"}]
    BY DEF Fault, GoTo
  <2> QED
    BY <2>1, <2>2, <2>3 DEF Fault, rowVars
<1> QED
  BY <1>1, <1>2, <1>3, <1>4, <1>5, <1>6, <1>7, <1>8

\* A step that stores no less, makes no proposal and moves no worker's own
\* sequence keeps the ownership.
LEMMA OwnedKept ==
    ASSUME RunTypeOK, StepsOwned, stored \subseteq stored',
           \A s \in Slot : proposal'[s] # "none" => proposal[s] # "none",
           \A v \in Worker : Storing(v)' => Storing(v) /\ Own(v)' = Own(v)
    PROVE  StepsOwned'
<1>1. \A s \in Slot : proposal'[s] # "none" => s \in stored'
  BY DEF StepsOwned
<1>2. \A v \in Worker : Storing(v)' => Own(v)' \in stored' /\ proposal'[Own(v)'] = "none"
  BY DEF StepsOwned, RunTypeOK
<1>3. \A v, u \in Worker : v # u /\ Storing(v)' /\ Storing(u)' => Own(v)' # Own(u)'
  BY DEF StepsOwned
<1> QED
  BY <1>1, <1>2, <1>3 DEF StepsOwned

\* Worker steps: an insert takes a free sequence, which no proposal and no
\* other worker has; acting gives it up.
LEMMA WorkerOwns ==
    ASSUME RunTypeOK, StepsOwned, NEW w \in Worker, WorkerStep(w)
    PROVE  StepsOwned'
<1> USE DEF RunTypeOK
<1>1. ASSUME pc' = [pc EXCEPT ![w] = pc'[w]],
             pc'[w] \notin {"bump", "act"},
             cur' = [cur EXCEPT ![w] = cur'[w]],
             stored \subseteq stored', proposal' = proposal
      PROVE  StepsOwned'
  BY <1>1, OwnedKept DEF Storing, Own
<1>2. CASE Claim(w)
  BY <1>2, <1>1 DEF Claim, GoTo, workerVars
<1>3. CASE Top(w)
  BY <1>3, <1>1 DEF Top, Checked, GoTo, rowVars
<1>4. CASE Return(w)
  BY <1>4, <1>1 DEF Return, Checked, GoTo, rowVars
<1>5. CASE Requeue(w)
  BY <1>5, <1>1 DEF Requeue, GoTo
<1>6. CASE InsertStep(w)
  <2>1. CASE GoTo(w, "fail") \/ GoTo(w, "off")
    BY <1>6, <2>1, <1>1 DEF InsertStep, GoTo
  <2>2. CASE /\ cur[w] < MaxSteps /\ cur[w] + 1 \notin stored
             /\ stored' = stored \cup {cur[w] + 1} /\ GoTo(w, "bump")
    <3>1. cur' = cur /\ proposal' = proposal
      BY <1>6 DEF InsertStep
    <3>2. /\ Own(w)' = cur[w] + 1 /\ cur[w] + 1 \in Slot
          /\ cur[w] + 1 \in stored' /\ proposal[cur[w] + 1] = "none"
      BY <2>2, <3>1 DEF Own, GoTo, StepsOwned, Slot
    <3>3. \A v \in Worker : v # w /\ Storing(v)' =>
            /\ Storing(v) /\ Own(v)' = Own(v) /\ Own(v) \in stored
      BY <2>2, <3>1 DEF Own, Storing, GoTo, StepsOwned
    <3>4. \A s \in Slot : proposal'[s] # "none" => s \in stored'
      BY <2>2, <3>1 DEF StepsOwned
    <3>5. \A v \in Worker : Storing(v)' => Own(v)' \in stored' /\ proposal'[Own(v)'] = "none"
      BY <2>2, <3>1, <3>2, <3>3 DEF StepsOwned
    <3>6. \A v, u \in Worker : v # u /\ Storing(v)' /\ Storing(u)' => Own(v)' # Own(u)'
      BY <2>2, <3>2, <3>3 DEF StepsOwned
    <3> QED
      BY <3>4, <3>5, <3>6 DEF StepsOwned
  <2> QED
    BY <1>6, <2>1, <2>2 DEF InsertStep
<1>7. CASE BumpStep(w)
  <2>1. \A v \in Worker : Storing(v)' => Storing(v) /\ Own(v)' = Own(v)
    BY <1>7 DEF BumpStep, GoTo, Storing, Own
  <2> QED
    BY <1>7, <2>1, OwnedKept DEF BumpStep
<1>8. CASE Act(w)
  <2>1. pc' = [pc EXCEPT ![w] = pc'[w]] /\ pc'[w] \notin {"bump", "act"}
    BY <1>8 DEF Act, GoTo
  <2>2. cur' = cur /\ stored' = stored
    BY <1>8 DEF Act
  <2>3. CASE proposal' = proposal
    BY <2>1, <2>2, <2>3, <1>1
  <2>4. CASE proposal' = [proposal EXCEPT ![cur[w]] = "pending"]
    <3>1. cur[w] = Own(w) /\ Storing(w)
      BY <1>8 DEF Act, Own, Storing
    <3>2. \A v \in Worker : Storing(v)' => v # w /\ Storing(v) /\ Own(v)' = Own(v)
      BY <2>1, <2>2 DEF Own, Storing
    <3>3. \A s \in Slot : proposal'[s] # "none" => s \in stored'
      BY <2>2, <2>4, <3>1 DEF StepsOwned
    <3>4. \A v \in Worker : Storing(v)' => Own(v)' \in stored' /\ proposal'[Own(v)'] = "none"
      BY <2>2, <2>4, <3>1, <3>2 DEF StepsOwned
    <3>5. \A v, u \in Worker : v # u /\ Storing(v)' /\ Storing(u)' => Own(v)' # Own(u)'
      BY <3>2 DEF StepsOwned
    <3> QED
      BY <3>3, <3>4, <3>5 DEF StepsOwned
  <2> QED
    BY <1>8, <2>3, <2>4 DEF Act
<1>9. CASE Fail(w)
  BY <1>9, <1>1 DEF Fail, MarkRunFailed, GoTo
<1> QED
  BY <1>2, <1>3, <1>4, <1>5, <1>6, <1>7, <1>8, <1>9 DEF WorkerStep

\* The other steps touch neither sequences nor stored steps, except for the
\* verification, which stores one more.
LEMMA OtherOwns ==
    ASSUME RunTypeOK, StepsOwned, RunStep \/ Review,
           \A w \in Worker : ~WorkerStep(w)
    PROVE  StepsOwned'
<1>1. CASE Cancel
  BY <1>1, OwnedKept DEF Cancel, workerVars, Storing, Own
<1>2. CASE Review
  BY <1>2, OwnedKept DEF Review, workerVars, Storing, Own
<1>3. CASE Recover
  BY <1>3, OwnedKept DEF Recover, workerVars, Storing, Own
<1>4. ASSUME NEW s \in Slot, NEW r \in ProposalStatus, proposal[s] # "none",
             VerifyTerminalProposals([proposal EXCEPT ![s] = r]),
             UNCHANGED workerVars
      PROVE  StepsOwned'
  <2>1. [proposal EXCEPT ![s] = r] \in [Slot -> ProposalStatus]
    BY DEF RunTypeOK
  <2>2. stored \subseteq stored' /\ proposal' = [proposal EXCEPT ![s] = r]
    BY <1>4, <2>1, VerifyTypes
  <2> QED
    BY <1>4, <2>2, OwnedKept DEF workerVars, Storing, Own, RunTypeOK
<1>5. ASSUME NEW s \in Slot, DecideProposal(s) PROVE StepsOwned'
  <2>1. CASE VerifyTerminalProposals([proposal EXCEPT ![s] =
                                IF s \in aged THEN "expired" ELSE "rejected"])
    BY <1>5, <2>1, <1>4 DEF DecideProposal, ProposalStatus
  <2>2. CASE proposal' = [proposal EXCEPT ![s] = "approved"] /\ stored' = stored
    BY <1>5, <2>2, OwnedKept DEF DecideProposal, workerVars, Storing, Own, RunTypeOK
  <2> QED
    BY <1>5, <2>1, <2>2 DEF DecideProposal
<1>6. ASSUME NEW s \in Slot, ExecuteProposal(s) PROVE StepsOwned'
  <2>1. CASE UNCHANGED <<rowVars, proposal, effects, clock>>
    BY <1>6, <2>1, OwnedKept DEF ExecuteProposal, rowVars, workerVars, Storing, Own
  <2>2. ASSUME NEW result \in Results(s), Executable(s),
               VerifyTerminalProposals([proposal EXCEPT ![s] = result])
        PROVE  StepsOwned'
    BY <1>6, <2>2, <1>4 DEF ExecuteProposal, Executable, Results, ProposalStatus
  <2> QED
    BY <1>6, <2>1, <2>2, Zenon DEF ExecuteProposal
<1>7. ASSUME NEW s \in Slot, ExpireProposal(s) PROVE StepsOwned'
  BY <1>7, <1>4 DEF ExpireProposal, ProposalStatus
<1>8. CASE SpendBudget \/ BecomeStale \/ AgeProposals \/ EditTarget
  BY <1>8, OwnedKept DEF SpendBudget, BecomeStale, AgeProposals, EditTarget, rowVars,
     workerVars, Storing, Own
<1>9. CASE Fault
  BY <1>9, OwnedKept DEF Fault, GoTo, rowVars, RunTypeOK, Storing, Own
<1> QED
  BY <1>1, <1>2, <1>3, <1>5, <1>6, <1>7, <1>8, <1>9 DEF RunStep

\* A business record is written in the step that makes its proposal executed.
LEMMA EffectsFollow ==
    ASSUME RunTypeOK, StepsOwned, EffectIffExecuted, RunStep \/ Review
    PROVE  EffectIffExecuted'
<1> USE DEF RunTypeOK
<1>1. ASSUME effects' = effects,
             \A s \in Slot : proposal'[s] = "executed" <=> proposal[s] = "executed"
      PROVE  EffectIffExecuted'
  BY <1>1 DEF EffectIffExecuted
<1>2. ASSUME NEW w \in Worker, WorkerStep(w) PROVE EffectIffExecuted'
  <2>1. CASE Act(w)
    <3>1. CASE proposal' = proposal
      BY <2>1, <3>1, <1>1 DEF Act
    <3>2. CASE proposal' = [proposal EXCEPT ![cur[w]] = "pending"]
      <4>1. cur[w] \in Slot => proposal[cur[w]] = "none"
        BY <2>1 DEF Act, StepsOwned, Storing, Own
      <4> QED
        BY <2>1, <3>2, <4>1, <1>1 DEF Act
    <3> QED
      BY <2>1, <3>1, <3>2 DEF Act
  <2>2. CASE ~Act(w)
    <3>1. proposal' = proposal /\ effects' = effects
      BY <1>2, <2>2, Zenon DEF WorkerStep, Claim, Top, Return, Requeue, InsertStep,
         BumpStep, Fail
    <3> QED
      BY <3>1, <1>1
  <2> QED
    BY <2>1, <2>2
<1>3. CASE Cancel
  BY <1>3, <1>1 DEF Cancel
<1>4. CASE Review \/ Recover
  BY <1>4, <1>1 DEF Review, Recover
<1>5. ASSUME NEW s \in Slot, DecideProposal(s) PROVE EffectIffExecuted'
  <2>1. \E r \in {"approved", "expired", "rejected"} :
           proposal' = [proposal EXCEPT ![s] = r]
    BY <1>5 DEF DecideProposal, VerifyTerminalProposals
  <2> QED
    BY <1>5, <2>1, <1>1 DEF DecideProposal
<1>6. ASSUME NEW s \in Slot, ExecuteProposal(s) PROVE EffectIffExecuted'
  <2>1. CASE UNCHANGED <<rowVars, proposal, effects, clock>>
    BY <2>1, <1>1
  <2>2. ASSUME NEW result \in Results(s), Executable(s),
               VerifyTerminalProposals([proposal EXCEPT ![s] = result]),
               effects' = IF result = "executed"
                          THEN [effects EXCEPT ![s] = @ + 1] ELSE effects
        PROVE  EffectIffExecuted'
    <3>1. proposal' = [proposal EXCEPT ![s] = result] /\ proposal[s] = "approved"
      BY <2>2 DEF VerifyTerminalProposals, Executable
    <3>2. effects[s] = 0
      BY <3>1 DEF EffectIffExecuted
    <3> QED
      BY <2>2, <3>1, <3>2 DEF EffectIffExecuted
  <2> QED
    BY <1>6, <2>1, <2>2, Zenon DEF ExecuteProposal
<1>7. ASSUME NEW s \in Slot, ExpireProposal(s) PROVE EffectIffExecuted'
  BY <1>7, <1>1 DEF ExpireProposal, VerifyTerminalProposals
<1>8. CASE SpendBudget \/ BecomeStale \/ AgeProposals \/ EditTarget \/ Fault
  BY <1>8, <1>1 DEF SpendBudget, BecomeStale, AgeProposals, EditTarget, Fault
<1> QED
  BY <1>2, <1>3, <1>4, <1>5, <1>6, <1>7, <1>8 DEF RunStep

-----------------------------------------------------------------------------
(* The event                                                                *)

\* Before the first claim nobody has the event, then its last claimer does;
\* who still has a lease when the event is settled has settled it.
EventInv ==
    /\ EventTypeOK /\ OneLiveLease /\ ToldTruth
    /\ eventStatus \in {"none", "pending"} => claimed = {}
    /\ eventStatus \in FinalEvent <=> callback # "none"
    /\ eventStatus \in FinalEvent => \A x \in claimed \ over : report[x] = callback
    /\ reviewed <=> eventStatus # "none"

\* The event appears with the review and keeps its invariant at every step of
\* the workflow.
LEMMA EventKept ==
    ASSUME EventInv, NEW x \in Execution, UNCHANGED reviewed,
           \/ ClaimReviewedEvent(x) \/ EndLease(x)
           \/ \E o \in Report : AcknowledgeReviewedEvent(x, o)
    PROVE  EventInv'
<1> USE DEF EventInv, EventTypeOK, OneLiveLease, ToldTruth, FinalEvent
<1>1. CASE ClaimReviewedEvent(x)
  BY <1>1 DEF ClaimReviewedEvent, Claimable
<1>2. CASE EndLease(x)
  BY <1>2 DEF EndLease
<1>3. ASSUME NEW o \in Report, AcknowledgeReviewedEvent(x, o) PROVE EventInv'
  <2>1. o \in EventOutcome /\ o # "none"
    BY DEF EventOutcome
  <2>2. CASE Settled(o)
    BY <1>3, <2>1, <2>2 DEF AcknowledgeReviewedEvent, Settled, Answer
  <2>3. CASE ~Settled(o) /\ Holds(x)
    BY <1>3, <2>1, <2>3 DEF AcknowledgeReviewedEvent, Settled, Holds, Answer
  <2>4. CASE ~Settled(o) /\ ~Holds(x)
    <3>1. x \in over
      BY <1>3, <2>1, <2>4 DEF AcknowledgeReviewedEvent, Settled, Holds
    <3> QED
      BY <1>3, <2>1, <2>4, <3>1 DEF AcknowledgeReviewedEvent, Answer
  <2> QED
    BY <2>2, <2>3, <2>4
<1> QED
  BY <1>1, <1>2, <1>3

-----------------------------------------------------------------------------
(* The theorems                                                             *)

\* The inductive invariant of the run and its event.
FullInv == RunTypeOK /\ StepsOwned /\ EffectIffExecuted /\ EventInv

\* A fresh request satisfies it: no step is stored, no proposal made.
LEMMA InitFullInv == Init => FullInv
<1> SUFFICES ASSUME Init PROVE FullInv
  OBVIOUS
<1>1. RunTypeOK
  <2>1. /\ status \in RunStatus /\ current \in 0 .. MaxSteps /\ stored \subseteq Slot
        /\ toolsDone \in Nat /\ runJobs \in Nat /\ proposalJobs \subseteq Slot
    BY DEF Init, RunStatus
  <2>2. cancelledAt \in BOOLEAN /\ failureCode \in BOOLEAN /\ reviewed \in BOOLEAN
    BY Zenon DEF Init
  <2>3. proposal \in [Slot -> ProposalStatus] /\ effects \in [Slot -> Nat]
    BY DEF Init, ProposalStatus
  <2>4. /\ pc \in [Worker -> {"off", "top", "call", "insert", "bump", "act", "fail"}]
        /\ item \in [Worker -> {"plan", "tool", "observation", "proposal", "report",
                                "final"}]
        /\ cur \in [Worker -> 0 .. MaxSteps]
    BY DEF Init
  <2>5. /\ clock \in {"unstarted", "fresh", "late", "stale"}
        /\ aged \subseteq Slot /\ drifted \subseteq Slot /\ faults \in 0 .. MaxFaults
    BY DEF Init
  <2> QED
    BY <2>1, <2>2, <2>3, <2>4, <2>5 DEF RunTypeOK
<1>2. StepsOwned /\ EffectIffExecuted
  BY DEF Init, StepsOwned, EffectIffExecuted, Storing
<1>3. EventInv
  BY DEF Init, EventInit, EventInv, EventTypeOK, OneLiveLease, ToldTruth, FinalEvent
<1> QED
  BY <1>1, <1>2, <1>3 DEF FullInv

\* Every step keeps it.
LEMMA StepFullInv == FullInv /\ [Next]_vars => FullInv'
<1> SUFFICES ASSUME FullInv, [Next]_vars PROVE FullInv'
  OBVIOUS
<1> USE DEF FullInv
<1>1. CASE RunStep /\ UNCHANGED eventVars
  <2>1. RunTypeOK'
    <3>1. CASE \E w \in Worker : WorkerStep(w)
      BY <3>1, WorkerTypes
    <3>2. CASE ~\E w \in Worker : WorkerStep(w)
      BY <1>1, <3>2, OtherTypes DEF RunStep
    <3> QED
      BY <3>1, <3>2
  <2>2. StepsOwned'
    <3>1. CASE \E w \in Worker : WorkerStep(w)
      BY <3>1, WorkerOwns
    <3>2. CASE ~\E w \in Worker : WorkerStep(w)
      BY <1>1, <3>2, OtherOwns
    <3> QED
      BY <3>1, <3>2
  <2>3. EffectIffExecuted'
    BY <1>1, EffectsFollow
  <2>4. reviewed' = reviewed
    BY <1>1, Zenon DEF RunStep, WorkerStep, Claim, Top, Return, Requeue, InsertStep, BumpStep,
       Act, Fail, Cancel, Recover, DecideProposal, ExecuteProposal, ExpireProposal,
       SpendBudget, BecomeStale, AgeProposals, EditTarget, Fault, rowVars
  <2>5. EventInv'
    BY <1>1, <2>4 DEF eventVars, EventInv, EventTypeOK, OneLiveLease, ToldTruth, FinalEvent
  <2> QED
    BY <2>1, <2>2, <2>3, <2>5
<1>2. CASE Review
  <2>1. RunTypeOK' /\ EffectIffExecuted'
    BY <1>2, OtherTypes, EffectsFollow
  <2>2. StepsOwned'
    BY <1>2, OwnedKept DEF Review, workerVars, Storing, Own
  <2>3. EventInv'
    BY <1>2 DEF Review, CreateReviewedEvent, EventInv, EventTypeOK, OneLiveLease,
       ToldTruth, FinalEvent
  <2> QED
    BY <2>1, <2>2, <2>3
<1>3. CASE EventStep /\ UNCHANGED runVars
  <2>1. RunTypeOK' /\ StepsOwned' /\ EffectIffExecuted' /\ reviewed' = reviewed
    BY <1>3 DEF runVars, rowVars, jobVars, workerVars, timeVars, RunTypeOK, StepsOwned,
       Storing, Own, EffectIffExecuted
  <2>2. EventInv'
    BY <1>3, <2>1, EventKept DEF EventStep
  <2> QED
    BY <2>1, <2>2
<1>4. CASE UNCHANGED vars
  BY <1>4 DEF vars, runVars, rowVars, jobVars, workerVars, timeVars, eventVars, RunTypeOK,
     StepsOwned, Storing, Own, EffectIffExecuted, EventInv, EventTypeOK, OneLiveLease,
     ToldTruth, FinalEvent
<1> QED
  BY <1>1, <1>2, <1>3, <1>4 DEF Next

\* The invariant holds always.
LEMMA AlwaysFullInv == Spec => []FullInv
  BY InitFullInv, StepFullInv, PTL DEF Spec

\* Every row, worker and execution holds values the code gives it, for any
\* number of workers, steps, faults and executions (project_agents/models.py).
THEOREM AgentTypeCorrect == Spec => []TypeOK
<1>1. FullInv => TypeOK
  BY DEF FullInv, RunTypeOK, EventInv, TypeOK
<1> QED
  BY AlwaysFullInv, <1>1, PTL

\* The domain action of a proposal is written once if it reads executed and
\* never otherwise (project_agents/services.py:1022-1185).
THEOREM ExecutedOnce == Spec => []EffectIffExecuted
<1>1. FullInv => EffectIffExecuted
  BY DEF FullInv
<1> QED
  BY AlwaysFullInv, <1>1, PTL

\* The reviewed event is never under two live leases
\* (project_agents/integration_services.py:17-51).
THEOREM LeaseOfOne == Spec => []OneLiveLease
<1>1. FullInv => OneLiveLease
  BY DEF FullInv, EventInv
<1> QED
  BY AlwaysFullInv, <1>1, PTL

\* What an execution of the workflow is told stays true
\* (project_agents/integration_services.py:54-101).
THEOREM AnswersAreTrue == Spec => []ToldTruth
<1>1. FullInv => ToldTruth
  BY DEF FullInv, EventInv
<1> QED
  BY AlwaysFullInv, <1>1, PTL

\* A settled event is settled for good.
THEOREM SettledStays == Spec => EventSettledForGood
<1>1. FullInv /\ [Next]_vars =>
        [callback # "none" => eventStatus' = eventStatus /\ callback' = callback]_eventVars
  <2> SUFFICES ASSUME FullInv, [Next]_vars, callback # "none"
               PROVE  eventStatus' = eventStatus /\ callback' = callback
    OBVIOUS
  <2>1. eventStatus \in FinalEvent /\ eventStatus \notin {"none", "pending", "leased"}
    BY DEF FullInv, EventInv, FinalEvent
  <2>2. CASE UNCHANGED eventVars
    BY <2>2 DEF eventVars
  <2>3. CASE CreateReviewedEvent
    BY <2>1, <2>3 DEF CreateReviewedEvent
  <2>4. CASE EventStep
    BY <2>1, <2>4 DEF EventStep, ClaimReviewedEvent, Claimable, EndLease,
       AcknowledgeReviewedEvent, Holds
  <2> QED
    BY <2>2, <2>3, <2>4, Zenon DEF Next, Review, vars
<1> QED
  BY AlwaysFullInv, <1>1, PTL DEF Spec, EventSettledForGood
=============================================================================
