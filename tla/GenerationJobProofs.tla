------------------------- MODULE GenerationJobProofs -------------------------
(***************************************************************************)
(* For every set of workers and every bound: a generation job's columns    *)
(* tell one story, a queued job is carried, and the workers, retries and   *)
(* recoveries implement the promise of module Job.                         *)
(***************************************************************************)
EXTENDS GenerationJob, TLAPS

\* Nobody works on a job that was not asked for: needed to know that failing a
\* job ends a pending one.
Unasked ==
  status = "none" =>
    /\ outbox = {}
    /\ \A r \in Retries : messages[r] = 0
    /\ \A w \in Workers : pc[w] = "idle"

\* The inductive invariant; each conjunct has a step lemma, proved action by
\* action.
IInv == TypeOK /\ OneStory /\ Unasked /\ QueuedIsCarried

USE NoResultAssumption, BoundsAssumption

\* The initial row satisfies the invariant: nothing is asked, nothing queued.
LEMMA InitIInv == Init => IInv
<1> SUFFICES ASSUME Init PROVE IInv
  OBVIOUS
<1>1. TypeOK
  <2>1. /\ kind \in Kinds /\ status \in Statuses
        /\ started \in {"null", "fresh", "stale"}
        /\ result \in Workers \cup {NoResult} /\ used \in BOOLEAN
    BY Zenon DEF Init, Statuses
  <2>3. sources \in 0..1 /\ outbox \subseteq Publishers
    BY DEF Init
  <2>2. /\ messages \in [Retries -> Nat]
        /\ pc \in [Workers -> {"idle", "calling", "deferred"}]
        /\ retry \in [Workers -> Retries]
        /\ faults \in 0..MaxFaults /\ lost \in 0..MaxLost
    BY DEF Init, Retries
  <2> QED
    BY <2>1, <2>2, <2>3 DEF TypeOK
<1>2. OneStory
  BY DEF Init, OneStory, LifecycleValid, Final
<1>3. QueuedIsCarried
  BY DEF Init, QueuedIsCarried
<1>4. Unasked
  BY DEF Init, Unasked
<1> QED
  BY <1>1, <1>2, <1>3, <1>4 DEF IInv

\* What the two writes that several handlers share leave behind.
LEMMA MarkFailedRow ==
  ASSUME TypeOK, MarkFailed
  PROVE  /\ status' \in Final
         /\ status' = "completed" <=> status = "completed"
         /\ status \in Final => UNCHANGED row
         /\ started' \in {"null", "fresh", "stale"}
         /\ started = "null" => (status \in Final \/ started' = "fresh")
         /\ started # "null" => started' = started
         /\ result' = result \/ (status \notin Final /\ result' = NoResult)
         /\ sources' = sources
<1>1. CASE status \in Final /\ UNCHANGED row
  BY <1>1 DEF TypeOK, row, Final
<1>2. CASE status \notin Final /\ status' = "failed"
  BY <1>2 DEF TypeOK, MarkFailed, row, Final
<1> QED
  BY <1>1, <1>2 DEF MarkFailed

\* Types are kept by every step; counters stay within their bounds.
LEMMA TypingStep == TypeOK /\ OneStory /\ [Next]_vars => TypeOK'
<1> SUFFICES ASSUME TypeOK, OneStory, [Next]_vars PROVE TypeOK'
  OBVIOUS
<1> USE DEF TypeOK, Kinds, Statuses, Retries, Publishers, row, workers, bounds, Final
<1>1. CASE RequestReport \/ RequestAnswer \/ RequestBriefing
  BY <1>1 DEF RequestReport, RequestAnswer, RequestBriefing, Request
<1>2. ASSUME NEW p \in Publishers, Publish(p) PROVE TypeOK'
  BY <1>2 DEF Publish, Send
<1>3. ASSUME NEW p \in Publishers, EnqueueFails(p) PROVE TypeOK'
  BY <1>3, MarkFailedRow DEF EnqueueFails
<1>4. ASSUME NEW p \in Publishers, DieBeforePublishing(p) PROVE TypeOK'
  BY <1>4 DEF DieBeforePublishing, Loss
<1>5. ASSUME NEW w \in Workers, NEW r \in Retries, Claim(w, r) PROVE TypeOK'
  <2>1. messages' \in [Retries -> Nat]
    <3>1. messages[r] > 0 /\ messages' = [messages EXCEPT ![r] = @ - 1]
      BY <1>5 DEF Claim, Take
    <3>2. messages[r] - 1 \in Nat
      BY <3>1
    <3> QED
      BY <3>1, <3>2
  <2>2. status' \in Statuses /\ started' \in {"null", "fresh", "stale"}
    BY <1>5 DEF Claim
  <2>3. pc' \in [Workers -> {"idle", "calling", "deferred"}] /\ retry' \in [Workers -> Retries]
    BY <1>5 DEF Claim
  <2>4. UNCHANGED <<kind, result, sources, used, outbox, bounds>>
    BY <1>5 DEF Claim
  <2> QED
    BY <2>1, <2>2, <2>3, <2>4
<1>6. ASSUME NEW w \in Workers, NEW k \in 0..1, k = 1 => kind = "briefing",
             Complete(w, k)
      PROVE  TypeOK'
  BY <1>6 DEF Complete, OneStory
<1>7. ASSUME NEW w \in Workers, Refuse(w) PROVE TypeOK'
  BY <1>7, MarkFailedRow DEF Refuse
<1>8. ASSUME NEW w \in Workers, Defer(w) PROVE TypeOK'
  <2>1. CASE status = "processing"
    BY <1>8, <2>1 DEF Defer, Requeue
  <2>2. CASE status # "processing"
    BY <1>8, <2>2 DEF Defer, Requeue
  <2> QED
    BY <2>1, <2>2
<1>9. ASSUME NEW w \in Workers, RetryOrFail(w) PROVE TypeOK'
  <2>1. CASE retry[w] < MaxRetries /\ Send(retry[w] + 1) /\ UNCHANGED row
    <3>1. retry[w] + 1 \in Retries
      BY <2>1 DEF Retries
    <3>2. messages' \in [Retries -> Nat]
      BY <2>1, <3>1 DEF Send
    <3>3. pc' = [pc EXCEPT ![w] = "idle"] /\ UNCHANGED <<kind, used, outbox, retry, bounds, row>>
      BY <1>9, <2>1 DEF RetryOrFail
    <3> QED
      BY <3>2, <3>3
  <2>2. CASE MarkFailed /\ UNCHANGED messages
    BY <1>9, <2>2, MarkFailedRow DEF RetryOrFail
  <2> QED
    BY <1>9, <2>1, <2>2 DEF RetryOrFail
<1>10. ASSUME NEW w \in Workers, WorkerDies(w) \/ DieBeforeRetry(w) PROVE TypeOK'
  <2>1. CASE WorkerDies(w)
    BY <2>1 DEF WorkerDies, Fault
  <2>2. CASE DieBeforeRetry(w)
    BY <2>2 DEF DieBeforeRetry, Loss
  <2> QED
    BY <1>10, <2>1, <2>2
<1>11. ASSUME NEW r \in Retries, DeliverTwice(r) \/ LoseMessage(r) PROVE TypeOK'
  <2>1. CASE DeliverTwice(r)
    BY <2>1 DEF DeliverTwice, Fault, Send
  <2>2. CASE LoseMessage(r)
    BY <2>2 DEF LoseMessage, Loss, Take
  <2> QED
    BY <1>11, <2>1, <2>2
<1>12. CASE Recover
  BY <1>12 DEF Recover
<1>13. CASE BecomeStale
  <2>1. /\ started' = "stale"
        /\ UNCHANGED <<kind, status, result, sources, used, outbox, messages, workers>>
    BY <1>13 DEF BecomeStale
  <2>2. UNCHANGED bounds \/ Fault
    BY <1>13 DEF BecomeStale
  <2>3. faults' \in 0..MaxFaults /\ lost' \in 0..MaxLost
    BY <2>2 DEF Fault
  <2> QED
    BY <2>1, <2>3
<1>14. CASE DownloadReport \/ ReviewBriefing
  BY <1>14 DEF DownloadReport, ReviewBriefing, Use
<1>15. CASE UNCHANGED vars
  BY <1>15 DEF vars
<1> HIDE DEF TypeOK, Kinds, Statuses, Retries, Publishers, row, workers, bounds, Final
<1> QED
  BY <1>1, <1>2, <1>3, <1>4, <1>5, <1>6, <1>7, <1>8, <1>9, <1>10, <1>11, <1>12,
     <1>13, <1>14, <1>15
     DEF Next, Finish, CompleteReport, CompleteAnswer, CompleteBriefing

\* Completion writes answer, sources and status together or not at all; failing
\* and re-queueing leave a final row alone.
LEMMA StoryStep == TypeOK /\ OneStory /\ [Next]_vars => OneStory'
<1> SUFFICES ASSUME TypeOK, OneStory, [Next]_vars PROVE OneStory'
  OBVIOUS
<1> USE DEF TypeOK, OneStory, Statuses, LifecycleValid, Final, row, workers, bounds
<1>1. CASE RequestReport \/ RequestAnswer \/ RequestBriefing
  BY <1>1 DEF RequestReport, RequestAnswer, RequestBriefing, Request
<1>2. ASSUME NEW p \in Publishers, Publish(p) \/ DieBeforePublishing(p) PROVE OneStory'
  BY <1>2 DEF Publish, DieBeforePublishing
<1>3. ASSUME NEW p \in Publishers, EnqueueFails(p) PROVE OneStory'
  BY <1>3, MarkFailedRow DEF EnqueueFails
<1>4. ASSUME NEW w \in Workers, NEW r \in Retries, Claim(w, r) PROVE OneStory'
  BY <1>4 DEF Claim
<1>5. ASSUME NEW w \in Workers, NEW k \in 0..1,
             k = IF kind = "briefing" THEN 1 ELSE 0, Complete(w, k)
      PROVE  OneStory'
  BY <1>5 DEF Complete
<1>6. ASSUME NEW w \in Workers, Refuse(w) PROVE OneStory'
  BY <1>6, MarkFailedRow DEF Refuse
<1>7. ASSUME NEW w \in Workers, Defer(w) PROVE OneStory'
  BY <1>7 DEF Defer, Requeue
<1>8. ASSUME NEW w \in Workers, RetryOrFail(w) PROVE OneStory'
  BY <1>8, MarkFailedRow DEF RetryOrFail
<1>9. ASSUME NEW w \in Workers, WorkerDies(w) \/ DieBeforeRetry(w) PROVE OneStory'
  BY <1>9 DEF WorkerDies, DieBeforeRetry
<1>10. ASSUME NEW r \in Retries, DeliverTwice(r) \/ LoseMessage(r) PROVE OneStory'
  BY <1>10 DEF DeliverTwice, LoseMessage
<1>11. CASE Recover
  BY <1>11 DEF Recover
<1>12. CASE BecomeStale
  BY <1>12 DEF BecomeStale
<1>13. CASE DownloadReport \/ ReviewBriefing
  BY <1>13 DEF DownloadReport, ReviewBriefing, Use
<1>14. CASE UNCHANGED vars
  BY <1>14 DEF vars
<1> HIDE DEF TypeOK, OneStory, Statuses, LifecycleValid, Final, row, workers, bounds
<1> QED
  BY <1>1, <1>2, <1>3, <1>4, <1>5, <1>6, <1>7, <1>8, <1>9, <1>10, <1>11, <1>12,
     <1>13, <1>14
     DEF Next, Finish, CompleteReport, CompleteAnswer, CompleteBriefing

\* The request is the only way out of "none", and work starts after it.
LEMMA UnaskedStep == TypeOK /\ Unasked /\ [Next]_vars => Unasked'
<1> SUFFICES ASSUME TypeOK, Unasked, [Next]_vars, status' = "none" PROVE Unasked'
  BY DEF Unasked
<1> USE DEF TypeOK, Unasked, row, workers, bounds, Final
<1>1. CASE RequestReport \/ RequestAnswer \/ RequestBriefing
  BY <1>1 DEF RequestReport, RequestAnswer, RequestBriefing, Request
<1>2. ASSUME NEW p \in Publishers,
             Publish(p) \/ EnqueueFails(p) \/ DieBeforePublishing(p)
      PROVE  Unasked'
  BY <1>2, MarkFailedRow DEF Publish, EnqueueFails, DieBeforePublishing
<1>3. ASSUME NEW w \in Workers, NEW r \in Retries, Claim(w, r) PROVE Unasked'
  BY <1>3 DEF Claim, Take
<1>4. ASSUME NEW w \in Workers, NEW k \in 0..1, Complete(w, k) PROVE Unasked'
  BY <1>4 DEF Complete
<1>5. ASSUME NEW w \in Workers, Refuse(w) \/ Defer(w) \/ RetryOrFail(w) PROVE Unasked'
  <2>1. status = "none"
    BY <1>5, MarkFailedRow DEF Refuse, Defer, Requeue, RetryOrFail
  <2> QED
    BY <1>5, <2>1 DEF Refuse, Defer, RetryOrFail
<1>6. ASSUME NEW w \in Workers, WorkerDies(w) \/ DieBeforeRetry(w) PROVE Unasked'
  BY <1>6 DEF WorkerDies, DieBeforeRetry
<1>7. ASSUME NEW r \in Retries, DeliverTwice(r) \/ LoseMessage(r) PROVE Unasked'
  BY <1>7 DEF DeliverTwice, LoseMessage, Take
<1>8. CASE Recover
  BY <1>8 DEF Recover
<1>9. CASE BecomeStale
  BY <1>9 DEF BecomeStale
<1>10. CASE DownloadReport \/ ReviewBriefing
  BY <1>10 DEF DownloadReport, ReviewBriefing, Use
<1>11. CASE UNCHANGED vars
  BY <1>11 DEF vars
<1> HIDE DEF TypeOK, Unasked, row, workers, bounds, Final
<1> QED
  BY <1>1, <1>2, <1>3, <1>4, <1>5, <1>6, <1>7, <1>8, <1>9, <1>10, <1>11
     DEF Next, Finish, CompleteReport, CompleteAnswer, CompleteBriefing

\* Whoever makes the row queued holds the message that will wake it, and only a
\* claim uses that message up while the row is queued.
LEMMA CarriedStep == TypeOK /\ OneStory /\ QueuedIsCarried /\ [Next]_vars => QueuedIsCarried'
<1> SUFFICES ASSUME TypeOK, OneStory, QueuedIsCarried, [Next]_vars PROVE QueuedIsCarried'
  OBVIOUS
<1> USE DEF TypeOK, QueuedIsCarried, Carried, Statuses, Retries, row, workers, bounds, Final
<1>1. CASE RequestReport \/ RequestAnswer \/ RequestBriefing
  BY <1>1 DEF RequestReport, RequestAnswer, RequestBriefing, Request
<1>2. ASSUME NEW p \in Publishers, Publish(p) PROVE QueuedIsCarried'
  <2>1. messages'[0] > 0
    BY <1>2 DEF Publish, Send
  <2> QED
    BY <1>2, <2>1
<1>3. ASSUME NEW p \in Publishers, EnqueueFails(p) PROVE QueuedIsCarried'
  BY <1>3 DEF EnqueueFails, MarkFailed
<1>4. ASSUME NEW p \in Publishers, DieBeforePublishing(p) PROVE QueuedIsCarried'
  BY <1>4 DEF DieBeforePublishing, Loss
<1>5. ASSUME NEW w \in Workers, NEW r \in Retries, Claim(w, r) PROVE QueuedIsCarried'
  BY <1>5 DEF Claim, Take
<1>6. ASSUME NEW w \in Workers, NEW k \in 0..1, Complete(w, k) PROVE QueuedIsCarried'
  BY <1>6 DEF Complete
<1>7. ASSUME NEW w \in Workers, Refuse(w) PROVE QueuedIsCarried'
  BY <1>7 DEF Refuse, MarkFailed
<1>8. ASSUME NEW w \in Workers, Defer(w) PROVE QueuedIsCarried'
  BY <1>8 DEF Defer, Requeue
<1>9. ASSUME NEW w \in Workers, RetryOrFail(w) PROVE QueuedIsCarried'
  <2>1. CASE retry[w] < MaxRetries /\ Send(retry[w] + 1) /\ UNCHANGED row
    <3>1. retry[w] \in Nat /\ retry[w] + 1 \in Retries
      BY <2>1
    <3>2. messages[retry[w] + 1] \in Nat
      BY <3>1
    <3>3. messages'[retry[w] + 1] = messages[retry[w] + 1] + 1
      BY <2>1, <3>1 DEF Send
    <3>4. messages'[retry[w] + 1] > 0
      BY <3>2, <3>3
    <3> QED
      BY <3>1, <3>4
  <2>2. CASE retry[w] >= MaxRetries /\ MarkFailed
    BY <2>2 DEF MarkFailed
  <2> QED
    BY <1>9, <2>1, <2>2 DEF RetryOrFail
<1>10. ASSUME NEW w \in Workers, WorkerDies(w) \/ DieBeforeRetry(w) PROVE QueuedIsCarried'
  BY <1>10 DEF WorkerDies, DieBeforeRetry, Fault, Loss
<1>11. ASSUME NEW r \in Retries, DeliverTwice(r) \/ LoseMessage(r) PROVE QueuedIsCarried'
  <2>1. CASE DeliverTwice(r)
    <3>1. messages'[r] > 0
      BY <2>1 DEF DeliverTwice, Send
    <3> QED
      BY <3>1
  <2>2. CASE LoseMessage(r)
    BY <2>2 DEF LoseMessage, Loss
  <2> QED
    BY <1>11, <2>1, <2>2
<1>12. CASE Recover
  BY <1>12 DEF Recover
<1>13. CASE BecomeStale
  BY <1>13 DEF BecomeStale
<1>14. CASE DownloadReport \/ ReviewBriefing
  BY <1>14 DEF DownloadReport, ReviewBriefing, Use
<1>15. CASE UNCHANGED vars
  BY <1>15 DEF vars
<1> HIDE DEF TypeOK, QueuedIsCarried, Carried, Statuses, Retries, row, workers, bounds, Final
<1> QED
  BY <1>1, <1>2, <1>3, <1>4, <1>5, <1>6, <1>7, <1>8, <1>9, <1>10, <1>11, <1>12,
     <1>13, <1>14, <1>15
     DEF Next, Finish, CompleteReport, CompleteAnswer, CompleteBriefing

\* The inductive invariant holds in every behaviour.
LEMMA Invariance == SafetySpec => []IInv
<1>1. IInv /\ [Next]_vars => IInv'
  BY TypingStep, StoryStep, UnaskedStep, CarriedStep DEF IInv
<1> QED
  BY InitIInv, <1>1, PTL DEF SafetySpec

\* Every row, message and worker of a job keeps its type, and the faults their
\* bounds.
THEOREM TypeCorrect == Spec => []TypeOK
<1>1. IInv => TypeOK
  BY DEF IInv
<1> QED
  BY Invariance, <1>1, PTL DEF Spec

\* The answer, the sources and the notification of a job exist exactly when its
\* row says completed (the _complete_* functions of apps/executive_bot and
\* apps/ai_briefings).
THEOREM ColumnsTellOneStory == Spec => []OneStory
<1>1. IInv => OneStory
  BY DEF IInv
<1> QED
  BY Invariance, <1>1, PTL DEF Spec

\* A queued job has a message, a publisher or a retrying worker, unless a
\* message was lost: recovery never looks at queued rows.
THEOREM QueuedJobsAreCarried == Spec => []QueuedIsCarried
<1>1. IInv => QueuedIsCarried
  BY DEF IInv
<1> QED
  BY Invariance, <1>1, PTL DEF Spec

\* A step of the detailed job is a step of the promise or changes nothing in it.
LEMMA StepImplements == TypeOK /\ OneStory /\ Unasked /\ [Next]_vars => [Promise!Next]_(Promise!vars)
<1> SUFFICES ASSUME TypeOK, OneStory, Unasked, [Next]_vars
             PROVE  [Promise!Next]_(Promise!vars)
  OBVIOUS
<1> USE DEF TypeOK, OneStory, Statuses, Final, phase, row, workers, bounds,
            Promise!Next, Promise!vars
<1>0. ASSUME status # "none", MarkFailed, used' = used
      PROVE  Promise!GiveUp \/ UNCHANGED <<phase, result, used>>
  <2>1. CASE status \in Final
    BY <1>0, <2>1, MarkFailedRow
  <2>2. CASE status \notin Final
    <3>1. status' = "failed" /\ result' = NoResult
      BY <1>0, <2>2 DEF MarkFailed
    <3>2. result = NoResult
      BY <2>2
    <3> QED
      BY <1>0, <2>2, <3>1, <3>2 DEF Promise!GiveUp
  <2> QED
    BY <2>1, <2>2
<1>1. CASE RequestReport \/ RequestAnswer \/ RequestBriefing
  BY <1>1 DEF RequestReport, RequestAnswer, RequestBriefing, Request, Promise!Ask
<1>2. ASSUME NEW p \in Publishers, Publish(p) \/ DieBeforePublishing(p)
      PROVE  UNCHANGED <<phase, result, used>>
  BY <1>2 DEF Publish, DieBeforePublishing
<1>3. ASSUME NEW p \in Publishers, EnqueueFails(p)
      PROVE  Promise!GiveUp \/ UNCHANGED <<phase, result, used>>
  BY <1>0, <1>3 DEF EnqueueFails, Unasked
<1>4. ASSUME NEW w \in Workers, NEW r \in Retries, Claim(w, r)
      PROVE  UNCHANGED <<phase, result, used>>
  BY <1>4 DEF Claim
<1>5. ASSUME NEW w \in Workers, NEW k \in 0..1, Complete(w, k)
      PROVE  Promise!Finish \/ UNCHANGED <<phase, result, used>>
  <2>1. CASE UNCHANGED <<status, result, sources>>
    BY <1>5, <2>1 DEF Complete
  <2>2. CASE status \notin Final /\ LifecycleValid("completed", started)
    <3>1. /\ status' = "completed" /\ result' = w /\ used' = used
      BY <1>5, <2>2 DEF Complete
    <3>2. status \in {"queued", "processing"}
      BY <1>5, <2>2 DEF Complete, LifecycleValid
    <3> QED
      BY <3>1, <3>2 DEF Promise!Finish
  <2> QED
    BY <1>5, <2>1, <2>2 DEF Complete
<1>6. ASSUME NEW w \in Workers, Refuse(w)
      PROVE  Promise!GiveUp \/ UNCHANGED <<phase, result, used>>
  BY <1>0, <1>6 DEF Refuse, Unasked
<1>7. ASSUME NEW w \in Workers, Defer(w) PROVE UNCHANGED <<phase, result, used>>
  BY <1>7 DEF Defer, Requeue
<1>8. ASSUME NEW w \in Workers, RetryOrFail(w)
      PROVE  Promise!GiveUp \/ UNCHANGED <<phase, result, used>>
  <2>1. status # "none"
    BY <1>8 DEF RetryOrFail, Unasked
  <2>2. CASE MarkFailed
    BY <1>0, <1>8, <2>1, <2>2 DEF RetryOrFail
  <2>3. CASE UNCHANGED row
    BY <1>8, <2>3 DEF RetryOrFail
  <2> QED
    BY <1>8, <2>2, <2>3 DEF RetryOrFail
<1>9. ASSUME NEW w \in Workers, WorkerDies(w) \/ DieBeforeRetry(w)
      PROVE  UNCHANGED <<phase, result, used>>
  BY <1>9 DEF WorkerDies, DieBeforeRetry
<1>10. ASSUME NEW r \in Retries, DeliverTwice(r) \/ LoseMessage(r)
       PROVE  UNCHANGED <<phase, result, used>>
  BY <1>10 DEF DeliverTwice, LoseMessage
<1>11. CASE Recover
  BY <1>11 DEF Recover
<1>12. CASE BecomeStale
  BY <1>12 DEF BecomeStale
<1>13. CASE DownloadReport \/ ReviewBriefing
  BY <1>13 DEF DownloadReport, ReviewBriefing, Use, Promise!Use
<1>14. CASE UNCHANGED vars
  BY <1>14 DEF vars
<1> HIDE DEF TypeOK, OneStory, Statuses, Final, phase, row, workers, bounds,
            Promise!Next, Promise!vars
<1> QED
  BY <1>1, <1>2, <1>3, <1>4, <1>5, <1>6, <1>7, <1>8, <1>9, <1>10, <1>11, <1>12,
     <1>13, <1>14
     DEF Next, Promise!Next, Promise!vars, Finish, CompleteReport, CompleteAnswer, CompleteBriefing

\* Whatever workers, messages and clocks do, a job is asked for, finished or
\* given up once, and its outcome and answer stand (module Job).
THEOREM JobImplementsPromise == Spec => ImplementsJob
<1>1. Init => Promise!Init
  BY DEF Init, Promise!Init, phase, Final, row, workers, bounds
<1>2. IInv /\ [Next]_vars => [Promise!Next]_(Promise!vars)
  BY StepImplements DEF IInv
<1> QED
  BY Invariance, <1>1, <1>2, PTL DEF Spec, SafetySpec, ImplementsJob, Promise!Spec
=============================================================================
