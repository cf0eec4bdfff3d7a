---------------------------- MODULE GenerationJob ----------------------------
(***************************************************************************)
(* One generation job: a CEO report or answer (apps/executive_bot) or a    *)
(* project briefing (apps/ai_briefings). The three have the same life:     *)
(* a web request commits a queued row and then publishes a message; a      *)
(* Celery worker claims the row, calls the provider outside any            *)
(* transaction, and completes, fails or re-queues the row; Beat re-queues  *)
(* rows that have been processing for too long. kind is which of the three *)
(* the job is: it decides what completion writes and what follows it.      *)
(*                                                                         *)
(* Faults: a worker dies or is slower than the stale time, the broker      *)
(* delivers twice or loses a message, a process dies before publishing.    *)
(***************************************************************************)
EXTENDS Naturals

CONSTANTS Workers, NoResult,
          MaxRetries,   \* max_retries of the Celery tasks
          MaxFaults,    \* bound: deaths, slow workers and second deliveries
          MaxLost       \* bound: messages lost or never published

ASSUME NoResultAssumption == NoResult \notin Workers
ASSUME BoundsAssumption == MaxRetries \in Nat /\ MaxFaults \in Nat /\ MaxLost \in Nat

VARIABLES
  kind,       \* "report", "answer" or "briefing"
  status,     \* the row's status, "none" before the request
  started,    \* started_at: "null", "fresh" or "stale"
  result,     \* output_data: the worker whose answer it is
  sources,    \* how often the sources and the notification were written
  used,       \* downloaded_at of a report, reviewed_at of a briefing
  outbox,     \* committed but unpublished: by the "web" request, by "beat"
  messages,   \* messages[r]: messages in the broker at retry r
  pc,         \* of each worker: "idle", "calling", "deferred"
  retry,      \* the retry number of the message each worker runs
  faults, lost

row == <<status, started, result, sources>>
workers == <<pc, retry>>
bounds == <<faults, lost>>
vars == <<kind, row, used, outbox, messages, workers, bounds>>

Kinds == {"report", "answer", "briefing"}
Statuses == {"none", "queued", "processing", "completed", "failed"}
Final == {"completed", "failed"}
Retries == 0..MaxRetries

Init ==
  /\ kind \in Kinds
  /\ status = "none"
  /\ started = "null"
  /\ result = NoResult
  /\ sources = 0
  /\ used = FALSE
  /\ outbox = {}
  /\ messages = [r \in Retries |-> 0]
  /\ pc = [w \in Workers |-> "idle"]
  /\ retry = [w \in Workers |-> 0]
  /\ faults = 0
  /\ lost = 0

-----------------------------------------------------------------------------
(* Messages *)

Send(r) == messages' = [messages EXCEPT ![r] = @ + 1]
Take(r) == messages[r] > 0 /\ messages' = [messages EXCEPT ![r] = @ - 1]

Fault == faults < MaxFaults /\ faults' = faults + 1 /\ UNCHANGED lost
Loss == lost < MaxLost /\ lost' = lost + 1 /\ UNCHANGED faults

\* Bug: a completed row is failed like any other.
MarkFailedCompleted ==
  IF status = "failed" THEN UNCHANGED row
  ELSE /\ status' = "failed"
       /\ started' = IF started = "null" THEN "fresh" ELSE started
       /\ result' = NoResult
       /\ UNCHANGED sources

\* mark_report_failed and its twins: nothing happens to a final row.
MarkFailed ==
  \/ /\ status \in Final
     /\ UNCHANGED row
  \/ /\ status \notin Final
     /\ status' = "failed"
     /\ started' = IF started = "null" THEN "fresh" ELSE started
     /\ result' = NoResult
     /\ UNCHANGED sources

-----------------------------------------------------------------------------
(* The request, and publishing after its commit *)

Request ==
  /\ status = "none"
  /\ status' = "queued"
  /\ outbox' = {"web"}
  /\ UNCHANGED <<kind, started, result, sources, used, messages, workers, bounds>>

RequestReport == kind = "report" /\ Request
RequestAnswer == kind = "answer" /\ Request
RequestBriefing == kind = "briefing" /\ Request

Publish(p) ==
  /\ p \in outbox
  /\ outbox' = outbox \ {p}
  /\ Send(0)
  /\ UNCHANGED <<kind, row, used, workers, bounds>>

EnqueueFails(p) ==
  /\ p \in outbox
  /\ outbox' = outbox \ {p}
  /\ MarkFailed
  /\ UNCHANGED <<kind, used, messages, workers, bounds>>

-----------------------------------------------------------------------------
(* A worker *)

\* The message is acknowledged on receipt. A row that is not queued is left.
Claim(w, r) ==
  /\ pc[w] = "idle"
  /\ Take(r)
  /\ \/ /\ status = "queued"
        /\ status' = "processing"
        /\ started' = "fresh"
        /\ pc' = [pc EXCEPT ![w] = "calling"]
        /\ retry' = [retry EXCEPT ![w] = r]
     \/ /\ status # "queued"
        /\ UNCHANGED <<status, started, workers>>
  /\ UNCHANGED <<kind, result, sources, used, outbox, bounds>>

\* The row's lifecycle constraint: a final row has a start time.
LifecycleValid(s, t) == (s \in {"processing"} \cup Final) <=> (t # "null")

\* Bug: completion does not look at the status it finds.
CompleteUnchecked(w, written) ==
  /\ pc[w] = "calling"
  /\ pc' = [pc EXCEPT ![w] = "idle"]
  /\ IF LifecycleValid("completed", started)
     THEN status' = "completed" /\ result' = w /\ sources' = sources + written
     ELSE UNCHANGED <<status, result, sources>>
  /\ UNCHANGED <<kind, started, used, outbox, messages, retry, bounds>>

\* Completion by worker w, writing `written` rows beside the job's own. It
\* asks only whether the row is final. On a row that was re-queued meanwhile
\* the save breaks the constraint: everything is rolled back, the answer lost.
Complete(w, written) ==
  /\ pc[w] = "calling"
  /\ pc' = [pc EXCEPT ![w] = "idle"]
  /\ \/ /\ status \notin Final
        /\ LifecycleValid("completed", started)
        /\ status' = "completed"
        /\ result' = w
        /\ sources' = sources + written
     \/ /\ status \in Final \/ ~LifecycleValid("completed", started)
        /\ UNCHANGED <<status, result, sources>>
  /\ UNCHANGED <<kind, started, used, outbox, messages, retry, bounds>>

CompleteReport(w) == kind = "report" /\ Complete(w, 0)
CompleteAnswer(w) == kind = "answer" /\ Complete(w, 0)
CompleteBriefing(w) == kind = "briefing" /\ Complete(w, 1)

\* Access was revoked, the configuration is unusable, the answer is invalid.
Refuse(w) ==
  /\ pc[w] = "calling"
  /\ pc' = [pc EXCEPT ![w] = "idle"]
  /\ MarkFailed
  /\ UNCHANGED <<kind, used, outbox, messages, retry, bounds>>

\* Bug: the row is re-queued without looking at its status.
RequeueAnyway ==
  /\ status' = "queued"
  /\ started' = "null"
  /\ UNCHANGED <<result, sources>>

\* A temporary provider error: the row is re-queued if it is processing,
\* whichever worker is processing it, ...
Requeue ==
  \/ /\ status = "processing"
     /\ status' = "queued"
     /\ started' = "null"
     /\ UNCHANGED <<result, sources>>
  \/ /\ status # "processing"
     /\ UNCHANGED row

Defer(w) ==
  /\ pc[w] = "calling"
  /\ pc' = [pc EXCEPT ![w] = "deferred"]
  /\ Requeue
  /\ UNCHANGED <<kind, used, outbox, messages, retry, bounds>>

\* Bug: the retry does not count.
RetryUncounted(w) ==
  /\ pc[w] = "deferred"
  /\ pc' = [pc EXCEPT ![w] = "idle"]
  /\ Send(retry[w])
  /\ UNCHANGED <<kind, row, used, outbox, retry, bounds>>

\* ... and then the task sends itself again, or fails the job.
RetryOrFail(w) ==
  /\ pc[w] = "deferred"
  /\ pc' = [pc EXCEPT ![w] = "idle"]
  /\ \/ retry[w] < MaxRetries /\ Send(retry[w] + 1) /\ UNCHANGED row
     \/ retry[w] >= MaxRetries /\ MarkFailed /\ UNCHANGED messages
  /\ UNCHANGED <<kind, used, outbox, retry, bounds>>

-----------------------------------------------------------------------------
(* Beat and the clock *)

\* Bug: the recovered row is not published.
RecoverUnpublished ==
  /\ status = "processing"
  /\ started = "stale"
  /\ status' = "queued"
  /\ started' = "null"
  /\ UNCHANGED <<kind, result, sources, used, outbox, messages, workers, bounds>>

Recover ==
  /\ status = "processing"
  /\ started = "stale"
  /\ status' = "queued"
  /\ started' = "null"
  /\ outbox' = outbox \cup {"beat"}
  /\ UNCHANGED <<kind, result, sources, used, messages, workers, bounds>>

\* The stale time passes since the claim. That a living worker is still
\* calling by then is a fault: the providers' timeouts are far shorter.
BecomeStale ==
  /\ status = "processing"
  /\ started = "fresh"
  /\ started' = "stale"
  /\ \/ (\A w \in Workers : pc[w] # "calling") /\ UNCHANGED bounds
     \/ (\E w \in Workers : pc[w] = "calling") /\ Fault
  /\ UNCHANGED <<kind, status, result, sources, used, outbox, messages, workers>>

-----------------------------------------------------------------------------
(* What people do with a finished text *)

Use ==
  /\ status = "completed"
  /\ ~used
  /\ used' = TRUE
  /\ UNCHANGED <<kind, row, outbox, messages, workers, bounds>>

DownloadReport == kind = "report" /\ Use
ReviewBriefing == kind = "briefing" /\ Use

-----------------------------------------------------------------------------
(* Faults *)

WorkerDies(w) ==
  /\ pc[w] = "calling"
  /\ Fault
  /\ pc' = [pc EXCEPT ![w] = "idle"]
  /\ UNCHANGED <<kind, row, used, outbox, messages, retry>>

DeliverTwice(r) ==
  /\ messages[r] > 0
  /\ Fault
  /\ Send(r)
  /\ UNCHANGED <<kind, row, used, outbox, workers>>

LoseMessage(r) ==
  /\ Loss
  /\ Take(r)
  /\ UNCHANGED <<kind, row, used, outbox, workers>>

DieBeforePublishing(p) ==
  /\ p \in outbox
  /\ Loss
  /\ outbox' = outbox \ {p}
  /\ UNCHANGED <<kind, row, used, messages, workers>>

DieBeforeRetry(w) ==
  /\ pc[w] = "deferred"
  /\ Loss
  /\ pc' = [pc EXCEPT ![w] = "idle"]
  /\ UNCHANGED <<kind, row, used, outbox, messages, retry>>

-----------------------------------------------------------------------------
Publishers == {"web", "beat"}

Finish(w) ==
  CompleteReport(w) \/ CompleteAnswer(w) \/ CompleteBriefing(w) \/ Refuse(w) \/ Defer(w)

Next ==
  \/ RequestReport \/ RequestAnswer \/ RequestBriefing
  \/ \E p \in Publishers : Publish(p) \/ EnqueueFails(p) \/ DieBeforePublishing(p)
  \/ \E w \in Workers, r \in Retries : Claim(w, r)
  \/ \E w \in Workers : Finish(w) \/ RetryOrFail(w) \/ WorkerDies(w) \/ DieBeforeRetry(w)
  \/ \E r \in Retries : DeliverTwice(r) \/ LoseMessage(r)
  \/ Recover
  \/ BecomeStale
  \/ DownloadReport
  \/ ReviewBriefing

\* The processes run: workers take messages and finish what they took, a
\* committed process publishes, Beat recovers, time passes. People need not act.
Fairness ==
  /\ \A w \in Workers :
       /\ WF_vars(\E r \in Retries : Claim(w, r))
       /\ WF_vars(Finish(w))
       /\ WF_vars(RetryOrFail(w))
  /\ \A p \in Publishers : WF_vars(Publish(p) \/ EnqueueFails(p))
  /\ WF_vars(Recover)
  /\ WF_vars(BecomeStale)

SafetySpec == Init /\ [][Next]_vars

Spec == SafetySpec /\ Fairness

-----------------------------------------------------------------------------
(* Properties *)

TypeOK ==
  /\ kind \in Kinds
  /\ status \in Statuses
  /\ started \in {"null", "fresh", "stale"}
  /\ result \in Workers \cup {NoResult}
  /\ sources \in 0..1
  /\ used \in BOOLEAN
  /\ outbox \subseteq Publishers
  /\ messages \in [Retries -> Nat]
  /\ pc \in [Workers -> {"idle", "calling", "deferred"}]
  /\ retry \in [Workers -> Retries]
  /\ faults \in 0..MaxFaults
  /\ lost \in 0..MaxLost

\* Somebody will still bring the job to a worker.
Carried ==
  \/ outbox # {}
  \/ \E r \in Retries : messages[r] > 0
  \/ \E w \in Workers : pc[w] = "deferred"

\* A queued job never waits for nothing: unless a message was lost, it has a
\* message in the broker, a process about to publish one, or a worker about to
\* retry, however recoveries, retries of superseded workers and second
\* deliveries interleave. Beat looks at processing rows only
\* (executive_bot/services.py:905), so nothing else would ever wake it.
QueuedIsCarried == (status = "queued" /\ lost = 0) => Carried

\* The row's columns and the rows written beside it tell one story: an answer
\* and, of a briefing, its sources and notification exactly when completed,
\* although sources are inserted before the save that may be refused
\* (ai_briefings/services.py:170).
OneStory ==
  /\ status = "completed" <=> result # NoResult
  /\ sources = IF kind = "briefing" /\ status = "completed" THEN 1 ELSE 0
  /\ LifecycleValid(status, started)

\* The whole machinery implements the promise of module Job: slow workers,
\* their replacements and recoveries cannot change an outcome or its answer.
phase == IF status = "none" THEN "absent"
         ELSE IF status \in Final THEN status ELSE "pending"

Promise == INSTANCE Job WITH Answers <- Workers, NoAnswer <- NoResult,
                             answer <- result
ImplementsJob == Promise!Spec

\* Without a lost message every request ends completed or failed: crashed
\* workers are recovered, and the retries of every message are bounded.
Settles == [](status # "none" => <>(status \in Final \/ lost > 0))
=============================================================================
