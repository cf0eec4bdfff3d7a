------------------------------ MODULE Delivery ------------------------------
(***************************************************************************)
(* The e-mail of one notification (apps/notifications): its delivery row,  *)
(* the Celery workers that send it, and Beat, which every minute takes     *)
(* back rows that have been processing for 15 minutes and hands out every  *)
(* row that is due. The mail is sent between two transactions, the second  *)
(* of which writes whatever status it finds there.                         *)
(*                                                                         *)
(* Faults: a worker dies or outlives the 15 minutes, a message is lost,    *)
(* the mail server takes the mail and still reports an error.              *)
(***************************************************************************)
EXTENDS Naturals

CONSTANTS Workers,
          MaxAttempts,   \* MAX_DELIVERY_ATTEMPTS
          MaxMessages,   \* bound: messages of Beat in the broker
          MaxFaults      \* bound: faults

ASSUME AttemptsAssumption == MaxAttempts \in Nat \ {0}
ASSUME BoundsAssumption == MaxMessages \in Nat \ {0} /\ MaxFaults \in Nat

VARIABLES
  status,    \* "none" until the notification, then the row's status
  attempts,
  due,       \* next_attempt_at is not in the future
  claimed,   \* age of last_attempt_at: "never", "fresh", "stale"
  sentAt,    \* sent_at is set
  outbox,    \* the notification is committed, its message not yet published
  messages,  \* messages[r]: messages in the broker at retry r
  pc,        \* of each worker: "idle", "sending", "accepted", "refused"
  retry,     \* the retry number of each worker's message
  mails,     \* mails the server has really taken
  faults

row == <<status, attempts, due, claimed, sentAt>>
workers == <<pc, retry>>
vars == <<row, outbox, messages, workers, mails, faults>>

Statuses == {"none", "pending", "processing", "retry", "sent", "failed"}
Waiting == {"pending", "retry"}
Retries == 0..(MaxAttempts - 1)   \* max_retries of the task

Init ==
  /\ status = "none"
  /\ attempts = 0
  /\ due = TRUE
  /\ claimed = "never"
  /\ sentAt = FALSE
  /\ outbox = FALSE
  /\ messages = [r \in Retries |-> 0]
  /\ pc = [w \in Workers |-> "idle"]
  /\ retry = [w \in Workers |-> 0]
  /\ mails = 0
  /\ faults = 0

Send(r) == messages' = [messages EXCEPT ![r] = @ + 1]
Take(r) == messages[r] > 0 /\ messages' = [messages EXCEPT ![r] = @ - 1]
Fault == faults < MaxFaults /\ faults' = faults + 1

\* notifications_delivery_sent_state_valid: sent_at is set exactly when sent.
SentStateValid(s, at) == (s = "sent") <=> at

-----------------------------------------------------------------------------
(* The notification *)

\* The first of the transactions that notify this event creates the row with
\* its e-mail; later ones find it (event_key) and do nothing.
CreateNotification ==
  /\ status = "none"
  /\ status' = "pending"
  /\ outbox' = TRUE
  /\ UNCHANGED <<attempts, due, claimed, sentAt, messages, workers, mails, faults>>

\* An enqueue failure is only logged.
QueueDelivery ==
  /\ outbox
  /\ outbox' = FALSE
  /\ Send(0) \/ UNCHANGED messages
  /\ UNCHANGED <<row, workers, mails, faults>>

-----------------------------------------------------------------------------
(* A worker *)

\* Bug: a row that another worker is processing is claimed as well.
ClaimBusy(w, r) ==
  /\ pc[w] = "idle"
  /\ Take(r)
  /\ \/ /\ status \in Waiting \cup {"processing"} /\ due
        /\ status' = "processing"
        /\ attempts' = attempts + 1
        /\ claimed' = "fresh"
        /\ pc' = [pc EXCEPT ![w] = "sending"]
        /\ retry' = [retry EXCEPT ![w] = r]
     \/ /\ ~(status \in Waiting \cup {"processing"} /\ due)
        /\ UNCHANGED <<status, attempts, claimed, workers>>
  /\ UNCHANGED <<due, sentAt, outbox, mails, faults>>

Claim(w, r) ==
  /\ pc[w] = "idle"
  /\ Take(r)
  /\ \/ /\ status \in Waiting /\ due
        /\ status' = "processing"
        /\ attempts' = attempts + 1
        /\ claimed' = "fresh"
        /\ pc' = [pc EXCEPT ![w] = "sending"]
        /\ retry' = [retry EXCEPT ![w] = r]
     \/ /\ ~(status \in Waiting /\ due)
        /\ UNCHANGED <<status, attempts, claimed, workers>>
  /\ UNCHANGED <<due, sentAt, outbox, mails, faults>>

SendMail(w) ==
  /\ pc[w] = "sending"
  /\ \/ /\ pc' = [pc EXCEPT ![w] = "accepted"]      \* taken and confirmed
        /\ mails' = mails + 1
        /\ UNCHANGED faults
     \/ /\ pc' = [pc EXCEPT ![w] = "refused"]       \* an error, no mail
        /\ UNCHANGED <<mails, faults>>
     \/ /\ pc' = [pc EXCEPT ![w] = "refused"]       \* taken, but an error
        /\ mails' = mails + 1
        /\ Fault
  /\ UNCHANGED <<row, outbox, messages, retry>>

\* Bug: sent_at is not among the saved fields.
RecordSentBare(w) ==
  /\ pc[w] = "accepted"
  /\ pc' = [pc EXCEPT ![w] = "idle"]
  /\ status' = "sent"
  /\ UNCHANGED <<attempts, due, claimed, sentAt, outbox, messages, retry, mails, faults>>

RecordSent(w) ==
  /\ pc[w] = "accepted"
  /\ pc' = [pc EXCEPT ![w] = "idle"]
  /\ status' = "sent"
  /\ sentAt' = TRUE
  /\ UNCHANGED <<attempts, due, claimed, outbox, messages, retry, mails, faults>>

\* Bug: one attempt more.
AfterFailureLate == IF attempts > MaxAttempts THEN "failed" ELSE "retry"

AfterFailure == IF attempts >= MaxAttempts THEN "failed" ELSE "retry"

\* Bug: sent_at is cleared, so that the constraint no longer objects.
RecordFailureCleared(w) ==
  /\ pc[w] = "refused"
  /\ pc' = [pc EXCEPT ![w] = "idle"]
  /\ status' = AfterFailure
  /\ sentAt' = FALSE
  /\ due' = FALSE
  /\ IF AfterFailure = "retry" /\ retry[w] + 1 \in Retries
     THEN Send(retry[w] + 1) ELSE UNCHANGED messages
  /\ UNCHANGED <<attempts, claimed, outbox, retry, mails, faults>>

\* The status found is not looked at: only the constraint keeps a sent row
\* sent. Unless exhausted the task retries itself while retries remain.
RecordFailure(w) ==
  /\ pc[w] = "refused"
  /\ pc' = [pc EXCEPT ![w] = "idle"]
  /\ \/ /\ SentStateValid(AfterFailure, sentAt)
        /\ status' = AfterFailure
        /\ due' = FALSE
        /\ IF AfterFailure = "retry" /\ retry[w] + 1 \in Retries
           THEN Send(retry[w] + 1) ELSE UNCHANGED messages
     \/ /\ ~SentStateValid(AfterFailure, sentAt)    \* IntegrityError
        /\ UNCHANGED <<status, due, messages>>
  /\ UNCHANGED <<attempts, claimed, sentAt, outbox, retry, mails, faults>>

-----------------------------------------------------------------------------
(* Beat and the clock *)

Stale == status = "processing" /\ claimed # "fresh"

\* Bug: rows left processing by a dead worker are not taken back.
DispatchWaitingOnly ==
  /\ status \in Waiting /\ due
  /\ messages[0] < MaxMessages
  /\ Send(0)
  /\ UNCHANGED <<row, outbox, workers, mails, faults>>

\* One UPDATE takes stale rows back, then every waiting row that is due is sent.
DispatchPendingDeliveries ==
  /\ Stale \/ (status \in Waiting /\ due)
  /\ messages[0] < MaxMessages
  /\ status' = IF Stale THEN "retry" ELSE status
  /\ due' = TRUE
  /\ Send(0)
  /\ UNCHANGED <<attempts, claimed, sentAt, outbox, workers, mails, faults>>

BecomeDue ==
  /\ ~due
  /\ due' = TRUE
  /\ UNCHANGED <<status, attempts, claimed, sentAt, outbox, messages, workers, mails, faults>>

\* 15 minutes pass. A worker that is still busy by then is a fault.
BecomeStale ==
  /\ status = "processing"
  /\ claimed = "fresh"
  /\ claimed' = "stale"
  /\ IF \E w \in Workers : pc[w] # "idle" THEN Fault ELSE UNCHANGED faults
  /\ UNCHANGED <<status, attempts, due, sentAt, outbox, messages, workers, mails>>

-----------------------------------------------------------------------------
(* Faults *)

WorkerDies(w) ==
  /\ pc[w] # "idle"
  /\ Fault
  /\ pc' = [pc EXCEPT ![w] = "idle"]
  /\ UNCHANGED <<row, outbox, messages, retry, mails>>

LoseMessage(r) ==
  /\ Take(r)
  /\ Fault
  /\ UNCHANGED <<row, outbox, workers, mails>>

-----------------------------------------------------------------------------
Work(w) == SendMail(w) \/ RecordSent(w) \/ RecordFailure(w)

Next ==
  \/ CreateNotification
  \/ QueueDelivery
  \/ \E w \in Workers, r \in Retries : Claim(w, r)
  \/ \E w \in Workers : Work(w) \/ WorkerDies(w)
  \/ \E r \in Retries : LoseMessage(r)
  \/ DispatchPendingDeliveries
  \/ BecomeDue
  \/ BecomeStale

Fairness ==
  /\ \A w \in Workers :
       WF_vars(\E r \in Retries : Claim(w, r)) /\ WF_vars(Work(w))
  /\ WF_vars(DispatchPendingDeliveries)
  /\ WF_vars(BecomeDue)
  /\ WF_vars(BecomeStale)

SafetySpec == Init /\ [][Next]_vars

Spec == SafetySpec /\ Fairness

-----------------------------------------------------------------------------
(* Properties *)

TypeOK ==
  /\ status \in Statuses
  /\ attempts \in Nat
  /\ due \in BOOLEAN
  /\ claimed \in {"never", "fresh", "stale"}
  /\ sentAt \in BOOLEAN
  /\ SentStateValid(status, sentAt)
  /\ outbox \in BOOLEAN
  /\ messages \in [Retries -> Nat]
  /\ pc \in [Workers -> {"idle", "sending", "accepted", "refused"}]
  /\ retry \in [Workers -> Retries]
  /\ mails \in Nat
  /\ faults \in 0..MaxFaults

\* A person gets the same mail twice only for a fault: every duplicate is paid
\* for by a death between sending and recording, a worker slower than 15
\* minutes, or a server that took the mail and reported an error.
DuplicatesNeedFaults == mails <= 1 + faults

\* The row gives up after MaxAttempts attempts, not sooner; attempts beyond the
\* maximum, which are counted at a claim and compared after a failure
\* (notifications/tasks.py:43, 61), are those interrupted by a fault.
AttemptsBounded ==
  /\ attempts <= MaxAttempts + faults
  /\ status = "failed" => attempts >= MaxAttempts

\* A row that says sent goes on saying so, although a slower worker's failure
\* is written over it without a look (notifications/tasks.py:61-82).
SentStands == [][status = "sent" => status' = "sent"]_vars

\* Every mail is sent or given up, whatever is lost: Beat takes back what a
\* dead worker left and hands out what is due, and attempts are bounded.
Settles == (status = "pending") ~> (status \in {"sent", "failed"})
=============================================================================
