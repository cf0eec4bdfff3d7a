--------------------------- MODULE DeliveryProofs ---------------------------
(***************************************************************************)
(* For every set of workers, finite or not, and every bound: a sent e-mail *)
(* stays sent, the row gives up neither early nor late, and a person gets  *)
(* the mail twice only for a fault. The argument is one of accounts: what  *)
(* may still be sent, and what was, is paid for by the first mail and by   *)
(* the faults; a row that may be claimed again has one payment left over.  *)
(***************************************************************************)
EXTENDS Delivery, FiniteSets, FiniteSetTheorems, TLAPS

\* The workers that may still send the mail, or bring the row back to retry.
Owing == {w \in Workers : pc[w] \in {"sending", "refused"}}

AllIdle == \A w \in Workers : pc[w] = "idle"

\* The row can be claimed as it is or after Beat has taken it back.
Reclaimable ==
  \/ status \in Waiting
  \/ status = "processing" /\ (claimed # "fresh" \/ AllIdle)

\* Nobody works before the notification.
Unasked == status = "none" => AllIdle /\ mails = 0 /\ attempts = 0

\* Mails sent and mails that may still come are paid for.
MailAccount ==
  /\ IsFiniteSet(Owing)
  /\ mails + Cardinality(Owing) <= 1 + faults
  /\ Reclaimable => mails + Cardinality(Owing) <= faults

\* So are the attempts.
AttemptAccount ==
  /\ AttemptsBounded
  /\ Reclaimable => attempts < MaxAttempts + faults

\* The inductive invariant.
IInv == TypeOK /\ Unasked /\ MailAccount /\ AttemptAccount

USE AttemptsAssumption, BoundsAssumption

\* Before the notification nobody works and nothing is owed.
LEMMA InitIInv == Init => IInv
<1> SUFFICES ASSUME Init PROVE IInv
  OBVIOUS
<1>1. TypeOK
  <2>1. /\ status \in Statuses /\ claimed \in {"never", "fresh", "stale"}
        /\ due \in BOOLEAN /\ sentAt \in BOOLEAN /\ outbox \in BOOLEAN
        /\ SentStateValid(status, sentAt)
    BY Zenon DEF Init, Statuses, SentStateValid
  <2>2. /\ attempts \in Nat /\ mails \in Nat /\ faults \in 0..MaxFaults
        /\ messages \in [Retries -> Nat]
        /\ pc \in [Workers -> {"idle", "sending", "accepted", "refused"}]
        /\ retry \in [Workers -> Retries]
    BY DEF Init, Retries
  <2> QED
    BY <2>1, <2>2 DEF TypeOK
<1>2. Unasked
  BY DEF Init, Unasked, AllIdle
<1>3. Owing = {}
  BY DEF Init, Owing
<1>4. MailAccount
  BY <1>3, FS_EmptySet DEF Init, MailAccount, Reclaimable, Waiting
<1>5. AttemptAccount
  BY DEF Init, AttemptAccount, AttemptsBounded, Reclaimable, Waiting
<1> QED
  BY <1>1, <1>2, <1>4, <1>5 DEF IInv

\* The broker's counters stay counters.
LEMMA MessagesTyped ==
  ASSUME messages \in [Retries -> Nat], NEW r \in Retries, Send(r) \/ Take(r)
  PROVE  messages' \in [Retries -> Nat]
BY DEF Send, Take

\* Types are kept, and with them the constraint that sent_at is set exactly
\* when the row is sent: the database refuses the one write that would break it.
LEMMA TypingStep == TypeOK /\ [Next]_vars => TypeOK'
<1> SUFFICES ASSUME TypeOK, [Next]_vars PROVE TypeOK'
  OBVIOUS
<1> USE DEF TypeOK, Statuses, Waiting, SentStateValid, row, workers
<1>0. 0 \in Retries
  BY DEF Retries
<1>1. CASE CreateNotification
  BY <1>1 DEF CreateNotification
<1>2. CASE QueueDelivery
  BY <1>0, <1>2, MessagesTyped DEF QueueDelivery
<1>3. ASSUME NEW w \in Workers, NEW r \in Retries, Claim(w, r) PROVE TypeOK'
  <2>1. messages' \in [Retries -> Nat]
    BY <1>3, MessagesTyped DEF Claim
  <2>2. CASE status \in Waiting /\ due
    <3>1. status' = "processing" /\ attempts' = attempts + 1 /\ claimed' = "fresh"
      BY <1>3, <2>2 DEF Claim
    <3>2. /\ pc' \in [Workers -> {"idle", "sending", "accepted", "refused"}]
          /\ retry' \in [Workers -> Retries]
      BY <1>3, <2>2 DEF Claim
    <3> QED
      BY <1>3, <2>1, <2>2, <3>1, <3>2 DEF Claim
  <2>3. CASE ~(status \in Waiting /\ due)
    BY <1>3, <2>1, <2>3 DEF Claim
  <2> QED
    BY <2>2, <2>3
<1>4. ASSUME NEW w \in Workers, SendMail(w) PROVE TypeOK'
  BY <1>4 DEF SendMail, Fault
<1>5. ASSUME NEW w \in Workers, RecordSent(w) PROVE TypeOK'
  BY <1>5 DEF RecordSent
<1>6. ASSUME NEW w \in Workers, RecordFailure(w) PROVE TypeOK'
  <2>1. messages' \in [Retries -> Nat]
    BY <1>6, MessagesTyped DEF RecordFailure
  <2>2. status' \in Statuses /\ SentStateValid(status', sentAt') /\ due' \in BOOLEAN
    BY <1>6 DEF RecordFailure, AfterFailure
  <2> QED
    BY <1>6, <2>1, <2>2 DEF RecordFailure
<1>7. ASSUME NEW w \in Workers, WorkerDies(w) PROVE TypeOK'
  BY <1>7 DEF WorkerDies, Fault
<1>8. ASSUME NEW r \in Retries, LoseMessage(r) PROVE TypeOK'
  BY <1>8, MessagesTyped DEF LoseMessage, Fault
<1>9. CASE DispatchPendingDeliveries
  BY <1>0, <1>9, MessagesTyped DEF DispatchPendingDeliveries, Stale
<1>10. CASE BecomeDue
  BY <1>10 DEF BecomeDue
<1>11. CASE BecomeStale
  BY <1>11 DEF BecomeStale, Fault
<1>12. CASE UNCHANGED vars
  BY <1>12 DEF vars
<1> QED
  BY <1>1, <1>2, <1>3, <1>4, <1>5, <1>6, <1>7, <1>8, <1>9, <1>10, <1>11, <1>12
  DEF Next, Work

\* A worker's step moves only that worker in or out of those that owe.
LEMMA OwingMoves ==
  ASSUME TypeOK, IsFiniteSet(Owing), NEW w \in Workers,
         NEW p \in {"idle", "sending", "accepted", "refused"},
         pc' = [pc EXCEPT ![w] = p]
  PROVE  /\ IsFiniteSet(Owing')
         /\ Cardinality(Owing) \in Nat /\ Cardinality(Owing') \in Nat
         /\ p \in {"sending", "refused"} =>
              Cardinality(Owing') =
                IF w \in Owing THEN Cardinality(Owing) ELSE Cardinality(Owing) + 1
         /\ p \notin {"sending", "refused"} =>
              Cardinality(Owing') =
                IF w \in Owing THEN Cardinality(Owing) - 1 ELSE Cardinality(Owing)
         /\ w \in Owing <=> pc[w] \in {"sending", "refused"}
<1>1. w \in Owing <=> pc[w] \in {"sending", "refused"}
  BY DEF Owing
<1>2. Cardinality(Owing) \in Nat
  BY FS_CardinalityType
<1>3. CASE p \in {"sending", "refused"}
  <2>1. Owing' = Owing \cup {w}
    BY <1>3 DEF Owing, TypeOK
  <2> QED
    BY <1>1, <1>2, <1>3, <2>1, FS_AddElement
<1>4. CASE p \notin {"sending", "refused"}
  <2>1. Owing' = Owing \ {w}
    BY <1>4 DEF Owing, TypeOK
  <2> QED
    BY <1>1, <1>2, <1>4, <2>1, FS_RemoveElement, FS_CardinalityType
<1> QED
  BY <1>3, <1>4

\* Only a claim needs a row that was asked for, and only the notification asks.
LEMMA UnaskedStep == TypeOK /\ Unasked /\ [Next]_vars => Unasked'
<1> SUFFICES ASSUME TypeOK, Unasked, [Next]_vars, status' = "none"
             PROVE  AllIdle' /\ mails' = 0 /\ attempts' = 0
  BY DEF Unasked
<1> USE DEF Unasked, AllIdle, Waiting, row, workers
<1>1. CASE CreateNotification
  BY <1>1 DEF CreateNotification
<1>2. CASE QueueDelivery
  BY <1>2 DEF QueueDelivery
<1>3. ASSUME NEW w \in Workers, NEW r \in Retries, Claim(w, r)
      PROVE  AllIdle' /\ mails' = 0 /\ attempts' = 0
  BY <1>3 DEF Claim
<1>4. ASSUME NEW w \in Workers, Work(w) \/ WorkerDies(w)
      PROVE  AllIdle' /\ mails' = 0 /\ attempts' = 0
  BY <1>4 DEF Work, SendMail, RecordSent, RecordFailure, AfterFailure, WorkerDies
<1>5. ASSUME NEW r \in Retries, LoseMessage(r)
      PROVE  AllIdle' /\ mails' = 0 /\ attempts' = 0
  BY <1>5 DEF LoseMessage
<1>6. CASE DispatchPendingDeliveries
  BY <1>6 DEF DispatchPendingDeliveries, Stale
<1>7. CASE BecomeDue \/ BecomeStale \/ UNCHANGED vars
  BY <1>7 DEF BecomeDue, BecomeStale, vars
<1> QED
  BY <1>1, <1>2, <1>3, <1>4, <1>5, <1>6, <1>7 DEF Next

\* Every mail is the first or paid for by a fault: a claim spends the payment
\* that a reclaimable row has left, a death or a slow worker leaves a new one,
\* and a failure is either no mail or a fault.
LEMMA MailAccountStep == IInv /\ [Next]_vars => MailAccount'
<1> SUFFICES ASSUME IInv, [Next]_vars PROVE MailAccount'
  OBVIOUS
<1> USE DEF IInv, MailAccount, Reclaimable, AllIdle, Waiting, row, workers
<1>0. Cardinality(Owing) \in Nat /\ mails \in Nat /\ faults \in Nat
  BY FS_CardinalityType DEF TypeOK
<1>1. ASSUME pc' = pc PROVE Owing' = Owing
  BY <1>1 DEF Owing
<1>2. CASE CreateNotification
  <2>1. Owing = {}
    BY <1>2 DEF CreateNotification, Unasked, Owing
  <2> QED
    <3>1. Owing' = {} /\ Cardinality(Owing') = 0 /\ IsFiniteSet(Owing')
      BY <1>1, <1>2, <2>1, FS_EmptySet DEF CreateNotification
    <3>2. mails' = 0 /\ faults' \in Nat
      BY <1>0, <1>2 DEF CreateNotification, Unasked
    <3> QED
      BY <3>1, <3>2
<1>3. CASE QueueDelivery
  BY <1>1, <1>3 DEF QueueDelivery
<1>4. ASSUME NEW w \in Workers, NEW r \in Retries, Claim(w, r) PROVE MailAccount'
  <2>1. CASE status \in Waiting /\ due
    <3>1. /\ status' = "processing" /\ claimed' = "fresh" /\ pc[w] = "idle"
          /\ pc' = [pc EXCEPT ![w] = "sending"] /\ mails' = mails /\ faults' = faults
      BY <1>4, <2>1 DEF Claim
    <3>2. ~Reclaimable'
      BY <3>1 DEF TypeOK
    <3> QED
      <4>1. IsFiniteSet(Owing') /\ Cardinality(Owing') = Cardinality(Owing) + 1
        BY <3>1, OwingMoves
      <4> QED
        BY <1>0, <2>1, <3>1, <3>2, <4>1
  <2>2. CASE ~(status \in Waiting /\ due)
    BY <1>1, <1>4, <2>2 DEF Claim
  <2> QED
    BY <2>1, <2>2
<1>5. ASSUME NEW w \in Workers, SendMail(w) PROVE MailAccount'
  <2>1. /\ pc[w] = "sending" /\ status' = status /\ claimed' = claimed
        /\ pc' \in {[pc EXCEPT ![w] = "accepted"], [pc EXCEPT ![w] = "refused"]}
    BY <1>5 DEF SendMail
  <2>2. Reclaimable' => Reclaimable
    BY <2>1 DEF TypeOK
  <2>3. CASE pc' = [pc EXCEPT ![w] = "accepted"] /\ mails' = mails + 1 /\ faults' = faults
    <3>1. IsFiniteSet(Owing') /\ Cardinality(Owing') = Cardinality(Owing) - 1
      BY <2>1, <2>3, OwingMoves
    <3> QED
      BY <1>0, <2>1, <2>2, <2>3, <3>1
  <2>4. CASE pc' = [pc EXCEPT ![w] = "refused"] /\ mails' = mails /\ faults' = faults
    <3>1. IsFiniteSet(Owing') /\ Cardinality(Owing') = Cardinality(Owing)
      BY <2>1, <2>4, OwingMoves
    <3> QED
      BY <1>0, <2>1, <2>2, <2>4, <3>1
  <2>5. CASE pc' = [pc EXCEPT ![w] = "refused"] /\ mails' = mails + 1 /\ faults' = faults + 1
    <3>1. IsFiniteSet(Owing') /\ Cardinality(Owing') = Cardinality(Owing)
      BY <2>1, <2>5, OwingMoves
    <3> QED
      BY <1>0, <2>1, <2>2, <2>5, <3>1
  <2> QED
    BY <1>5, <2>3, <2>4, <2>5 DEF SendMail, Fault
<1>6. ASSUME NEW w \in Workers, RecordSent(w) PROVE MailAccount'
  <2>1. ~Reclaimable' /\ pc[w] = "accepted" /\ pc' = [pc EXCEPT ![w] = "idle"]
    BY <1>6 DEF RecordSent
  <2> QED
    BY <1>0, <1>6, <2>1, OwingMoves DEF RecordSent
<1>7. ASSUME NEW w \in Workers, RecordFailure(w) PROVE MailAccount'
  <2>1. pc[w] = "refused" /\ pc' = [pc EXCEPT ![w] = "idle"]
    BY <1>7 DEF RecordFailure
  <2> QED
    <3>1. IsFiniteSet(Owing') /\ Cardinality(Owing') = Cardinality(Owing) - 1
      BY <2>1, OwingMoves
    <3>2. mails' = mails /\ faults' = faults
      BY <1>7 DEF RecordFailure
    <3> QED
      BY <1>0, <3>1, <3>2
<1>8. ASSUME NEW w \in Workers, WorkerDies(w) PROVE MailAccount'
  <2>1. /\ pc' = [pc EXCEPT ![w] = "idle"] /\ mails' = mails /\ faults' = faults + 1
    BY <1>8 DEF WorkerDies, Fault
  <2> QED
    <3>1. /\ IsFiniteSet(Owing')
          /\ Cardinality(Owing') \in {Cardinality(Owing), Cardinality(Owing) - 1}
      BY <2>1, OwingMoves
    <3> QED
      BY <1>0, <2>1, <3>1
<1>9. ASSUME NEW r \in Retries, LoseMessage(r) PROVE MailAccount'
  <2>1. /\ Owing' = Owing /\ mails' = mails /\ faults' = faults + 1
        /\ Reclaimable' = Reclaimable
    BY <1>1, <1>9 DEF LoseMessage, Fault
  <2> QED
    BY <1>0, <2>1
<1>10. CASE DispatchPendingDeliveries
  <2>1. Owing' = Owing /\ mails' = mails /\ faults' = faults /\ Reclaimable
    BY <1>1, <1>10 DEF DispatchPendingDeliveries, Stale
  <2> QED
    BY <2>1
<1>11. CASE BecomeStale
  <2>1. Owing' = Owing /\ mails' = mails /\ status = "processing"
    BY <1>1, <1>11 DEF BecomeStale
  <2>2. CASE AllIdle
    BY <1>0, <1>11, <2>1, <2>2 DEF BecomeStale
  <2>3. CASE ~AllIdle
    <3>1. faults' = faults + 1
      BY <1>11, <2>3 DEF BecomeStale, Fault
    <3> QED
      BY <1>0, <2>1, <3>1
  <2> QED
    BY <2>2, <2>3
<1>12. CASE BecomeDue \/ UNCHANGED vars
  <2>1. Owing' = Owing /\ mails' = mails /\ faults' = faults /\ Reclaimable' = Reclaimable
    BY <1>1, <1>12 DEF BecomeDue, vars
  <2> QED
    BY <2>1
<1> QED
  BY <1>2, <1>3, <1>4, <1>5, <1>6, <1>7, <1>8, <1>9, <1>10, <1>11, <1>12
  DEF Next, Work

\* The row that can be claimed has an attempt left or a fault to show for it.
LEMMA AttemptAccountStep == IInv /\ [Next]_vars => AttemptAccount'
<1> SUFFICES ASSUME IInv, [Next]_vars PROVE AttemptAccount'
  OBVIOUS
<1> USE DEF IInv, AttemptAccount, AttemptsBounded, Reclaimable, AllIdle, Waiting, row, workers
<1>0. attempts \in Nat /\ faults \in Nat
  BY DEF TypeOK
<1>1. CASE CreateNotification
  BY <1>0, <1>1 DEF CreateNotification, Unasked
<1>2. CASE QueueDelivery
  BY <1>2 DEF QueueDelivery
<1>3. ASSUME NEW w \in Workers, NEW r \in Retries, Claim(w, r) PROVE AttemptAccount'
  <2>1. CASE status \in Waiting /\ due
    <3>1. ~Reclaimable'
      BY <1>3, <2>1 DEF Claim, TypeOK
    <3> QED
      BY <1>0, <1>3, <2>1, <3>1 DEF Claim
  <2>2. CASE ~(status \in Waiting /\ due)
    BY <1>3, <2>2 DEF Claim
  <2> QED
    BY <2>1, <2>2
<1>4. ASSUME NEW w \in Workers, SendMail(w) PROVE AttemptAccount'
  <2>1. /\ Reclaimable' => Reclaimable
        /\ status' = status /\ attempts' = attempts
    BY <1>4 DEF SendMail, TypeOK
  <2>2. faults' \in {faults, faults + 1}
    BY <1>4 DEF SendMail, Fault
  <2>3. CASE faults' = faults
    BY <1>0, <2>1, <2>3
  <2>4. CASE faults' = faults + 1
    BY <1>0, <2>1, <2>4
  <2> QED
    BY <2>2, <2>3, <2>4
<1>5. ASSUME NEW w \in Workers, RecordSent(w) PROVE AttemptAccount'
  BY <1>5 DEF RecordSent
<1>6. ASSUME NEW w \in Workers, RecordFailure(w) PROVE AttemptAccount'
  <2>1. attempts' = attempts /\ faults' = faults
    BY <1>6 DEF RecordFailure
  <2>2. CASE SentStateValid(AfterFailure, sentAt) /\ status' = AfterFailure
    <3>1. CASE attempts >= MaxAttempts
      BY <1>0, <2>1, <2>2, <3>1 DEF AfterFailure
    <3>2. CASE ~(attempts >= MaxAttempts)
      BY <1>0, <2>1, <2>2, <3>2 DEF AfterFailure
    <3> QED
      BY <3>1, <3>2
  <2>3. CASE ~SentStateValid(AfterFailure, sentAt) /\ status' = status
    <3>1. status = "sent"
      BY <2>3 DEF SentStateValid, AfterFailure, TypeOK
    <3> QED
      BY <2>1, <2>3, <3>1
  <2> QED
    BY <1>6, <2>2, <2>3 DEF RecordFailure
<1>7. ASSUME NEW w \in Workers, WorkerDies(w) PROVE AttemptAccount'
  <2>1. status' = status /\ attempts' = attempts /\ faults' = faults + 1
    BY <1>7 DEF WorkerDies, Fault
  <2> QED
    BY <1>0, <2>1
<1>8. ASSUME NEW r \in Retries, LoseMessage(r) PROVE AttemptAccount'
  <2>1. status' = status /\ attempts' = attempts /\ faults' = faults + 1
    BY <1>8 DEF LoseMessage, Fault
  <2> QED
    BY <1>0, <2>1
<1>9. CASE DispatchPendingDeliveries
  BY <1>9 DEF DispatchPendingDeliveries, Stale
<1>10. CASE BecomeStale
  <2>1. CASE AllIdle
    BY <1>10, <2>1 DEF BecomeStale
  <2>2. CASE ~AllIdle
    BY <1>0, <1>10, <2>2 DEF BecomeStale, Fault
  <2> QED
    BY <2>1, <2>2
<1>11. CASE BecomeDue \/ UNCHANGED vars
  BY <1>11 DEF BecomeDue, vars
<1> QED
  BY <1>1, <1>2, <1>3, <1>4, <1>5, <1>6, <1>7, <1>8, <1>9, <1>10, <1>11
  DEF Next, Work

\* The invariant holds of every reachable state.
LEMMA Invariance == Spec => []IInv
<1>1. IInv /\ [Next]_vars => IInv'
  BY TypingStep, UnaskedStep, MailAccountStep, AttemptAccountStep DEF IInv
<1> QED
  BY InitIInv, <1>1, PTL DEF Spec, SafetySpec

-----------------------------------------------------------------------------
\* The delivery row always has its types, sent_at exactly when it is sent
\* (notifications/models.py, notifications_delivery_sent_state_valid).
THEOREM TypeCorrect == Spec => []TypeOK
BY Invariance, PTL DEF IInv

\* A person gets the same mail twice only for a fault, however many workers
\* send it and whatever Beat hands out (notifications/tasks.py:32-82).
THEOREM MailsOncePerFault == Spec => []DuplicatesNeedFaults
<1>1. IInv => DuplicatesNeedFaults
  <2> SUFFICES ASSUME IInv PROVE DuplicatesNeedFaults
    OBVIOUS
  <2>1. Cardinality(Owing) \in Nat /\ mails \in Nat /\ faults \in Nat
    BY FS_CardinalityType DEF IInv, MailAccount, TypeOK
  <2> QED
    BY <2>1 DEF IInv, MailAccount, DuplicatesNeedFaults
<1> QED
  BY <1>1, Invariance, PTL

\* The row is tried at most MaxAttempts times more than there were faults, and
\* never given up sooner (notifications/tasks.py:43, 61).
THEOREM AttemptsCounted == Spec => []AttemptsBounded
<1>1. IInv => AttemptsBounded
  BY DEF IInv, AttemptAccount
<1> QED
  BY <1>1, Invariance, PTL

\* A row that says sent goes on saying so: the only write that does not look at
\* the status it finds is refused by the constraint (notifications/tasks.py:61-82).
THEOREM SentForGood == Spec => SentStands
<1>1. ASSUME TypeOK, [Next]_vars, status = "sent" PROVE status' = "sent"
  <2> USE <1>1 DEF Waiting, row, workers
  <2>1. CASE CreateNotification
    BY <2>1 DEF CreateNotification
  <2>2. CASE QueueDelivery \/ BecomeDue \/ BecomeStale \/ UNCHANGED vars
    BY <2>2 DEF QueueDelivery, BecomeDue, BecomeStale, vars
  <2>3. ASSUME NEW w \in Workers, NEW r \in Retries, Claim(w, r) PROVE status' = "sent"
    BY <2>3 DEF Claim
  <2>4. ASSUME NEW w \in Workers, SendMail(w) \/ RecordSent(w) \/ WorkerDies(w)
        PROVE  status' = "sent"
    BY <2>4 DEF SendMail, RecordSent, WorkerDies
  <2>5. ASSUME NEW w \in Workers, RecordFailure(w) PROVE status' = "sent"
    <3>1. ~SentStateValid(AfterFailure, sentAt)
      BY DEF TypeOK, SentStateValid, AfterFailure
    <3> QED
      BY <2>5, <3>1 DEF RecordFailure
  <2>6. ASSUME NEW r \in Retries, LoseMessage(r) PROVE status' = "sent"
    BY <2>6 DEF LoseMessage
  <2>7. CASE DispatchPendingDeliveries
    BY <2>7 DEF DispatchPendingDeliveries, Stale
  <2> QED
    BY <2>1, <2>2, <2>3, <2>4, <2>5, <2>6, <2>7 DEF Next, Work
<1> QED
  BY <1>1, TypeCorrect, PTL DEF Spec, SafetySpec, SentStands
=============================================================================
