---------------------------- MODULE ReviewedEvent ----------------------------
(***************************************************************************)
(* The event that a reviewed project-agent run leaves for the n8n workflow *)
(* (apps/project_agents/integration_services.py). An execution of the      *)
(* workflow claims the event under a lease of five minutes, notifies or    *)
(* archives outside, and acknowledges with an outcome. Executions are slow,*)
(* die, or lose the response of a call and make it again.                  *)
(*                                                                         *)
(* A lease token identifies the execution it was handed to; each execution *)
(* claims once. AgentRun composes this module with the run.                *)
(***************************************************************************)
EXTENDS Naturals

CONSTANTS
    Execution,  \* executions of the workflow
    NoOne,
    Report      \* bound: the outcomes that executions report

ASSUME NoOneAssumption == NoOne \notin Execution

VARIABLES
    eventStatus,  \* AgentReviewedEvent.status, "none" before the review
    holder,       \* whose token lease_token_hash is, or NoOne
    claimed,      \* executions that were handed the event
    over,         \* those whose leased_until has passed
    callback,     \* callback_code
    report,       \* the outcome each execution has sent
    told          \* what each execution has been answered

eventVars == <<eventStatus, holder, claimed, over, callback, report, told>>

FinalEvent == {"acknowledged", "failed"}
EventOutcome == {"notified", "archived", "rejected", "failed"}

ASSUME ReportAssumption == Report \subseteq EventOutcome

EventInit ==
    /\ eventStatus = "none"
    /\ holder = NoOne
    /\ claimed = {} /\ over = {}
    /\ callback = "none"
    /\ report = [x \in Execution |-> "none"]
    /\ told = [x \in Execution |-> "nothing"]

\* With the memory, in the transaction of the review.
CreateReviewedEvent ==
    /\ eventStatus = "none"
    /\ eventStatus' = "pending"
    /\ UNCHANGED <<holder, claimed, over, callback, report, told>>

\* Bug: a leased event is handed out before its lease is over.
ClaimableLeased == eventStatus \in {"pending", "leased"}

\* Bug: a failed event is handed out again.
ClaimableFailed ==
    eventStatus \in {"pending", "failed"} \/ (eventStatus = "leased" /\ holder \in over)

Claimable == eventStatus = "pending" \/ (eventStatus = "leased" /\ holder \in over)

ClaimReviewedEvent(x) ==
    /\ Claimable
    /\ x \notin claimed
    /\ eventStatus' = "leased"
    /\ holder' = x
    /\ claimed' = claimed \cup {x}
    /\ UNCHANGED <<over, callback, report, told>>

EndLease(x) ==
    /\ x \in claimed \ over
    /\ over' = over \cup {x}
    /\ UNCHANGED <<eventStatus, holder, claimed, callback, report, told>>

\* The response reaches the execution or is lost on the way back.
Answer(x, answer) == told' \in {told, [told EXCEPT ![x] = answer]}

\* Bug: every acknowledgement of a settled event is confirmed.
SettledAlready(o) == eventStatus \in FinalEvent

\* A repeated acknowledgement with the recorded outcome is confirmed.
Settled(o) == eventStatus \in FinalEvent /\ callback = o

Holds(x) == eventStatus = "leased" /\ holder = x /\ x \notin over

AcknowledgeReviewedEvent(x, o) ==
    /\ x \in claimed
    /\ told[x] = "nothing"
    /\ report[x] \in {"none", o}
    /\ report' = [report EXCEPT ![x] = o]
    /\ \/ /\ Settled(o)
          /\ Answer(x, "recorded")
          /\ UNCHANGED <<eventStatus, holder, callback>>
       \/ /\ ~Settled(o) /\ Holds(x)
          /\ eventStatus' = IF o = "failed" THEN "failed" ELSE "acknowledged"
          /\ callback' = o
          /\ holder' = NoOne
          /\ Answer(x, "recorded")
       \/ /\ ~Settled(o) /\ ~Holds(x)
          /\ Answer(x, "refused")
          /\ UNCHANGED <<eventStatus, holder, callback>>
    /\ UNCHANGED <<claimed, over>>

EventStep ==
    \E x \in Execution :
       \/ ClaimReviewedEvent(x)
       \/ EndLease(x)
       \/ \E o \in Report : AcknowledgeReviewedEvent(x, o)

-----------------------------------------------------------------------------
(* Properties.                                                              *)

EventTypeOK ==
    /\ eventStatus \in {"none", "pending", "leased"} \cup FinalEvent
    /\ holder \in Execution \cup {NoOne}
    /\ claimed \subseteq Execution /\ over \subseteq claimed
    /\ callback \in EventOutcome \cup {"none"}
    /\ report \in [Execution -> EventOutcome \cup {"none"}]
    /\ told \in [Execution -> {"nothing", "recorded", "refused"}]

\* While the event is open no two executions hold it at once, although nobody
\* takes a lease back and the holder is never asked
\* (integration_services.py:26-29).
OneLiveLease ==
    eventStatus \notin FinalEvent => claimed \ over \subseteq {holder}

\* What an execution is told is true for good: one whose outcome was confirmed,
\* also late or for the second time, finds it recorded; one that was refused
\* had overrun its lease (integration_services.py:65-83).
ToldTruth ==
    \A x \in Execution :
       /\ told[x] = "recorded" => eventStatus \in FinalEvent /\ callback = report[x]
       /\ told[x] = "refused" => x \in over

\* No later claim or acknowledgement changes a settled event.
EventSettledForGood ==
    [][callback # "none" =>
          eventStatus' = eventStatus /\ callback' = callback]_eventVars
=============================================================================
