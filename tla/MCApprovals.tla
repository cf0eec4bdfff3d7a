----------------------------- MODULE MCApprovals -----------------------------
(***************************************************************************)
(* Small instances of Approvals.  Each run picks its sets of records; the  *)
(* hierarchy below places them, whatever the sets are: one project, every  *)
(* course and milestone in it, task t1 directly in the course (or project  *)
(* when the run has no course) and t2 a subtask of t1.                     *)
(***************************************************************************)
EXTENDS Approvals, FiniteSets

CONSTANTS pm, sup, boss, p1, t1

mcProjectOf == [x \in Course \cup Milestone |-> p1]
mcOwnerOf ==
    [x \in Task |-> IF Course = {} THEN p1 ELSE CHOOSE c \in Course : TRUE]
mcParentOf == [x \in Task |-> IF x = t1 THEN NoTask ELSE t1]

\* Roles the accounts start with: one of each kind that can act.
mcInitialRole ==
    [u \in User |-> CASE u = pm -> "project_manager"
                      [] u = sup -> "supervisor"
                      [] OTHER -> "executive_manager"]
\* BOUNDS of the hierarchy's run: at most two records are ever submitted, a
\* subtask never by itself, and at most one record stands on a stale view.
FewRequests ==
    /\ Cardinality({t \in Target : request[t][1] # "absent"}) <= 2
    /\ \A t \in Task : ParentOf[t] # NoTask => request[t][1] = "absent"
FewLate == Cardinality(late) <= 1
=============================================================================
