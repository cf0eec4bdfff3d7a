------------------------------ MODULE TaskTree ------------------------------
(***************************************************************************)
(* The subtasks of one project or course (apps/tasks). A request validates *)
(* a form, which reads the chosen parent and its ancestors, and then calls *)
(* the service, which locks the task's own row and validates again over    *)
(* the parent and the ancestors that the form has read. Requests of        *)
(* several people interleave between the two; each half is one step.       *)
(***************************************************************************)
EXTENDS Naturals, FiniteSets

CONSTANTS Tasks, Requests, NoTask,
          MaxDepth   \* MAX_TASK_DEPTH

VARIABLES
  parent,     \* of each task, NoTask at a root
  present,    \* the tasks that have been created
  archived,
  request     \* of each request: what its form has validated, or Idle

vars == <<parent, present, archived, request>>

Idle == [do |-> "nothing"]

Init ==
  /\ parent = [t \in Tasks |-> NoTask]
  /\ present \in SUBSET Tasks
  /\ archived = {}
  /\ request = [r \in Requests |-> Idle]

-----------------------------------------------------------------------------
(* Task.clean *)

\* The parent and what is above it; the walk stops where it has been before.
Chain(p) ==
  LET above[n \in 0..Cardinality(Tasks)] ==
        IF n = 0 THEN {p} \ {NoTask}
        ELSE above[n - 1] \cup ({parent[t] : t \in above[n - 1]} \ {NoTask})
  IN above[Cardinality(Tasks)]

\* Only ancestors are counted: what hangs below the task moves with it.
ParentValid(t, chain) == t \notin chain /\ Cardinality(chain) + 1 <= MaxDepth

-----------------------------------------------------------------------------
(* The form *)

FormValid(r, do, t, p) ==
  /\ request[r] = Idle
  /\ do = "create" <=> t \notin present
  /\ t \notin archived
  /\ p = NoTask \/ p \in present \ (archived \cup {t})
  /\ ParentValid(t, Chain(p))
  /\ request' = [request EXCEPT ![r] = [do |-> do, task |-> t, to |-> p, chain |-> Chain(p)]]
  /\ UNCHANGED <<parent, present, archived>>

-----------------------------------------------------------------------------
(* The services *)

CreateTask(r) ==
  /\ request[r].do = "create"
  /\ request[r].task \notin present     \* the code of a task is unique
  /\ ParentValid(request[r].task, request[r].chain)
  /\ present' = present \cup {request[r].task}
  /\ parent' = [parent EXCEPT ![request[r].task] = request[r].to]
  /\ request' = [request EXCEPT ![r] = Idle]
  /\ UNCHANGED archived

\* can_manage_task refuses an archived task; the parent is not read again.
UpdateTask(r) ==
  /\ request[r].do = "update"
  /\ request[r].task \notin archived
  /\ ParentValid(request[r].task, request[r].chain)
  /\ parent' = [parent EXCEPT ![request[r].task] = request[r].to]
  /\ request' = [request EXCEPT ![r] = Idle]
  /\ UNCHANGED <<present, archived>>

Refuse(r) ==
  /\ \/ request[r].do = "create" /\ request[r].task \in present
     \/ request[r].do = "update" /\ request[r].task \in archived
  /\ request' = [request EXCEPT ![r] = Idle]
  /\ UNCHANGED <<parent, present, archived>>

Subtasks(t) == {s \in present : parent[s] = t}

ArchiveTask(t) ==
  /\ t \in present \ archived
  /\ Subtasks(t) \subseteq archived
  /\ archived' = archived \cup {t}
  /\ UNCHANGED <<parent, present, request>>

RestoreTask(t) ==
  /\ t \in archived
  /\ parent[t] \notin archived
  /\ ParentValid(t, Chain(parent[t]))
  /\ archived' = archived \ {t}
  /\ UNCHANGED <<parent, present, request>>

Next ==
  \/ \E r \in Requests, do \in {"create", "update"}, t \in Tasks, p \in Tasks \cup {NoTask} :
       FormValid(r, do, t, p)
  \/ \E r \in Requests : CreateTask(r) \/ UpdateTask(r) \/ Refuse(r)
  \/ \E t \in Tasks : ArchiveTask(t) \/ RestoreTask(t)

Spec == Init /\ [][Next]_vars

-----------------------------------------------------------------------------
(* Properties *)

\* "Phase 5 task nesting is limited to three levels with acyclic, same-owner
\* parent chains" (docs/BUSINESS_RULES.md:12): no task is above itself.
ChainsAcyclic == \A t \in present : t \notin Chain(parent[t])
=============================================================================
