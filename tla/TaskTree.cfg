\* Three tasks and two move requests, against docs/BUSINESS_RULES.md:12.
SPECIFICATION Spec
CONSTANTS
  NoTask = NoTask
  Tasks = {t1, t2, t3}
  Requests = {r1, r2}
  MaxDepth = 3
INVARIANT ChainsAcyclic
CHECK_DEADLOCK FALSE
