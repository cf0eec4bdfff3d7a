\* Documented rule on project memory, checked without any crash or lost message.
CONSTANTS
    Worker = {w1}
    MaxSteps = 8
    MaxFaults = 0
    Execution = {x1}
    NoOne = NoOne
    Report = {"notified"}
SPECIFICATION Spec
INVARIANT MemoryOnlyOfCleanRun
CHECK_DEADLOCK FALSE
