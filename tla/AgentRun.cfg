\* One run, two workers, eight steps as deployed, one crash or lost message;
\* its event is handed to up to two executions of the workflow.
CONSTANTS
    Worker = {w1, w2}
    MaxSteps = 8
    MaxFaults = 1
    Execution = {x1, x2}
    NoOne = NoOne
    Report = {"notified", "failed"}
SPECIFICATION FairSpec
INVARIANTS TypeOK EffectIffExecuted StepsContiguous OneProposal OneLiveLease ToldTruth
PROPERTIES WorkEnds EventSettledForGood
CHECK_DEADLOCK FALSE
