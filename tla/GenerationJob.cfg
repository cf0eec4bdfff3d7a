\* One job, two workers, two automatic retries, four faults of which one may lose a message.
SPECIFICATION Spec
CONSTANTS
  NoResult = NoResult
  Workers = {w1, w2}
  MaxRetries = 2
  MaxFaults = 4
  MaxLost = 1
INVARIANTS TypeOK QueuedIsCarried OneStory
PROPERTIES ImplementsJob Settles
CHECK_DEADLOCK FALSE
