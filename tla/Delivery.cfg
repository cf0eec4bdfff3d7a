\* One e-mail, three workers, three attempts, three faults, one message at a time in the broker.
SPECIFICATION Spec
CONSTANTS
  Workers = {w1, w2, w3}
  MaxAttempts = 3
  MaxMessages = 1
  MaxFaults = 3
INVARIANTS TypeOK DuplicatesNeedFaults AttemptsBounded
PROPERTIES SentStands Settles
CHECK_DEADLOCK FALSE
