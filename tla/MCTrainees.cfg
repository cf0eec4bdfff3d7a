\* Two imports of up to two rows into a course of one or two seats, three identities.
SPECIFICATION Spec
CONSTANTS
  Bad = Bad
  Identities = {k1, k2, k3}
  Batches = {b1, b2}
  Capacities = {1, 2}
  MaxEnrollments = 3
  MaxRows = 2
SYMMETRY Symmetry
INVARIANTS TypeOK CapacityHeld IdentitiesAgree NumbersNeverReused ImportedOnce
CHECK_DEADLOCK FALSE
