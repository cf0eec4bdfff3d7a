\* Two processes of two calls each; minutes of two ticks, days of three, four instants.
SPECIFICATION Spec
CONSTANTS
  NoOne = NoOne
  Processes = {p1, p2}
  RPM = 2
  RPD = 3
  TPM = 5
  TPD = 6
  Reserve = 1
  MinOutput = 1
  Window = 2
  Configured = 2
  Inputs = {1}
  Corrections <- mcCorrections
  DayLength = 3
  MaxClock = 3
  MaxCalls = 2
  MaxFaults = 1
SYMMETRY ProcessSymmetry
INVARIANTS TypeOK OverrunsNeedFaults CountersCoverUse
CHECK_DEADLOCK FALSE
