\* a value that is stored during a reload
\* values, changes and failures are bounded, and the system stops when they are used up
CHECK_DEADLOCK FALSE
SPECIFICATION Spec
CONSTANTS
  d1 = d1
  Devices <- OneDevice
  MaxItems = 2
  MaxChanges = 1
  MaxFailures = 0
  None = None
INVARIANTS
  UpdateIsLoaded
