\* reloads that run while values are stored, with failures of the database
\* values, changes and failures are bounded, and the system stops when they are used up
CHECK_DEADLOCK FALSE
SPECIFICATION FairSpec
CONSTANTS
  d1 = d1
  Devices <- OneDevice
  MaxItems = 2
  MaxChanges = 2
  MaxFailures = 1
  None = None
INVARIANTS
  SessionsAreFew
  GoodReloadIsComplete
  FailureLosesOne
  PublishedIsStored
PROPERTIES
  NothingIsStoredLate
  ThreadsGoOn
