\* failures of every kind and restarts
SPECIFICATION FairSpec
CONSTANTS
  timenow = timenow
  page = page
  MQ = MQ
  None = None
  Tests = {timenow, page}
  Inline = {timenow}
  MayFail = {"database", "block", "evaluation", "poll"}
  MaxCrashes = 2
INVARIANTS
  PromiseIsKept
  OffIsQuiet
PROPERTIES
  ImplementsService
  NoActionBegins
  RequestEnds
  TestsGoOn
