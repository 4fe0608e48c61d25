\* two clients that come, go, hang and are killed, and the races with the timer
SPECIFICATION FairSpec
CONSTANTS
  c1 = c1
  c2 = c2
  Clients = {c1, c2}
  DeadAfter = 2
  MaxSent = 2
  None = None
INVARIANTS
  MissedAreFew
PROPERTIES
  ListedAgain
  ListConverges
  GoneLeave
