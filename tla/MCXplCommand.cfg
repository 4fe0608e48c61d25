\* packets that kill the command thread, devices created and deleted meanwhile;
\* the inputs are bounded, so the system stops when they are used up
SPECIFICATION FairSpec
CONSTANTS
  lamp1 = lamp1
  lamp2 = lamp2
  r1 = r1
  r2 = r2
  None = None
  Devices = {lamp1}
  Requests = {r1, r2}
  DeviceOf <- OneLamp
  Packets = {p1, p2}
  Schemas = {"ac.basic"}
  Keys = {"address", "level"}
  SchemaOf <- MCSchemaOf
  KeysOf <- MCKeysOf
  Bodies <- AnyBodies
  p1 = p1
  p2 = p2
INVARIANTS
  TypeOK
  NoCommandForgotten
  NothingMatchedSurvives
PROPERTIES
  ImplementsService
  RequestsAreServed
  OldPacketsLeave
  KeptAnswerIsUsed
CHECK_DEADLOCK FALSE
