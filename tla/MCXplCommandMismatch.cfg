\* the packet of another device of the schema is taken for the reply
SPECIFICATION Spec
CONSTANTS
  lamp1 = lamp1
  lamp2 = lamp2
  r1 = r1
  r2 = r2
  p1 = p1
  p2 = p2
  None = None
  Devices = {lamp1, lamp2}
  Requests = {r1, r2}
  DeviceOf <- TwoLamps
  Packets = {p1}
  Schemas = {"ac.basic"}
  Keys = {"address", "level"}
  SchemaOf <- MCSchemaOf
  KeysOf <- MCKeysOf
  Bodies <- CompleteBodies
INVARIANT ResultComesFromTheDevice
CHECK_DEADLOCK FALSE
