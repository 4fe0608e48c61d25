\* a plugin that is installed: the two ways to start it
\* the starts are bounded, so everything may be over once the dead check thread has ended
SPECIFICATION Spec
CONSTANTS
  plugin1 = plugin1
  xpl1 = xpl1
  xpl2 = xpl2
  None = None
  Plugins = {plugin1}
  XplClients = {}
  InitialPlugins = {}
  AutoStart = {plugin1}
  Removable = {}
  DeadAfter <- MCDeadAfter
  MaxStarts = 2
  MaxQueue = 1
  MaxEcho = 1
INVARIANTS
  LaunchesAreExclusive
CHECK_DEADLOCK FALSE
