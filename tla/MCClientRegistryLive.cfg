\* a plugin that is never removed: what must happen in the end
SPECIFICATION FairSpec
CONSTANTS
  plugin1 = plugin1
  xpl1 = xpl1
  xpl2 = xpl2
  None = None
  Plugins = {plugin1}
  XplClients = {}
  InitialPlugins = {plugin1}
  AutoStart = {}
  Removable = {}
  DeadAfter <- MCDeadAfter
  MaxStarts = 1
  MaxQueue = 1
  MaxEcho = 1
PROPERTIES
  CrashIsNoticed
  RunningIsShown
  StopEndsTheProcess
