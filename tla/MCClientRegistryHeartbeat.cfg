\* xPL clients that send heartbeats for ever
SPECIFICATION FairSpec
CONSTANTS
  plugin1 = plugin1
  xpl1 = xpl1
  xpl2 = xpl2
  None = None
  Plugins = {}
  XplClients = {xpl1, xpl2}
  InitialPlugins = {}
  AutoStart = {}
  Removable = {}
  DeadAfter <- MCDeadAfter
  MaxStarts = 1
  MaxQueue = 1
  MaxEcho = 1
PROPERTIES
  XplIsShown
