\* a package that is removed and installed again
SPECIFICATION Spec
CONSTANTS
  plugin1 = plugin1
  xpl1 = xpl1
  xpl2 = xpl2
  None = None
  Plugins = {plugin1}
  XplClients = {}
  InitialPlugins = {plugin1}
  AutoStart = {}
  Removable = {plugin1}
  DeadAfter <- MCDeadAfter
  MaxStarts = 1
  MaxQueue = 1
  MaxEcho = 1
INVARIANTS
  KeysAgree
