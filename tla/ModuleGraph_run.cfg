SPECIFICATION FairSpec
CONSTANTS
  Modules = {1, 2, 3}
  None = None
  Graphs <- Chain
  MaxFaults = 1
  MaxImports = 2
CHECK_DEADLOCK FALSE
PROPERTY ImportsRun
