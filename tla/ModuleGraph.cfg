SPECIFICATION Spec
CONSTANTS
  Modules = {1, 2, 3, 4}
  None = None
  Graphs <- MCGraphs
  MaxFaults = 1
  MaxImports = 3
CHECK_DEADLOCK FALSE
INVARIANT TypeOK
INVARIANT AssertionsHold
INVARIANT DependenciesFirst
INVARIANT PromiseIsHonest
INVARIANT HangsOnlyOnStaleFlag
PROPERTY ReadyInTimestampOrder
