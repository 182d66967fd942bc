SPECIFICATION Spec
CONSTANTS
  MantissaBits = 4
  IntBits = 6
  UInt32Bits = 3
  DateLimit = 8
  MaxObjects = 5
  Names = {"dataBridge", "x"}
  Paths <- MCPaths
  BridgePaths <- MCBridgePaths
  Natives <- MCNatives
  Literals <- MCLiterals
  Keys <- MCKeys
  MaxScripts = 2
  MaxSets = 1
CHECK_DEADLOCK FALSE
INVARIANT ReadsWhatWasSet
INVARIANT StopsExactly
