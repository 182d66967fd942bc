SPECIFICATION Spec
CONSTANTS
  Keys = {0, 4}
  Values = {11, 12}
  Iterators = {i}
  None = None
  Zero = 0
  NegZero = NegZero
  Hash <- MCHash
  BitAnd <- MCBitAnd
  FirstThreshold = 2
  MaxRecords = 4
  MaxSlack = 1
  MaxLoops = 1
INVARIANT MapInv
INVARIANT DeletesEach
INVARIANT SublistSelects
