SPECIFICATION Spec
CONSTANTS
  MaxRequests = 4
  MaxAwaits = 3
CHECK_DEADLOCK FALSE
INVARIANT GeneratorInv
