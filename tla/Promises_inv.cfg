SPECIFICATION Spec
CONSTANTS
  Promises = {p, q}
  Patched = {q}
  Plain = {v}
  Thenables = {t}
  Asyncs = {f}
  TypeError = TypeError
  None = None
  MaxPairs = 2
  MaxReactions = 2
  MaxFrames = 2
CHECK_DEADLOCK FALSE
INVARIANT SettlingInv
INVARIANT AsyncInv
INVARIANT OrderInv
INVARIANT AwaitInv
