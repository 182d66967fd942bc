SPECIFICATION FairSpec
CONSTANTS
  Promises = {p, q}
  Patched = {q}
  Plain = {v}
  Thenables = {t}
  Asyncs = {f}
  TypeError = TypeError
  None = None
  MaxPairs = 2
  MaxReactions = 2
  MaxFrames = 2
CHECK_DEADLOCK FALSE
INVARIANT TypeOK
INVARIANT OneSettler
INVARIANT IntactPromisesAdopted
INVARIANT ReactionsRunInOrder
INVARIANT TrackerExact
PROPERTY SettledForever
PROPERTY ResumedOnlyWhenWaiting
PROPERTY ReactionsRun
