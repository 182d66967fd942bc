SPECIFICATION Spec
CONSTANTS
  t1 = t1
  t2 = t2
  Threads = {t1, t2}
  NoThread = NoThread
  MaxDepth = 2
  MaxCalls <- MCMaxCalls
PROPERTY ClosureStartsOnLiveContext
