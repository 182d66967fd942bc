SPECIFICATION FairSpec
CONSTANTS
  t1 = t1
  t2 = t2
  Threads = {t1, t2}
  NoThread = NoThread
  MaxDepth = 2
  MaxCalls <- MCMaxCalls
INVARIANT OneThreadInside
INVARIANT ContextLostOnlyToItself
INVARIANT OnlyWrappersOutliveEngine
PROPERTY DeadStaysDead
PROPERTY SerialSpec
PROPERTY ShutdownCompletes
PROPERTY CallsReturn
