SPECIFICATION ExportSpec
CONSTANTS
  o1 = o1
  o2 = o2
  G = G
  B = B
  Objects = {G, B, o1, o2}
  VarRefs = {v}
  Context = ctx
  Slots = 2
  None = None
  Global = G
  Builtin = B
  Wrappers = {w1}
  MaxStack = 2
  MaxLeaks = 1
SYMMETRY Symmetry
CHECK_DEADLOCK FALSE
INVARIANT GlobalsStayAlive
