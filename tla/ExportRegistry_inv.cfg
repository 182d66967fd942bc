SPECIFICATION Spec
CONSTANTS
  Threads = {t1, t2}
  Names = {console, A}
  Closures = {f}
  T = T
  U = U
  h = h
  Types = {Console, T}
  Console = Console
  ConsoleName = console
  Hosts = {h}
  HostType <- MCHostType
  StaticMethodsOf <- MCStaticMethodsOf
  StaticPropertiesOf <- MCStaticPropertiesOf
  InstanceMethodsOf <- MCInstanceMethodsOf
  InstancePropertiesOf <- MCInstancePropertiesOf
  None = None
  MagicLimit = 32768
  UsedProperties = 0
  MaxExports = 2
  MaxObjects = 2
SYMMETRY RegistrySymmetry
INVARIANT RegistryInv
