SPECIFICATION Spec
CONSTANTS
  Threads = {t1}
  Names = {console, A, B, x}
  Closures = {f}
  T = T
  U = U
  h = h
  Types = {Console, T}
  Console = Console
  ConsoleName = console
  Hosts = {h}
  HostType <- MCHostType
  StaticMethodsOf <- MCStaticMethodsOf
  StaticPropertiesOf <- MCStaticPropertiesOf
  InstanceMethodsOf <- MCInstanceMethodsOf
  InstancePropertiesOf <- MCInstancePropertiesOf
  None = None
  MagicLimit = 32768
  UsedProperties = 0
  MaxExports = 3
  MaxObjects = 2
INVARIANT ExportedInstanceIsAttached
