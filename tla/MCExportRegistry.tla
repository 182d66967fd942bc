-------------------------- MODULE MCExportRegistry --------------------------
(* ExportRegistry with two types beside the console, of which one has members *)
(* of every sort, and an instance of it.                                      *)
EXTENDS ExportRegistry, TLC

CONSTANTS T, U, h

MCHostType             == [x \in Hosts |-> T]
MCStaticMethodsOf      == (Console :> {"log"}) @@ (T :> {"make"}) @@ (U :> {})
MCStaticPropertiesOf   == (Console :> {}) @@ (T :> {"count"}) @@ (U :> {})
MCInstanceMethodsOf    == (Console :> {}) @@ (T :> {"test"}) @@ (U :> {"run"})
MCInstancePropertiesOf == (Console :> {}) @@ (T :> {"value"}) @@ (U :> {})

RegistrySymmetry == Permutations(Threads)
=============================================================================
