--------------------------- MODULE MCModuleGraph ---------------------------
(* Instances of ModuleGraph for TLC. *)
EXTENDS ModuleGraph

(* Every graph of the first three modules. *)
ThreeModules ==
  {f \in [Modules -> SUBSET Modules] :
     \A m \in Modules : m \notin f[m] /\ (IF m > 3 THEN f[m] = {} ELSE f[m] \subseteq 1..3)}

(* Every graph in which a module requires at most one, smaller, module. *)
Forests ==
  {f \in [Modules -> SUBSET Modules] :
     \A m \in Modules : Cardinality(f[m]) <= 1 /\ \A d \in f[m] : d < m}

MCGraphs == ThreeModules \cup Forests

(* One module that awaits, one that requires it, and one that requires that. *)
Chain == {[m \in Modules |-> IF m = 1 THEN {} ELSE {m - 1}]}
=============================================================================
