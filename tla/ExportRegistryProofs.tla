------------------------ MODULE ExportRegistryProofs ------------------------
(***************************************************************************)
(* Proofs about ExportRegistry for any number of threads, types, names and  *)
(* exports.  RegistryInv is inductive.  The lemmas about the operators say   *)
(* that ids within the magic field come back as they are, that a table only  *)
(* grows, and that the new ids lead to what they were given for.             *)
(***************************************************************************)
EXTENDS ExportRegistry, FiniteSetTheorems, SequenceTheorems, TLAPS

(* A magic below 2^15 survives its 16-bit field. *)
LEMMA MagicIsId ==
  ASSUME NEW id \in Nat, id < MagicLimit
  PROVE  Magic(id) = id
<1>1. MagicLimit \in Nat
  BY RegistryAssumption
<1> DEFINE w == 2 * MagicLimit
<1>2. w \in Nat /\ w > 0 /\ id < w
  BY <1>1
<1> HIDE DEF w
<1>3. id % w = id
  BY <1>2, Z3
<1> QED BY <1>1, <1>3 DEF Magic, w

(* The entries of a dictionary are numbered from 0 without repetition. *)
LEMMA OrderIsInjective ==
  ASSUME NEW S, IsFiniteSet(S), NEW order \in Orders(S)
  PROVE  /\ DOMAIN order = S /\ Cardinality(S) \in Nat
         /\ \A n \in S : order[n] \in 0..(Cardinality(S) - 1)
         /\ \A m, n \in S : order[m] = order[n] => m = n
BY FS_CardinalityType DEF Orders

(* addExport for each entry of a dictionary: entries that were there stay, the *)
(* new ids lie from first on, and each leads to its own entry.                 *)
LEMMA AddExportsFinds ==
  ASSUME NEW S, IsFiniteSet(S), NEW order \in Orders(S), NEW table, NEW value,
         NEW first \in Nat, NEW step \in {1, 2}, DOMAIN table \subseteq 0..(first - 1)
  PROVE  LET new == AddExports(table, first, step, order, value)
         IN  /\ \A i \in DOMAIN table : i \in DOMAIN new /\ new[i] = table[i]
             /\ DOMAIN new \subseteq
                  DOMAIN table \cup first..(first + step * (Cardinality(S) - 1))
             /\ \A n \in S : /\ first + step * order[n] \in DOMAIN new
                             /\ new[first + step * order[n]] = value[n]
<1> DEFINE id(n) == first + step * order[n]
           new == AddExports(table, first, step, order, value)
<1>1. /\ DOMAIN order = S /\ Cardinality(S) \in Nat
      /\ \A n \in S : order[n] \in 0..(Cardinality(S) - 1)
      /\ \A m, n \in S : order[m] = order[n] => m = n
  BY OrderIsInjective
<1>2. ASSUME NEW n \in S PROVE id(n) \in first..(first + step * (Cardinality(S) - 1))
  <2>1. CASE step = 1
    BY <1>1, <2>1
  <2>2. CASE step = 2
    BY <1>1, <2>2
  <2> QED BY <2>1, <2>2
<1>3. ASSUME NEW m \in S, NEW n \in S, id(m) = id(n) PROVE m = n
  <2>1. CASE step = 1
    BY <1>1, <1>3, <2>1
  <2>2. CASE step = 2
    BY <1>1, <1>3, <2>2
  <2> QED BY <2>1, <2>2
<1> HIDE DEF id
<1>4. new = [i \in DOMAIN table \cup {id(n) : n \in S} |->
               IF i \in DOMAIN table THEN table[i]
               ELSE value[CHOOSE n \in S : id(n) = i]]
  BY <1>1 DEF AddExports, id
<1> HIDE DEF new
<1>5. \A i \in DOMAIN table : i \in DOMAIN new /\ new[i] = table[i]
  BY <1>4
<1>6. DOMAIN new \subseteq DOMAIN table \cup first..(first + step * (Cardinality(S) - 1))
  BY <1>2, <1>4
<1>7. ASSUME NEW n \in S PROVE id(n) \in DOMAIN new /\ new[id(n)] = value[n]
  <2>1. id(n) \notin DOMAIN table
    BY <1>2
  <2>2. (CHOOSE m \in S : id(m) = id(n)) = n
    BY <1>3
  <2> QED BY <1>4, <2>1, <2>2
<1> QED BY <1>5, <1>6, <1>7 DEF new, id

(* The functions made with these ids find the entries in the table. *)
LEMMA NewCFunctionsFound ==
  ASSUME NEW S, IsFiniteSet(S), NEW order \in Orders(S), NEW name, NEW table, NEW value,
         NEW first \in Nat, NEW step \in {1, 2},
         first + step * (Cardinality(S) - 1) < MagicLimit,
         \A n \in S : /\ first + step * order[n] \in DOMAIN table
                      /\ table[first + step * order[n]] = value[n]
  PROVE  FoundIn(NewCFunctions(name, first, step, order, value), name, table)
<1>1. /\ DOMAIN order = S /\ Cardinality(S) \in Nat
      /\ \A n \in S : order[n] \in 0..(Cardinality(S) - 1)
  BY OrderIsInjective
<1>2. ASSUME NEW n \in S PROVE Magic(first + step * order[n]) = first + step * order[n]
  <2>1. first + step * order[n] \in Nat /\ first + step * order[n] < MagicLimit
    <3>1. CASE step = 1
      BY <1>1, <3>1, RegistryAssumption
    <3>2. CASE step = 2
      BY <1>1, <3>2, RegistryAssumption
    <3> QED BY <3>1, <3>2
  <2> QED BY <2>1, MagicIsId
<1> SUFFICES ASSUME NEW cb \in NewCFunctions(name, first, step, order, value)
             PROVE  cb.magic \in DOMAIN table /\ table[cb.magic] = cb.def
  BY DEF FoundIn
<1>3. PICK n \in S : cb = [table |-> name, magic |-> Magic(first + step * order[n]), def |-> value[n]]
  BY <1>1 DEF NewCFunctions
<1> QED BY <1>2, <1>3

(* All of them are of one table. *)
LEMMA NewCFunctionsTable ==
  ASSUME NEW name, NEW first, NEW step, NEW order, NEW value,
         NEW cb \in NewCFunctions(name, first, step, order, value)
  PROVE  cb.table = name
BY DEF NewCFunctions

(* What a function finds does not depend on entries added later, ... *)
LEMMA FoundGrows ==
  ASSUME NEW cbs, NEW name, NEW table, NEW new, FoundIn(cbs, name, table),
         \A i \in DOMAIN table : i \in DOMAIN new /\ new[i] = table[i]
  PROVE  FoundIn(cbs, name, new)
BY DEF FoundIn

(* ... on functions of other tables, ... *)
LEMMA FoundOther ==
  ASSUME NEW cbs, NEW name, NEW table, \A cb \in cbs : cb.table # name
  PROVE  FoundIn(cbs, name, table)
BY DEF FoundIn

(* ... or on which functions there are besides. *)
LEMMA FoundUnion ==
  ASSUME NEW A, NEW B, NEW name, NEW table, FoundIn(A, name, table), FoundIn(B, name, table)
  PROVE  FoundIn(A \cup B, name, table)
BY DEF FoundIn

(* One function under a fresh id. *)
LEMMA AddExportFinds ==
  ASSUME NEW table, NEW id \in Nat, NEW value, NEW cbs, NEW name,
         DOMAIN table \subseteq 0..(id - 1), FoundIn(cbs, name, table), id < MagicLimit
  PROVE  FoundIn(cbs \cup {[table |-> name, magic |-> Magic(id), def |-> value]}, name,
                 AddExport(table, id, value))
<1> DEFINE new == AddExport(table, id, value)
<1>1. \A i \in DOMAIN table : i \in DOMAIN new /\ new[i] = table[i]
  BY DEF AddExport
<1>2. id \in DOMAIN new /\ new[id] = value
  BY DEF AddExport
<1> HIDE DEF new
<1>3. Magic(id) = id
  BY MagicIsId
<1>4. FoundIn({[table |-> name, magic |-> Magic(id), def |-> value]}, name, new)
  BY <1>2, <1>3 DEF FoundIn
<1>5. FoundIn(cbs, name, new)
  BY <1>1, FoundGrows
<1>6. FoundIn(cbs \cup {[table |-> name, magic |-> Magic(id), def |-> value]}, name, new)
  BY <1>4, <1>5, FoundUnion
<1> QED BY <1>6 DEF new

(* A dictionary of functions under fresh ids. *)
LEMMA AddExportsFound ==
  ASSUME NEW S, IsFiniteSet(S), NEW order \in Orders(S), NEW table, NEW value, NEW cbs, NEW name,
         NEW first \in Nat, NEW step \in {1, 2}, DOMAIN table \subseteq 0..(first - 1),
         FoundIn(cbs, name, table), first + step * (Cardinality(S) - 1) < MagicLimit
  PROVE  FoundIn(cbs \cup NewCFunctions(name, first, step, order, value), name,
                 AddExports(table, first, step, order, value))
<1> DEFINE new == AddExports(table, first, step, order, value)
           cfs == NewCFunctions(name, first, step, order, value)
<1>1. /\ \A i \in DOMAIN table : i \in DOMAIN new /\ new[i] = table[i]
      /\ \A n \in S : /\ first + step * order[n] \in DOMAIN new
                      /\ new[first + step * order[n]] = value[n]
  BY AddExportsFinds
<1> HIDE DEF new
<1>2. FoundIn(cfs, name, new)
  BY <1>1, NewCFunctionsFound
<1>3. FoundIn(cbs, name, new)
  BY <1>1, FoundGrows
<1> HIDE DEF cfs
<1>4. FoundIn(cbs \cup cfs, name, new)
  BY <1>2, <1>3, FoundUnion
<1> QED BY <1>4 DEF new, cfs

-----------------------------------------------------------------------------
(* An export that returns leaves its thread idle. *)
LEMMA CallReturns ==
  ASSUME call \in [Threads -> Calls], NEW t \in Threads, Return(t)
  PROVE  /\ call' \in [Threads -> Calls] /\ call'[t].at = "idle"
         /\ \A u \in Threads \ {t} : call'[u] = call[u]
BY DEF Return, Calls, Idle

(* An export goes from one of its closures to the next. *)
LEMMA CallGoesOn ==
  ASSUME call \in [Threads -> Calls], NEW t \in Threads, NEW at, Goto(t, at),
         \/ call[t].at = "checkFunction" /\ at = "defineFunction"
         \/ call[t].at = "checkType" /\ at = "defineType"
         \/ call[t].at = "checkClass" /\ at \in {"checkType", "attach"}
         \/ call[t].at \in {"checkType", "defineType"} /\ at = "attach" /\ call[t].host # None
         \/ call[t].at = "attach" /\ at = "script"
  PROVE  /\ call' \in [Threads -> Calls] /\ call'[t].at = at
         /\ call[t].at = "attach" =>
              /\ call'[t].host = call[t].host /\ call'[t].type = call[t].type
              /\ call[t].host \in Hosts /\ call[t].type = HostType[call[t].host]
         /\ \A u \in Threads \ {t} : call'[u] = call[u]
<1> DEFINE c == call[t]
           d == [c EXCEPT !.at = at]
<1>1. c \in Calls /\ call' = [call EXCEPT ![t] = d]
  BY DEF Goto
<1>2. CASE c.at = "checkFunction"
  <2>1. c \in [at : {"checkFunction", "defineFunction"}, name : Names, closure : Closures]
    BY <1>1, <1>2 DEF Calls, Idle, TypeExports
  <2>2. d \in [at : {"checkFunction", "defineFunction"}, name : Names, closure : Closures]
    BY <1>2, <2>1
  <2>3. d \in Calls /\ d.at = at
    BY <2>1, <2>2 DEF Calls
  <2> HIDE DEF c, d
  <2> QED BY <1>1, <1>2, <2>3 DEF c
<1>3. CASE c.at \in {"checkType", "defineType", "checkClass", "attach"}
  <2>1. c \in TypeExports /\ IF c.host = None THEN c.at \in {"checkType", "defineType"}
                             ELSE c.type = HostType[c.host]
    BY <1>1, <1>3 DEF Calls, Idle
  <2>2. d \in TypeExports /\ d.host = c.host /\ d.type = c.type /\ d.at = at
    BY <1>3, <2>1 DEF TypeExports
  <2>3. d \in Calls
    BY <1>3, <2>1, <2>2 DEF Calls
  <2>4. c.at = "attach" => c.host \in Hosts /\ c.type = HostType[c.host]
    BY <2>1 DEF TypeExports
  <2> HIDE DEF d
  <2> QED BY <1>1, <2>2, <2>3, <2>4
<1> QED BY <1>2, <1>3

(* A thread that is not in the script of its export moves on, and no instance   *)
(* waits that did not wait before.                                             *)
LEMMA ScriptGoesOn ==
  ASSUME RegistryInv, NEW t \in Threads, call[t].at # "script", call'[t].at # "script",
         \A u \in Threads \ {t} : call'[u] = call[u], script' = script,
         \A c \in DOMAIN types' : waiting'[c] # None =>
           c \in DOMAIN types /\ waiting'[c] = waiting[c] /\ types'[c] = types[c]
  PROVE  ScriptInv' /\ WaitingInv'
<1>1. script.thread # t
  BY DEF RegistryInv, ScriptInv
<1>2. ScriptInv'
  BY <1>1 DEF RegistryInv, ScriptInv
<1>3. WaitingInv'
  BY <1>1 DEF RegistryInv, WaitingInv
<1> QED BY <1>2, <1>3

-----------------------------------------------------------------------------
(* The engine after JSEngine.init. *)
LEMMA InitRegistry == Init => RegistryInv
<1> SUFFICES ASSUME Init PROVE RegistryInv
  OBVIOUS
<1> USE RegistryAssumption
<1> DEFINE S == StaticMethodsOf[Console]
           defs == [n \in S |-> <<Console, n>>]
           none == [i \in {} |-> None]
<1>1. IsFiniteSet(S) /\ Cardinality(S) \in Nat
  BY FS_CardinalityType
<1>2. PICK order \in Orders(S) :
        /\ counters = [class |-> 1, function |-> Cardinality(S), method |-> 0, property |-> UsedProperties]
        /\ functions = AddExports(none, 0, 1, order, defs)
        /\ callbacks = NewCFunctions("functions", 0, 1, order, defs)
                        \cup {[table |-> "classes", magic |-> Magic(0), def |-> Console]}
  <2>1. Magic(0) = 0
    BY MagicIsId
  <2> QED BY <2>1 DEF Init
<1> HIDE DEF S, defs
<1>3. /\ types = [i \in {0} |-> Console] /\ waiting = [i \in {0} |-> None]
      /\ methodIDs = none /\ propertyGetters = none /\ propertySetters = none
      /\ DOMAIN globals = Names /\ DOMAIN lexicals = Names /\ objects = <<>>
      /\ call = [t \in Threads |-> Idle] /\ exportsLeft = MaxExports /\ script = NoScript
      /\ DOMAIN statics = S /\ DOMAIN staticProperties = {}
  BY DEF Init, S
<1>4. DOMAIN functions \subseteq 0..(Cardinality(S) - 1)
  <2>1. DOMAIN none \subseteq 0..(0 - 1)
    OBVIOUS
  <2>2. DOMAIN functions \subseteq DOMAIN none \cup 0..(0 + 1 * (Cardinality(S) - 1))
    BY <1>1, <1>2, <2>1, AddExportsFinds
  <2> QED BY <1>1, <2>2
<1>5. TypeOK
  BY <1>1, <1>2, <1>3, <1>4 DEF TypeOK, NoScript
<1>6. Typed
  <2>1. IsFiniteSet(DOMAIN statics) /\ IsFiniteSet(DOMAIN staticProperties)
    BY <1>1, <1>3, FS_EmptySet
  <2>2. call \in [Threads -> Calls]
    BY <1>3 DEF Calls
  <2> QED BY <1>3, <1>5, <2>1, <2>2, EmptySeq DEF Typed
<1>7. ScriptInv /\ WaitingInv /\ HostsAttachedByExport
  BY <1>3 DEF ScriptInv, WaitingInv, HostsAttachedByExport, NoScript, Idle
<1>8. \A cb \in callbacks : cb.table \in {"functions", "classes"}
  BY <1>2, NewCFunctionsTable
<1>9. IdsFitMagic => AllFound
  <2> SUFFICES ASSUME IdsFitMagic PROVE AllFound
    OBVIOUS
  <2> DEFINE cfs == NewCFunctions("functions", 0, 1, order, defs)
             cls == {[table |-> "classes", magic |-> Magic(0), def |-> Console]}
  <2>1. Cardinality(S) <= MagicLimit
    BY <1>2 DEF IdsFitMagic
  <2>2. \A cb \in cfs : cb.table = "functions"
    BY NewCFunctionsTable
  <2>3. FoundIn(cfs, "functions", functions)
    <3>1. \A n \in S : /\ 0 + 1 * order[n] \in DOMAIN functions
                       /\ functions[0 + 1 * order[n]] = defs[n]
      <4>1. DOMAIN none \subseteq 0..(0 - 1)
        OBVIOUS
      <4> QED BY <1>1, <1>2, <4>1, AddExportsFinds
    <3>2. 0 + 1 * (Cardinality(S) - 1) < MagicLimit
      BY <1>1, <2>1
    <3> QED BY <1>1, <3>1, <3>2, NewCFunctionsFound
  <2> HIDE DEF cfs
  <2>4. FoundIn(cls, "classes", types) /\ FoundIn(cls, "functions", functions)
    <3>1. Magic(0) = 0
      BY MagicIsId
    <3> QED BY <1>3, <3>1 DEF FoundIn
  <2>5. FoundIn(cfs, "classes", types)
    BY <2>2, FoundOther
  <2>6. callbacks = cfs \cup cls
    BY <1>2 DEF cfs
  <2> HIDE DEF cls
  <2>7. FoundIn(callbacks, "classes", types) /\ FoundIn(callbacks, "functions", functions)
    BY <2>3, <2>4, <2>5, <2>6, FoundUnion
  <2> QED BY <1>8, <2>7, FoundOther DEF AllFound
<1> QED BY <1>6, <1>7, <1>8, <1>9 DEF RegistryInv

(* A step that makes no id, class or object. *)
LEMMA TablesKept ==
  ASSUME RegistryInv, call' \in [Threads -> Calls], exportsLeft' \in 0..MaxExports,
         DOMAIN globals' = Names, DOMAIN lexicals' = Names,
         waiting' \in [DOMAIN types -> Hosts \cup {None}],
         script'.thread \in Threads \cup {None},
         script'.thread \in Threads => script'.class \in DOMAIN types,
         ScriptInv', WaitingInv',
         UNCHANGED <<counters, tables, statics, staticProperties, callbacks, objects>>
  PROVE  RegistryInv'
<1>1. Typed'
  <2>1. TypeOK'
    BY DEF RegistryInv, Typed, TypeOK, tables
  <2> QED BY <2>1 DEF RegistryInv, Typed, tables
<1>2. HostsAttachedByExport'
  BY DEF RegistryInv, HostsAttachedByExport
<1>3. (IdsFitMagic => AllFound)'
  BY DEF RegistryInv, IdsFitMagic, AllFound, FoundIn, tables
<1> QED BY <1>1, <1>2, <1>3 DEF RegistryInv

(* A step after which more ids have been given out keeps the ids that fit. *)
LEMMA FitBefore ==
  ASSUME TypeOK, TypeOK', IdsFitMagic',
         counters'.class >= counters.class, counters'.function >= counters.function,
         counters'.method >= counters.method, counters'.property >= counters.property
  PROVE  IdsFitMagic
<1>1. /\ counters'.class <= MagicLimit /\ counters'.function <= MagicLimit
      /\ counters'.method <= MagicLimit /\ counters'.property <= MagicLimit
  BY DEF IdsFitMagic, TypeOK
<1> QED BY <1>1, RegistryAssumption DEF IdsFitMagic, TypeOK

(* export(name:function:) binds a native function. *)
LEMMA DefineFunctionKeeps ==
  ASSUME RegistryInv, NEW t \in Threads, DefineFunction(t)
  PROVE  RegistryInv'
<1> USE RegistryAssumption
<1> DEFINE id == counters.function
           cb == [table |-> "functions", magic |-> Magic(id), def |-> call[t].closure]
<1>1. Typed /\ TypeOK /\ id \in Nat
  BY DEF RegistryInv, Typed, TypeOK
<1>2. /\ counters' = [counters EXCEPT !.function = id + 1]
      /\ functions' = AddExport(functions, id, call[t].closure)
      /\ callbacks' = callbacks \cup {cb}
      /\ DOMAIN globals' = DOMAIN globals
      /\ UNCHANGED <<types, waiting, methodIDs, propertyGetters, propertySetters,
                     statics, staticProperties, lexicals, objects, script, exportsLeft>>
  BY DEF DefineFunction
<1> HIDE DEF id
<1>3. call' \in [Threads -> Calls]
  BY <1>1, CallReturns DEF DefineFunction, Typed
<1>3a. ScriptInv' /\ WaitingInv'
  <2>1. /\ call[t].at # "script" /\ call'[t].at # "script"
        /\ \A u \in Threads \ {t} : call'[u] = call[u]
    BY <1>1, CallReturns DEF DefineFunction, Typed
  <2> QED BY <1>2, <2>1, ScriptGoesOn
<1>4. DOMAIN functions' \subseteq 0..id
  BY <1>1, <1>2 DEF AddExport, TypeOK, id
<1>5. TypeOK'
  BY <1>1, <1>2, <1>3, <1>4 DEF TypeOK, id
<1>6. Typed'
  BY <1>1, <1>2, <1>3, <1>5 DEF Typed
<1>7. HostsAttachedByExport'
  BY <1>2 DEF RegistryInv, HostsAttachedByExport
<1>8. \A c \in callbacks' : c.table \in {"classes", "functions", "methods", "getters", "setters"}
  BY <1>2 DEF RegistryInv
<1>9. ASSUME IdsFitMagic' PROVE AllFound'
  <2>1. IdsFitMagic
    BY <1>1, <1>2, <1>5, <1>9, FitBefore DEF TypeOK, id
  <2>2. AllFound /\ id < MagicLimit
    BY <1>1, <1>2, <1>9, <2>1 DEF RegistryInv, IdsFitMagic, TypeOK, id
  <2>3. FoundIn(callbacks', "functions", functions')
    <3>1. DOMAIN functions \subseteq 0..(id - 1) /\ FoundIn(callbacks, "functions", functions)
      BY <1>1, <2>2 DEF TypeOK, id, AllFound
    <3> QED BY <1>1, <1>2, <2>2, <3>1, AddExportFinds
  <2>4. ASSUME NEW name, NEW table, name # "functions", FoundIn(callbacks, name, table)
        PROVE  FoundIn(callbacks', name, table)
    BY <1>2, <2>4 DEF FoundIn
  <2> QED BY <1>2, <2>2, <2>3, <2>4 DEF AllFound
<1> QED BY <1>3a, <1>6, <1>7, <1>8, <1>9 DEF RegistryInv

(* export(type:) defines a class, its members and its statics. *)
LEMMA DefineTypeKeeps ==
  ASSUME RegistryInv, NEW t \in Threads, DefineType(t)
  PROVE  RegistryInv'
<1> USE RegistryAssumption
<1> DEFINE type == call[t].type
           st   == ExportStatics(statics, StaticMethodsOf[type], type)
           sp   == ExportStatics(staticProperties, StaticPropertiesOf[type], type)
           stDefs == [n \in DOMAIN st |-> <<st[n], n>>]
           spDefs == [n \in DOMAIN sp |-> <<sp[n], n>>]
           mDefs  == [n \in InstanceMethodsOf[type] |-> n]
           M == InstanceMethodsOf[type]
           F == DOMAIN st
           P == DOMAIN sp
           class == counters.class
           method == counters.method
           function == counters.function
           property == counters.property
<1>1. Typed /\ TypeOK /\ call[t].at = "defineType" /\ call[t] \in Calls
  BY DEF RegistryInv, Typed, DefineType
<1>2. type \in Types
  BY <1>1 DEF Calls, Idle, TypeExports
<1>3. class \in Nat /\ method \in Nat /\ function \in Nat /\ property \in Nat
  BY <1>1 DEF TypeOK
<1>4. PICK mo \in Orders(M), fo \in Orders(F), po \in Orders(P) :
        /\ counters' =
             [class    |-> class + 1,
              method   |-> method + Cardinality(DOMAIN mo),
              function |-> function + Cardinality(DOMAIN fo),
              property |-> property + 2 * Cardinality(DOMAIN po)]
        /\ types' = AddExport(types, class, type)
        /\ waiting' = AddExport(waiting, class, None)
        /\ methodIDs' = AddExports(methodIDs, method, 1, mo, mDefs)
        /\ functions' = AddExports(functions, function, 1, fo, stDefs)
        /\ propertyGetters' = AddExports(propertyGetters, property, 2, po, spDefs)
        /\ propertySetters' = AddExports(propertySetters, property + 1, 2, po, spDefs)
        /\ statics' = st
        /\ staticProperties' = sp
        /\ callbacks' = callbacks
             \cup {[table |-> "classes", magic |-> Magic(class), def |-> type]}
             \cup NewCFunctions("methods", method, 1, mo, mDefs)
             \cup NewCFunctions("functions", function, 1, fo, stDefs)
             \cup NewCFunctions("getters", property, 2, po, spDefs)
             \cup NewCFunctions("setters", property + 1, 2, po, spDefs)
        /\ DOMAIN globals' = DOMAIN globals
  BY DEF DefineType
<1>5. UNCHANGED <<lexicals, objects, script, exportsLeft>>
  BY DEF DefineType
<1>6. /\ IsFiniteSet(M) /\ IsFiniteSet(F) /\ IsFiniteSet(P)
      /\ DOMAIN st = F /\ DOMAIN sp = P
  <2>1. IsFiniteSet(M)
    BY <1>2
  <2>2. F = DOMAIN statics \cup StaticMethodsOf[type] /\ P = DOMAIN staticProperties \cup StaticPropertiesOf[type]
    BY DEF ExportStatics
  <2>3. IsFiniteSet(StaticMethodsOf[type]) /\ IsFiniteSet(StaticPropertiesOf[type])
    BY <1>2
  <2> HIDE DEF F, P, st, sp, type
  <2>4. IsFiniteSet(F) /\ IsFiniteSet(P)
    BY <1>1, <2>2, <2>3, FS_Union DEF Typed
  <2> QED BY <2>1, <2>4 DEF F, P
<1> HIDE DEF type, st, sp, stDefs, spDefs, mDefs, M, F, P, class, method, function, property
<1>7. /\ DOMAIN mo = M /\ DOMAIN fo = F /\ DOMAIN po = P
      /\ Cardinality(M) \in Nat /\ Cardinality(F) \in Nat /\ Cardinality(P) \in Nat
  BY <1>6, OrderIsInjective
<1>8. /\ call' \in [Threads -> Calls] /\ call'[t].at # "script"
      /\ \A u \in Threads \ {t} : call'[u] = call[u]
  <2>1. Return(t) \/ (call[t].host # None /\ Goto(t, "attach"))
    BY DEF DefineType, AfterType
  <2> QED BY <1>1, <2>1, CallReturns, CallGoesOn DEF Typed
<1>9. /\ DOMAIN types \subseteq 0..(class - 1)
      /\ DOMAIN methodIDs \subseteq 0..(method - 1)
      /\ DOMAIN functions \subseteq 0..(function - 1)
      /\ DOMAIN propertyGetters \subseteq 0..(property - 1)
      /\ DOMAIN propertySetters \subseteq 0..(property - 1)
      /\ DOMAIN propertySetters \subseteq 0..(property + 1 - 1)
  <2>1. /\ DOMAIN types \subseteq 0..(class - 1)
        /\ DOMAIN methodIDs \subseteq 0..(method - 1)
        /\ DOMAIN functions \subseteq 0..(function - 1)
        /\ DOMAIN propertyGetters \subseteq 0..(property - 1)
        /\ DOMAIN propertySetters \subseteq 0..(property - 1)
    BY <1>1 DEF TypeOK, class, method, function, property
  <2> QED BY <1>3, <2>1
<1>10. /\ DOMAIN methodIDs' \subseteq DOMAIN methodIDs \cup method..(method + 1 * (Cardinality(M) - 1))
       /\ DOMAIN functions' \subseteq DOMAIN functions \cup function..(function + 1 * (Cardinality(F) - 1))
       /\ DOMAIN propertyGetters' \subseteq
            DOMAIN propertyGetters \cup property..(property + 2 * (Cardinality(P) - 1))
       /\ DOMAIN propertySetters' \subseteq
            DOMAIN propertySetters \cup (property + 1)..(property + 1 + 2 * (Cardinality(P) - 1))
  <2>1. property + 1 \in Nat
    BY <1>3
  <2> QED BY <1>3, <1>4, <1>6, <1>9, <2>1, AddExportsFinds
<1>11. TypeOK'
  <2>1. counters' \in [class : Nat, function : Nat, method : Nat, property : Nat]
    BY <1>3, <1>4, <1>7
  <2>2. /\ DOMAIN methodIDs' \subseteq 0..(counters'.method - 1)
        /\ DOMAIN functions' \subseteq 0..(counters'.function - 1)
    BY <1>3, <1>4, <1>7, <1>9, <1>10
  <2>3. /\ DOMAIN propertyGetters' \subseteq 0..(counters'.property - 1)
        /\ DOMAIN propertySetters' \subseteq 0..(counters'.property - 1)
    BY <1>3, <1>4, <1>7, <1>9, <1>10
  <2>4. DOMAIN types' = DOMAIN types \cup {class} /\ DOMAIN types' \subseteq 0..(counters'.class - 1)
    BY <1>3, <1>4, <1>9 DEF AddExport
  <2>5. waiting' \in [DOMAIN types' -> Hosts \cup {None}]
    BY <1>1, <1>4, <2>4 DEF TypeOK, AddExport
  <2> QED BY <1>1, <1>4, <1>5, <1>8, <2>1, <2>2, <2>3, <2>4, <2>5 DEF TypeOK
<1>12. Typed'
  <2>1. \A c \in DOMAIN types' : types'[c] \in Types
    BY <1>1, <1>2, <1>4 DEF Typed, AddExport
  <2>2. objects' = objects
    BY <1>5
  <2>3. IsFiniteSet(DOMAIN statics') /\ IsFiniteSet(DOMAIN staticProperties')
    BY <1>4, <1>6
  <2> QED BY <1>1, <1>8, <1>11, <2>1, <2>2, <2>3 DEF Typed
<1>13. ScriptInv' /\ WaitingInv' /\ HostsAttachedByExport'
  <2>1. HostsAttachedByExport'
    BY <1>5 DEF RegistryInv, HostsAttachedByExport
  <2>2. \A c \in DOMAIN types' : waiting'[c] # None =>
          c \in DOMAIN types /\ waiting'[c] = waiting[c] /\ types'[c] = types[c]
    BY <1>1, <1>4 DEF TypeOK, AddExport
  <2> QED BY <1>1, <1>5, <1>8, <2>1, <2>2, ScriptGoesOn
<1> DEFINE cs == {[table |-> "classes", magic |-> Magic(class), def |-> type]}
           ms == NewCFunctions("methods", method, 1, mo, mDefs)
           fs == NewCFunctions("functions", function, 1, fo, stDefs)
           gs == NewCFunctions("getters", property, 2, po, spDefs)
           ss == NewCFunctions("setters", property + 1, 2, po, spDefs)
<1>14. /\ \A cb \in cs : cb.table = "classes"
       /\ \A cb \in ms : cb.table = "methods"
       /\ \A cb \in fs : cb.table = "functions"
       /\ \A cb \in gs : cb.table = "getters"
       /\ \A cb \in ss : cb.table = "setters"
  BY NewCFunctionsTable
<1>15. callbacks' = callbacks \cup cs \cup ms \cup fs \cup gs \cup ss
  BY <1>4
<1>16. ASSUME IdsFitMagic' PROVE AllFound'
  <2>1. IdsFitMagic
    BY <1>1, <1>3, <1>4, <1>7, <1>11, <1>16, FitBefore DEF class, method, function, property
  <2>2. AllFound
    BY <2>1 DEF RegistryInv
  <2>3. /\ class + 1 <= MagicLimit /\ method + Cardinality(M) <= MagicLimit
        /\ function + Cardinality(F) <= MagicLimit /\ property + 2 * Cardinality(P) <= MagicLimit
    BY <1>4, <1>7, <1>16 DEF IdsFitMagic
  <2>4. /\ class < MagicLimit
        /\ method + 1 * (Cardinality(M) - 1) < MagicLimit
        /\ function + 1 * (Cardinality(F) - 1) < MagicLimit
        /\ property + 2 * (Cardinality(P) - 1) < MagicLimit
        /\ property + 1 + 2 * (Cardinality(P) - 1) < MagicLimit
        /\ property + 1 \in Nat
    BY <1>3, <1>7, <2>3
  <2>5. FoundIn(callbacks \cup cs, "classes", types')
    BY <1>3, <1>4, <1>9, <2>2, <2>4, AddExportFinds DEF AllFound
  <2>6. FoundIn(callbacks \cup ms, "methods", methodIDs')
    BY <1>3, <1>4, <1>6, <1>9, <2>2, <2>4, AddExportsFound DEF AllFound
  <2>7. FoundIn(callbacks \cup fs, "functions", functions')
    BY <1>3, <1>4, <1>6, <1>9, <2>2, <2>4, AddExportsFound DEF AllFound
  <2>8. FoundIn(callbacks \cup gs, "getters", propertyGetters')
    BY <1>3, <1>4, <1>6, <1>9, <2>2, <2>4, AddExportsFound DEF AllFound
  <2>9. FoundIn(callbacks \cup ss, "setters", propertySetters')
    <3> DEFINE second == property + 1
    <3>1. /\ second \in Nat /\ DOMAIN propertySetters \subseteq 0..(second - 1)
          /\ second + 2 * (Cardinality(P) - 1) < MagicLimit
      BY <1>3, <1>7, <1>9, <2>3
    <3>2. /\ propertySetters' = AddExports(propertySetters, second, 2, po, spDefs)
          /\ ss = NewCFunctions("setters", second, 2, po, spDefs)
      BY <1>4
    <3>3. FoundIn(callbacks, "setters", propertySetters)
      BY <2>2 DEF AllFound
    <3> HIDE DEF second, ss
    <3> QED BY <1>6, <3>1, <3>2, <3>3, AddExportsFound
  <2> HIDE DEF cs, ms, fs, gs, ss
  <2> QED BY <1>14, <1>15, <2>5, <2>6, <2>7, <2>8, <2>9 DEF AllFound, FoundIn
<1> HIDE DEF cs, ms, fs, gs, ss
<1>17. \A cb \in callbacks' : cb.table \in {"classes", "functions", "methods", "getters", "setters"}
  BY <1>14, <1>15 DEF RegistryInv
<1> QED BY <1>12, <1>13, <1>16, <1>17 DEF RegistryInv

(* typedConstruct makes an object: a new instance, or the one that waits, which *)
(* must then be of the class and belong to the export whose script runs.       *)
LEMMA ConstructKeeps ==
  ASSUME RegistryInv, NEW class \in DOMAIN types, NEW by \in Hosts \cup {None},
         NEW during \in Hosts \cup {None},
         waiting[class] # None => during = waiting[class] /\ types[class] = HostType[during],
         Construct(class, by, during), UNCHANGED <<statics, staticProperties>>,
         call' \in [Threads -> Calls], exportsLeft' \in 0..MaxExports,
         DOMAIN globals' = Names, DOMAIN lexicals' = Names,
         waiting' \in [DOMAIN types -> Hosts \cup {None}],
         script'.thread \in Threads \cup {None},
         script'.thread \in Threads => script'.class \in DOMAIN types,
         ScriptInv', WaitingInv'
  PROVE  RegistryInv'
<1> USE RegistryAssumption
<1> DEFINE type == types[class]
           o == Len(objects) + 1
           defs == [n \in InstancePropertiesOf[type] |-> <<o, n>>]
           P == InstancePropertiesOf[type]
           property == counters.property
           obj == [type |-> type, instance |-> waiting[class], by |-> by, during |-> during]
           Objects == [type : Types, instance : Hosts \cup {None}, by : Hosts \cup {None},
                       during : Hosts \cup {None}]
<1>1. Typed /\ TypeOK /\ property \in Nat
  BY DEF RegistryInv, Typed, TypeOK
<1>2. IsFiniteSet(P) /\ type \in Types
  BY <1>1 DEF Typed
<1>3. PICK order \in Orders(P) :
        /\ objects' = Append(objects, obj)
        /\ counters' = [counters EXCEPT !.property = property + 2 * Cardinality(DOMAIN order)]
        /\ propertyGetters' = AddExports(propertyGetters, property, 2, order, defs)
        /\ propertySetters' = AddExports(propertySetters, property + 1, 2, order, defs)
        /\ callbacks' = callbacks
             \cup NewCFunctions("getters", property, 2, order, defs)
             \cup NewCFunctions("setters", property + 1, 2, order, defs)
  BY DEF Construct
<1>3a. UNCHANGED <<types, functions, methodIDs>>
  BY DEF Construct
<1> DEFINE second == property + 1
           gs == NewCFunctions("getters", property, 2, order, defs)
           ss == NewCFunctions("setters", second, 2, order, defs)
<1> HIDE DEF type, defs, P, property
<1>4. DOMAIN order = P /\ Cardinality(P) \in Nat
  BY <1>2, OrderIsInjective
<1>5. /\ DOMAIN propertyGetters \subseteq 0..(property - 1)
      /\ DOMAIN propertySetters \subseteq 0..(second - 1) /\ second \in Nat
  BY <1>1 DEF TypeOK, property
<1>6. callbacks' = callbacks \cup gs \cup ss
  BY <1>3
<1>7. propertySetters' = AddExports(propertySetters, second, 2, order, defs)
  BY <1>3
<1> HIDE DEF second
<1>8. /\ DOMAIN propertyGetters' \subseteq
           DOMAIN propertyGetters \cup property..(property + 2 * (Cardinality(P) - 1))
      /\ DOMAIN propertySetters' \subseteq
           DOMAIN propertySetters \cup second..(second + 2 * (Cardinality(P) - 1))
  BY <1>1, <1>2, <1>3, <1>5, <1>7, AddExportsFinds
<1>8a. /\ counters' \in [class : Nat, function : Nat, method : Nat, property : Nat]
       /\ counters'.property = property + 2 * Cardinality(P)
       /\ counters'.class = counters.class /\ counters'.function = counters.function
       /\ counters'.method = counters.method
  <2> DEFINE next == property + 2 * Cardinality(P)
  <2>1. next \in Nat
    BY <1>1, <1>4
  <2>2. counters' = [counters EXCEPT !.property = next]
    BY <1>3, <1>4
  <2> HIDE DEF next
  <2>3. counters \in [class : Nat, function : Nat, method : Nat, property : Nat]
    BY <1>1 DEF TypeOK
  <2>4. counters' \in [class : Nat, function : Nat, method : Nat, property : Nat]
    BY <2>1, <2>2, <2>3
  <2>5. /\ counters'.property = next /\ counters'.class = counters.class
        /\ counters'.function = counters.function /\ counters'.method = counters.method
    BY <2>2, <2>3
  <2> QED BY <2>4, <2>5 DEF next
<1>9. TypeOK'
  <2>1. /\ counters' \in [class : Nat, function : Nat, method : Nat, property : Nat]
        /\ counters'.property = property + 2 * Cardinality(P)
    BY <1>8a
  <2>2. DOMAIN propertyGetters' \subseteq 0..(counters'.property - 1)
    BY <1>1, <1>4, <1>5, <1>8, <2>1 DEF TypeOK
  <2>3. DOMAIN propertySetters' \subseteq 0..(counters'.property - 1)
    BY <1>1, <1>4, <1>5, <1>8, <2>1 DEF TypeOK, second, property
  <2> QED BY <1>1, <1>3a, <1>8a, <2>2, <2>3 DEF TypeOK
<1>10. /\ objects' \in Seq(Objects) /\ Len(objects') = Len(objects) + 1 /\ Len(objects) \in Nat
       /\ \A i \in 1..Len(objects) : objects'[i] = objects[i]
       /\ objects'[Len(objects) + 1] = obj
  <2>1. objects \in Seq(Objects) /\ obj \in Objects
    BY <1>1, <1>2 DEF Typed, TypeOK
  <2> HIDE DEF obj, Objects
  <2> QED BY <1>3, <2>1, AppendProperties, LenProperties
<1>11. Typed'
  BY <1>1, <1>3a, <1>9, <1>10 DEF Typed
<1>12. HostsAttachedByExport'
  <2> SUFFICES ASSUME NEW i \in 1..Len(objects'), objects'[i].instance # None
               PROVE  /\ objects'[i].during = objects'[i].instance
                      /\ objects'[i].type = HostType[objects'[i].instance]
    BY DEF HostsAttachedByExport
  <2>1. CASE i \in 1..Len(objects)
    BY <1>10, <2>1 DEF RegistryInv, HostsAttachedByExport
  <2>2. CASE i = Len(objects) + 1
    BY <1>10, <2>2 DEF type
  <2> QED BY <1>10, <2>1, <2>2
<1>14. (\A cb \in gs : cb.table = "getters") /\ (\A cb \in ss : cb.table = "setters")
  BY NewCFunctionsTable
<1>15. ASSUME IdsFitMagic' PROVE AllFound'
  <2>1. IdsFitMagic
    <3>1. /\ counters'.property >= counters.property /\ counters'.class >= counters.class
          /\ counters'.function >= counters.function /\ counters'.method >= counters.method
      BY <1>1, <1>4, <1>8a DEF property, TypeOK
    <3> QED BY <1>1, <1>9, <1>15, <3>1, FitBefore
  <2>2. AllFound
    BY <2>1 DEF RegistryInv
  <2>3. property + 2 * Cardinality(P) <= MagicLimit
    BY <1>15, <1>8a DEF IdsFitMagic
  <2>4. /\ property + 2 * (Cardinality(P) - 1) < MagicLimit
        /\ second + 2 * (Cardinality(P) - 1) < MagicLimit
    BY <1>1, <1>4, <2>3 DEF second
  <2>5. FoundIn(callbacks \cup gs, "getters", propertyGetters')
    BY <1>1, <1>2, <1>3, <1>5, <2>2, <2>4, AddExportsFound DEF AllFound
  <2>6. FoundIn(callbacks \cup ss, "setters", propertySetters')
    BY <1>2, <1>5, <1>7, <2>2, <2>4, AddExportsFound DEF AllFound
  <2> HIDE DEF gs, ss
  <2> QED BY <1>3a, <1>6, <1>14, <2>2, <2>5, <2>6 DEF AllFound, FoundIn
<1> HIDE DEF gs, ss
<1>16. \A cb \in callbacks' : cb.table \in {"classes", "functions", "methods", "getters", "setters"}
  BY <1>6, <1>14 DEF RegistryInv
<1> QED BY <1>11, <1>12, <1>15, <1>16 DEF RegistryInv

(* export(instance:) puts its instance into a class info of its type, which     *)
(* nobody waits at, and its script begins.                                     *)
LEMMA StartScriptKeeps ==
  ASSUME RegistryInv, NEW t \in Threads, StartScript(t)
  PROVE  RegistryInv'
<1> USE RegistryAssumption
<1>1. /\ Typed /\ TypeOK /\ call[t].at = "attach" /\ script.thread = None
      /\ exportsLeft' \in 0..MaxExports /\ DOMAIN globals' = Names /\ DOMAIN lexicals' = Names
      /\ UNCHANGED <<counters, tables, statics, staticProperties, callbacks, objects>>
  BY DEF StartScript, RegistryInv, Typed, TypeOK, Bind, LockFree
<1>2. \A c \in DOMAIN types : waiting[c] = None
  BY <1>1 DEF RegistryInv, WaitingInv
<1>3. CASE Return(t) /\ UNCHANGED <<waiting, script>>
  <2>1. /\ call' \in [Threads -> Calls] /\ call'[t].at # "script"
        /\ \A u \in Threads \ {t} : call'[u] = call[u]
    BY <1>1, <1>3, CallReturns DEF Typed
  <2>2. ScriptInv' /\ WaitingInv'
    BY <1>1, <1>3, <2>1, ScriptGoesOn DEF tables
  <2> QED BY <1>1, <1>3, <2>1, <2>2, TablesKept DEF TypeOK
<1>4. CASE \E c \in DOMAIN types :
             /\ types[c] = call[t].type /\ waiting' = [waiting EXCEPT ![c] = call[t].host]
             /\ script'.thread = t /\ script'.class = c /\ Goto(t, "script")
  <2>1. PICK c \in DOMAIN types :
             /\ types[c] = call[t].type /\ waiting' = [waiting EXCEPT ![c] = call[t].host]
             /\ script'.thread = t /\ script'.class = c /\ Goto(t, "script")
    BY <1>4
  <2>2. /\ call' \in [Threads -> Calls] /\ call'[t].at = "script"
        /\ call'[t].host = call[t].host /\ call'[t].type = call[t].type
        /\ call[t].host \in Hosts /\ \A u \in Threads \ {t} : call'[u] = call[u]
    BY <1>1, <2>1, CallGoesOn DEF Typed
  <2>3. ScriptInv'
    BY <1>1, <2>1, <2>2 DEF RegistryInv, ScriptInv
  <2>4. waiting' \in [DOMAIN types -> Hosts \cup {None}]
    BY <1>1, <2>1, <2>2 DEF TypeOK
  <2>5. WaitingInv'
    <3>1. types' = types
      BY <1>1 DEF tables
    <3> QED BY <1>1, <1>2, <2>1, <2>2, <3>1 DEF WaitingInv, TypeOK
  <2> QED BY <1>1, <2>1, <2>2, <2>3, <2>4, <2>5, TablesKept
<1> QED BY <1>3, <1>4 DEF StartScript

(* When the script ends, whatever it did, no instance is left waiting, and one  *)
(* that its `new` picks up is of the class it waited at.                       *)
LEMMA EndScriptKeeps ==
  ASSUME RegistryInv, NEW t \in Threads, EndScript(t)
  PROVE  RegistryInv'
<1> USE RegistryAssumption
<1>1. /\ Typed /\ TypeOK /\ call[t].at = "script" /\ script' = NoScript /\ Return(t)
      /\ waiting' = [waiting EXCEPT ![script.class] = None]
      /\ exportsLeft' \in 0..MaxExports /\ DOMAIN globals' = Names
      /\ UNCHANGED <<statics, staticProperties>>
  BY DEF EndScript, RegistryInv, Typed, TypeOK, StopWaiting
<1>2. script.thread = t
  BY <1>1 DEF RegistryInv, ScriptInv
<1>3. call[t].host \in Hosts /\ call[t].type = HostType[call[t].host]
  <2>1. call[t] \in Calls
    BY <1>1 DEF Typed
  <2> QED BY <1>1, <2>1 DEF Calls, Idle, TypeExports
<1>4. /\ call' \in [Threads -> Calls] /\ call'[t].at # "script"
      /\ \A u \in Threads \ {t} : call'[u] = call[u]
  BY <1>1, CallReturns DEF Typed
<1>5. ScriptInv'
  BY <1>1, <1>2, <1>4 DEF RegistryInv, ScriptInv, NoScript
<1>6. /\ waiting' \in [DOMAIN types -> Hosts \cup {None}]
      /\ \A c \in DOMAIN types : waiting'[c] = None
  BY <1>1 DEF TypeOK, RegistryInv, WaitingInv
<1>7. CASE /\ DOMAIN lexicals' = Names
           /\ UNCHANGED <<counters, tables, callbacks, objects>>
  <2>1. WaitingInv'
    BY <1>6, <1>7 DEF WaitingInv, tables
  <2> QED BY <1>1, <1>4, <1>5, <1>6, <1>7, <2>1, TablesKept DEF NoScript
<1>8. CASE \E class \in DOMAIN types :
             Construct(class, call[t].host, call[t].host) /\ DOMAIN lexicals' = Names
  <2>1. PICK class \in DOMAIN types :
          Construct(class, call[t].host, call[t].host) /\ DOMAIN lexicals' = Names
    BY <1>8
  <2>2. WaitingInv'
    BY <1>6, <2>1 DEF WaitingInv, Construct
  <2>3. waiting[class] # None =>
          call[t].host = waiting[class] /\ types[class] = HostType[call[t].host]
    BY <1>2, <1>3 DEF RegistryInv, WaitingInv
  <2> QED BY <1>1, <1>3, <1>4, <1>5, <1>6, <2>1, <2>2, <2>3, ConstructKeeps DEF NoScript
<1>9. \/ NewThrows(script.callee) /\ UNCHANGED <<counters, tables, callbacks, lexicals, objects>>
      \/ LetNew(script.callee, call[t].variable, call[t].host)
  BY DEF EndScript
<1> QED BY <1>1, <1>7, <1>8, <1>9 DEF LetNew, Bind, TypeOK

(* Every closure of every thread preserves the invariant. *)
LEMMA StepRegistry ==
  ASSUME RegistryInv, NEW t \in Threads, Export(t) \/ Script(t)
  PROVE  RegistryInv'
<1> USE RegistryAssumption
<1>1. /\ call \in [Threads -> Calls] /\ exportsLeft \in 0..MaxExports
      /\ DOMAIN globals = Names /\ DOMAIN lexicals = Names /\ TypeOK
      /\ waiting \in [DOMAIN types -> Hosts \cup {None}]
      /\ script.thread \in Threads \cup {None}
      /\ script.thread \in Threads => script.class \in DOMAIN types
      /\ ScriptInv /\ WaitingInv
  BY DEF RegistryInv, Typed, TypeOK
(* Steps of a thread that is not in the script of its export *)
<1>1a. ASSUME call[t].at # "script", call'[t].at # "script", call' \in [Threads -> Calls],
              \A u \in Threads \ {t} : call'[u] = call[u], exportsLeft' \in 0..MaxExports,
              DOMAIN globals' = Names, DOMAIN lexicals' = Names,
              UNCHANGED <<counters, tables, waiting, statics, staticProperties, callbacks,
                          objects, script>>
       PROVE  RegistryInv'
  <2>1. ScriptInv' /\ WaitingInv'
    BY <1>1a, ScriptGoesOn DEF tables
  <2> QED BY <1>1, <1>1a, <2>1, TablesKept
(* Scripts, whatever they are in: only names change *)
<1>1b. ASSUME UNCHANGED <<counters, tables, waiting, statics, staticProperties, callbacks,
                          objects, script, call, exportsLeft>>,
              DOMAIN globals' = Names, DOMAIN lexicals' = Names
       PROVE  RegistryInv'
  <2>1. ScriptInv' /\ WaitingInv'
    BY <1>1, <1>1b DEF ScriptInv, WaitingInv, tables
  <2> QED BY <1>1, <1>1b, <2>1, TablesKept
(* Scripts that construct *)
<1>1c. ASSUME NEW class \in DOMAIN types, NEW during \in Hosts \cup {None},
              Construct(class, None, during),
              waiting[class] # None => during = waiting[class] /\ types[class] = HostType[during],
              UNCHANGED <<waiting, statics, staticProperties, globals, script, call, exportsLeft>>,
              DOMAIN lexicals' = Names
       PROVE  RegistryInv'
  <2>1. types' = types
    BY <1>1c DEF Construct
  <2>2. ScriptInv' /\ WaitingInv'
    BY <1>1, <1>1c, <2>1 DEF ScriptInv, WaitingInv
  <2> QED BY <1>1, <1>1c, <2>2, ConstructKeeps
<1>2. ASSUME NEW c \in Calls, c.at # "script", Begin(t, c) PROVE RegistryInv'
  <2>1. /\ call[t].at # "script" /\ call'[t].at # "script" /\ call' \in [Threads -> Calls]
        /\ \A u \in Threads \ {t} : call'[u] = call[u]
        /\ exportsLeft' \in 0..MaxExports
        /\ UNCHANGED <<counters, tables, waiting, statics, staticProperties, callbacks,
                       globals, lexicals, objects, script>>
    BY <1>1, <1>2 DEF Begin
  <2> QED BY <1>1, <1>1a, <2>1
(* The exports *)
<1>3. CASE ExportFunction(t)
  <2>1. PICK n \in Names, f \in Closures :
          Begin(t, [at |-> "checkFunction", name |-> n, closure |-> f])
    BY <1>3 DEF ExportFunction
  <2>2. [at |-> "checkFunction", name |-> n, closure |-> f] \in Calls
    BY DEF Calls
  <2> QED BY <1>2, <2>1, <2>2
<1>4. CASE ExportType(t)
  <2>1. PICK n \in Names, c \in Types \ {Console} :
          Begin(t, [at |-> "checkType", name |-> n, type |-> c, host |-> None, variable |-> n])
    BY <1>4 DEF ExportType
  <2>2. [at |-> "checkType", name |-> n, type |-> c, host |-> None, variable |-> n] \in Calls
    BY DEF Calls, TypeExports
  <2> QED BY <1>2, <2>1, <2>2
<1>5. CASE ExportInstance(t)
  <2>1. PICK n \in Names, v \in Names, h \in Hosts :
          Begin(t, [at |-> "checkClass", name |-> n, type |-> HostType[h], host |-> h, variable |-> v])
    BY <1>5 DEF ExportInstance
  <2>2. [at |-> "checkClass", name |-> n, type |-> HostType[h], host |-> h, variable |-> v] \in Calls
    BY DEF Calls, TypeExports
  <2> QED BY <1>2, <2>1, <2>2
<1>6. CASE CheckFunction(t) \/ CheckType(t) \/ CheckClass(t)
  <2>1. UNCHANGED <<counters, tables, waiting, statics, staticProperties, callbacks,
                    globals, lexicals, objects, script, exportsLeft>>
    BY <1>6 DEF CheckFunction, CheckType, CheckClass
  <2>2. /\ call[t].at # "script" /\ call'[t].at # "script" /\ call' \in [Threads -> Calls]
        /\ \A u \in Threads \ {t} : call'[u] = call[u]
    <3>1. CASE CheckFunction(t)
      BY <1>1, <3>1, CallReturns, CallGoesOn DEF CheckFunction
    <3>2. CASE CheckType(t)
      BY <1>1, <3>2, CallReturns, CallGoesOn DEF CheckType, AfterType
    <3>3. CASE CheckClass(t)
      BY <1>1, <3>3, CallReturns, CallGoesOn DEF CheckClass
    <3> QED BY <1>6, <3>1, <3>2, <3>3
  <2> QED BY <1>1, <1>1a, <2>1, <2>2
<1>7. CASE DefineFunction(t)
  BY <1>7, DefineFunctionKeeps
<1>8. CASE DefineType(t)
  BY <1>8, DefineTypeKeeps
<1>9. CASE StartScript(t) \/ EndScript(t)
  BY <1>9, StartScriptKeeps, EndScriptKeeps
(* Scripts and setValue *)
<1>10. CASE SetGlobal(t) \/ DeleteGlobal(t)
  <2>1. /\ DOMAIN globals' = DOMAIN globals
        /\ UNCHANGED <<counters, tables, waiting, statics, staticProperties, callbacks,
                       lexicals, objects, script, call, exportsLeft>>
    BY <1>10 DEF SetGlobal, DeleteGlobal
  <2> QED BY <1>1, <1>1b, <2>1
<1>11. ASSUME script.thread = None PROVE \A c \in DOMAIN types : waiting[c] = None
  BY <1>1, <1>11 DEF WaitingInv
<1>12. CASE ScriptLet(t)
  <2>1. /\ UNCHANGED <<waiting, statics, staticProperties, globals, script, call, exportsLeft>>
        /\ script.thread = None
    BY <1>12 DEF ScriptLet, LockFree
  <2>2. PICK n \in Names, v \in Names :
          \/ Bind(v, Data) /\ UNCHANGED <<counters, tables, callbacks, objects>>
          \/ LetNew(Callee(n, v), v, None)
    BY <1>12 DEF ScriptLet
  <2>3. DOMAIN lexicals' = Names
    BY <1>1, <2>2 DEF LetNew, Bind
  <2>4. CASE UNCHANGED <<counters, tables, callbacks, objects>>
    BY <1>1, <1>1b, <2>1, <2>3, <2>4
  <2>5. CASE \E class \in DOMAIN types : Construct(class, None, None)
    BY <1>1c, <1>11, <2>1, <2>3, <2>5
  <2> QED BY <2>2, <2>4, <2>5 DEF LetNew
<1>13. CASE ScriptNew(t)
  <2> DEFINE during == IF call[t].at = "script" THEN call[t].host ELSE None
  <2>1. /\ UNCHANGED <<waiting, statics, staticProperties, globals, lexicals, script, call,
                       exportsLeft>>
        /\ RunsScript(t)
    BY <1>13 DEF ScriptNew
  <2>2. PICK class \in DOMAIN types : Construct(class, None, during)
    BY <1>13 DEF ScriptNew
  <2>3. CASE call[t].at = "script"
    <3>1. call[t].host \in Hosts /\ call[t].type = HostType[call[t].host]
      <4>1. call[t] \in Calls
        BY <1>1
      <4> QED BY <2>3, <4>1 DEF Calls, Idle, TypeExports
    <3>2. waiting[class] # None =>
            call[t].host = waiting[class] /\ types[class] = HostType[call[t].host]
      BY <1>1, <2>3, <3>1 DEF ScriptInv, WaitingInv
    <3> QED BY <1>1, <1>1c, <2>1, <2>2, <2>3, <3>1, <3>2
  <2>4. CASE call[t].at # "script"
    <3>1. script.thread = None
      BY <2>1, <2>4 DEF RunsScript, LockFree
    <3> QED BY <1>1, <1>1c, <1>11, <2>1, <2>2, <2>4, <3>1
  <2> QED BY <2>3, <2>4
<1> QED BY <1>3, <1>4, <1>5, <1>6, <1>7, <1>8, <1>9, <1>10, <1>12, <1>13 DEF Export, Script

(* RegistryInv holds of every reachable state of an open engine. *)
THEOREM RegistryInvariance == Spec => []RegistryInv
<1>1. RegistryInv /\ [Next]_vars => RegistryInv'
  <2> SUFFICES ASSUME RegistryInv, [Next]_vars PROVE RegistryInv'
    OBVIOUS
  <2>1. CASE UNCHANGED vars
    <3>1. /\ call' \in [Threads -> Calls] /\ exportsLeft' \in 0..MaxExports
          /\ DOMAIN globals' = Names /\ DOMAIN lexicals' = Names
          /\ waiting' \in [DOMAIN types -> Hosts \cup {None}]
          /\ script'.thread \in Threads \cup {None}
          /\ script'.thread \in Threads => script'.class \in DOMAIN types
          /\ UNCHANGED <<counters, tables, statics, staticProperties, callbacks, objects>>
      BY <2>1 DEF vars, tables, RegistryInv, Typed, TypeOK
    <3>2. ScriptInv' /\ WaitingInv'
      BY <2>1 DEF vars, RegistryInv, ScriptInv, WaitingInv
    <3> QED BY <3>1, <3>2, TablesKept
  <2>2. CASE Next
    BY <2>2, StepRegistry DEF Next
  <2> QED BY <2>1, <2>2
<1> QED BY <1>1, InitRegistry, PTL DEF Spec

(* Ids are given out once: none that is about to be is in a table. *)
THEOREM IdsAreFresh == Spec => []TypeOK
<1>1. RegistryInv => TypeOK
  BY DEF RegistryInv, Typed
<1> QED BY <1>1, RegistryInvariance, PTL

(* As long as the ids fit in magic, every native function finds the export it  *)
(* was made for, whatever threads and scripts did since.                      *)
THEOREM CallbacksAlwaysFind == Spec => []CallbacksFindTheirExport
<1>1. RegistryInv => CallbacksFindTheirExport
  BY DEF RegistryInv, CallbacksFindTheirExport, AllFound, FoundIn, Finds, Table
<1> QED BY <1>1, RegistryInvariance, PTL

(* An instance of the host is behind objects of its own type that were made    *)
(* while the script of its own export ran (export(instance:) and             *)
(* typedConstruct), whatever JavaScript that script called.                   *)
THEOREM HostsStayWithTheirExport == Spec => []HostsAttachedByExport
<1>1. RegistryInv => HostsAttachedByExport
  BY DEF RegistryInv
<1> QED BY <1>1, RegistryInvariance, PTL
=============================================================================
