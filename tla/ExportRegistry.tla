--------------------------- MODULE ExportRegistry ---------------------------
(***************************************************************************)
(* What an open JSEngine exports: ids, the tables of JSContext, the class   *)
(* infos, the names bound in JavaScript and the native instances behind its *)
(* objects, with several threads exporting at a time (release build).       *)
(*                                                                          *)
(* A step is one performThreadSafe closure: executionLock makes it atomic.  *)
(* An export takes several, first to ask whether the name is taken and then *)
(* to bind it; other threads' closures may run between them.  The closure of *)
(* export(instance:) is several steps, since the script it evaluates may run *)
(* any JavaScript: `script` is that script, and no other thread gets the lock *)
(* meanwhile.  Bound: native functions that JavaScript calls do not export.  *)
(*                                                                          *)
(* QuickJS keeps the id of a native function as its magic, a 16-bit field,  *)
(* and passes it to the callback, which looks the export up by it.          *)
(***************************************************************************)
EXTENDS Integers, FiniteSets, Sequences

CONSTANTS
  Threads,
  Names,          \* names in the global scope: classes, functions, variables
  Closures,       \* native functions the host exports
  Types,          \* the subclasses of JSExport
  Console,        \* ConsoleJS, exported by JSEngine.init ...
  ConsoleName,    \* ... as console
  Hosts, HostType,       \* JSExport instances made by the host, and their types
  StaticMethodsOf,       \* what staticInit of each type exports
  StaticPropertiesOf,
  InstanceMethodsOf,     \* what init of each type exports
  InstancePropertiesOf,
  None,           \* no binding, no instance, nothing found
  MagicLimit,     \* 2^15: magic is an int16_t
  UsedProperties, \* property ids given to objects that are gone
  MaxExports, MaxObjects  \* bounds: exports begun; objects, for scripts to make one

ASSUME RegistryAssumption ==
  /\ MagicLimit \in Nat \ {0}
  /\ UsedProperties \in Nat
  /\ MaxExports \in Nat /\ MaxObjects \in Nat
  /\ Console \in Types /\ ConsoleName \in Names
  /\ HostType \in [Hosts -> Types]
  /\ None \notin Hosts \cup Types \cup Threads
  /\ \A c \in Types : /\ IsFiniteSet(StaticMethodsOf[c]) /\ IsFiniteSet(StaticPropertiesOf[c])
                      /\ IsFiniteSet(InstanceMethodsOf[c]) /\ IsFiniteSet(InstancePropertiesOf[c])

VARIABLES
  counters,   \* classCounter, functionCounter, methodCounter, propertyCounter
  types,      \* JSContext.classes: the type of each JSClassInfo ...
  waiting,    \* ... and its waitingToAttach
  functions, methodIDs, propertyGetters, propertySetters,
  statics, staticProperties, \* JSExport's static tables, of the process
  callbacks,  \* the native functions made in QuickJS: table, magic, meaning
  globals,    \* properties of the global object
  lexicals,   \* top-level let bindings
  objects,    \* the objects typedConstruct made: type, native instance, the
              \* instance whose export made it, None for a script, and the
              \* instance during the script of whose export it was made
  script,     \* the script of export(instance:) that runs: its thread, the
              \* class info where the instance waits, the value after `new`
  call,       \* the export each thread is in
  exportsLeft

tables   == <<types, functions, methodIDs, propertyGetters, propertySetters>>
vars     == <<counters, types, waiting, functions, methodIDs, propertyGetters,
              propertySetters, statics, staticProperties, callbacks, globals,
              lexicals, objects, script, call, exportsLeft>>

Idle     == [at |-> "idle"]
NoScript == [thread |-> None, class |-> 0, callee |-> None]

-----------------------------------------------------------------------------
(* What the callback is given when the function was made with this id. *)
Magic(id) ==
  LET m == id % (2 * MagicLimit)
  IN  IF m < MagicLimit THEN m ELSE m - 2 * MagicLimit

(* addExport: the first entry under an id stays. *)
AddExport(table, id, value) ==
  [i \in DOMAIN table \cup {id} |-> IF i \in DOMAIN table THEN table[i] ELSE value]

(* Swift iterates over a dictionary in no particular order. *)
Orders(S) ==
  {f \in [S -> 0..(Cardinality(S) - 1)] : \A x, y \in S : f[x] = f[y] => x = y}

(* Mutant: the ids of the getters and setters overlap. *)
AddExportsAgain(table, first, step, order, value) ==
  LET ids == {first - 1 + step * order[n] : n \in DOMAIN order}
  IN  [i \in DOMAIN table \cup ids |->
         IF i \in DOMAIN table THEN table[i]
         ELSE value[CHOOSE n \in DOMAIN order : first - 1 + step * order[n] = i]]

(* One addExport for each entry of a dictionary: ids first, first + step ... *)
AddExports(table, first, step, order, value) ==
  LET ids == {first + step * order[n] : n \in DOMAIN order}
  IN  [i \in DOMAIN table \cup ids |->
         IF i \in DOMAIN table THEN table[i]
         ELSE value[CHOOSE n \in DOMAIN order : first + step * order[n] = i]]

(* JS_NewCFunctionMagic for each of them. *)
NewCFunctions(table, first, step, order, value) ==
  {[table |-> table, magic |-> Magic(first + step * order[n]), def |-> value[n]]
     : n \in DOMAIN order}

(* exportMethod, exportProperty on a type: the tables are JSExport's own, so  *)
(* all types share them, and the first export of a name stays.                *)
ExportStatics(table, names, type) ==
  [n \in DOMAIN table \cup names |-> IF n \in DOMAIN table THEN table[n] ELSE type]

Function(id)          == [kind |-> "function", magic |-> Magic(id)]
Constructor(id, st, sp) ==
  [kind |-> "constructor", magic |-> Magic(id), methods |-> st, properties |-> sp]
Data                  == [kind |-> "data"]   \* no constructor: an object, undefined, a
                                             \* let that is not initialized (yet)
Scripted              == [kind |-> "script"] \* what scripts define: data, functions, classes

(* globalRef.hasProperty(name): lexical bindings are not properties. *)
IsExported(name) == globals[name] # None

(* What a script means by the name. *)
Resolve(name) == IF lexicals[name] # None THEN lexicals[name] ELSE globals[name]

-----------------------------------------------------------------------------
(* After JSEngine.init: the console is class 0, with its static methods. *)
Init ==
  /\ \E order \in Orders(StaticMethodsOf[Console]) :
       LET defs == [n \in StaticMethodsOf[Console] |-> <<Console, n>>] IN
       /\ counters = [class |-> 1,
                      function |-> Cardinality(StaticMethodsOf[Console]),
                      method |-> 0, property |-> UsedProperties]
       /\ functions = AddExports([i \in {} |-> None], 0, 1, order, defs)
       /\ callbacks = NewCFunctions("functions", 0, 1, order, defs)
                        \cup {[table |-> "classes", magic |-> 0, def |-> Console]}
  /\ types = [i \in {0} |-> Console]
  /\ waiting = [i \in {0} |-> None]
  /\ methodIDs = [i \in {} |-> None]
  /\ propertyGetters = [i \in {} |-> None]
  /\ propertySetters = [i \in {} |-> None]
  /\ statics = [n \in StaticMethodsOf[Console] |-> Console]
  /\ staticProperties = [n \in {} |-> None]
  /\ globals = [n \in Names |->
       IF n = ConsoleName THEN Constructor(0, statics, staticProperties) ELSE None]
  /\ lexicals = [n \in Names |-> None]
  /\ objects = <<>>
  /\ script = NoScript
  /\ call = [t \in Threads |-> Idle]
  /\ exportsLeft = MaxExports

Begin(t, c) ==
  /\ call[t].at = "idle"
  /\ exportsLeft > 0
  /\ exportsLeft' = exportsLeft - 1
  /\ call' = [call EXCEPT ![t] = c]
  /\ UNCHANGED <<counters, tables, waiting, statics, staticProperties, callbacks,
                 globals, lexicals, objects, script>>

(* executionLock: the script of an export holds it to its end. *)
LockFree == script.thread = None

Goto(t, at) == call' = [call EXCEPT ![t].at = at]
Return(t)   == call' = [call EXCEPT ![t] = Idle]

-----------------------------------------------------------------------------
(* export(name:function:) *)
ExportFunction(t) ==
  \E n \in Names, f \in Closures :
    Begin(t, [at |-> "checkFunction", name |-> n, closure |-> f])

(* Mutant: the name is not asked for. *)
SkipCheckFunction(t) ==
  /\ call[t].at = "checkFunction" /\ LockFree
  /\ Goto(t, "defineFunction")
  /\ UNCHANGED <<counters, tables, waiting, statics, staticProperties, callbacks,
                 globals, lexicals, objects, script, exportsLeft>>

CheckFunction(t) ==
  /\ call[t].at = "checkFunction" /\ LockFree
  /\ IF IsExported(call[t].name) THEN Return(t) ELSE Goto(t, "defineFunction")
  /\ UNCHANGED <<counters, tables, waiting, statics, staticProperties, callbacks,
                 globals, lexicals, objects, script, exportsLeft>>

DefineFunction(t) ==
  /\ call[t].at = "defineFunction" /\ LockFree
  /\ LET id == counters.function IN
     /\ counters' = [counters EXCEPT !.function = @ + 1]
     /\ functions' = AddExport(functions, id, call[t].closure)
     /\ callbacks' = callbacks \cup
          {[table |-> "functions", magic |-> Magic(id), def |-> call[t].closure]}
     /\ globals' = [globals EXCEPT ![call[t].name] = Function(id)]
  /\ Return(t)
  /\ UNCHANGED <<types, waiting, methodIDs, propertyGetters, propertySetters,
                 statics, staticProperties, lexicals, objects, script, exportsLeft>>

-----------------------------------------------------------------------------
(* export(type:className:), on its own or for export(instance:). *)
ExportType(t) ==
  \E n \in Names, c \in Types \ {Console} :
    Begin(t, [at |-> "checkType", name |-> n, type |-> c, host |-> None,
              variable |-> n])

AfterType(t) == IF call[t].host = None THEN Return(t) ELSE Goto(t, "attach")

CheckType(t) ==
  /\ call[t].at = "checkType" /\ LockFree
  /\ IF IsExported(call[t].name) THEN AfterType(t) ELSE Goto(t, "defineType")
  /\ UNCHANGED <<counters, tables, waiting, statics, staticProperties, callbacks,
                 globals, lexicals, objects, script, exportsLeft>>

(* The class info, the constructor, the instance methods on its prototype,    *)
(* staticInit, and everything in the static tables on the constructor.        *)
DefineType(t) ==
  /\ call[t].at = "defineType" /\ LockFree
  /\ LET type == call[t].type
         st   == ExportStatics(statics, StaticMethodsOf[type], type)
         sp   == ExportStatics(staticProperties, StaticPropertiesOf[type], type)
         stDefs == [n \in DOMAIN st |-> <<st[n], n>>]
         spDefs == [n \in DOMAIN sp |-> <<sp[n], n>>]
         mDefs  == [n \in InstanceMethodsOf[type] |-> n]
         class  == counters.class
     IN \E mo \in Orders(InstanceMethodsOf[type]), fo \in Orders(DOMAIN st),
           po \in Orders(DOMAIN sp) :
        /\ counters' =
             [class    |-> class + 1,
              method   |-> counters.method + Cardinality(DOMAIN mo),
              function |-> counters.function + Cardinality(DOMAIN fo),
              property |-> counters.property + 2 * Cardinality(DOMAIN po)]
        /\ types' = AddExport(types, class, type)
        /\ waiting' = AddExport(waiting, class, None)
        /\ methodIDs' = AddExports(methodIDs, counters.method, 1, mo, mDefs)
        /\ functions' = AddExports(functions, counters.function, 1, fo, stDefs)
        /\ propertyGetters' =
             AddExports(propertyGetters, counters.property, 2, po, spDefs)
        /\ propertySetters' =
             AddExports(propertySetters, counters.property + 1, 2, po, spDefs)
        /\ statics' = st
        /\ staticProperties' = sp
        /\ callbacks' = callbacks
             \cup {[table |-> "classes", magic |-> Magic(class), def |-> type]}
             \cup NewCFunctions("methods", counters.method, 1, mo, mDefs)
             \cup NewCFunctions("functions", counters.function, 1, fo, stDefs)
             \cup NewCFunctions("getters", counters.property, 2, po, spDefs)
             \cup NewCFunctions("setters", counters.property + 1, 2, po, spDefs)
        /\ globals' =
             [globals EXCEPT ![call[t].name] = Constructor(class, st, sp)]
  /\ AfterType(t)
  /\ UNCHANGED <<lexicals, objects, script, exportsLeft>>

-----------------------------------------------------------------------------
(* export(instance:className:as:) *)
ExportInstance(t) ==
  \E n \in Names, v \in Names, h \in Hosts :
    Begin(t, [at |-> "checkClass", name |-> n, type |-> HostType[h], host |-> h,
              variable |-> v])

CheckClass(t) ==
  /\ call[t].at = "checkClass" /\ LockFree
  /\ Goto(t, IF IsExported(call[t].name) THEN "attach" ELSE "checkType")
  /\ UNCHANGED <<counters, tables, waiting, statics, staticProperties, callbacks,
                 globals, lexicals, objects, script, exportsLeft>>

(* typedConstruct found its class: the object gets the instance that waits,    *)
(* or a new one, and a getter and a setter for each property of the instance.  *)
Construct(class, by, during) ==
  LET type == types[class]
      o    == Len(objects) + 1
      defs == [n \in InstancePropertiesOf[type] |-> <<o, n>>]
  IN \E order \in Orders(InstancePropertiesOf[type]) :
     /\ objects' = Append(objects, [type |-> type, instance |-> waiting[class],
                                    by |-> by, during |-> during])
     /\ counters' = [counters EXCEPT !.property = @ + 2 * Cardinality(DOMAIN order)]
     /\ propertyGetters' =
          AddExports(propertyGetters, counters.property, 2, order, defs)
     /\ propertySetters' =
          AddExports(propertySetters, counters.property + 1, 2, order, defs)
     /\ callbacks' = callbacks
          \cup NewCFunctions("getters", counters.property, 2, order, defs)
          \cup NewCFunctions("setters", counters.property + 1, 2, order, defs)
     /\ UNCHANGED <<types, functions, methodIDs>>

(* let variable = new name().  A let cannot be declared twice, it hides the     *)
(* name from its own initializer, and if that throws it can never be           *)
(* initialized.                                                                *)
Redeclares(variable) == lexicals[variable] # None

Callee(name, variable) == IF name = variable THEN Data ELSE Resolve(name)

Bind(variable, value) == lexicals' = [lexicals EXCEPT ![variable] = value]

IsConstructor(callee) == callee # None /\ callee.kind = "constructor"
IsScripted(callee)    == callee # None /\ callee.kind = "script"

(* Only constructors can be constructed; construct(args:), which is called for  *)
(* new instances only, and scripts may throw.                                  *)
NewThrows(callee) ==
  IsConstructor(callee) =>
    callee.magic \in DOMAIN types /\ waiting[callee.magic] = None

(* The variable is bound: to the object, to undefined if typedConstruct finds   *)
(* no class under its magic, and to what a script's constructor returns, which *)
(* may be any object there is.                                                 *)
LetNew(callee, variable, by) ==
  \/ /\ IsConstructor(callee)
     /\ callee.magic \in DOMAIN types
     /\ Construct(callee.magic, by, by)
     /\ Bind(variable, Data)
  \/ /\ IsConstructor(callee)
     /\ callee.magic \notin DOMAIN types
     /\ Bind(variable, Data)
     /\ UNCHANGED <<counters, tables, callbacks, objects>>
  \/ /\ IsScripted(callee)
     /\ \E value \in {Data, Scripted} : Bind(variable, value)
     /\ UNCHANGED <<counters, tables, callbacks, objects>>

(* The closure of export(instance:) begins: the instance waits at a class info *)
(* of its type, and the script declares its variable.                          *)
StartScript(t) ==
  /\ call[t].at = "attach" /\ LockFree
  /\ LET variable == call[t].variable
         found    == {c \in DOMAIN types : types[c] = call[t].type}
     IN \/ /\ found = {}
           /\ Return(t)
           /\ UNCHANGED <<waiting, lexicals, script>>
        \/ \E c \in found :
             /\ waiting' = [waiting EXCEPT ![c] = call[t].host]
             /\ script' = [thread |-> t, class |-> c,
                           callee |-> IF Redeclares(variable) THEN None
                                      ELSE Callee(call[t].name, variable)]
             /\ IF Redeclares(variable) THEN UNCHANGED lexicals
                                        ELSE Bind(variable, Data)
             /\ Goto(t, "script")
  /\ UNCHANGED <<counters, tables, statics, staticProperties, callbacks, globals,
                 objects, exportsLeft>>

(* Mutant: the instance is left waiting. *)
StaysWaiting(waits, class) == waits

(* classInfo.waitingToAttach = nil, whatever the script did. *)
StopWaiting(waits, class) == [waits EXCEPT ![class] = None]

EndScript(t) ==
  /\ call[t].at = "script"
  /\ \/ /\ NewThrows(script.callee)
        /\ UNCHANGED <<counters, tables, callbacks, lexicals, objects>>
     \/ LetNew(script.callee, call[t].variable, call[t].host)
  /\ waiting' = StopWaiting(waiting, script.class)
  /\ script' = NoScript
  /\ Return(t)
  /\ UNCHANGED <<statics, staticProperties, globals, exportsLeft>>

-----------------------------------------------------------------------------
(* Scripts and setValue, on any thread that is not in an export, and the        *)
(* JavaScript that the script of an export runs: a constructor that a script    *)
(* defined, or an accessor on a prototype.                                     *)
ScriptLet(t) ==
  /\ call[t].at = "idle" /\ LockFree
  /\ \E n, v \in Names :
       /\ ~Redeclares(v)
       /\ \/ /\ NewThrows(Callee(n, v))
             /\ Bind(v, Data)
             /\ UNCHANGED <<counters, tables, callbacks, objects>>
          \/ Len(objects) < MaxObjects /\ LetNew(Callee(n, v), v, None)
  /\ UNCHANGED <<waiting, statics, staticProperties, globals, script, call, exportsLeft>>

RunsScript(t) ==
  \/ call[t].at = "idle" /\ LockFree
  \/ call[t].at = "script" /\ (IsConstructor(script.callee) \/ IsScripted(script.callee))

(* new C() for any constructor that the script has got hold of. *)
ScriptNew(t) ==
  /\ RunsScript(t)
  /\ Len(objects) < MaxObjects
  /\ \E class \in DOMAIN types :
       /\ Magic(class) \in DOMAIN types
       /\ Construct(Magic(class), None, IF call[t].at = "script" THEN call[t].host ELSE None)
  /\ UNCHANGED <<waiting, statics, staticProperties, globals, lexicals, script, call,
                 exportsLeft>>

SetGlobal(t) ==
  /\ RunsScript(t)
  /\ \E n \in Names : globals' = [globals EXCEPT ![n] = Scripted]
  /\ UNCHANGED <<counters, tables, waiting, statics, staticProperties, callbacks,
                 lexicals, objects, script, call, exportsLeft>>

DeleteGlobal(t) ==
  /\ RunsScript(t)
  /\ \E n \in Names : globals' = [globals EXCEPT ![n] = None]
  /\ UNCHANGED <<counters, tables, waiting, statics, staticProperties, callbacks,
                 lexicals, objects, script, call, exportsLeft>>

Export(t) ==
  \/ ExportFunction(t) \/ CheckFunction(t) \/ DefineFunction(t)
  \/ ExportType(t) \/ CheckType(t) \/ DefineType(t)
  \/ ExportInstance(t) \/ CheckClass(t)
  \/ StartScript(t) \/ EndScript(t)

Script(t) == ScriptLet(t) \/ ScriptNew(t) \/ SetGlobal(t) \/ DeleteGlobal(t)

Next == \E t \in Threads : Export(t) \/ Script(t)

Spec == Init /\ [][Next]_vars

-----------------------------------------------------------------------------
(* Properties.                                                              *)

(* Types, and every id in a table was given out by its counter: an id that is *)
(* about to be given out is in no table (newContextClassID and its sisters,   *)
(* Context.swift:83).                                                         *)
TypeOK ==
  /\ counters \in [class : Nat, function : Nat, method : Nat, property : Nat]
  /\ DOMAIN types \subseteq 0..(counters.class - 1)
  /\ DOMAIN functions \subseteq 0..(counters.function - 1)
  /\ DOMAIN methodIDs \subseteq 0..(counters.method - 1)
  /\ DOMAIN propertyGetters \subseteq 0..(counters.property - 1)
  /\ DOMAIN propertySetters \subseteq 0..(counters.property - 1)
  /\ waiting \in [DOMAIN types -> Hosts \cup {None}]
  /\ DOMAIN globals = Names /\ DOMAIN lexicals = Names
  /\ DOMAIN call = Threads
  /\ script.thread \in Threads \cup {None}
  /\ script.thread \in Threads => script.class \in DOMAIN types
  /\ exportsLeft \in 0..MaxExports

Table(name) ==
  CASE name = "classes"   -> types
    [] name = "functions" -> functions
    [] name = "methods"   -> methodIDs
    [] name = "getters"   -> propertyGetters
    [] name = "setters"   -> propertySetters

(* findExport with the function's magic gives what it was made for. *)
Finds(callback) ==
  /\ callback.magic \in DOMAIN Table(callback.table)
  /\ Table(callback.table)[callback.magic] = callback.def

(* The ids given out so far fit in magic. *)
IdsFitMagic == \A k \in DOMAIN counters : counters[k] <= MagicLimit

(* Every native function in QuickJS finds the export it was made for,         *)
(* whatever else was exported, constructed, replaced or deleted since, by     *)
(* whichever thread (Callbacks.swift, findExport in Context.swift:127).       *)
CallbacksFindTheirExport == IdsFitMagic => \A cb \in callbacks : Finds(cb)

(* An instance the host exports gets behind objects of its own type only, and  *)
(* only behind ones made while the script of its own export runs, by that      *)
(* script's `new` or by JavaScript that it calls: no later script picks it up, *)
(* not even after an export that failed, nor does the script of another        *)
(* instance's export (waitingToAttach, Engine.swift:182, Callbacks.swift:49).  *)
HostsAttachedByExport ==
  \A o \in 1..Len(objects) :
    objects[o].instance # None =>
      /\ objects[o].during = objects[o].instance
      /\ objects[o].type = HostType[objects[o].instance]

(* "Something named `name` already exists!" (Engine.swift:148, 200): an        *)
(* export never takes a name that something has.                              *)
ExportNeverReplaces ==
  [][\A n \in Names :
       (globals[n] # None /\ globals'[n] # globals[n])
         => globals'[n] \in {None, Scripted}]_vars

(* testExportInstance (SubstrataTests.swift:203): the object that              *)
(* export(instance:) returns is backed by the instance it was given.          *)
ExportedInstanceIsAttached ==
  \A o \in 1..Len(objects) :
    objects[o].by # None => objects[o].instance = objects[o].by

(* "statics get set up on the *constructor* itself." (Engine.swift:265): a    *)
(* constructor has the statics of its own type.                               *)
StaticsAreOwn ==
  \A n \in Names :
    (globals[n] # None /\ globals[n].kind = "constructor") =>
      \A m \in DOMAIN globals[n].methods :
        globals[n].methods[m] = types[globals[n].magic]

(* testInstanceProperties (SubstrataTests.swift:242): an object's property     *)
(* answers with its instance's value, however many objects came before.       *)
AccessorsFindTheirExport ==
  \A cb \in callbacks : cb.table \in {"getters", "setters"} => Finds(cb)

-----------------------------------------------------------------------------
(* The inductive invariant that ExportRegistryProofs proves.                *)

TypeExports ==
  [at : {"checkType", "defineType", "checkClass", "attach", "script"}, name : Names,
   type : Types, host : Hosts \cup {None}, variable : Names]

Calls ==
  {Idle}
  \cup [at : {"checkFunction", "defineFunction"}, name : Names, closure : Closures]
  \cup {c \in TypeExports :
          IF c.host = None THEN c.at \in {"checkType", "defineType"}
          ELSE c.type = HostType[c.host]}

Typed ==
  /\ TypeOK
  /\ \A c \in DOMAIN types : types[c] \in Types
  /\ IsFiniteSet(DOMAIN statics) /\ IsFiniteSet(DOMAIN staticProperties)
  /\ objects \in Seq([type : Types, instance : Hosts \cup {None}, by : Hosts \cup {None},
                      during : Hosts \cup {None}])
  /\ call \in [Threads -> Calls]

(* The script that runs is the one of the thread that is there. *)
ScriptInv == \A t \in Threads : call[t].at = "script" <=> script.thread = t

(* An instance waits only while the script of its export runs, at a class of    *)
(* its type.                                                                   *)
WaitingInv ==
  \A c \in DOMAIN types : waiting[c] # None =>
    /\ script.thread \in Threads /\ script.class = c
    /\ waiting[c] = call[script.thread].host
    /\ types[c] = call[script.thread].type

FoundIn(cbs, name, table) ==
  \A cb \in cbs : cb.table = name =>
    cb.magic \in DOMAIN table /\ table[cb.magic] = cb.def

AllFound ==
  /\ FoundIn(callbacks, "classes", types)
  /\ FoundIn(callbacks, "functions", functions)
  /\ FoundIn(callbacks, "methods", methodIDs)
  /\ FoundIn(callbacks, "getters", propertyGetters)
  /\ FoundIn(callbacks, "setters", propertySetters)

RegistryInv ==
  /\ Typed /\ ScriptInv /\ WaitingInv /\ HostsAttachedByExport
  /\ \A cb \in callbacks : cb.table \in {"classes", "functions", "methods", "getters", "setters"}
  /\ IdsFitMagic => AllFound
=============================================================================
