------------------------------ MODULE KeyPaths ------------------------------
(***************************************************************************)
(* value(for:) and setValue(_:for:) of JSEngine, JSDataBridge and JSClass: *)
(* reading and writing JavaScript by key path, beside scripts that bind    *)
(* names and build objects, cyclic ones included.                          *)
(*                                                                         *)
(* A path is the sequence of its components.  Names are resolved as the    *)
(* engine does: a let or class of the script first, then a property of the *)
(* global object.  A component that is not an identifier ("0") is a syntax *)
(* error to JS_Eval, and an ordinary property name to JS_SetPropertyStr.   *)
(* The inputs are CONSTANTS: Paths, BridgePaths (the keys given to the data*)
(* bridge), Natives (Swift values that are no wrappers), Literals (values  *)
(* that scripts assign) and Keys (properties that scripts assign).         *)
(* MaxScripts and MaxSets bound how often scripts and the host write.      *)
(* Bounds: neither scripts nor the host set a property of a constructor of *)
(* the language, so "constructor" is at most the last component of a path; *)
(* no path names what only a prototype has, beside that.                   *)
(***************************************************************************)
EXTENDS Conversion

CONSTANTS Names, Paths, BridgePaths, Natives, Literals, Keys,
          MaxScripts, MaxSets

DataBridge == "dataBridge"

ASSUME PathAssumption ==
  /\ DataBridge \in Names
  /\ \A p \in Paths : p # <<>> /\ Head(p) \in Names /\ "constructor" \notin Range(Front(p))
  /\ \A p \in BridgePaths : p # <<>> /\ "constructor" \notin Range(Front(p))
  /\ {MaxScripts, MaxSets} \subseteq Nat

VARIABLES
  heap,      \* the objects
  lexical,   \* names declared by let, with their values
  global,    \* properties of the global object
  process,   \* "running", or "stopped" by a trap
  last,      \* what the host has just written, where, and to which object
  scripts, sets

vars == <<heap, lexical, global, process, last, scripts, sets>>

Nothing == [place |-> <<"nowhere", 0>>, base |-> Undefined, value |-> Nil]

\* JSEngine.init attaches the bridge: var dataBridge = {};
Init ==
  LET bridge == NewObjectOf("Object", [o \in Objects |-> Free]) IN
  /\ heap = bridge.heap
  /\ lexical = <<>>
  /\ global = [n \in {DataBridge} |-> bridge.value]
  /\ process = "running"
  /\ last = Nothing
  /\ scripts = 0 /\ sets = 0

Bind(f, n, v) == [m \in DOMAIN f \cup {n} |-> IF m = n THEN v ELSE f[m]]

-----------------------------------------------------------------------------
(* Paths.                                                                  *)

IsIdentifier(component) == component # "0"

\* A name as JS_Eval resolves it; ReferenceError if it is nowhere.
Resolve(n) ==
  CASE n \in DOMAIN lexical -> lexical[n]
    [] n \in DOMAIN global -> global[n]
    [] OTHER -> Exception

\* JS_Eval of a dotted path.
Evaluate(p) ==
  IF \A i \in DOMAIN p : IsIdentifier(p[i])
  THEN FoldLeft(LAMBDA v, k : GetProperty(v, k, heap), Resolve(Head(p)), Tail(p))
  ELSE Exception

\* JSEngine.value(for:)
Value(p) == ToSwift(Evaluate(p), heap, 0)

\* JSClass.value(for:)
ClassValue(o, k) == ToSwift(GetProperty(<<"object", o>>, k, heap), heap, 0)

\* The path JSDataBridge gives to the engine for one of its keys.
BridgePath(p) == <<DataBridge>> \o p

-----------------------------------------------------------------------------
(* What the host does.                                                     *)

\* The wrappers that the host may hold.
Wrappers ==
  {<<"function", o>> : o \in {x \in Objects : heap[x].class = "Function"}}
  \cup {<<"class", o>> : o \in {x \in Allocated(heap) : ToSwift(<<"object", x>>, heap, 0) = <<"class", x>>}}

Host(v) ==
  /\ process = "running" /\ sets < MaxSets
  /\ Makes(v) <= Cardinality(Objects \ Allocated(heap))
  /\ sets' = sets + 1
  /\ UNCHANGED <<lexical, scripts>>

\* Mutant: undefined for every value that Swift does not convert.
ConvertedToUndefined(v, forNil) ==
  LET js == ToJS(v, heap)
  IN  [js EXCEPT !.value = IF @ = Nil THEN Undefined ELSE @]

\* The value to store; nil leaves what the caller stores for it.
Converted(v, forNil) ==
  LET js == ToJS(v, heap)
  IN  [js EXCEPT !.value = IF @ = Nil THEN forNil ELSE @]

\* A UInt too large for JavaScript stops the process before anything is set.
SetTraps(v) ==
  /\ Host(v)
  /\ Traps(v)
  /\ process' = "stopped"
  /\ last' = [Nothing EXCEPT !.value = v]
  /\ UNCHANGED <<heap, global>>

\* JSEngine.setValue(_:for:) of a single name: a property of the global object.
SetGlobal(n, v) ==
  LET js == Converted(v, Undefined) IN
  /\ Host(v)
  /\ ~Traps(v)
  /\ heap' = js.heap
  /\ global' = Bind(global, n, js.value)
  /\ last' = [place |-> <<"path", <<n>>>>, base |-> Undefined, value |-> v]
  /\ UNCHANGED process

\* JSEngine.setValue(_:for:) of a dotted path: a property of what the path up
\* to the last component evaluates to.  If that is an object the call
\* returns true; otherwise JS_SetPropertyStr throws, frees the new value and
\* the call returns false.
SetPath(p, v) ==
  LET js == Converted(v, Undefined)
      base == Evaluate(Front(p)) IN
  /\ Host(v)
  /\ ~Traps(v)
  /\ base[1] # "builtin"
  /\ \/ /\ base[1] = "object"
        /\ heap' = PutProperty(base[2], Last(p), js.value, js.heap)
        /\ last' = [place |-> <<"path", p>>, base |-> base, value |-> v]
     \/ /\ base[1] # "object"
        /\ last' = Nothing
        /\ UNCHANGED heap
  /\ UNCHANGED <<global, process>>

SetValue(p, v) == IF Len(p) = 1 THEN SetGlobal(p[1], v) ELSE SetPath(p, v)

\* JSClass.setValue(_:for:): nil becomes null here.
ClassSetValue(o, k, v) ==
  LET js == Converted(v, Null) IN
  /\ Host(v)
  /\ ~Traps(v)
  /\ heap' = PutProperty(o, k, js.value, js.heap)
  /\ last' = [place |-> <<"member", <<o, k>>>>, base |-> <<"object", o>>, value |-> v]
  /\ UNCHANGED <<global, process>>

-----------------------------------------------------------------------------
(* What scripts do.                                                        *)

Script ==
  /\ process = "running" /\ scripts < MaxScripts
  /\ scripts' = scripts + 1
  /\ last' = Nothing
  /\ UNCHANGED <<process, sets>>

\* n = v
Assign(n, v) ==
  IF n \in DOMAIN lexical
  THEN lexical' = Bind(lexical, n, v) /\ UNCHANGED global
  ELSE global' = Bind(global, n, v) /\ UNCHANGED lexical

ScriptAssign(n, v) == Script /\ Assign(n, v) /\ UNCHANGED heap

\* n = new C; an Error gets the stack of the script.
ScriptNew(n, c) ==
  LET new == NewObjectOf(c, heap) IN
  /\ Script
  /\ Allocated(heap) # Objects
  /\ heap' = IF c = "Error" THEN PutProperty(new.value[2], "stack", <<"string", "text">>, new.heap)
             ELSE new.heap
  /\ Assign(n, new.value)

\* let n = v: a name can be declared once, and not over one declared by var.
ScriptLet(n, v) ==
  /\ Script
  /\ n \notin DOMAIN lexical \cup {DataBridge}
  /\ lexical' = Bind(lexical, n, v)
  /\ UNCHANGED <<heap, global>>

\* o.k = v, or o[0] = v
ScriptPut(o, k, v) ==
  /\ Script
  /\ heap' = PutProperty(o, k, v, heap)
  /\ UNCHANGED <<lexical, global>>

ScriptValues == Literals \cup {<<"object", o>> : o \in Allocated(heap)}

Next ==
  \/ \E v \in Natives \cup Wrappers :
       \/ SetTraps(v)
       \/ \E p \in Paths \cup {BridgePath(q) : q \in BridgePaths} : SetValue(p, v)
       \/ \E w \in {x \in Wrappers : x[1] = "class"}, k \in Keys : ClassSetValue(w[2], k, v)
  \/ \E n \in Names, v \in ScriptValues : ScriptAssign(n, v) \/ ScriptLet(n, v)
  \/ \E n \in Names, c \in Classes : ScriptNew(n, c)
  \/ \E o \in Allocated(heap), k \in Keys, v \in ScriptValues : ScriptPut(o, k, v)

Spec == Init /\ [][Next]_vars

-----------------------------------------------------------------------------
(* Properties.                                                             *)

Lost(v) == v[1] \in {"nil", "foreign"}

\* r is how v may come back.  Integers come back exact up to 2^MantissaBits
\* and to the nearest double above, doubles with an integral value as Int,
\* dates in whole milliseconds, and a date beyond JavaScript's range or a
\* dictionary with a member named constructor as a JSClass.  An error without
\* a name or a message comes back with the prototype's.
RECURSIVE Agrees(_, _)
Agrees(v, r) ==
  CASE v[1] = "int" ->
         /\ r[1] = "int"
         /\ 2 * Abs(r[2] - v[2]) <= 2^(IntBits - 1 - MantissaBits)
         /\ Abs(v[2]) <= 2^MantissaBits => r = v
    [] v[1] = "uint" -> r = <<"int", v[2]>>
    [] v[1] = "double" /\ v[2] % 2 = 0 -> r = <<"int", v[2] \div 2>>
    [] v[1] = "date" /\ Abs(v[2]) > DateLimit -> r[1] = "class"
    [] v[1] = "date" -> r[1] = "date" /\ r[2] % 2 = 0 /\ Abs(v[2] - r[2]) < 2
    [] v[1] = "error" ->
         /\ r[1] = "error"
         /\ \A k \in ErrorKeys :
              r[2][k] = IF v[2][k] = "none" /\ k \in {"name", "message"} THEN "text" ELSE v[2][k]
    [] v[1] = "array" ->
         /\ r[1] = "array"
         /\ DOMAIN r[2] = DOMAIN v[2]
         /\ \A i \in DOMAIN v[2] : IF Lost(v[2][i]) THEN r[2][i] = NSNull
                                                    ELSE Agrees(v[2][i], r[2][i])
    [] v[1] = "dictionary" ->
         LET kept == {k \in DOMAIN v[2] : ~Lost(v[2][k])}
         IN  IF "constructor" \in kept
             THEN r[1] = "class"
             ELSE /\ r[1] = "dictionary"
                  /\ DOMAIN r[2] = kept
                  /\ \A k \in kept : Agrees(v[2][k], r[2][k])
    [] OTHER -> r = v

\* A let of that name hides what setValue puts on the global object.
Hidden(p) == Len(p) = 1 /\ p[1] \in DOMAIN lexical

\* A path round a cycle may pass through the very property it sets, and then
\* no longer leads to the object that was set.
Leads(p) == Len(p) > 1 => Evaluate(Front(p)) = last.base

(* What setValue has stored (JSEngine, JSDataBridge or JSClass) is what the *)
(* matching value(for:) then gives, as far as Agrees says, whatever scripts *)
(* have built around it: nil reads as nil (as NSNull from a JSClass).  The  *)
(* exceptions are a name that a let hides, a path that the write itself has *)
(* diverted, a last component that is no identifier, and values that cannot *)
(* be read at all (StopsExactly).                                           *)
ReadsWhatWasSet ==
  LET at == last.place[2]
      Reads(r, forNil) == \/ r = Stops
                          \/ Lost(last.value) /\ r = forNil
                          \/ ~Lost(last.value) /\ Agrees(last.value, r)
  IN  /\ (last.place[1] = "path" /\ IsIdentifier(Last(at)) /\ ~Hidden(at) /\ Leads(at)) =>
           Reads(Value(at), Nil)
      /\ last.place[1] = "member" => Reads(ClassValue(at[1], at[2]), NSNull)

\* An object that comes back as a dictionary.
IsPlain(o) ==
  /\ heap[o].class \notin {"Array", "Error", "Function"}
  /\ heap[o].class = "Date" => heap[o].time = Invalid
  /\ ClassName(o, heap) = "Object"

\* What converting an object converts in turn.
Parts(o) ==
  CASE heap[o].class = "Array" -> Range(heap[o].elems)
    [] heap[o].class = "Error" -> {heap[o].at[k] : k \in DOMAIN heap[o].at \cap ErrorKeys}
    [] IsPlain(o) -> Range(heap[o].at)
    [] OTHER -> {}

TooLarge(v) == v[1] = "number" /\ v[2] % 2 = 0 /\ v[2] \div 2 \notin IntMin..IntMax

\* The objects whose conversion ends with a value: the least set that holds
\* every object all of whose parts fit and are in it already.
RECURSIVE Convertible(_)
Convertible(done) ==
  LET more == {o \in Allocated(heap) :
                 \A w \in Parts(o) : ~TooLarge(w) /\ (w[1] = "object" => w[2] \in done)}
  IN  IF more = done THEN done ELSE Convertible(more)

(* Reading stops the process exactly when an integral number beyond Int's  *)
(* range, or a cycle of dictionaries, arrays and errors (through name,     *)
(* message, cause or stack), can be reached from what is read: Int(d)      *)
(* traps and toJSConvertible recurses without a limit.  Writing stops it exactly for a UInt beyond UInt32.    *)
StopsExactly ==
  /\ \A p \in Paths :
       LET v == Evaluate(p)
       IN  Value(p) = Stops <=> \/ TooLarge(v)
                                \/ v[1] = "object" /\ v[2] \notin Convertible({})
  /\ process = "stopped" <=> Traps(last.value)
=============================================================================
