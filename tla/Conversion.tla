----------------------------- MODULE Conversion -----------------------------
(***************************************************************************)
(* How values cross between Swift and JavaScript: toJSConvertible (and the *)
(* fromJSValue of each type it tries, in the order it tries them) and the  *)
(* toJSValue of each type.  A value of either side is a pair: its kind and *)
(* what is known of it.                                                    *)
(*                                                                         *)
(* JavaScript: <<"undefined", 0>>, <<"null", 0>>, <<"string", s>>,         *)
(* <<"number", h>>, <<"nonfinite", s>>, <<"object", o>> with o in the heap,*)
(* <<"builtin", c>> for a constructor of the language (a function named    *)
(* c), and <<"exception", 0>> for what a failed evaluation returns.        *)
(* Swift: <<"nil", 0>>, <<"NSNull", 0>>, <<"string", s>>, <<"int", i>>,    *)
(* <<"uint", i>>, <<"double", h>>, <<"nonfinite", s>>, <<"date", h>>,      *)
(* <<"array", sequence>>, <<"dictionary", function>>, <<"function", o>>    *)
(* and <<"class", o>> for the wrappers JSFunction and JSClass,             *)
(* <<"foreign", 0>> for a wrapper of another engine, <<"error", texts>>.   *)
(* <<"stops", 0>> is no value: the conversion stops the process.  Booleans *)
(* are left out (they cross as strings do), Float, Decimal and NSNumber    *)
(* cross as Double or Int.  No object has getters or a prototype of its    *)
(* own making, and only the engine throws.                                 *)
(*                                                                         *)
(* Numbers are scaled.  A double is a count h of halves whose mantissa has *)
(* MantissaBits bits (53 in the program), Int has IntBits bits (64) and    *)
(* UInt32 has UInt32Bits (32).  Dates count half milliseconds, DateLimit   *)
(* of them is the last time value JavaScript has (8.64e15 ms).             *)
(***************************************************************************)
EXTENDS Integers, SequencesExt

CONSTANTS MantissaBits, IntBits, UInt32Bits, DateLimit, MaxObjects

\* The widths are ordered as in the program: a UInt32 is exact as a double,
\* an Int need not be.
ASSUME WidthAssumption ==
  /\ {UInt32Bits, MantissaBits, IntBits, DateLimit, MaxObjects} \subseteq Nat \ {0}
  /\ UInt32Bits < MantissaBits /\ MantissaBits < IntBits

Undefined == <<"undefined", 0>>
Null == <<"null", 0>>
Exception == <<"exception", 0>>
Nil == <<"nil", 0>>
NSNull == <<"NSNull", 0>>
Stops == <<"stops", 0>>

\* What a JSError holds, each a text or "none"; the engine's own errors have
\* no cause.
ErrorKeys == {"name", "message", "cause", "stack"}
EngineError == <<"error", [k \in ErrorKeys |-> IF k = "cause" THEN "none" ELSE "text"]>>

Abs(n) == IF n < 0 THEN -n ELSE n

\* A C conversion of an integer (in halves) to double: the nearest value
\* whose mantissa fits, an even one between two.
Round(h) ==
  LET k == CHOOSE j \in 0..IntBits :
             /\ Abs(h) <= 2^(MantissaBits + j)
             /\ j > 0 => Abs(h) > 2^(MantissaBits + j - 1)
      unit == 2^k
      quotient == h \div unit
      rest == h % unit
      up == 2 * rest > unit \/ (2 * rest = unit /\ quotient % 2 = 1)
  IN  unit * (quotient + IF up THEN 1 ELSE 0)

IntMin == -(2^(IntBits - 1))
IntMax == 2^(IntBits - 1) - 1
UInt32Max == 2^UInt32Bits - 1

-----------------------------------------------------------------------------
(* The heap of objects that scripts and conversions make.  An object has a *)
(* class, its own named properties, and elements if it is an array; "none" *)
(* is an object that does not exist yet.                                   *)

Objects == 1..MaxObjects
Free == [class |-> "none", at |-> <<>>, elems |-> <<>>, time |-> 0]
Allocated(h) == {o \in Objects : h[o] # Free}
Classes == {"Object", "Array", "Function", "Date", "Error", "Instance"}
\* The time value of a date that is not a time.
Invalid == DateLimit + 1

NewObjectOf(c, h) ==
  LET o == Min(Objects \ Allocated(h))
  IN  [value |-> <<"object", o>>,
       heap |-> [h EXCEPT ![o] = [Free EXCEPT !.class = c]]]

\* JS_GetPropertyStr: own properties, then what every prototype has.
GetProperty(v, k, h) ==
  CASE v[1] = "object" /\ k \in DOMAIN h[v[2]].at -> h[v[2]].at[k]
    [] k = "constructor" /\ v[1] = "object" -> <<"builtin", h[v[2]].class>>
    [] k \in {"name", "message"} /\ v[1] = "object" /\ h[v[2]].class = "Error" ->
         <<"string", "text">>
    [] k = "constructor" /\ v[1] \in {"string", "number", "nonfinite", "builtin"} ->
         <<"builtin", v[1]>>
    [] v[1] \in {"undefined", "null", "exception"} -> Exception
    [] OTHER -> Undefined

\* JS_SetPropertyStr on an object: the element of an array for the key that
\* is an index, else a named property.
PutProperty(o, k, v, h) ==
  IF k = "0" /\ h[o].class = "Array"
  THEN [h EXCEPT ![o].elems = <<v>> \o (IF @ = <<>> THEN <<>> ELSE Tail(@))]
  ELSE [h EXCEPT ![o].at = [j \in DOMAIN @ \cup {k} |-> IF j = k THEN v ELSE @[j]]]

-----------------------------------------------------------------------------
(* JavaScript to Swift.                                                    *)

\* getFunctionName
FunctionName(v, h) ==
  CASE v[1] = "builtin" -> v[2]
    [] v[1] = "object" /\ h[v[2]].class = "Function" -> "aFunction"
    [] OTHER -> "unknown"

\* getClassName: the name of whatever the constructor property holds.
ClassName(o, h) == FunctionName(GetProperty(<<"object", o>>, "constructor", h), h)

\* Mutant: the range of Int taken one too wide, as if Int.max were a double.
NumberToSwiftWide(h) ==
  CASE h % 2 = 1 -> <<"double", h>>
    [] h \div 2 \in IntMin..IntMax + 1 -> <<"int", h \div 2>>
    [] OTHER -> Stops

\* A number: an integral one becomes an Int, and Int(d) traps when it does
\* not fit.
NumberToSwift(h) ==
  CASE h % 2 = 1 -> <<"double", h>>
    [] h \div 2 \in IntMin..IntMax -> <<"int", h \div 2>>
    [] OTHER -> Stops

\* jsDescription: of a string the string, of anything else some text.
Description(v) ==
  CASE v = Nil -> "none"
    [] v[1] = "string" -> v[2]
    [] OTHER -> "text"

\* toJSConvertible.  Nothing limits its recursion: nesting deeper than there
\* are objects means that it goes round a cycle until the stack is full.
RECURSIVE ToSwift(_, _, _)
ToSwift(v, h, depth) ==
  LET Inner(w) == ToSwift(w, h, depth + 1)
      o == v[2]
      IsObject == v[1] = "object"
      Collect(converted, result) ==
        IF Stops \in converted THEN Stops ELSE result
  IN
  CASE depth > MaxObjects -> Stops
    [] v = Undefined -> Nil
    [] v = Exception -> EngineError
    [] v = Null -> NSNull
    [] v[1] \in {"string", "nonfinite"} -> v
    [] v[1] = "number" -> NumberToSwift(v[2])
    [] v[1] = "builtin" -> <<"function", v[2]>>
    [] IsObject /\ h[o].class = "Date" /\ h[o].time # Invalid -> <<"date", h[o].time>>
    [] IsObject /\ h[o].class = "Array" ->
         LET inner == [i \in DOMAIN h[o].elems |-> Inner(h[o].elems[i])]
         IN  Collect({inner[i] : i \in DOMAIN inner},
                     <<"array", [i \in DOMAIN inner |->
                                   IF inner[i] = Nil THEN NSNull ELSE inner[i]]>>)
    [] IsObject /\ h[o].class = "Function" -> <<"function", o>>
    [] IsObject /\ h[o].class = "Error" ->
         LET inner == [k \in ErrorKeys |-> Inner(GetProperty(v, k, h))]
         IN  Collect({inner[k] : k \in ErrorKeys},
                     <<"error", [k \in ErrorKeys |-> Description(inner[k])]>>)
    [] IsObject /\ ClassName(o, h) # "Object" -> <<"class", o>>
    [] OTHER ->
         LET inner == [k \in DOMAIN h[o].at |-> Inner(h[o].at[k])]
             kept == {k \in DOMAIN inner : inner[k] # Nil}
         IN  Collect({inner[k] : k \in DOMAIN inner},
                     <<"dictionary", [k \in kept |-> inner[k]]>>)

-----------------------------------------------------------------------------
(* Swift to JavaScript.                                                    *)

\* time_clip, called by JS_NewDate: whole milliseconds within the limit.
TimeClip(t) ==
  CASE Abs(t) > DateLimit -> Invalid
    [] t >= 0 -> 2 * (t \div 2)
    [] OTHER -> -(2 * ((-t) \div 2))

\* UInt32(self) traps on a UInt that does not fit, wherever in a collection
\* it is.
RECURSIVE Traps(_)
Traps(v) ==
  CASE v[1] = "uint" -> v[2] > UInt32Max
    [] v[1] \in {"array", "dictionary"} -> \E i \in DOMAIN v[2] : Traps(v[2][i])
    [] OTHER -> FALSE

\* How many objects toJSValue makes.
RECURSIVE Makes(_)
Makes(v) ==
  CASE v[1] \in {"date", "error"} -> 1
    [] v[1] \in {"array", "dictionary"} ->
         1 + MapThenSumSet(LAMBDA i : Makes(v[2][i]), DOMAIN v[2])
    [] OTHER -> 0

\* toJSValue of every type: the value, Nil where Swift gives nil, and the heap
\* with the objects it made.  A collection is made before its members; an
\* array keeps the place of a member that does not convert, a dictionary
\* drops it.
RECURSIVE ToJS(_, _)
ToJS(v, h) ==
  LET Is(value) == [value |-> value, heap |-> h]
      new == NewObjectOf(CASE v[1] = "date" -> "Date" [] v[1] = "error" -> "Error"
                           [] v[1] = "array" -> "Array" [] OTHER -> "Object", h)
      o == new.value[2]
      Element(heap, member) ==
        LET e == ToJS(member, heap)
        IN  [e.heap EXCEPT ![o].elems =
               Append(@, IF e.value = Nil THEN Undefined ELSE e.value)]
      Member(k, heap) ==
        LET m == ToJS(v[2][k], heap)
        IN  IF m.value = Nil THEN m.heap ELSE PutProperty(o, k, m.value, m.heap)
  IN
  CASE v \in {Nil, <<"foreign", 0>>} -> Is(Nil)
    [] v = NSNull -> Is(Null)
    [] v[1] \in {"string", "nonfinite"} -> Is(v)
    [] v[1] \in {"int", "uint"} -> Is(<<"number", Round(2 * v[2])>>)
    [] v[1] = "double" -> Is(<<"number", v[2]>>)
    [] v[1] \in {"function", "class"} -> Is(<<"object", v[2]>>)
    [] v[1] = "date" -> [new EXCEPT !.heap[o].time = TimeClip(v[2])]
    [] v[1] = "error" ->
         [new EXCEPT !.heap[o].at =
            [k \in {key \in ErrorKeys : v[2][key] # "none"} |-> <<"string", v[2][k]>>]]
    [] v[1] = "array" ->
         [new EXCEPT !.heap = FoldLeft(Element, @, v[2])]
    [] v[1] = "dictionary" ->
         [new EXCEPT !.heap = FoldSet(Member, @, DOMAIN v[2])]
=============================================================================
