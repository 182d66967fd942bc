----------------------------- MODULE MCKeyPaths -----------------------------
(* Instances of KeyPaths.  With 3, 4 and 6 bits, 7 is the largest UInt32,  *)
(* integers are exact up to 16, and 31, the largest Int, rounds to 32.     *)
EXTENDS KeyPaths

MCPaths == {<<"x">>, <<"x", "a">>, <<"x", "0">>, <<"x", "0", "a">>, <<"x", "a", "constructor">>,
            <<"dataBridge">>}
MCBridgePaths == {<<"a">>, <<"a", "a">>}
MCKeys == {"a", "0", "message", "constructor"}
MCLiterals == {Undefined, Null, <<"number", 64>>, <<"nonfinite", "NaN">>, <<"builtin", "Object">>}
MCNatives ==
  {Nil, NSNull, <<"string", "s">>, <<"int", 16>>, <<"int", 17>>, <<"int", 31>>,
   <<"uint", 7>>, <<"uint", 8>>, <<"double", 3>>, <<"double", 6>>,
   <<"date", -3>>, <<"date", 9>>, <<"error", [k \in ErrorKeys |-> IF k \in {"name", "cause"} THEN "s" ELSE "none"]>>,
   <<"array", <<<<"foreign", 0>>, <<"int", 5>>>>>>,
   <<"dictionary", [k \in {"a", "cause"} |-> IF k = "a" THEN <<"foreign", 0>> ELSE NSNull]>>,
   <<"dictionary", [k \in {"constructor"} |-> <<"string", "s">>]>>,
   <<"dictionary", [k \in {"a"} |-> <<"array", <<<<"int", 31>>>>>>]>>,
   <<"dictionary", [k \in {"a"} |-> <<"uint", 8>>]>>}
=============================================================================
