------------------------- MODULE MCEngineLifecycle -------------------------
(* EngineLifecycle with two threads, of which the first may nest deeper. *)
EXTENDS EngineLifecycle, TLC

CONSTANTS t1, t2

MCMaxCalls == (t1 :> 4) @@ (t2 :> 2)
=============================================================================
