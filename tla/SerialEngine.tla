---------------------------- MODULE SerialEngine ----------------------------
(***************************************************************************)
(* What an engine promises the threads that share it: it does one thing at *)
(* a time.  A thread is admitted while the engine is open and waits its    *)
(* turn; closing is announced, then done by an announcer in its own turn;  *)
(* the runtime goes last.  Admission and turn are separate: a thread that  *)
(* was admitted may get its turn after the engine closed.                  *)
(***************************************************************************)
CONSTANTS Threads, NoThread

VARIABLES
  active,   \* the thread whose turn it is, or NoThread
  waiting,  \* the threads admitted and not yet served
  phase     \* "open", "closing", "closed" or "gone"

vars == <<active, waiting, phase>>

Init ==
  /\ active = NoThread
  /\ waiting = {}
  /\ phase = "open"

Admit(t) ==
  /\ phase = "open"
  /\ waiting' = waiting \cup {t}
  /\ UNCHANGED <<active, phase>>

Announce(t) ==
  /\ waiting' = waiting \cup {t}
  /\ phase' = IF phase = "open" THEN "closing" ELSE phase
  /\ UNCHANGED active

(* A turn begins; a thread may take one inside its own. *)
Enter(t) ==
  /\ t \in waiting
  /\ active \in {NoThread, t}
  /\ active' = t
  /\ waiting' = waiting \ {t}
  /\ UNCHANGED phase

Leave(t) ==
  /\ active = t
  /\ active' = NoThread
  /\ UNCHANGED <<waiting, phase>>

Close(t) ==
  /\ active = t
  /\ phase = "closing"
  /\ phase' = "closed"
  /\ UNCHANGED <<active, waiting>>

Retire ==
  /\ phase = "closed"
  /\ phase' = "gone"
  /\ UNCHANGED <<active, waiting>>

Next ==
  \/ \E t \in Threads :
       Admit(t) \/ Announce(t) \/ Enter(t) \/ Leave(t) \/ Close(t)
  \/ Retire

Spec == Init /\ [][Next]_vars
=============================================================================
