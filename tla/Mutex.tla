--------------------------------- MODULE Mutex ---------------------------------
(***************************************************************************)
(* What the lock of the shared page promises its users: only its holder is  *)
(* inside, and only by leaving does it give the lock back.  A holder that   *)
(* is terminated keeps it, and a later thread with the same id goes on.     *)
(***************************************************************************)
CONSTANTS Threads, NoThread

VARIABLES
  holder,    \* the id that holds the lock, or NoThread
  inside     \* the threads between acquire and release

mutexVars == <<holder, inside>>

Init     == holder = NoThread /\ inside = {}
Take(t)  == holder = NoThread /\ holder' = t /\ UNCHANGED inside
Enter(t) == holder = t /\ inside' = inside \cup {t} /\ UNCHANGED holder
Give(t)  == holder = t /\ holder' = NoThread /\ inside' = inside \ {t}
Die(t)   == inside' = inside \ {t} /\ UNCHANGED holder
Next     == \E t \in Threads : Take(t) \/ Enter(t) \/ Give(t) \/ Die(t)
Spec     == Init /\ [][Next]_mutexVars
================================================================================
