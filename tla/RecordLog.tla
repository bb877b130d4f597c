------------------------------- MODULE RecordLog -------------------------------
(***************************************************************************)
(* What the shared cache promises its readers: a log in which sequence      *)
(* numbers are handed out one after the other, each is committed at most    *)
(* once with an extent of the data file that no other record has, and a     *)
(* reader sees a growing prefix without holes.                              *)
(***************************************************************************)
EXTENDS Integers, FiniteSets

VARIABLES
  claimed,   \* how many sequence numbers have been handed out
  log,       \* the extent of each committed record, by sequence number
  visible    \* how many records readers may ask for

logVars == <<claimed, log, visible>>

Overlap(a, b) == a.Offset < b.Offset + b.Length /\ b.Offset < a.Offset + a.Length

Init == claimed = 0 /\ log = << >> /\ visible = 0

Claim == claimed' = claimed + 1 /\ UNCHANGED <<log, visible>>

Commit ==
  /\ \E s \in 0 .. claimed - 1 :
       /\ s \notin DOMAIN log
       /\ DOMAIN log' = DOMAIN log \cup {s}
       /\ \A t \in DOMAIN log : log'[t] = log[t] /\ ~Overlap(log[t], log'[s])
  /\ UNCHANGED <<claimed, visible>>

Show ==
  /\ visible' > visible
  /\ 0 .. visible' - 1 \subseteq DOMAIN log
  /\ UNCHANGED <<claimed, log>>

Next == Claim \/ Commit \/ Show
Spec == Init /\ [][Next]_logVars
================================================================================
