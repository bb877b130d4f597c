-------------------------------- MODULE DataFile --------------------------------
(***************************************************************************)
(* The places of records in a data file, in abstract units: shared by the   *)
(* modules that read a session's records back and that save them.           *)
(***************************************************************************)
EXTENDS Integers

EndOf(e)           == e.start + e.size
Disjoint(d, e)     == EndOf(d) <= e.start \/ EndOf(e) <= d.start

RoundDown(x, unit) == (x \div unit) * unit
RoundUp(x, unit)   == RoundDown(x + unit - 1, unit)

\* Records that fill a data file, in any order: a writer takes its sequence number
\* before its extent, so that the extents of threads may be in another order.
FillsFile(l) ==
  /\ \A i, j \in DOMAIN l : i # j => Disjoint(l[i], l[j])
  /\ \A i \in DOMAIN l : l[i].start = 0 \/ \E j \in DOMAIN l : EndOf(l[j]) = l[i].start

\* Those of one thread are in the order of their sequence numbers.
InOrder(l) == \A i, j \in DOMAIN l : i < j => EndOf(l[i]) <= l[j].start
================================================================================
