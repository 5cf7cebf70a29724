--------------------------- MODULE TrafficContract ---------------------------
(***************************************************************************)
(* What the traffic accounting promises for every user: reported traffic   *)
(* waits, and what waits is billed once and as it is.  A fault may lose    *)
(* what still waits; nothing bills what was not reported.  There are no    *)
(* jobs, cache rows or locks here; Traffic is shown to implement this.     *)
(***************************************************************************)
EXTENDS Naturals

CONSTANT Users

VARIABLES
  known,   \* the users that have a row
  billed,  \* u + d of every row of users
  pending  \* traffic that was accepted and is neither billed nor lost

vars == <<known, billed, pending>>

Init ==
  /\ known = Users
  /\ billed = [u \in Users |-> 0]
  /\ pending = [u \in Users |-> 0]

Accept ==
  /\ \A u \in Users : pending'[u] >= pending[u]
  /\ UNCHANGED <<known, billed>>

\* Whatever leaves the waiting traffic of a known user is on the bill.
Bill ==
  /\ \A u \in Users : pending'[u] <= pending[u]
  /\ \A u \in known : billed'[u] + pending'[u] = billed[u] + pending[u]
  /\ \A u \in Users \ known : billed'[u] = billed[u]
  /\ UNCHANGED known

Lose ==
  /\ \A u \in Users : pending'[u] <= pending[u]
  /\ UNCHANGED <<known, billed>>

Clear(u) ==
  /\ billed' = [billed EXCEPT ![u] = 0]
  /\ UNCHANGED <<known, pending>>

Remove(u) ==
  /\ known' = known \ {u}
  /\ billed' = [billed EXCEPT ![u] = 0]
  /\ UNCHANGED pending

Next == Accept \/ Bill \/ Lose \/ \E u \in Users : Clear(u) \/ Remove(u)

Spec == Init /\ [][Next]_vars
=============================================================================
