------------------------------ MODULE MCTraffic ------------------------------
(***************************************************************************)
(* A small instance of Traffic: two users, a node that bills half, and two *)
(* reports of both users.                                                  *)
(***************************************************************************)
EXTENDS Traffic, TLC

CONSTANTS n1, first, second

MCRate == [n \in Nodes |-> 5]
MCMembers == [n \in Nodes |-> {1, 2}]
MCQuota == (1 :> 9) @@ (2 :> 3)
MCReport == (first :> [node |-> n1, load |-> (1 :> 3) @@ (2 :> 2)])
            @@ (second :> [node |-> n1, load |-> (1 :> 9) @@ (2 :> 5)])
=============================================================================
