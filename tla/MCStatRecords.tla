---------------------------- MODULE MCStatRecords ----------------------------
(***************************************************************************)
(* A small instance of StatRecords: three reports of one node about one    *)
(* user over two midnights.                                                *)
(***************************************************************************)
EXTENDS StatRecords, TLC

CONSTANTS n1

Symmetry == Permutations(Runners)
MCRate == [n \in Nodes |-> 1]
MCReport == [p \in Reports |-> [node |-> n1, load |-> [u \in {1} |-> p]]]
=============================================================================
