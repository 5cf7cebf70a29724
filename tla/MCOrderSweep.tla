----------------------------- MODULE MCOrderSweep -----------------------------
(***************************************************************************)
(* Small instances of OrderSweep.                                          *)
(***************************************************************************)
EXTENDS OrderSweep, TLC

CONSTANTS default, handling, o1, w1

MCHome == [c \in SweepCalls |-> IF c = Check THEN default ELSE handling]

BothQueues == [w \in Workers |-> {default, handling}]

MCDelay == [n \in 1..MaxTries |-> 0]
=============================================================================
