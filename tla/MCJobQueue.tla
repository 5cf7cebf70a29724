------------------------------ MODULE MCJobQueue ------------------------------
(***************************************************************************)
(* Small instances of JobQueue.                                            *)
(***************************************************************************)
EXTENDS JobQueue, TLC

CONSTANTS mail, order, broken, default, orders, w1, w2, a1, a2

Requests == Permutations(Admins)

\* A call of the default queue, one of another queue, one nobody registered.
MCHome == [c \in Calls |-> IF c = order THEN orders ELSE default]

MCDelay == [n \in 1..MaxTries |-> 1]

\* Both queues are named on the command line of every worker.
BothQueues == [w \in Workers |-> {default, orders}]

\* The command of the deployment guide names none.
NoOptions == [w \in Workers |-> {}]
=============================================================================
