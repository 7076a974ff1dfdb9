---------------------------- MODULE MCWaiterList ----------------------------
(* WaiterList for TLC: two futexes with two queues each; the last waiter asks
   for another queue than the others. *)
EXTENDS WaiterList

CONSTANTS w1, w2, w3, w4, q0, q1

MCWaiters == {w1, w2, w3, w4}
MCQueues  == {q0, q1}
MCQueueOf == [w \in MCWaiters |-> IF w = w4 THEN q1 ELSE q0]
=============================================================================
