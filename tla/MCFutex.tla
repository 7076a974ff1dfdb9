------------------------------- MODULE MCFutex ------------------------------
(* Futex for TLC: a condition variable c whose notifier may requeue waiters
   to a mutex m, and two waiters, one of them polled with two wakers and the
   other one the wait of a condition variable, whose drop panics. *)
EXTENDS Futex, TLC

CONSTANTS c, m, w1, w2, v1, v2

MCWaiters == {w1, w2}
MCWakers  == (w1 :> {v1, v2}) @@ (w2 :> {v1})
MCUncancellable == {w2}
MCFutexes == {c, m}
MCTarget  == [f \in MCFutexes |-> IF f = c THEN m ELSE Null]
=============================================================================
