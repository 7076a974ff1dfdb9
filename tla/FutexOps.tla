------------------------------ MODULE FutexOps ------------------------------
(***************************************************************************)
(* What every user of futex/mod.rs shares: the values the futex works on.  *)
(*                                                                         *)
(* A futex keeps its waiters in an inbox, a stack whose top pointer lives  *)
(* in the same double-wide word as the user's atom, and in queues.  Both   *)
(* are modelled as sequences of waiters, the oldest waiter first: the      *)
(* inbox's top is the last element, and emptying the inbox into a queue    *)
(* (enqueue) is concatenation.                                             *)
(***************************************************************************)
EXTENDS Integers, SequencesExt

CONSTANT Null    \* the null waiter pointer

(* The pointer a compare-and-swap sees of an inbox: its newest waiter. *)
Top(inbox) == IF inbox = <<>> THEN Null ELSE inbox[Len(inbox)]

(* A snapshot of the futex word, as load() and a failed CAS return it. *)
Snapshot(atom, inbox) == [atom |-> atom, top |-> Top(inbox)]

(* The place of waiter w in s, and s without w (WaiterList::remove). *)
Position(s, w) == CHOOSE i \in 1..Len(s) : s[i] = w
Without(s, w) == IF w \in ToSet(s) THEN RemoveAt(s, Position(s, w)) ELSE s

(* A waiter is linked at most once. *)
NoRepeats(s) == IsInjective(s)

(* Waiter a stands before b in s. *)
Before(s, a, b) == \E i, j \in 1..Len(s) : i < j /\ s[i] = a /\ s[j] = b
=============================================================================
