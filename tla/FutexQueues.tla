----------------------------- MODULE FutexQueues ----------------------------
(***************************************************************************)
(* What the lists of a futex promise: waiters are kept in order of         *)
(* arrival, each in one place.  A futex has an inbox, where new and        *)
(* requeued waiters arrive, queues, one per queue index, and the list a    *)
(* notifier has popped and not yet woken or requeued.                      *)
(***************************************************************************)
EXTENDS FutexOps

CONSTANTS Waiters, Futexes, Queues,
          QueueOf    \* QueueOf[w]: the queue waiter w asks for

VARIABLES inbox,     \* inbox[f]: sequence of waiters, the oldest first
          queue,     \* queue[f][q]: sequence of waiters
          handles    \* handles[f]: the WaiterHandleList of f's notifier

vars == <<inbox, queue, handles>>

Init == /\ inbox = [f \in Futexes |-> <<>>]
        /\ queue = [f \in Futexes |-> [q \in Queues |-> <<>>]]
        /\ handles = [f \in Futexes |-> <<>>]

(* The queues of f once its inbox has been sorted into them, oldest first. *)
Sorted(f) ==
  LET after[i \in 0..Len(inbox[f])] ==
        IF i = 0 THEN queue[f]
        ELSE [after[i-1] EXCEPT ![QueueOf[inbox[f][i]]] = Append(@, inbox[f][i])]
  IN after[Len(inbox[f])]

Everywhere(f) == ToSet(inbox[f]) \union ToSet(handles[f])
                 \union UNION {ToSet(queue[f][q]) : q \in Queues}

Push(f, w) ==
  /\ \A g \in Futexes : w \notin Everywhere(g)
  /\ inbox' = [inbox EXCEPT ![f] = Append(@, w)]
  /\ UNCHANGED <<queue, handles>>

Enqueue(f) ==
  /\ queue' = [queue EXCEPT ![f] = Sorted(f)]
  /\ inbox' = [inbox EXCEPT ![f] = <<>>]
  /\ UNCHANGED handles

Pop(f, q) ==
  /\ queue[f][q] # <<>>
  /\ queue' = [queue EXCEPT ![f][q] = Tail(@)]
  /\ UNCHANGED <<inbox, handles>>

PopMany(f, q, n) ==
  /\ handles[f] = <<>>
  /\ n <= Len(queue[f][q])
  /\ handles' = [handles EXCEPT ![f] = SubSeq(queue[f][q], 1, n)]
  /\ queue' = [queue EXCEPT ![f][q] = SubSeq(@, n + 1, Len(@))]
  /\ UNCHANGED inbox

WakeNext(f) ==
  /\ handles[f] # <<>>
  /\ handles' = [handles EXCEPT ![f] = Tail(@)]
  /\ UNCHANGED <<inbox, queue>>

Requeue(f, g) ==
  /\ handles[f] # <<>>
  /\ inbox' = [inbox EXCEPT ![g] = @ \o handles[f]]
  /\ handles' = [handles EXCEPT ![f] = <<>>]
  /\ UNCHANGED queue

Cancel(f, w) ==
  /\ handles[f] = <<>>
  /\ queue' = [queue EXCEPT ![f] = [q \in Queues |-> Without(Sorted(f)[q], w)]]
  /\ inbox' = [inbox EXCEPT ![f] = <<>>]
  /\ UNCHANGED handles

Next == \E f \in Futexes :
  \/ Enqueue(f) \/ WakeNext(f)
  \/ \E w \in Waiters : Push(f, w) \/ Cancel(f, w)
  \/ \E q \in Queues : Pop(f, q) \/ \E n \in 1..Cardinality(Waiters) : PopMany(f, q, n)
  \/ \E g \in Futexes \ {f} : Requeue(f, g)

Spec == Init /\ [][Next]_vars
=============================================================================
