----------------------------- MODULE WaiterList -----------------------------
(***************************************************************************)
(* futex/waiter.rs at the level of its pointers: the intrusive lists in    *)
(* which the futex keeps its waiters.  A waiter has a next and a prev      *)
(* pointer; a list has a head and a tail; an inbox is the pointer to the   *)
(* newest of a chain of waiters linked by prev alone.                      *)
(*                                                                         *)
(* The operations of futex/mod.rs that rearrange lists are one action      *)
(* each, as they run under a borrow, a write lock or one compare-and-swap  *)
(* (their interleavings are the matter of Futex).  The list operations     *)
(* themselves follow the code pointer by pointer.                          *)
(* The specification is ListSpec, so that RwLockProofs can extend this     *)
(* module beside RwLock.                                                   *)
(***************************************************************************)
EXTENDS FutexOps

CONSTANTS
  Waiters, Futexes, Queues,
  QueueOf,   \* QueueOf[w]: the queue index given to Futex::waiter
  Reuse      \* may a Waiter be waited on again after a dropped WaitFuture?

ASSUME NullIsNobody == Null \notin Waiters
ASSUME FinitelyMany == IsFiniteSet(Waiters)
ASSUME QueueOfAssumption == QueueOf \in [Waiters -> Queues]

VARIABLES
  next, prev,  \* the links of each waiter
  inbox,       \* inbox[f]: the inbox pointer of futex f's word
  queue,       \* queue[f][q]: a WaiterList, [head, tail]
  handles,     \* handles[f]: the list popped by f's notifier
  owner,       \* owner[w]: the waiter's futex pointer
  place,       \* place[w]: "out", "in" a list, or "woken" and not yet dropped
  looping      \* a call of RawFutex::enqueue goes round for ever

listVars == <<next, prev, inbox, queue, handles, owner, place, looping>>

Pointers == Waiters \union {Null}
Empty    == [head |-> Null, tail |-> Null]
Lists    == [head : Pointers, tail : Pointers]

(* Writing through a pointer.  Every use in the code tests for null first. *)
Put(f, w, x) == IF w = Null THEN f ELSE [f EXCEPT ![w] = x]

(* The waiters met from w along f, at most as many as there are. *)
Walk(f, w) ==
  LET met[i \in 1..Cardinality(Waiters)] ==
        IF i = 1 THEN w ELSE LET v == met[i-1] IN IF v = Null THEN Null ELSE f[v]
      found == {i \in 1..Cardinality(Waiters) : met[i] # Null}
  IN [i \in 1..Cardinality(found) |-> met[i]]

(* A record of all the links an operation may touch. *)
Links(l) == [next |-> next, prev |-> prev, list |-> l]

(* Mutant of PopFront: the new head keeps its prev. *)
PopFrontKeepingPrev(m) ==
  LET first == m.list.head
  IN [next |-> [m.next EXCEPT ![first] = Null],
      prev |-> m.prev,
      list |-> [head |-> m.next[first],
                tail |-> IF m.list.tail = first THEN Null ELSE m.list.tail]]

(* WaiterList::pop_front on m.list; the waiter popped is the old head. *)
PopFront(m) ==
  LET first == m.list.head
      second == m.next[first]
  IN [next |-> [m.next EXCEPT ![first] = Null],
      prev |-> Put(m.prev, second, Null),
      list |-> [head |-> second,
                tail |-> IF m.list.tail = first THEN Null ELSE m.list.tail]]

(* Mutant of PushBack: the waiter goes to the front. *)
PushFront(m, w) ==
  IF m.list = Empty
  THEN [m EXCEPT !.list = [head |-> w, tail |-> w]]
  ELSE [next |-> [m.next EXCEPT ![w] = m.list.head],
        prev |-> Put(m.prev, m.list.head, w),
        list |-> [m.list EXCEPT !.head = w]]

(* WaiterList::push_back. *)
PushBack(m, w) ==
  IF m.list = Empty
  THEN [m EXCEPT !.list = [head |-> w, tail |-> w]]
  ELSE [next |-> Put(m.next, m.list.tail, w),
        prev |-> [m.prev EXCEPT ![w] = m.list.tail],
        list |-> [m.list EXCEPT !.tail = w]]

(* WaiterList::remove.  The waiter keeps its own links. *)
Unlink(m, w) ==
  LET p == m.prev[w]
      n == m.next[w]
  IN [next |-> Put(m.next, p, n),
      prev |-> Put(m.prev, n, p),
      list |-> [head |-> IF p = Null /\ m.list.head = w THEN n ELSE m.list.head,
                tail |-> IF n = Null /\ m.list.tail = w THEN p ELSE m.list.tail]]

(* WaiterList::from_stack: follow prev from the top and fill in next. *)
FromStack(top) ==
  LET chain == Walk(prev, top)    \* newest first
      below(w) == {i \in 1..Len(chain) - 1 : chain[i + 1] = w}
  IN [next |-> [w \in Waiters |-> IF below(w) = {} THEN next[w]
                                  ELSE chain[CHOOSE i \in below(w) : TRUE]],
      prev |-> prev,
      list |-> [head |-> IF chain = <<>> THEN Null ELSE Last(chain), tail |-> top]]

(* One turn of the loop of RawFutex::enqueue: pop from the stack's list, push
   on the queue the waiter asks for. *)
Turn(d) ==
  LET w == d.list.head
      popped == PopFront([next |-> d.next, prev |-> d.prev, list |-> d.list])
      pushed == PushBack([popped EXCEPT !.list = d.queues[QueueOf[w]]], w)
  IN [next |-> pushed.next, prev |-> pushed.prev, list |-> popped.list,
      queues |-> [d.queues EXCEPT ![QueueOf[w]] = pushed.list]]

(* On sound lists the loop ends within a turn per waiter.  On stale links it may
   go round instead; within Fuel turns it has then come back to links it had
   before, and never ends. *)
Fuel == 2 * Cardinality(Waiters)

Drain(m, queues) ==
  LET after[i \in 0..Fuel] ==
        IF i = 0 THEN [next |-> m.next, prev |-> m.prev, list |-> m.list, queues |-> queues]
        ELSE LET d == after[i-1] IN IF d.list.head = Null THEN d ELSE Turn(d)
  IN after[Fuel]

(* RawFutex::enqueue of f's inbox. *)
Enqueued(f) == Drain(FromStack(inbox[f]), queue[f])
Ends(f)     == Enqueued(f).list.head = Null

(* WaiterList::pop_front_many: the first n waiters, or all of them. *)
KeepHead(l, n) == LET w == Walk(next, l.head) IN IF n < Len(w) THEN w[n + 1] ELSE Null
PopFrontMany(l, n) ==
  LET keep == KeepHead(l, n)
  IN IF keep = Null
     THEN [next |-> next, prev |-> prev, list |-> Empty, taken |-> l]
     ELSE [next |-> Put(next, prev[keep], Null),
           prev |-> [prev EXCEPT ![keep] = Null],
           list |-> [head |-> keep, tail |-> l.tail],
           taken |-> [head |-> l.head, tail |-> prev[keep]]]

-----------------------------------------------------------------------------
ListInit ==
  /\ next = [w \in Waiters |-> Null]
  /\ prev = [w \in Waiters |-> Null]
  /\ inbox = [f \in Futexes |-> Null]
  /\ queue = [f \in Futexes |-> [q \in Queues |-> Empty]]
  /\ handles = [f \in Futexes |-> Empty]
  /\ owner = [w \in Waiters |-> Null]
  /\ place = [w \in Waiters |-> "out"]
  /\ looping = FALSE

(* poll_enter of a Waiter made for f, its links null if it is new. *)
Push(f, w) ==
  /\ ~looping
  /\ place[w] = "out"
  /\ owner[w] \in {Null, f}
  /\ prev' = [prev EXCEPT ![w] = inbox[f]]
  /\ inbox' = [inbox EXCEPT ![f] = w]
  /\ owner' = [owner EXCEPT ![w] = f]
  /\ place' = [place EXCEPT ![w] = "in"]
  /\ UNCHANGED <<next, queue, handles, looping>>

(* cmpxchg_enqueue_weak.  If its loop does not end, this is how far it got: the
   inbox is empty, and the queues are never left to anybody else. *)
Enqueue(f) ==
  /\ ~looping
  /\ inbox[f] # Null
  /\ next' = Enqueued(f).next
  /\ prev' = Enqueued(f).prev
  /\ queue' = [queue EXCEPT ![f] = Enqueued(f).queues]
  /\ inbox' = [inbox EXCEPT ![f] = Null]
  /\ looping' = ~Ends(f)
  /\ UNCHANGED <<handles, owner, place>>

(* FutexQueueGuard::pop, and the wake of what it returns. *)
Pop(f, q) ==
  /\ ~looping
  /\ queue[f][q].head # Null
  /\ LET m == PopFront(Links(queue[f][q]))
     IN /\ next' = m.next
        /\ prev' = m.prev
        /\ queue' = [queue EXCEPT ![f][q] = m.list]
  /\ place' = [place EXCEPT ![queue[f][q].head] = "woken"]
  /\ UNCHANGED <<inbox, handles, owner, looping>>

(* FutexQueueGuard::pop_many. *)
PopMany(f, q, n) ==
  /\ ~looping
  /\ handles[f] = Empty
  /\ queue[f][q].head # Null
  /\ LET m == PopFrontMany(queue[f][q], n)
     IN /\ next' = m.next
        /\ prev' = m.prev
        /\ queue' = [queue EXCEPT ![f][q] = m.list]
        /\ handles' = [handles EXCEPT ![f] = m.taken]
  /\ UNCHANGED <<inbox, owner, place, looping>>

(* One turn of a loop over the popped list: IntoIter pops its head. *)
WakeNext(f) ==
  /\ ~looping
  /\ handles[f].head # Null
  /\ LET m == PopFront(Links(handles[f]))
     IN /\ next' = m.next
        /\ prev' = m.prev
        /\ handles' = [handles EXCEPT ![f] = m.list]
  /\ place' = [place EXCEPT ![handles[f].head] = "woken"]
  /\ UNCHANGED <<inbox, queue, owner, looping>>

(* Mutant of Requeue: the waiters keep pointing to the futex they came from. *)
RequeueKeepingOwner(f, g) ==
  /\ ~looping
  /\ handles[f].head # Null
  /\ prev' = [prev EXCEPT ![handles[f].head] = inbox[g]]
  /\ inbox' = [inbox EXCEPT ![g] = handles[f].tail]
  /\ handles' = [handles EXCEPT ![f] = Empty]
  /\ UNCHANGED <<next, queue, owner, place, looping>>

(* FutexWaitersGuard::requeue: the whole list goes on top of g's inbox. *)
Requeue(f, g) ==
  /\ ~looping
  /\ handles[f].head # Null
  /\ owner' = [w \in Waiters |->
                 IF w \in ToSet(Walk(next, handles[f].head)) THEN g ELSE owner[w]]
  /\ prev' = [prev EXCEPT ![handles[f].head] = inbox[g]]
  /\ inbox' = [inbox EXCEPT ![g] = handles[f].tail]
  /\ handles' = [handles EXCEPT ![f] = Empty]
  /\ UNCHANGED <<next, queue, place, looping>>

(* What becomes of the links of a Waiter that left: a new one has null links;
   a Waiter that is waited on again keeps those it had. *)
Renew(links, w) == [links EXCEPT ![w] = Null]

(* Dropping a pending future: flip and cancel under the write lock, which
   keeps notifiers out.  The flip is another enqueue that may not end. *)
Cancel(w) ==
  LET f == owner[w]
      e == Enqueued(f)
      m == Unlink([next |-> e.next, prev |-> e.prev, list |-> e.queues[QueueOf[w]]], w)
  IN /\ ~looping
     /\ place[w] \in {"in", "woken"}
     /\ handles[f] = Empty
     /\ next' = IF Reuse THEN m.next ELSE Renew(m.next, w)
     /\ prev' = IF Reuse THEN m.prev ELSE Renew(m.prev, w)
     /\ queue' = [queue EXCEPT ![f] = [e.queues EXCEPT ![QueueOf[w]] = m.list]]
     /\ inbox' = [inbox EXCEPT ![f] = Null]
     /\ owner' = IF Reuse THEN owner ELSE [owner EXCEPT ![w] = Null]
     /\ place' = [place EXCEPT ![w] = "out"]
     /\ looping' = ~Ends(f)
     /\ UNCHANGED handles

(* The wait returns, and its Waiter is dropped: poll_enter panics on one that
   has been woken, so it is never waited on again. *)
Return(w) ==
  /\ ~looping
  /\ place[w] = "woken"
  /\ next' = Renew(next, w)
  /\ prev' = Renew(prev, w)
  /\ owner' = [owner EXCEPT ![w] = Null]
  /\ place' = [place EXCEPT ![w] = "out"]
  /\ UNCHANGED <<inbox, queue, handles, looping>>

ListNext == \E f \in Futexes :
  \/ Enqueue(f) \/ WakeNext(f)
  \/ \E w \in Waiters : Push(f, w)
  \/ \E q \in Queues : Pop(f, q) \/ \E n \in 1..Cardinality(Waiters) : PopMany(f, q, n)
  \/ \E g \in Futexes \ {f} : Requeue(f, g)
  \/ \E w \in Waiters : Cancel(w) \/ Return(w)

ListSpec == ListInit /\ [][ListNext]_listVars

-----------------------------------------------------------------------------
(* Every call of cmpxchg_enqueue_weak returns, with the waiters that entered
   before it in their queues (futex/mod.rs:269), and so does every flip. *)
EnqueueReturns == ~looping

(* The assertions in Debug for WaiterList: a list with no head has no tail,
   the head has no prev, next and prev agree, and the walk ends at the tail. *)
WellLinked(l) ==
  IF l.head = Null THEN l.tail = Null
  ELSE LET s == Walk(next, l.head)
       IN /\ prev[l.head] = Null
          /\ \A i \in 1..Len(s) - 1 : prev[s[i + 1]] = s[i]
          /\ Last(s) = l.tail
          /\ next[l.tail] = Null

DebugAssertions ==
  \A f \in Futexes : WellLinked(handles[f]) /\ \A q \in Queues : WellLinked(queue[f][q])

(* Waiters that have left are pointed to by nothing the futex can reach. *)
Reached(f) == ToSet(Walk(prev, inbox[f])) \union ToSet(Walk(next, handles[f].head))
              \union UNION {ToSet(Walk(next, queue[f][q].head)) : q \in Queues}
NothingLeftBehind ==
  /\ \A f \in Futexes : \A w \in Reached(f) : place[w] = "in" /\ owner[w] = f
  /\ \A w \in Waiters : place[w] = "in" => w \in Reached(owner[w])

(* The pointers carry the sequences FutexQueues speaks of. *)
Abstract == INSTANCE FutexQueues WITH
  inbox   <- [f \in Futexes |-> Reverse(Walk(prev, inbox[f]))],
  queue   <- [f \in Futexes |-> [q \in Queues |-> Walk(next, queue[f][q].head)]],
  handles <- [f \in Futexes |-> Walk(next, handles[f].head)]
ImplementsFutexQueues == Abstract!Spec
=============================================================================
