------------------------------- MODULE Futex2 -------------------------------
(***************************************************************************)
(* futex2/: a queue of waiters without lists, and the mutex built on it.   *)
(* A wait takes the next iteration and puts its waker in the bucket of     *)
(* that iteration; a notify takes the next iteration too, and wakes who is *)
(* there, or leaves a mark for who is to come.  Whoever finds another      *)
(* iteration in its bucket abandons the generation: it turns every bucket  *)
(* into a tombstone, waking who waits, and installs one twice the size.    *)
(*                                                                         *)
(* A load and the compare-and-swap that succeeds on it are one step; one   *)
(* that fails only reloads.  The mutex always notifies one.  Sums wrap, as *)
(* in a release build; a debug build panics where they would.              *)
(***************************************************************************)
EXTENDS FutexOps, FiniteSets

CONSTANTS Tasks,
          Calls,   \* how often each task may call lock: a bound
          Half     \* how many values a usize_half has

ASSUME NullIsNoTask    == Null \notin Tasks
ASSUME CallsAssumption == Calls \in Nat
ASSUME HalfAssumption  == Half \in Nat \ {0}

VARIABLES
  atom,         \* the mutex: 0 unlocked, 1 locked, 2 locked with waiters
  generations,  \* the buckets of every generation; the last is current
  waits, notifies,  \* the counters beside the pointer to the current generation
  growing,      \* who holds the lock of generations
  calls,        \* calls[t]: the calls of lock that t has left
  pc,           \* pc[t]: the step task t takes next
  at,           \* at[t]: the generation and the iteration of t's wait
  target,       \* target[t]: those of the notification t is delivering
  back          \* back[t]: where t goes on after notify or expand

word  == <<waits, notifies>>
local == <<at, target, back>>
vars  == <<atom, generations, waits, notifies, growing, calls, pc, at, target, back>>

Empty(i)   == <<"Empty", i>>
Woken(i)   == <<"Woken", i>>
Waiting(t) == <<"Waiting", t>>
Waking     == <<"Waking">>
Tombstone  == <<"Tombstone">>

(* Mutant of Low: the counters are one bit narrower. *)
LowNarrow(n) == n % (Half \div 2)

(* Iterations are counted in half a word, and wrap. *)
Low(n) == n % Half

Generation(cap) == [i \in 0..cap - 1 |-> Empty(i)]

Current    == Len(generations)
Cap(g)     == Cardinality(DOMAIN generations[g])
Bucket(p)  == generations[p.gen][p.it % Cap(p.gen)]
Put(p, b)  == generations' = [generations EXCEPT ![p.gen][p.it % Cap(p.gen)] = b]
Nowhere    == [gen |-> 1, it |-> 0]

Goto(t, step) == pc' = [pc EXCEPT ![t] = step]

(* Calls notify or expand, and go on at step when it returns. *)
CallThen(t, callee, step) == Goto(t, callee) /\ back' = [back EXCEPT ![t] = step]

Init == /\ atom = 0
        /\ generations = <<Generation(1)>>
        /\ waits = 0 /\ notifies = 0
        /\ growing = Null
        /\ calls = [t \in Tasks |-> Calls]
        /\ pc = [t \in Tasks |-> "idle"]
        /\ at = [t \in Tasks |-> Nowhere]
        /\ target = [t \in Tasks |-> Nowhere]
        /\ back = [t \in Tasks |-> "idle"]

-----------------------------------------------------------------------------
(* Mutex::lock and unlock. *)

Lock(t) ==
  /\ pc[t] = "idle"
  /\ calls[t] > 0
  /\ calls' = [calls EXCEPT ![t] = @ - 1]
  /\ atom' = IF atom = 0 THEN 1 ELSE atom
  /\ Goto(t, CASE atom = 0 -> "held" [] atom = 1 -> "trying" [] atom = 2 -> "entering")
  /\ UNCHANGED <<generations, word, growing, local>>

(* The loop: take the lock, or mark it and wait. *)
Retry(t) ==
  /\ pc[t] = "trying"
  /\ atom' = 2
  /\ Goto(t, IF atom = 0 THEN "held" ELSE "entering")
  /\ UNCHANGED <<generations, word, growing, calls, local>>

Unlock(t) ==
  /\ pc[t] = "held"
  /\ atom' = 0
  /\ IF atom = 2 THEN CallThen(t, "notifying", "idle") ELSE Goto(t, "idle") /\ UNCHANGED back
  /\ UNCHANGED <<generations, word, growing, calls, at, target>>

-----------------------------------------------------------------------------
(* Queue::wait_if: the polls of WaitFuture. *)

Enter(t) ==
  /\ pc[t] = "entering"
  /\ waits' = Low(waits + 1)
  /\ at' = [at EXCEPT ![t] = [gen |-> Current, it |-> waits]]
  /\ Goto(t, "placing")
  /\ UNCHANGED <<atom, generations, notifies, growing, calls, target, back>>

Place(t) ==
  /\ pc[t] = "placing"
  /\ Bucket(at[t]) = Empty(at[t].it)
  /\ Put(at[t], Waiting(t))
  /\ Goto(t, "checking")
  /\ UNCHANGED <<atom, word, growing, calls, local>>

(* The notification was there first. *)
PlaceWoken(t) ==
  /\ pc[t] = "placing"
  /\ Bucket(at[t]) = Woken(at[t].it)
  /\ Put(at[t], Empty(Low(at[t].it + Cap(at[t].gen))))
  /\ Goto(t, "trying")
  /\ UNCHANGED <<atom, word, growing, calls, local>>

(* Mutant of PlaceTaken: the wait goes on as if it were in its bucket. *)
PlaceAnyway(t) ==
  /\ pc[t] = "placing"
  /\ Bucket(at[t]) \notin {Empty(at[t].it), Woken(at[t].it)}
  /\ Goto(t, "checking")
  /\ UNCHANGED <<atom, generations, word, growing, calls, local>>

PlaceTaken(t) ==
  /\ pc[t] = "placing"
  /\ Bucket(at[t]) \notin {Empty(at[t].it), Woken(at[t].it)}
  /\ CallThen(t, "expanding", "trying")
  /\ UNCHANGED <<atom, generations, word, growing, calls, at, target>>

(* The condition: the lock is still marked.  Otherwise the wait is over; its
   bucket is left as it is, and one notification goes out for it. *)
Check(t) ==
  /\ pc[t] = "checking"
  /\ IF atom = 2 THEN Goto(t, "pending") /\ UNCHANGED back
                 ELSE CallThen(t, "notifying", "trying")
  /\ UNCHANGED <<atom, generations, word, growing, calls, at, target>>

(* poll_waiting, once the waker was called; anything but a waker, Waking or a
   tombstone in the bucket is unreachable!(). *)
Resume(t) ==
  /\ pc[t] = "pending"
  /\ Bucket(at[t]) \notin {Waiting(t), Tombstone}
  /\ Put(at[t], Empty(Low(at[t].it + Cap(at[t].gen))))
  /\ Goto(t, IF Bucket(at[t]) = Waking THEN "trying" ELSE "panicked")
  /\ UNCHANGED <<atom, word, growing, calls, local>>

ResumeBuried(t) ==
  /\ pc[t] = "pending"
  /\ Bucket(at[t]) = Tombstone
  /\ CallThen(t, "expanding", "trying")
  /\ UNCHANGED <<atom, generations, word, growing, calls, at, target>>

(* The future is dropped while it waits: todo!() panics, and the waker stays in
   its bucket. *)
Drop(t) ==
  /\ pc[t] = "pending"
  /\ Goto(t, "dropped")
  /\ UNCHANGED <<atom, generations, word, growing, calls, local>>

-----------------------------------------------------------------------------
(* Queue::notify(1). *)

Notify(t) ==
  /\ pc[t] = "notifying"
  /\ notifies' = Min({Low(notifies + 1), waits})
  /\ target' = [target EXCEPT ![t] = [gen |-> Current, it |-> notifies]]
  /\ Goto(t, IF notifies < notifies' THEN "signalling" ELSE back[t])
  /\ UNCHANGED <<atom, generations, waits, growing, calls, at, back>>

Signal(t) ==
  /\ pc[t] = "signalling"
  /\ \/ /\ \E u \in Tasks : Bucket(target[t]) = Waiting(u)
        /\ Put(target[t], Waking)
     \/ /\ Bucket(target[t]) = Empty(target[t].it)
        /\ Put(target[t], Woken(target[t].it))
  /\ Goto(t, back[t])
  /\ UNCHANGED <<atom, word, growing, calls, local>>

SignalStray(t) ==
  /\ pc[t] = "signalling"
  /\ Bucket(target[t]) # Empty(target[t].it)
  /\ \A u \in Tasks : Bucket(target[t]) # Waiting(u)
  /\ at' = [at EXCEPT ![t] = target[t]]
  /\ Goto(t, "expanding")
  /\ UNCHANGED <<atom, generations, word, growing, calls, target, back>>

-----------------------------------------------------------------------------
(* Queue::expand of the generation at[t].gen. *)

Grow(t) ==
  /\ pc[t] = "expanding"
  /\ growing = Null
  /\ IF at[t].gen = Current
     THEN growing' = t /\ at' = [at EXCEPT ![t].it = 0] /\ Goto(t, "burying")
     ELSE Goto(t, back[t]) /\ UNCHANGED <<growing, at>>
  /\ UNCHANGED <<atom, generations, word, calls, target, back>>

(* One bucket after the other; who waits there is woken. *)
Bury(t) ==
  /\ pc[t] = "burying"
  /\ Put(at[t], Tombstone)
  /\ at' = [at EXCEPT ![t].it = @ + 1]
  /\ Goto(t, IF at[t].it + 1 < Cap(at[t].gen) THEN "burying" ELSE "installing")
  /\ UNCHANGED <<atom, word, growing, calls, target, back>>

Install(t) ==
  /\ pc[t] = "installing"
  /\ generations' = Append(generations, Generation(2 * Cap(Current)))
  /\ waits' = 0 /\ notifies' = 0
  /\ growing' = Null
  /\ Goto(t, back[t])
  /\ UNCHANGED <<atom, calls, local>>

-----------------------------------------------------------------------------
Step(t) ==
  \/ Retry(t) \/ Unlock(t)
  \/ Enter(t) \/ Place(t) \/ PlaceWoken(t) \/ PlaceTaken(t) \/ Check(t)
  \/ Resume(t) \/ ResumeBuried(t)
  \/ Notify(t) \/ Signal(t) \/ SignalStray(t)
  \/ Bury(t) \/ Install(t)

Next == \E t \in Tasks : Lock(t) \/ Step(t) \/ Grow(t) \/ Drop(t)

(* A poll or an unlock that has begun runs on, a guard is dropped some day, a
   task whose waker was called is polled, and the lock of generations is got in
   the end.  Nobody is obliged to call lock. *)
Fairness == \A t \in Tasks : WF_vars(Step(t)) /\ SF_vars(Grow(t))

Spec     == Init /\ [][Next]_vars
FairSpec == Spec /\ Fairness

-----------------------------------------------------------------------------
(* One task at most holds the mutex, and the atom tells whether one does; a
   task that waits in a bucket waits in its own, which no other task has taken
   over; and poll_waiting does not come to its unreachable!(). *)
BucketsKept ==
  /\ atom # 0 <=> \E t \in Tasks : pc[t] = "held"
  /\ \A t, u \in Tasks : pc[t] = "held" /\ pc[u] = "held" => t = u
  /\ \A t \in Tasks : pc[t] # "panicked"
  /\ \A t, u \in Tasks : pc[t] = "pending" /\ pc[u] = "pending" /\ at[t] = at[u] => t = u
  /\ \A t \in Tasks : pc[t] = "pending" =>
       Bucket(at[t]) \in {Waiting(t), Waking, Tombstone}

Sleeping(t) == pc[t] = "pending" /\ Bucket(at[t]) = Waiting(t)

SameBucket(p, r) == p.gen = r.gen /\ p.it % Cap(p.gen) = r.it % Cap(r.gen)

(* Somebody is on the way to bury the current generation, and all who wait in
   it are woken then. *)
Abandoning == \E u \in Tasks : pc[u] \in {"expanding", "burying"} /\ at[u].gen = Current

(* Who waits, waits in the current generation, and once its iteration is
   notified somebody is on the way to wake it or to bury the generation.  The
   notification on the way may be that of an earlier iteration of the bucket,
   whose waiter was woken in its place. *)
NotifiedIsWoken == \A t \in Tasks : Sleeping(t) =>
  /\ at[t].gen = Current
  /\ at[t].it < notifies =>
       Abandoning \/ \E u \in Tasks : pc[u] = "signalling" /\ SameBucket(target[u], at[t])

(* A wait that was given up has left its waker in a bucket, or the wake that
   was spent on it. *)
GivenUp == \E g \in 1..Current : \E i \in 0..Cap(g) - 1 :
  LET b == [gen |-> g, it |-> i] IN
    /\ Bucket(b) = Waking \/ \E u \in Tasks : Bucket(b) = Waiting(u)
    /\ \A u \in Tasks : pc[u] \in {"checking", "pending"} =>
         ~(at[u].gen = g /\ at[u].it % Cap(g) = i)

(* No wakeup is lost but those spent on waits that were given up: otherwise
   nobody is left asleep when nobody else has anything to do.  So it is while
   the counters do not wrap: a notification that wraps reaches nobody. *)
WakeupsReach ==
  /\ NotifiedIsWoken
  /\ (\A t \in Tasks : pc[t] \in {"idle", "dropped"} \/ Sleeping(t)) =>
       (\A t \in Tasks : ~Sleeping(t)) \/ GivenUp

(* Who calls lock gets the mutex, whichever waits are given up, notified early
   or buried with their generation.  For three tasks it does not hold, even if
   no lock future is dropped: the bucket of a wait that was given up may take
   the notification that another task waits for. *)
LockReturns == \A t \in Tasks :
  pc[t] = "trying" ~> pc[t] = "held" \/ \E u \in Tasks : pc[u] = "dropped"
=============================================================================
