-------------------------------- MODULE Futex -------------------------------
(***************************************************************************)
(* The protocol of futex/mod.rs and futex/wait_future.rs: waiters that     *)
(* enter, are polled and may be dropped at any time; the one notifier each *)
(* futex may have, which pops waiters and wakes them or moves them to      *)
(* another futex; the RwLock that keeps dropped waiters and notifiers      *)
(* apart; the futex pointer a dropped waiter follows to find its list; and *)
(* the waker slot in which poll and wake meet.                             *)
(*                                                                         *)
(* The user's atom is left to the modules of the futex's users, the        *)
(* pointers of the lists to WaiterList.  A waker is one of a few values:   *)
(* an executor may poll a task with another waker each time, and only the  *)
(* one of its latest poll is sure to have it polled again.                 *)
(***************************************************************************)
EXTENDS FutexOps

CONSTANTS
  Waiters, Futexes,
  Uncancellable,  \* the waiters whose on_cancel_sleeping is a todo!()
  Wakers,    \* Wakers[w]: the wakers the task of w may be polled with
  Target     \* Target[f]: where f's notifier may requeue to, or Null

ASSUME TargetType == /\ Target \in [Futexes -> Futexes \union {Null}]
                     /\ \A f \in Futexes : Target[f] # f
ASSUME UncancellableType == Uncancellable \subseteq Waiters
ASSUME NullIsNothing == Null \notin Waiters \union Futexes
ASSUME WakersType == \A w \in Waiters : Wakers[w] \intersect {Null, "none", "done"} = {}
ASSUME FinitelyMany == IsFiniteSet(Waiters) /\ IsFiniteSet(Futexes)

VARIABLES
  inbox, queue,     \* inbox[f], queue[f]: sequences of waiters, oldest first
  readers, writer,  \* the RwLock of f: its notifiers, its canceller or Null
  owner,            \* owner[w]: the futex pointer of waiter w
  slot,             \* slot[w]: the waker slot: "none", "done" or a waker
  pc,               \* pc[w]: where w's future is
  fresh, seen,      \* locals of poll_waiting: new_waker and waker
  found,            \* local of drop: the owner loaded
  npc,              \* npc[f]: where f's notifier is
  handles,          \* handles[f]: the WaiterHandleList in its hands
  called,           \* called[f]: the waker swapped out, and whose, or Null
  latest,           \* latest[w]: the waker w's task was last polled with
  ready,            \* ready[w]: the executor was told to poll w's task
  clones            \* clones[w]: clones of its wakers not dropped or called

lists  == <<inbox, queue, handles>>
locks  == <<readers, writer>>
poller == <<fresh, seen>>
task   == <<latest, ready, clones>>
vars   == <<inbox, queue, readers, writer, owner, slot, pc, fresh, seen, found,
            npc, handles, called, latest, ready, clones>>

Sleeping == {"pending", "polling", "cancelling", "checking"}

Goto(w, step)   == pc' = [pc EXCEPT ![w] = step]
NGoto(f, step)  == npc' = [npc EXCEPT ![f] = step]
Set(w, s)       == slot' = [slot EXCEPT ![w] = s]
Count(w, n)     == clones' = [clones EXCEPT ![w] = @ + n]

(* The end of a poll, and of the wait: locals and the Waiter are gone. *)
EndPoll(w) == /\ fresh' = [fresh EXCEPT ![w] = Null]
              /\ seen' = [seen EXCEPT ![w] = Null]
EndWait(w) == /\ Goto(w, "idle")
              /\ Set(w, "none")
              /\ owner' = [owner EXCEPT ![w] = Null]
              /\ latest' = [latest EXCEPT ![w] = Null]
              /\ ready' = [ready EXCEPT ![w] = FALSE]

Init ==
  /\ inbox = [f \in Futexes |-> <<>>] /\ queue = [f \in Futexes |-> <<>>]
  /\ readers = [f \in Futexes |-> {}] /\ writer = [f \in Futexes |-> Null]
  /\ owner = [w \in Waiters |-> Null] /\ slot = [w \in Waiters |-> "none"]
  /\ pc = [w \in Waiters |-> "idle"]
  /\ fresh = [w \in Waiters |-> Null] /\ seen = [w \in Waiters |-> Null]
  /\ found = [w \in Waiters |-> Null]
  /\ npc = [f \in Futexes |-> "idle"] /\ handles = [f \in Futexes |-> <<>>]
  /\ called = [f \in Futexes |-> Null]
  /\ latest = [w \in Waiters |-> Null] /\ ready = [w \in Waiters |-> FALSE]
  /\ clones = [w \in Waiters |-> 0]

-----------------------------------------------------------------------------
(* The waiting task. *)

(* poll_enter of a new Waiter of f: the slot takes a clone of the waker and
   the CAS pushes the waiter on the inbox. *)
Enter(w, f, v) ==
  /\ pc[w] = "idle"
  /\ Set(w, v)
  /\ Count(w, 1)
  /\ owner' = [owner EXCEPT ![w] = f]
  /\ inbox' = [inbox EXCEPT ![f] = Append(@, w)]
  /\ latest' = [latest EXCEPT ![w] = v]
  /\ ready' = [ready EXCEPT ![w] = FALSE]
  /\ Goto(w, "pending")
  /\ UNCHANGED <<queue, locks, poller, found, npc, handles, called>>

(* poll_waiting clones the waker it is polled with and loads the slot. *)
PollLoad(w, v) ==
  /\ pc[w] = "pending"
  /\ fresh' = [fresh EXCEPT ![w] = v]
  /\ seen' = [seen EXCEPT ![w] = slot[w]]
  /\ Count(w, 1)
  /\ latest' = [latest EXCEPT ![w] = v]
  /\ ready' = [ready EXCEPT ![w] = FALSE]
  /\ Goto(w, "polling")
  /\ UNCHANGED <<lists, locks, owner, slot, found, npc, called>>

(* Mutants of PollSwap: the old waker is leaked; the new one is dropped
   instead, as if any waker of the task would do. *)
PollSwapLeaking(w) ==
  /\ pc[w] = "polling"
  /\ seen[w] \in Wakers[w]
  /\ slot[w] = seen[w]
  /\ Set(w, fresh[w])
  /\ Goto(w, "pending")
  /\ EndPoll(w)
  /\ UNCHANGED <<lists, locks, owner, found, npc, called, task>>

PollSwapKeeping(w) ==
  /\ pc[w] = "polling"
  /\ seen[w] \in Wakers[w]
  /\ slot[w] = seen[w]
  /\ Count(w, -1)
  /\ Goto(w, "pending")
  /\ EndPoll(w)
  /\ UNCHANGED <<lists, locks, owner, slot, found, npc, called, latest, ready>>

(* Its CAS puts the new waker in the slot, and the old one is dropped. *)
PollSwap(w) ==
  /\ pc[w] = "polling"
  /\ seen[w] \in Wakers[w]
  /\ slot[w] = seen[w]
  /\ Set(w, fresh[w])
  /\ Count(w, -1)
  /\ Goto(w, "pending")
  /\ EndPoll(w)
  /\ UNCHANGED <<lists, locks, owner, found, npc, called, latest, ready>>

(* The CAS fails: the slot has changed since it was loaded. *)
PollRetry(w) ==
  /\ pc[w] = "polling"
  /\ seen[w] \in Wakers[w]
  /\ slot[w] # seen[w]
  /\ seen' = [seen EXCEPT ![w] = slot[w]]
  /\ UNCHANGED <<lists, locks, owner, slot, pc, fresh, found, npc, called, task>>

(* Woken: the new waker is dropped, the wait returns true, and the Waiter,
   whose slot holds no waker, is dropped. *)
PollDone(w) ==
  /\ pc[w] = "polling"
  /\ seen[w] = "done"
  /\ Count(w, -1)
  /\ EndPoll(w)
  /\ EndWait(w)
  /\ UNCHANGED <<lists, locks, found, npc, called>>

-----------------------------------------------------------------------------
(* Drop for WaitFuture. *)

Drop(w) ==
  /\ pc[w] = "pending"
  /\ found' = [found EXCEPT ![w] = owner[w]]
  /\ Goto(w, "cancelling")
  /\ UNCHANGED <<lists, locks, owner, slot, poller, npc, called, task>>

(* Mutant of DropWrite: readers are not waited for. *)
DropWriteAmongReaders(w) ==
  /\ pc[w] = "cancelling"
  /\ writer[found[w]] = Null
  /\ writer' = [writer EXCEPT ![found[w]] = w]
  /\ Goto(w, "checking")
  /\ UNCHANGED <<lists, readers, owner, slot, poller, found, npc, called, task>>

DropWrite(w) ==
  /\ pc[w] = "cancelling"
  /\ readers[found[w]] = {}
  /\ writer[found[w]] = Null
  /\ writer' = [writer EXCEPT ![found[w]] = w]
  /\ Goto(w, "checking")
  /\ UNCHANGED <<lists, readers, owner, slot, poller, found, npc, called, task>>

(* The waiter was requeued while the lock was awaited: follow it. *)
DropRetry(w) ==
  /\ pc[w] = "checking"
  /\ owner[w] # found[w]
  /\ writer' = [writer EXCEPT ![found[w]] = Null]
  /\ found' = [found EXCEPT ![w] = owner[w]]
  /\ Goto(w, "cancelling")
  /\ UNCHANGED <<lists, readers, owner, slot, poller, npc, called, task>>

(* Mutant of DropRemove: the inbox is not flipped. *)
DropRemoveNoFlip(w) ==
  /\ pc[w] = "checking"
  /\ owner[w] = found[w]
  /\ queue' = [queue EXCEPT ![owner[w]] = Without(@, w)]
  /\ writer' = [writer EXCEPT ![owner[w]] = Null]
  /\ found' = [found EXCEPT ![w] = Null]
  /\ Goto(w, "removed")
  /\ UNCHANGED <<inbox, readers, owner, slot, poller, npc, handles, called, task>>

(* flip, cancel, and the end of the write lock. *)
DropRemove(w) ==
  /\ pc[w] = "checking"
  /\ LET f == found[w] IN
       /\ owner[w] = f
       /\ queue' = [queue EXCEPT ![f] = Without(@ \o inbox[f], w)]
       /\ inbox' = [inbox EXCEPT ![f] = <<>>]
       /\ writer' = [writer EXCEPT ![f] = Null]
  /\ found' = [found EXCEPT ![w] = Null]
  /\ Goto(w, "removed")
  /\ UNCHANGED <<readers, owner, slot, poller, npc, handles, called, task>>

(* The waker is dropped and on_cancel_sleeping called. *)
DropSleeping(w) ==
  /\ pc[w] = "removed"
  /\ w \notin Uncancellable
  /\ slot[w] \in Wakers[w]
  /\ Count(w, -1)
  /\ EndWait(w)
  /\ UNCHANGED <<lists, locks, poller, found, npc, called>>

(* A todo!() unwinds before the slot is reset, and Drop for Waiter drops the
   waker in it again; the task is gone. *)
DropUnwinds(w) ==
  /\ pc[w] = "removed"
  /\ w \in Uncancellable
  /\ slot[w] \in Wakers[w]
  /\ Count(w, -2)
  /\ Goto(w, "unwound")
  /\ Set(w, "none")
  /\ owner' = [owner EXCEPT ![w] = Null]
  /\ UNCHANGED <<lists, locks, poller, found, npc, called, latest, ready>>

(* on_cancel_woken takes the wake that came too late. *)
DropWoken(w) ==
  /\ pc[w] = "removed"
  /\ slot[w] = "done"
  /\ EndWait(w)
  /\ UNCHANGED <<lists, locks, poller, found, npc, called, clones>>

-----------------------------------------------------------------------------
(* The notifier of f. *)

NLock(f) ==
  /\ npc[f] = "idle"
  /\ writer[f] = Null
  /\ readers' = [readers EXCEPT ![f] = @ \union {f}]
  /\ NGoto(f, "locked")
  /\ UNCHANGED <<lists, writer, owner, slot, pc, poller, found, called, task>>

(* cmpxchg_enqueue_weak and pop_many(n), under the borrow. *)
NTake(f, n) ==
  /\ npc[f] = "locked"
  /\ LET line == queue[f] \o inbox[f]
         k == IF n < Len(line) THEN n ELSE Len(line)
     IN /\ handles' = [handles EXCEPT ![f] = SubSeq(line, 1, k)]
        /\ queue' = [queue EXCEPT ![f] = SubSeq(line, k + 1, Len(line))]
  /\ inbox' = [inbox EXCEPT ![f] = <<>>]
  /\ NGoto(f, "holding")
  /\ UNCHANGED <<locks, owner, slot, pc, poller, found, called, task>>

(* Waiter::wake takes the waker out of the slot, which must hold one ... *)
NSwap(f) ==
  /\ npc[f] = "holding"
  /\ handles[f] # <<>>
  /\ LET w == Head(handles[f]) IN
       /\ Set(w, "done")
       /\ called' = [called EXCEPT ![f] = <<w, slot[w]>>]
       /\ NGoto(f, IF slot[w] \in Wakers[w] THEN "calling" ELSE "panicked")
  /\ handles' = [handles EXCEPT ![f] = Tail(@)]
  /\ UNCHANGED <<inbox, queue, locks, owner, pc, poller, found, task>>

(* Mutant of NCall: the waker is dropped and not called. *)
NCallSilent(f) ==
  /\ npc[f] = "calling"
  /\ Count(called[f][1], -1)
  /\ called' = [called EXCEPT ![f] = Null]
  /\ NGoto(f, "holding")
  /\ UNCHANGED <<lists, locks, owner, slot, pc, poller, found, latest, ready>>

(* ... and calls it: the executor polls the task if it knows the waker. *)
NCall(f) ==
  /\ npc[f] = "calling"
  /\ LET w == called[f][1] IN
       /\ Count(w, -1)
       /\ ready' = [ready EXCEPT ![w] = @ \/ called[f][2] = latest[w]]
  /\ called' = [called EXCEPT ![f] = Null]
  /\ NGoto(f, "holding")
  /\ UNCHANGED <<lists, locks, owner, slot, pc, poller, found, latest>>

NUnlock(f) ==
  /\ npc[f] = "holding"
  /\ handles[f] = <<>>
  /\ readers' = [readers EXCEPT ![f] = @ \ {f}]
  /\ NGoto(f, "idle")
  /\ UNCHANGED <<lists, writer, owner, slot, pc, poller, found, called, task>>

(* Condvar::notify locks the mutex's futex as well and requeues. *)
RLock(f) ==
  /\ npc[f] = "holding"
  /\ handles[f] # <<>>
  /\ Target[f] # Null
  /\ writer[Target[f]] = Null
  /\ readers' = [readers EXCEPT ![Target[f]] = @ \union {f}]
  /\ NGoto(f, "requeueing")
  /\ UNCHANGED <<lists, writer, owner, slot, pc, poller, found, called, task>>

(* requeue() stores the new futex pointer in one waiter after the other. *)
Unmoved(f) == {i \in 1..Len(handles[f]) : owner[handles[f][i]] # Target[f]}
RStore(f) ==
  /\ npc[f] = "requeueing"
  /\ \E i \in Unmoved(f) :
       /\ \A j \in Unmoved(f) : i <= j
       /\ owner' = [owner EXCEPT ![handles[f][i]] = Target[f]]
  /\ UNCHANGED <<lists, locks, slot, pc, poller, found, npc, called, task>>

(* Mutants of RPush: the list is pushed before every pointer is stored; its
   waiters are pushed newest first. *)
RPushEarly(f) ==
  /\ npc[f] = "requeueing"
  /\ inbox' = [inbox EXCEPT ![Target[f]] = @ \o handles[f]]
  /\ handles' = [handles EXCEPT ![f] = <<>>]
  /\ NGoto(f, "requeued")
  /\ UNCHANGED <<queue, locks, owner, slot, pc, poller, found, called, task>>

RPushReversed(f) ==
  /\ npc[f] = "requeueing"
  /\ Unmoved(f) = {}
  /\ inbox' = [inbox EXCEPT ![Target[f]] = @ \o Reverse(handles[f])]
  /\ handles' = [handles EXCEPT ![f] = <<>>]
  /\ NGoto(f, "requeued")
  /\ UNCHANGED <<queue, locks, owner, slot, pc, poller, found, called, task>>

(* Its CAS then puts the whole list on top of the other inbox. *)
RPush(f) ==
  /\ npc[f] = "requeueing"
  /\ Unmoved(f) = {}
  /\ inbox' = [inbox EXCEPT ![Target[f]] = @ \o handles[f]]
  /\ handles' = [handles EXCEPT ![f] = <<>>]
  /\ NGoto(f, "requeued")
  /\ UNCHANGED <<queue, locks, owner, slot, pc, poller, found, called, task>>

RUnlock(f) ==
  /\ npc[f] = "requeued"
  /\ readers' = [readers EXCEPT ![Target[f]] = @ \ {f}]
  /\ NGoto(f, "holding")
  /\ UNCHANGED <<lists, writer, owner, slot, pc, poller, found, called, task>>

-----------------------------------------------------------------------------
Poll(w)     == \E v \in Wakers[w] : PollLoad(w, v)
PollStep(w) == PollSwap(w) \/ PollRetry(w) \/ PollDone(w)
DropStep(w) == DropRetry(w) \/ DropRemove(w) \/ DropSleeping(w) \/ DropUnwinds(w) \/ DropWoken(w)
NStep(f)    == \/ \E n \in 1..Cardinality(Waiters) : NTake(f, n)
               \/ NSwap(f) \/ NCall(f) \/ NUnlock(f)
               \/ RStore(f) \/ RPush(f) \/ RUnlock(f)

Next ==
  \/ \E w \in Waiters : \/ \E f \in Futexes, v \in Wakers[w] : Enter(w, f, v)
                        \/ Poll(w) \/ PollStep(w)
                        \/ Drop(w) \/ DropWrite(w) \/ DropStep(w)
  \/ \E f \in Futexes : NLock(f) \/ NStep(f) \/ RLock(f)

(* A poll, a drop and a notification that have begun run on, and a task whose
   waker was called is polled.  Tasks may also be polled for no reason.  That
   the RwLock is got some day is not assumed. *)
Fairness ==
  /\ \A w \in Waiters : WF_vars(ready[w] /\ Poll(w)) /\ WF_vars(PollStep(w)) /\ WF_vars(DropStep(w))
  /\ \A f \in Futexes : WF_vars(NStep(f))

Spec     == Init /\ [][Next]_vars
FairSpec == Spec /\ Fairness

-----------------------------------------------------------------------------
Line(f) == handles[f] \o queue[f] \o inbox[f]
Places(w) == {p \in Futexes \X (1..Cardinality(Waiters)) :
                p[2] <= Len(Line(p[1])) /\ Line(p[1])[p[2]] = w}

(* wake finds a waker in every slot: no waiter is woken twice, or after it
   was dropped. *)
WakeFindsWaker == \A f \in Futexes : npc[f] # "panicked"

(* A waiter is linked in one place from the push to the wake or the drop, also
   while it is carried from one futex to another, and nowhere afterwards. *)
LinkedOnceWhileAsleep == \A w \in Waiters :
  Cardinality(Places(w)) =
    IF pc[w] \in Sleeping /\ slot[w] \in Wakers[w] THEN 1 ELSE 0

(* The futex pointer leads a dropped waiter to the list that holds it: the
   list of another futex only while its notifier holds both read locks. *)
OwnerLeadsToList == \A f \in Futexes :
  /\ \A w \in ToSet(queue[f] \o inbox[f]) : owner[w] = f
  /\ \A w \in ToSet(handles[f]) :
       owner[w] # f => owner[w] = Target[f] /\ f \in readers[f] \intersect readers[owner[w]]

(* The notifiers about to call a waker of w, and the clones elsewhere: in the
   slot and with a poll; a drop that met a todo!() drops one too many. *)
Callers(w) == {f \in Futexes : npc[f] = "calling" /\ called[f][1] = w}
Owed(w)    == (IF slot[w] \in Wakers[w] THEN 1 ELSE 0)
              + (IF pc[w] = "polling" THEN 1 ELSE 0)
              - (IF pc[w] = "unwound" THEN 1 ELSE 0)

(* Every clone of a waker is in the slot, with a poll, or with the notifier
   that will call it: none is leaked, and none dropped or called twice, but for
   the one of a waiter whose drop met a todo!(), which is dropped twice. *)
ClonesAccountedFor == \A w \in Waiters : clones[w] = Owed(w) + Cardinality(Callers(w))

(* Between polls, the waker of the latest poll is in the slot; or the task was
   woken and that waker has been, or is just being, called. *)
LatestWakerIsCalled == \A w \in Waiters : pc[w] = "pending" =>
  \/ slot[w] = latest[w]
  \/ slot[w] = "done" /\ \/ ready[w]
                         \/ \E f \in Futexes : called[f] = <<w, latest[w]>>

(* Strict FIFO: waiters that stay in line, or move to another together, keep
   their order. *)
OrderKept == [][\A f, g \in Futexes : \A a, b \in Waiters :
                  Before(Line(f), a, b) /\ {a, b} \subseteq ToSet(Line(g)')
                  => Before(Line(g)', a, b)]_vars

(* A woken waiter's future completes, unless it is dropped. *)
WokenReturns == \A w \in Waiters :
  pc[w] \in {"pending", "polling"} /\ slot[w] = "done" ~> pc[w] \in {"idle", "cancelling"}
-----------------------------------------------------------------------------
(* The inductive invariant behind the safety properties, in parts. *)

Steps     == Sleeping \union {"idle", "removed", "unwound"}
NSteps    == {"idle", "locked", "holding", "calling", "requeueing", "requeued", "panicked"}
AnyWaker  == UNION {Wakers[w] : w \in Waiters}
Asleep(w) == pc[w] \in Sleeping /\ slot[w] \in Wakers[w]
Filed(f)  == queue[f] \o inbox[f]

(* The values of every variable. *)
TypeOK ==
  /\ inbox \in [Futexes -> Seq(Waiters)] /\ queue \in [Futexes -> Seq(Waiters)]
  /\ handles \in [Futexes -> Seq(Waiters)]
  /\ readers \in [Futexes -> SUBSET Futexes]
  /\ writer \in [Futexes -> Waiters \union {Null}]
  /\ owner \in [Waiters -> Futexes \union {Null}]
  /\ found \in [Waiters -> Futexes \union {Null}]
  /\ slot \in [Waiters -> AnyWaker \union {"none", "done"}]
  /\ seen \in [Waiters -> AnyWaker \union {"none", "done", Null}]
  /\ fresh \in [Waiters -> AnyWaker \union {Null}]
  /\ latest \in [Waiters -> AnyWaker \union {Null}]
  /\ pc \in [Waiters -> Steps] /\ npc \in [Futexes -> NSteps]
  /\ called \in [Futexes -> (Waiters \X AnyWaker) \union {Null}]
  /\ ready \in [Waiters -> BOOLEAN] /\ clones \in [Waiters -> Int]

(* What a waiting task knows of its waiter. *)
WaitInv == \A w \in Waiters :
  /\ slot[w] \in Wakers[w] \union {"none", "done"}
  /\ slot[w] = "none" <=> pc[w] \in {"idle", "unwound"}
  /\ pc[w] \in Sleeping \union {"removed"} => owner[w] \in Futexes /\ latest[w] \in Wakers[w]
  /\ pc[w] \in {"cancelling", "checking"} => found[w] \in Futexes
  /\ pc[w] = "polling" => /\ fresh[w] = latest[w]
                          /\ seen[w] \in Wakers[w] \union {"done"}
                          /\ seen[w] = "done" => slot[w] = "done"

(* Who holds the RwLock of a futex: a function of the steps. *)
LockInv ==
  /\ \A f, g \in Futexes : g \in readers[f] <=>
       \/ g = f /\ npc[f] # "idle"
       \/ Target[g] = f /\ npc[g] \in {"requeueing", "requeued"}
  /\ \A f \in Futexes : writer[f] # Null => readers[f] = {}
  /\ \A w \in Waiters, f \in Futexes : writer[f] = w <=> pc[w] = "checking" /\ found[w] = f

(* What a notifier has in its hands. *)
NotifierInv == \A f \in Futexes :
  /\ npc[f] # "panicked"
  /\ npc[f] = "calling" => called[f] \in Waiters \X AnyWaker
  /\ npc[f] \in {"requeueing", "requeued"} => Target[f] # Null
  /\ handles[f] # <<>> => npc[f] \in {"holding", "calling", "requeueing"}

(* The lines hold the sleeping waiters, each of them once. *)
LinkInv ==
  /\ \A f \in Futexes : NoRepeats(Line(f))
  /\ \A f, g \in Futexes : f # g => ToSet(Line(f)) \intersect ToSet(Line(g)) = {}
  /\ \A w \in Waiters : Asleep(w) <=> \E f \in Futexes : w \in ToSet(Line(f))

(* The futex pointer of a linked waiter. *)
OwnerInv == \A f \in Futexes :
  /\ \A w \in ToSet(Filed(f)) : owner[w] = f
  /\ \A w \in ToSet(handles[f]) :
       owner[w] = f \/ (npc[f] = "requeueing" /\ owner[w] = Target[f])

(* The latest waker of a task between polls is in the slot, or was called, or
   is in the hands of a notifier about to call it. *)
LatestInv == \A w \in Waiters : pc[w] = "pending" =>
  \/ slot[w] = latest[w]
  \/ slot[w] = "done" /\ \/ ready[w]
                         \/ \E f \in Futexes : npc[f] = "calling" /\ called[f] = <<w, latest[w]>>

IInv == /\ TypeOK /\ WaitInv /\ LockInv /\ NotifierInv /\ LinkInv /\ OwnerInv
        /\ LatestInv /\ ClonesAccountedFor
=============================================================================
