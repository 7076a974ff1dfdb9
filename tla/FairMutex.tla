------------------------------ MODULE FairMutex -----------------------------
(***************************************************************************)
(* fair_mutex.rs on top of futex/mod.rs, futex/wait_future.rs and          *)
(* futex/waiter.rs: the mutex that hands its lock to waiters first come,   *)
(* first served.                                                           *)
(*                                                                         *)
(* Every task runs lock(), uses the guard, drops it, and may begin again;  *)
(* while its future is pending it may be dropped instead (cancellation).   *)
(* One action is one access to memory that tasks share: the futex word,    *)
(* the RwLock around the futex state, the AtomicRefCell inside it, the     *)
(* queue, and a waiter's waker slot.  A task's pc names the step it is     *)
(* about to take.  A compare-and-swap may fail spuriously: where failing   *)
(* only reloads the word, that is a stutter.                               *)
(*                                                                         *)
(* Memory is sequentially consistent here, and a waker slot records only   *)
(* None, Waiting or Done: whose waker it holds is the matter of Futex.     *)
(***************************************************************************)
EXTENDS FutexOps

CONSTANT Tasks

ASSUME NullIsNoTask == Null \notin Tasks

VARIABLES
  atom,        \* the user's half of the word: 1 while the mutex is locked
  inbox,       \* the waiters behind the word's inbox pointer, oldest first
  queue,       \* FutexState.queues[0], oldest first
  readers,     \* the tasks holding the RwLock shared (FutexWaitersGuard)
  writer,      \* the task holding it exclusively (a cancellation), or Null
  borrowed,    \* the AtomicRefCell's state is 1 (a FutexQueueGuard exists)
  waker,       \* waker[t]: the slot of task t's Waiter
  pc,          \* pc[t]: the step task t takes next
  cur,         \* cur[t]: the snapshot held in futex_atom by lock or unlock
  popped       \* popped[t]: the WaiterHandle task t is about to wake

word  == <<atom, inbox>>
locks == <<readers, writer, borrowed>>
local == <<cur, popped>>
vars  == <<atom, inbox, queue, readers, writer, borrowed, waker, pc, cur, popped>>

Unlocking == {"unlocking", "borrowing", "popping", "releasing", "clearing", "reborrowing"}
Pending   == {"waiting", "cancelling", "flipping", "cancelled"}
Steps     == Unlocking \union Pending
             \union {"idle", "locking", "held", "waking", "leaving", "panicked"}

Now   == Snapshot(atom, inbox)
Blank == [atom |-> 0, top |-> Null]

Goto(t, step)  == pc' = [pc EXCEPT ![t] = step]
Forget(t)      == cur' = [cur EXCEPT ![t] = Blank]
Load(t)        == cur' = [cur EXCEPT ![t] = Now]
SetWaker(t, w) == waker' = [waker EXCEPT ![t] = w]

Init ==
  /\ atom = 0
  /\ inbox = <<>>
  /\ queue = <<>>
  /\ readers = {}
  /\ writer = Null
  /\ borrowed = FALSE
  /\ waker = [t \in Tasks |-> "none"]
  /\ pc = [t \in Tasks |-> "idle"]
  /\ cur = [t \in Tasks |-> Blank]
  /\ popped = [t \in Tasks |-> Null]

-----------------------------------------------------------------------------
(* lock(): a fresh Waiter, a load of the word, then the loop. *)

Lock(t) ==
  /\ pc[t] = "idle"
  /\ Goto(t, "locking")
  /\ Load(t)
  /\ UNCHANGED <<word, queue, locks, waker, popped>>

(* Mutants of Acquire: the lock is counted up whatever the word reads; the
   atom is stored without comparing. *)
AcquireNested(t) ==
  /\ pc[t] = "locking"
  /\ cur[t] = Now
  /\ atom' = atom + 1
  /\ Goto(t, "held")
  /\ SetWaker(t, "none")
  /\ Forget(t)
  /\ UNCHANGED <<inbox, queue, locks, popped>>

AcquireBlind(t) ==
  /\ pc[t] = "locking"
  /\ cur[t].atom = 0
  /\ atom' = 1
  /\ Goto(t, "held")
  /\ SetWaker(t, "none")
  /\ Forget(t)
  /\ UNCHANGED <<inbox, queue, locks, popped>>

(* The word reads unlocked and the CAS succeeds.  lock() returns, and its
   Waiter is dropped with whatever waker an earlier poll_enter left in it. *)
Acquire(t) ==
  /\ pc[t] = "locking"
  /\ cur[t].atom = 0
  /\ cur[t] = Now
  /\ atom' = 1
  /\ Goto(t, "held")
  /\ SetWaker(t, "none")
  /\ Forget(t)
  /\ UNCHANGED <<inbox, queue, locks, popped>>

AcquireFailed(t) ==
  /\ pc[t] = "locking"
  /\ cur[t].atom = 0
  /\ cur[t] # Now
  /\ Load(t)
  /\ UNCHANGED <<word, queue, locks, waker, pc, popped>>

(* The word reads locked: poll_enter fills the waker slot and pushes the
   Waiter on the inbox, leaving the atom 1. *)
Enter(t) ==
  /\ pc[t] = "locking"
  /\ cur[t].atom = 1
  /\ cur[t] = Now
  /\ inbox' = Append(inbox, t)
  /\ SetWaker(t, "waiting")
  /\ Goto(t, "waiting")
  /\ Forget(t)
  /\ UNCHANGED <<atom, queue, locks, popped>>

(* The CAS fails after the slot has been filled; the loop tries again. *)
EnterFailed(t) ==
  /\ pc[t] = "locking"
  /\ cur[t].atom = 1
  /\ cur[t] # Now
  /\ SetWaker(t, "waiting")
  /\ Load(t)
  /\ UNCHANGED <<word, queue, locks, pc, popped>>

(* poll_waiting finds Done: the await returns true, and so does lock(). *)
Resume(t) ==
  /\ pc[t] = "waiting"
  /\ waker[t] = "done"
  /\ SetWaker(t, "none")
  /\ Goto(t, "held")
  /\ UNCHANGED <<word, queue, locks, local>>

-----------------------------------------------------------------------------
(* Dropping the pending future: Drop for WaitFuture. *)

Drop(t) ==
  /\ pc[t] = "waiting"
  /\ Goto(t, "cancelling")
  /\ UNCHANGED <<word, queue, locks, waker, local>>

CancelWrite(t) ==
  /\ pc[t] = "cancelling"
  /\ readers = {}
  /\ writer = Null
  /\ writer' = t
  /\ Goto(t, "flipping")
  /\ UNCHANGED <<word, queue, readers, borrowed, waker, local>>

(* Mutants of CancelRemove: the flipped inbox is not put in the queue; the
   inbox is not flipped. *)
CancelRemoveForgetful(t) ==
  /\ pc[t] = "flipping"
  /\ queue' = Without(queue, t)
  /\ inbox' = <<>>
  /\ writer' = Null
  /\ Goto(t, "cancelled")
  /\ UNCHANGED <<atom, readers, borrowed, waker, local>>

CancelRemoveNoFlip(t) ==
  /\ pc[t] = "flipping"
  /\ queue' = Without(queue, t)
  /\ writer' = Null
  /\ Goto(t, "cancelled")
  /\ UNCHANGED <<atom, inbox, readers, borrowed, waker, local>>

(* flip() drains the inbox into the queue and cancel() takes the waiter out
   of it; the write lock ends with the loop body. *)
CancelRemove(t) ==
  /\ pc[t] = "flipping"
  /\ queue' = Without(queue \o inbox, t)
  /\ inbox' = <<>>
  /\ writer' = Null
  /\ Goto(t, "cancelled")
  /\ UNCHANGED <<atom, readers, borrowed, waker, local>>

(* on_cancel_sleeping: nothing to do. *)
CancelSleeping(t) ==
  /\ pc[t] = "cancelled"
  /\ waker[t] = "waiting"
  /\ SetWaker(t, "none")
  /\ Goto(t, "idle")
  /\ UNCHANGED <<word, queue, locks, local>>

(* Mutant of CancelWoken: the lock handed to the dropped future is kept. *)
CancelWokenSilent(t) ==
  /\ pc[t] = "cancelled"
  /\ waker[t] = "done"
  /\ Goto(t, "idle")
  /\ SetWaker(t, "none")
  /\ UNCHANGED <<word, queue, locks, local>>

(* on_cancel_woken: the lock was already handed over, so unlock() it. *)
CancelWoken(t) ==
  /\ pc[t] = "cancelled"
  /\ waker[t] = "done"
  /\ Goto(t, "unlocking")
  /\ SetWaker(t, "none")
  /\ UNCHANGED <<word, queue, locks, local>>

-----------------------------------------------------------------------------
(* unlock(). *)

Unlock(t) ==
  /\ pc[t] = "held"
  /\ Goto(t, "unlocking")
  /\ UNCHANGED <<word, queue, locks, waker, local>>

ReadLock(t) ==
  /\ pc[t] = "unlocking"
  /\ writer = Null
  /\ readers' = readers \union {t}
  /\ Goto(t, "borrowing")
  /\ UNCHANGED <<word, queue, writer, borrowed, waker, local>>

(* borrow_mut() asserts that nobody else has the queues. *)
Borrow(t, next) ==
  /\ borrowed' = TRUE
  /\ Goto(t, IF borrowed THEN "panicked" ELSE next)
  /\ UNCHANGED <<word, queue, readers, writer, waker, local>>

BorrowMut(t) == pc[t] = "borrowing" /\ Borrow(t, "popping")

(* Mutant of PopQueued: the queues are not given back. *)
PopQueuedHolding(t) ==
  /\ pc[t] = "popping"
  /\ queue # <<>>
  /\ queue' = Tail(queue)
  /\ popped' = [popped EXCEPT ![t] = Head(queue)]
  /\ Goto(t, "waking")
  /\ UNCHANGED <<word, locks, waker, cur>>

(* A waiter is queued: pop it and give the queues back before waking it. *)
PopQueued(t) ==
  /\ pc[t] = "popping"
  /\ queue # <<>>
  /\ queue' = Tail(queue)
  /\ popped' = [popped EXCEPT ![t] = Head(queue)]
  /\ borrowed' = FALSE
  /\ Goto(t, "waking")
  /\ UNCHANGED <<word, readers, writer, waker, cur>>

LoadAtom(t) ==
  /\ pc[t] = "popping"
  /\ queue = <<>>
  /\ Load(t)
  /\ Goto(t, "releasing")
  /\ UNCHANGED <<word, queue, locks, waker, popped>>

(* Mutant of EnqueueAndPop: the inbox is served as the stack it is. *)
EnqueueAndPopNewest(t) ==
  /\ pc[t] = "releasing"
  /\ cur[t].top # Null
  /\ cur[t] = Now
  /\ inbox' = <<>>
  /\ queue' = Front(queue \o inbox)
  /\ popped' = [popped EXCEPT ![t] = Last(queue \o inbox)]
  /\ borrowed' = FALSE
  /\ Goto(t, "waking")
  /\ Forget(t)
  /\ UNCHANGED <<atom, readers, writer, waker>>

(* New waiters: cmpxchg_enqueue_weak empties the inbox into the queue, whose
   first waiter is popped. *)
EnqueueAndPop(t) ==
  /\ pc[t] = "releasing"
  /\ cur[t].top # Null
  /\ cur[t] = Now
  /\ inbox' = <<>>
  /\ queue' = Tail(queue \o inbox)
  /\ popped' = [popped EXCEPT ![t] = Head(queue \o inbox)]
  /\ borrowed' = FALSE
  /\ Goto(t, "waking")
  /\ Forget(t)
  /\ UNCHANGED <<atom, readers, writer, waker>>

EnqueueFailed(t) ==
  /\ pc[t] = "releasing"
  /\ cur[t].top # Null
  /\ cur[t] # Now
  /\ Load(t)
  /\ UNCHANGED <<word, queue, locks, waker, pc, popped>>

(* No new waiters: give the queues back, then try to clear the atom. *)
Unborrow(t) ==
  /\ pc[t] = "releasing"
  /\ cur[t].top = Null
  /\ borrowed' = FALSE
  /\ Goto(t, "clearing")
  /\ UNCHANGED <<word, queue, readers, writer, waker, local>>

(* Mutant of Clear: the CAS does not look at the inbox pointer. *)
ClearBlind(t) ==
  /\ pc[t] = "clearing"
  /\ cur[t].atom = atom
  /\ atom' = 0
  /\ Goto(t, "leaving")
  /\ Forget(t)
  /\ UNCHANGED <<inbox, queue, locks, waker, popped>>

Clear(t) ==
  /\ pc[t] = "clearing"
  /\ cur[t] = Now
  /\ atom' = 0
  /\ Goto(t, "leaving")
  /\ Forget(t)
  /\ UNCHANGED <<inbox, queue, locks, waker, popped>>

(* The CAS fails, perhaps spuriously. *)
ClearFailed(t) ==
  /\ pc[t] = "clearing"
  /\ Load(t)
  /\ Goto(t, "reborrowing")
  /\ UNCHANGED <<word, queue, locks, waker, popped>>

Reborrow(t) == pc[t] = "reborrowing" /\ Borrow(t, "releasing")

(* Waiter::wake: the slot becomes Done, and must have been Waiting. *)
Wake(t) ==
  /\ pc[t] = "waking"
  /\ SetWaker(popped[t], "done")
  /\ Goto(t, IF waker[popped[t]] = "waiting" THEN "leaving" ELSE "panicked")
  /\ popped' = [popped EXCEPT ![t] = Null]
  /\ UNCHANGED <<word, queue, locks, cur>>

(* Mutant of Leave: the FutexWaitersGuard is leaked. *)
LeaveLocked(t) ==
  /\ pc[t] = "leaving"
  /\ Goto(t, "idle")
  /\ UNCHANGED <<word, queue, locks, waker, local>>

(* The FutexWaitersGuard is dropped last. *)
Leave(t) ==
  /\ pc[t] = "leaving"
  /\ readers' = readers \ {t}
  /\ Goto(t, "idle")
  /\ UNCHANGED <<word, queue, writer, borrowed, waker, local>>

-----------------------------------------------------------------------------
LockStep(t)   == Lock(t) \/ Acquire(t) \/ AcquireFailed(t) \/ Enter(t) \/ EnterFailed(t)
CancelStep(t) == CancelRemove(t) \/ CancelSleeping(t) \/ CancelWoken(t)
UnlockStep(t) == \/ BorrowMut(t) \/ PopQueued(t) \/ LoadAtom(t)
                 \/ EnqueueAndPop(t) \/ EnqueueFailed(t) \/ Unborrow(t)
                 \/ ClearFailed(t) \/ Reborrow(t) \/ Wake(t) \/ Leave(t)

Next == \E t \in Tasks :
  \/ LockStep(t) \/ Resume(t)
  \/ Drop(t) \/ CancelWrite(t) \/ CancelStep(t)
  \/ Unlock(t) \/ ReadLock(t) \/ UnlockStep(t) \/ Clear(t)

(* A task that has begun to unlock or to cancel runs on; a task whose waker
   was called is polled; a guard is dropped some day.  The RwLock does not
   pass over a thread for ever, and a CAS does not fail for ever on a word
   that keeps its value.  Nothing makes a task lock or be cancelled. *)
Fairness == \A t \in Tasks :
  /\ WF_vars(UnlockStep(t)) /\ WF_vars(CancelStep(t))
  /\ WF_vars(Resume(t)) /\ WF_vars(Unlock(t))
  /\ SF_vars(ReadLock(t)) /\ SF_vars(CancelWrite(t)) /\ SF_vars(Clear(t))

Spec     == Init /\ [][Next]_vars
FairSpec == Spec /\ Fairness

-----------------------------------------------------------------------------
Line == queue \o inbox

(* A task owns the lock from the CAS or the pop that gives it the lock until
   the pop or the CAS that gives it away. *)
Handed(t) == \E u \in Tasks : pc[u] = "waking" /\ popped[u] = t
Owns(t) == \/ pc[t] \in Unlocking \union {"held"}
           \/ pc[t] \in Pending /\ waker[t] = "done"
           \/ Handed(t)

Owner == IF \E t \in Tasks : Owns(t) THEN CHOOSE t \in Tasks : Owns(t) ELSE Null

Words == [atom : {0, 1}, top : Tasks \union {Null}]

(* The values of every variable. *)
TypeOK ==
  /\ atom \in {0, 1}
  /\ inbox \in Seq(Tasks) /\ queue \in Seq(Tasks)
  /\ readers \subseteq Tasks
  /\ writer \in Tasks \union {Null}
  /\ borrowed \in BOOLEAN
  /\ waker \in [Tasks -> {"none", "waiting", "done"}]
  /\ pc \in [Tasks -> Steps]
  /\ cur \in [Tasks -> Words]
  /\ popped \in [Tasks -> Tasks \union {Null}]

(* The lock has one owner at most, counting the tasks it is being handed to
   and those that give it back after a cancellation that came too late. *)
MutualExclusion == \A t, u \in Tasks : Owns(t) /\ Owns(u) => t = u

(* The word tells whether the lock is owned: a lock that reads 0 may be taken
   without a look at the queue, and one that reads 1 will be given back. *)
WordTellsOwner ==
  /\ atom = 1 <=> \E t \in Tasks : Owns(t)
  /\ atom = 0 => Line = <<>>

(* borrow_mut never finds the queues taken and wake never finds a waiter that
   does not wait: unlock is the single notifier futex/mod.rs asks for. *)
NeverPanics == \A t \in Tasks : pc[t] # "panicked"

(* A task whose future sleeps is in exactly one place: linked once in the
   inbox or the queue, or in the hands of the one task about to wake it.
   Otherwise no unlock would ever find it. *)
NoWaiterLost ==
  /\ NoRepeats(Line)
  /\ \A t \in Tasks : pc[t] \in {"waiting", "cancelling"} /\ waker[t] = "waiting" =>
        (t \in ToSet(Line)) # Handed(t)

(* A pointer held by the futex or by an unlocker points to a Waiter whose
   future has not been dropped yet. *)
NoDanglingWaiter ==
  /\ \A t \in ToSet(Line) : pc[t] \in Pending \ {"cancelled"}
  /\ \A u \in Tasks : pc[u] = "waking" => pc[popped[u]] \in Pending \ {"cancelled"}

(* First come, first served, and no barging: the mutex implements FairLock. *)
Abstract == INSTANCE FairLock WITH owner <- Owner, line <- Line
ImplementsFairLock == Abstract!Spec

(* A waiting task gets the lock unless its future is dropped. *)
WaiterServed == \A t \in Tasks : pc[t] = "waiting" ~> pc[t] \in {"held", "cancelling"}

(* Dropping a pending future ends, and so does unlock. *)
DropReturns == \A t \in Tasks :
  pc[t] \in (Pending \union Unlocking) \ {"waiting"} ~> pc[t] = "idle"
-----------------------------------------------------------------------------
(* The inductive invariant behind the safety properties, in parts. *)

Guarded == {"borrowing", "popping", "releasing", "clearing", "reborrowing", "waking", "leaving"}
Linked  == {"waiting", "cancelling", "flipping"}

(* Who holds the RwLock, and that a writer excludes readers. *)
RwLockInv ==
  /\ \A t \in Tasks : t \in readers <=> pc[t] \in Guarded
  /\ \A t \in Tasks : writer = t <=> pc[t] = "flipping"
  /\ writer # Null => readers = {}

(* Who holds the queues, and what that task knows about them. *)
QueueInv ==
  /\ borrowed <=> \E t \in Tasks : pc[t] \in {"popping", "releasing"}
  /\ \A t \in Tasks : pc[t] \in {"releasing", "clearing", "reborrowing"} => queue = <<>>
  /\ \A t \in Tasks : pc[t] = "clearing" => cur[t].top = Null

(* Linked waiters sleep, and are linked once. *)
LinkInv ==
  /\ NoRepeats(Line)
  /\ \A t \in ToSet(Line) : pc[t] \in Linked /\ waker[t] = "waiting"

(* One waiter at most is popped; it sleeps, is in no list, and cannot be
   cancelled under the read lock. *)
HandleInv == \A u \in Tasks : pc[u] = "waking" =>
  /\ popped[u] \in Tasks
  /\ popped[u] \notin ToSet(Line)
  /\ pc[popped[u]] \in {"waiting", "cancelling"}
  /\ waker[popped[u]] = "waiting"
  /\ \A v \in Tasks : pc[v] = "waking" => v = u

(* A sleeping waiter is linked or popped. *)
PlaceInv == \A t \in Tasks :
  pc[t] \in Linked /\ waker[t] = "waiting" => t \in ToSet(Line) \/ Handed(t)

IInv == /\ TypeOK /\ MutualExclusion /\ WordTellsOwner /\ NeverPanics
        /\ RwLockInv /\ QueueInv /\ LinkInv /\ HandleInv /\ PlaceInv
=============================================================================
