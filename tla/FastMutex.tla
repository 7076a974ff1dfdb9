------------------------------ MODULE FastMutex -----------------------------
(***************************************************************************)
(* fast_mutex.rs: the mutex whose unlock wakes a waiter without giving it  *)
(* the lock.  Whoever comes first takes it; a waiter that finds it taken   *)
(* sleeps again, at the end of the line.  The flag waking says that a      *)
(* waiter is on its way, so that unlocks do not wake another one.          *)
(*                                                                         *)
(* Where a loop does nothing with the word it loaded but compare-and-swap  *)
(* it, the load and the swap that succeeds are one step, and a swap that   *)
(* fails is none.  The slow path of unlock does more: its snapshot, taken  *)
(* before the queues are locked, decides where a waiter is looked for, and *)
(* an assertion reads it before any swap has compared it with the word.    *)
(* The snapshot is therefore state (cur).                                  *)
(*                                                                         *)
(* Dropping a lock future that waits is unimplemented: its waiter leaves   *)
(* the line, and then todo!() panics with the word as it was.              *)
(***************************************************************************)
EXTENDS FutexOps, FiniteSets

CONSTANT Tasks

ASSUME TasksFinite == IsFiniteSet(Tasks) /\ Null \notin Tasks

VARIABLES
  locked, waking, waiters,  \* the three fields of Atom
  inbox, queue,             \* the futex's waiters, oldest first
  borrowed,                 \* a FutexQueueGuard exists
  pc,                       \* pc[t]: the step task t takes next
  cur,                      \* cur[t]: the snapshot in futex_atom of t's unlock
  popped,                   \* popped[t]: the WaiterHandle t is about to wake
  woken                     \* the tasks whose waker slot is Done

atom == <<locked, waking, waiters>>
vars == <<locked, waking, waiters, inbox, queue, borrowed, pc, cur, popped, woken>>

(* The futex's waiters, from the next that unlock wakes to the last. *)
line == queue \o inbox

(* The futex word, as load() and a failed CAS return it. *)
Now   == [locked |-> locked, waking |-> waking, waiters |-> waiters, top |-> Top(inbox)]
Blank == [locked |-> FALSE, waking |-> FALSE, waiters |-> 0, top |-> Null]

Goto(t, step) == pc' = [pc EXCEPT ![t] = step]
Load(t)       == cur' = [cur EXCEPT ![t] = Now]
Forget(t)     == cur' = [cur EXCEPT ![t] = Blank]

Init == /\ locked = FALSE /\ waking = FALSE /\ waiters = 0
        /\ inbox = <<>> /\ queue = <<>>
        /\ borrowed = FALSE
        /\ pc = [t \in Tasks |-> "idle"]
        /\ cur = [t \in Tasks |-> Blank]
        /\ popped = [t \in Tasks |-> Null]
        /\ woken = {}

-----------------------------------------------------------------------------
(* lock(): the first loop. *)

(* Mutant of Acquire: the atom is stored without comparing. *)
AcquireBlind(t) ==
  /\ pc[t] = "idle"
  /\ locked' = TRUE
  /\ Goto(t, "held")
  /\ UNCHANGED <<waking, waiters, inbox, queue, borrowed, cur, popped, woken>>

Acquire(t) ==
  /\ pc[t] = "idle"
  /\ ~locked
  /\ locked' = TRUE
  /\ Goto(t, "held")
  /\ UNCHANGED <<waking, waiters, inbox, queue, borrowed, cur, popped, woken>>

Enter(t) ==
  /\ pc[t] = "idle"
  /\ locked
  /\ waiters' = waiters + 1
  /\ inbox' = Append(inbox, t)
  /\ Goto(t, "asleep")
  /\ UNCHANGED <<locked, waking, queue, borrowed, cur, popped, woken>>

(* The wait returns true; the second loop begins, with another Waiter. *)
Resume(t) ==
  /\ pc[t] = "asleep"
  /\ t \in woken
  /\ woken' = woken \ {t}
  /\ Goto(t, "awake")
  /\ UNCHANGED <<atom, inbox, queue, borrowed, cur, popped>>

(* Mutant of Reacquire: waking stays set. *)
ReacquireWaking(t) ==
  /\ pc[t] = "awake"
  /\ ~locked
  /\ locked' = TRUE /\ waiters' = waiters - 1
  /\ Goto(t, "held")
  /\ UNCHANGED <<waking, inbox, queue, borrowed, cur, popped, woken>>

Reacquire(t) ==
  /\ pc[t] = "awake"
  /\ ~locked
  /\ locked' = TRUE /\ waking' = FALSE /\ waiters' = waiters - 1
  /\ Goto(t, "held")
  /\ UNCHANGED <<inbox, queue, borrowed, cur, popped, woken>>

(* Mutants of Reenter: waking stays set; the waiter is counted again. *)
ReenterWaking(t) ==
  /\ pc[t] = "awake"
  /\ locked
  /\ inbox' = Append(inbox, t)
  /\ Goto(t, "asleep")
  /\ UNCHANGED <<atom, queue, borrowed, cur, popped, woken>>

ReenterCounted(t) ==
  /\ pc[t] = "awake"
  /\ locked
  /\ waking' = FALSE /\ waiters' = waiters + 1
  /\ inbox' = Append(inbox, t)
  /\ Goto(t, "asleep")
  /\ UNCHANGED <<locked, queue, borrowed, cur, popped, woken>>

(* The lock was taken meanwhile: sleep again, and let the next unlock wake. *)
Reenter(t) ==
  /\ pc[t] = "awake"
  /\ locked
  /\ waking' = FALSE
  /\ inbox' = Append(inbox, t)
  /\ Goto(t, "asleep")
  /\ UNCHANGED <<locked, waiters, queue, borrowed, cur, popped, woken>>

(* The future is dropped while it sleeps, or after it was woken.  Under the
   write lock the inbox is flipped and the waiter removed, so not between an
   unlock's Borrow and the end of its wake; both callbacks panic, and the task
   is not heard of again. *)
Drop(t) ==
  /\ pc[t] = "asleep"
  /\ \A u \in Tasks : pc[u] \notin {"notifying", "popping", "waking"}
  /\ queue' = Without(line, t) /\ inbox' = <<>>
  /\ Goto(t, IF t \in woken THEN "dropped_woken" ELSE "dropped_asleep")
  /\ UNCHANGED <<atom, borrowed, cur, popped, woken>>

-----------------------------------------------------------------------------
(* unlock(). *)

(* Nobody to wake, or somebody is awake already. *)
Unlock(t) ==
  /\ pc[t] = "held"
  /\ waking \/ waiters = 0
  /\ locked' = FALSE
  /\ Goto(t, "idle")
  /\ UNCHANGED <<waking, waiters, inbox, queue, borrowed, cur, popped, woken>>

(* The word asks for a wake; it is kept while the queues are locked. *)
UnlockSlowly(t) ==
  /\ pc[t] = "held"
  /\ ~waking /\ waiters > 0
  /\ Load(t)
  /\ Goto(t, "releasing")
  /\ UNCHANGED <<atom, inbox, queue, borrowed, popped, woken>>

Borrow(t) ==
  /\ pc[t] = "releasing"
  /\ borrowed' = TRUE
  /\ Goto(t, IF borrowed THEN "panicked" ELSE "notifying")
  /\ UNCHANGED <<atom, inbox, queue, cur, popped, woken>>

(* Where the loop looks for a waiter: had_waiters, has_new_waiters in the
   snapshot; found in neither, the snapshot must count none. *)
Found(t)        == queue # <<>> \/ cur[t].top # Null
AssertHolds(t)  == Found(t) \/ cur[t].waiters = 0

(* Mutant of Release: the lock is let go, but waking is not set. *)
ReleaseQuietly(t) ==
  /\ pc[t] = "notifying"
  /\ AssertHolds(t) /\ cur[t] = Now
  /\ locked' = FALSE
  /\ IF queue = <<>> THEN queue' = inbox /\ inbox' = <<>> ELSE UNCHANGED <<queue, inbox>>
  /\ borrowed' = (Found(t) /\ ~waking)
  /\ Goto(t, IF borrowed' THEN "popping" ELSE "idle")
  /\ Forget(t)
  /\ UNCHANGED <<waking, waiters, popped, woken>>

(* The CAS succeeds.  A waiter is queued, or the CAS empties the inbox into the
   queue: the lock is let go and a wake announced, and the waiter popped unless
   one is announced already. *)
Release(t) ==
  /\ pc[t] = "notifying"
  /\ AssertHolds(t) /\ cur[t] = Now
  /\ locked' = FALSE /\ waking' = Found(t)
  /\ IF queue = <<>> THEN queue' = inbox /\ inbox' = <<>> ELSE UNCHANGED <<queue, inbox>>
  /\ borrowed' = (Found(t) /\ ~waking)
  /\ Goto(t, IF borrowed' THEN "popping" ELSE "idle")
  /\ Forget(t)
  /\ UNCHANGED <<waiters, popped, woken>>

(* The CAS fails, since the word has changed under the snapshot. *)
Reload(t) ==
  /\ pc[t] = "notifying"
  /\ AssertHolds(t) /\ cur[t] # Now
  /\ Load(t)
  /\ UNCHANGED <<atom, inbox, queue, borrowed, pc, popped, woken>>

(* Nobody is queued and the snapshot has an empty inbox but counts waiters: the
   assertion fails, whoever is in the inbox by now.  The lock stays held. *)
ReleaseFails(t) ==
  /\ pc[t] = "notifying"
  /\ ~AssertHolds(t)
  /\ borrowed' = FALSE
  /\ Goto(t, "stuck")
  /\ Forget(t)
  /\ UNCHANGED <<atom, inbox, queue, popped, woken>>

Pop(t) ==
  /\ pc[t] = "popping"
  /\ queue' = Tail(queue)
  /\ popped' = [popped EXCEPT ![t] = Head(queue)]
  /\ borrowed' = FALSE
  /\ Goto(t, "waking")
  /\ UNCHANGED <<atom, inbox, cur, woken>>

Wake(t) ==
  /\ pc[t] = "waking"
  /\ woken' = woken \union {popped[t]}
  /\ popped' = [popped EXCEPT ![t] = Null]
  /\ Goto(t, IF popped[t] \in woken \/ pc[popped[t]] # "asleep" THEN "panicked" ELSE "idle")
  /\ UNCHANGED <<atom, inbox, queue, borrowed, cur>>

-----------------------------------------------------------------------------
LockStep(t)   == Resume(t) \/ Reenter(t)
UnlockStep(t) == \/ UnlockSlowly(t) \/ Borrow(t) \/ Release(t) \/ Reload(t) \/ ReleaseFails(t)
                 \/ Pop(t) \/ Wake(t)

Next == \E t \in Tasks :
  \/ Acquire(t) \/ Enter(t) \/ LockStep(t) \/ Reacquire(t) \/ Drop(t)
  \/ Unlock(t) \/ UnlockStep(t)

(* A task that was woken runs on, a guard is dropped some day, an unlock that
   has begun runs on.  Nobody is obliged to lock. *)
Fairness == \A t \in Tasks :
  WF_vars(LockStep(t)) /\ WF_vars(Reacquire(t)) /\ WF_vars(Unlock(t)) /\ WF_vars(UnlockStep(t))

Spec     == Init /\ [][Next]_vars
FairSpec == Spec /\ Fairness

-----------------------------------------------------------------------------
Holding == {t \in Tasks : pc[t] \in {"held", "releasing", "notifying", "stuck"}}
Waiting == {t \in Tasks : pc[t] \in {"asleep", "awake"}}
Dropped == {t \in Tasks : pc[t] \in {"dropped_asleep", "dropped_woken"}}

(* The waiter on its way: popped, woken or awake; or dropped on its way. *)
Coming(t) == \/ pc[t] \in {"popping", "waking", "awake", "dropped_woken"}
             \/ pc[t] = "asleep" /\ t \in woken

(* One task at most holds the lock, and the word tells whether one does, also
   after lock futures were dropped. *)
MutualExclusion == /\ \A t, u \in Holding : t = u
                   /\ locked <=> Holding # {}

(* No two unlocks meet in the queues and no waiter is woken twice or after it
   was dropped: the flag waking makes unlock a single notifier.  The assertion
   on the stale snapshot fails only if a sleeping future was dropped. *)
NeverPanics == \A t \in Tasks :
  /\ pc[t] # "panicked"
  /\ pc[t] = "stuck" => \E u \in Tasks : pc[u] = "dropped_asleep"

(* The count in the word is the number of tasks that wait, asleep or awake, and
   of those whose future was dropped: they stay counted for ever. *)
WaitersCounted == waiters = Cardinality(Waiting \union Dropped)

(* A lock that is free while tasks wait has one of them on its way; there is
   never more than one, and waking says whether there is one. *)
FreeLockIsComing ==
  /\ ~locked /\ waiters > 0 => waking
  /\ waking <=> \E t \in Tasks : Coming(t)
  /\ \A t, u \in Tasks : Coming(t) /\ Coming(u) => t = u

(* While tasks wait the lock is taken again and again, if not by them, unless
   a waiting future is dropped. *)
LockTakenAgain ==
  (\E t \in Tasks : pc[t] = "asleep") ~> (Dropped # {} \/ \E t \in Tasks : pc[t] = "held")
-----------------------------------------------------------------------------
(* The inductive invariant behind the safety properties, in parts. *)

Steps == {"idle", "asleep", "awake", "held", "releasing", "notifying", "popping", "waking",
          "dropped_asleep", "dropped_woken", "stuck", "panicked"}

Words == [locked : BOOLEAN, waking : BOOLEAN, waiters : Nat, top : Tasks \union {Null}]

(* The values of every variable. *)
TypeOK ==
  /\ locked \in BOOLEAN /\ waking \in BOOLEAN /\ waiters \in Nat
  /\ inbox \in Seq(Tasks) /\ queue \in Seq(Tasks)
  /\ borrowed \in BOOLEAN
  /\ pc \in [Tasks -> Steps]
  /\ cur \in [Tasks -> Words]
  /\ popped \in [Tasks -> Tasks \union {Null}]
  /\ woken \subseteq Tasks

(* Who holds the queues, and what that task knows. *)
QueueInv ==
  /\ borrowed <=> \E t \in Tasks : pc[t] \in {"notifying", "popping"}
  /\ \A t \in Tasks : pc[t] \in {"releasing", "notifying"} => ~waking
  /\ \A t \in Tasks : pc[t] = "popping" => queue # <<>>

(* What the snapshot of an unlock that goes to the queues is good for: it counts
   waiters, who stay counted, and if it has none in the inbox they were queued,
   until dropped. *)
SnapshotInv == \A t \in Tasks : pc[t] \in {"releasing", "notifying"} =>
  /\ cur[t].waiters > 0 /\ waiters > 0
  /\ cur[t].top = Null => queue # <<>> \/ \E u \in Tasks : pc[u] = "dropped_asleep"

(* Tasks in line sleep, and are there once; only waiting futures are woken. *)
LineInv ==
  /\ NoRepeats(line)
  /\ \A t \in ToSet(line) : pc[t] = "asleep" /\ t \notin woken
  /\ \A t \in woken : pc[t] \in {"asleep", "dropped_woken"}

(* A popped waiter sleeps, and is in line no longer. *)
HandleInv == \A u \in Tasks : pc[u] = "waking" =>
  /\ popped[u] \in Tasks
  /\ popped[u] \notin woken \union ToSet(line)
  /\ pc[popped[u]] = "asleep"

(* A sleeping waiter is in line, popped or woken. *)
PlaceInv == \A t \in Tasks : pc[t] = "asleep" =>
  t \in woken \/ t \in ToSet(line) \/ \E u \in Tasks : pc[u] = "waking" /\ popped[u] = t

IInv == /\ TypeOK /\ MutualExclusion /\ NeverPanics /\ WaitersCounted /\ FreeLockIsComing
        /\ QueueInv /\ SnapshotInv /\ LineInv /\ HandleInv /\ PlaceInv
=============================================================================
