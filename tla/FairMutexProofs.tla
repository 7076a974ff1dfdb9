--------------------------- MODULE FairMutexProofs --------------------------
(***************************************************************************)
(* What FairMutex guarantees for every set of tasks.  The safety           *)
(* properties follow from one inductive invariant, IInv: each action keeps *)
(* it (the lemmas ...Keeps, one per action, in the order of the module).   *)
(* The argument turns on two facts: the one owner of the lock is the only  *)
(* task that pops waiters, and a popped waiter cannot leave before it is   *)
(* woken, because the owner still holds the read lock.                     *)
(* FairMutex also implements FairLock.                                     *)
(***************************************************************************)
EXTENDS FairMutex, FutexOpsProofs

USE NullIsNoTask

(* An owner keeps the atom 1. *)
LEMMA OwnedWord ==
  ASSUME IInv, NEW t \in Tasks, Owns(t) PROVE atom = 1
BY DEF IInv, WordTellsOwner

(* lock() begins: nothing but its snapshot is new. *)
LEMMA LockKeeps ==
  ASSUME NEW t \in Tasks, IInv, Lock(t) PROVE IInv'
<1> USE DEF IInv, Lock, Goto, Forget, Load, SetWaker, word, locks, local
<1>1. Line' = Line
  BY DEF Line
<1>2. TypeOK'
  BY TopNull DEF TypeOK, Steps, Unlocking, Pending, Words, Blank, Now, Snapshot
<1>3. MutualExclusion' /\ NeverPanics' /\ WordTellsOwner'
  BY <1>1 DEF MutualExclusion, NeverPanics, WordTellsOwner, HandleInv, TypeOK, Owns, Handed, Unlocking, Pending
<1>4. RwLockInv' /\ QueueInv'
  BY DEF RwLockInv, QueueInv, NeverPanics, MutualExclusion, TypeOK, Guarded, Owns, Unlocking
<1>5. LinkInv' /\ PlaceInv'
  BY <1>1 DEF LinkInv, HandleInv, PlaceInv, RwLockInv, TypeOK, Guarded, Linked, Handed
<1>6. HandleInv'
  BY <1>1 DEF HandleInv, RwLockInv, TypeOK, Guarded
<1> QED BY <1>2, <1>3, <1>4, <1>5, <1>6

(* A free lock has no owner and no line, so the CAS makes the one owner. *)
LEMMA AcquireKeeps ==
  ASSUME NEW t \in Tasks, IInv, Acquire(t) PROVE IInv'
<1> USE DEF IInv, Acquire, Goto, Forget, Load, SetWaker, word, locks, local
<1>1. Line' = Line
  BY DEF Line
<1>2. TypeOK'
  BY DEF TypeOK, Steps, Unlocking, Pending, Words, Blank, Now, Snapshot
<1>3. atom = 0
  BY DEF Now, Snapshot
<1>4. MutualExclusion' /\ NeverPanics' /\ WordTellsOwner'
  BY <1>1, <1>3 DEF MutualExclusion, NeverPanics, WordTellsOwner, HandleInv, TypeOK, Owns, Handed, Unlocking, Pending
<1>5. RwLockInv' /\ QueueInv'
  BY DEF RwLockInv, QueueInv, TypeOK, Guarded
<1>6. LinkInv' /\ PlaceInv'
  BY <1>1 DEF LinkInv, PlaceInv, TypeOK, Linked, Handed
<1>7. HandleInv'
  BY <1>1 DEF HandleInv, TypeOK
<1> QED BY <1>2, <1>4, <1>5, <1>6, <1>7

(* Reloading the word disturbs nothing. *)
LEMMA AcquireFailedKeeps ==
  ASSUME NEW t \in Tasks, IInv, AcquireFailed(t) PROVE IInv'
<1> USE DEF IInv, AcquireFailed, Goto, Forget, Load, SetWaker, word, locks, local
<1>1. Line' = Line
  BY DEF Line
<1>2. TypeOK'
  BY TopNull DEF TypeOK, Steps, Unlocking, Pending, Words, Blank, Now, Snapshot
<1>3. MutualExclusion' /\ NeverPanics' /\ WordTellsOwner'
  BY <1>1 DEF MutualExclusion, NeverPanics, WordTellsOwner, HandleInv, TypeOK, Owns, Handed, Unlocking, Pending
<1>4. RwLockInv' /\ QueueInv'
  BY DEF RwLockInv, QueueInv, NeverPanics, MutualExclusion, TypeOK, Guarded, Owns, Unlocking
<1>5. LinkInv' /\ PlaceInv'
  BY <1>1 DEF LinkInv, HandleInv, PlaceInv, RwLockInv, TypeOK, Guarded, Linked, Handed
<1>6. HandleInv'
  BY <1>1 DEF HandleInv, RwLockInv, TypeOK, Guarded
<1> QED BY <1>2, <1>3, <1>4, <1>5, <1>6

(* The waiter joins the line of a lock that is owned. *)
LEMMA EnterKeeps ==
  ASSUME NEW t \in Tasks, IInv, Enter(t) PROVE IInv'
<1> USE DEF IInv, Enter, Goto, Forget, Load, SetWaker, word, locks, local
<1>1. Line' = Append(Line, t)
  BY AppendLine DEF Line, TypeOK
<1>2. t \notin ToSet(Line)
  BY DEF LinkInv, Linked
<1>3. ToSet(Line') = ToSet(Line) \union {t} /\ NoRepeats(Line')
  <2>1. Line \in Seq(Tasks)
    BY DEF Line, TypeOK
  <2> QED BY <1>1, <1>2, <2>1, AppendLinks DEF LinkInv
<1>4. TypeOK'
  BY DEF TypeOK, Steps, Unlocking, Pending, Words, Blank, Now, Snapshot
<1>5. MutualExclusion' /\ NeverPanics' /\ WordTellsOwner'
  <2>1. atom = 1
    BY DEF Now, Snapshot
  <2> QED BY <2>1 DEF MutualExclusion, NeverPanics, WordTellsOwner, HandleInv, TypeOK, Owns, Handed, Unlocking, Pending
<1>6. RwLockInv' /\ QueueInv'
  BY DEF RwLockInv, QueueInv, TypeOK, Guarded
<1>7. LinkInv'
  BY <1>3 DEF LinkInv, TypeOK, Linked
<1>8. HandleInv' /\ PlaceInv'
  BY <1>3 DEF HandleInv, PlaceInv, TypeOK, Linked, Handed
<1> QED BY <1>4, <1>5, <1>6, <1>7, <1>8

(* The waiter whose push failed is linked nowhere yet. *)
LEMMA EnterFailedKeeps ==
  ASSUME NEW t \in Tasks, IInv, EnterFailed(t) PROVE IInv'
<1> USE DEF IInv, EnterFailed, Goto, Forget, Load, SetWaker, word, locks, local
<1>1. Line' = Line
  BY DEF Line
<1>2. TypeOK'
  BY TopNull DEF TypeOK, Steps, Unlocking, Pending, Words, Blank, Now, Snapshot
<1>3. MutualExclusion' /\ NeverPanics' /\ WordTellsOwner'
  BY <1>1 DEF MutualExclusion, NeverPanics, WordTellsOwner, HandleInv, TypeOK, Owns, Handed, Unlocking, Pending
<1>4. RwLockInv' /\ QueueInv'
  BY DEF RwLockInv, QueueInv, NeverPanics, MutualExclusion, TypeOK, Guarded, Owns, Unlocking
<1>5. LinkInv' /\ PlaceInv'
  BY <1>1 DEF LinkInv, HandleInv, PlaceInv, RwLockInv, TypeOK, Guarded, Linked, Handed
<1>6. HandleInv'
  <2>1. HandleInv /\ waker \in [Tasks -> {"none", "waiting", "done"}] /\ pc[t] = "locking"
    BY DEF TypeOK
  <2>2. /\ pc' = pc /\ popped' = popped
        /\ waker' = [waker EXCEPT ![t] = "waiting"]
    OBVIOUS
  <2> HIDE DEF IInv, EnterFailed
  <2> QED BY <1>1, <2>1, <2>2 DEF HandleInv
<1> QED BY <1>2, <1>3, <1>4, <1>5, <1>6

(* The task that was handed the lock begins to hold it. *)
LEMMA ResumeKeeps ==
  ASSUME NEW t \in Tasks, IInv, Resume(t) PROVE IInv'
<1> USE DEF IInv, Resume, Goto, Forget, Load, SetWaker, word, locks, local
<1>1. Line' = Line
  BY DEF Line
<1>2. TypeOK'
  BY TopNull DEF TypeOK, Steps, Unlocking, Pending, Words, Blank, Now, Snapshot
<1>3. MutualExclusion' /\ NeverPanics' /\ WordTellsOwner'
  BY <1>1 DEF MutualExclusion, NeverPanics, WordTellsOwner, HandleInv, TypeOK, Owns, Handed, Unlocking, Pending
<1>4. RwLockInv' /\ QueueInv'
  BY DEF RwLockInv, QueueInv, NeverPanics, MutualExclusion, TypeOK, Guarded, Owns, Unlocking
<1>5. LinkInv' /\ PlaceInv'
  BY <1>1 DEF LinkInv, HandleInv, PlaceInv, RwLockInv, TypeOK, Guarded, Linked, Handed
<1>6. HandleInv'
  BY <1>1 DEF HandleInv, RwLockInv, TypeOK, Guarded
<1> QED BY <1>2, <1>3, <1>4, <1>5, <1>6

(* A dropped future stays in its place in the line. *)
LEMMA DropKeeps ==
  ASSUME NEW t \in Tasks, IInv, Drop(t) PROVE IInv'
<1> USE DEF IInv, Drop, Goto, Forget, Load, SetWaker, word, locks, local
<1>1. Line' = Line
  BY DEF Line
<1>2. TypeOK'
  BY TopNull DEF TypeOK, Steps, Unlocking, Pending, Words, Blank, Now, Snapshot
<1>3. MutualExclusion' /\ NeverPanics' /\ WordTellsOwner'
  BY <1>1 DEF MutualExclusion, NeverPanics, WordTellsOwner, HandleInv, TypeOK, Owns, Handed, Unlocking, Pending
<1>4. RwLockInv' /\ QueueInv'
  BY DEF RwLockInv, QueueInv, NeverPanics, MutualExclusion, TypeOK, Guarded, Owns, Unlocking
<1>5. LinkInv' /\ PlaceInv'
  BY <1>1 DEF LinkInv, HandleInv, PlaceInv, RwLockInv, TypeOK, Guarded, Linked, Handed
<1>6. HandleInv'
  BY <1>1 DEF HandleInv, RwLockInv, TypeOK, Guarded
<1> QED BY <1>2, <1>3, <1>4, <1>5, <1>6

(* The write lock keeps every unlocker out. *)
LEMMA CancelWriteKeeps ==
  ASSUME NEW t \in Tasks, IInv, CancelWrite(t) PROVE IInv'
<1> USE DEF IInv, CancelWrite, Goto, Forget, Load, SetWaker, word, locks, local
<1>1. Line' = Line
  BY DEF Line
<1>2. TypeOK'
  BY TopNull DEF TypeOK, Steps, Unlocking, Pending, Words, Blank, Now, Snapshot
<1>3. MutualExclusion' /\ NeverPanics' /\ WordTellsOwner'
  BY <1>1 DEF MutualExclusion, NeverPanics, WordTellsOwner, HandleInv, TypeOK, Owns, Handed, Unlocking, Pending
<1>4. RwLockInv' /\ QueueInv'
  BY DEF RwLockInv, QueueInv, NeverPanics, MutualExclusion, TypeOK, Guarded, Owns, Unlocking
<1>5. LinkInv' /\ PlaceInv'
  BY <1>1 DEF LinkInv, HandleInv, PlaceInv, RwLockInv, TypeOK, Guarded, Linked, Handed
<1>6. HandleInv'
  BY <1>1 DEF HandleInv, RwLockInv, TypeOK, Guarded
<1> QED BY <1>2, <1>3, <1>4, <1>5, <1>6

(* The write lock lets flip and cancel rearrange the whole line. *)
LEMMA CancelRemoveKeeps ==
  ASSUME NEW t \in Tasks, IInv, CancelRemove(t) PROVE IInv'
<1> USE DEF IInv, CancelRemove, Goto, Forget, Load, SetWaker, word, locks, local
<1>1. Line \in Seq(Tasks) /\ NoRepeats(Line)
  BY DEF Line, TypeOK, LinkInv
<1>2. /\ queue' = Without(Line, t) /\ queue' \in Seq(Tasks)
      /\ ToSet(queue') = ToSet(Line) \ {t} /\ NoRepeats(queue')
  BY <1>1, WithoutLinks DEF Line
<1>3. Line' = queue'
  BY <1>2 DEF Line
<1>4. ToSet(Line') = ToSet(Line) \ {t} /\ NoRepeats(Line')
  BY <1>2, <1>3
<1>5. TypeOK'
  BY <1>2 DEF TypeOK, Steps, Unlocking, Pending, Words, Blank, Now, Snapshot
<1>6. MutualExclusion' /\ NeverPanics'
  BY DEF MutualExclusion, NeverPanics, TypeOK, Owns, Handed, Unlocking, Pending
<1>7. WordTellsOwner'
  <2>1. ASSUME atom = 0 PROVE Line' = <<>>
    <3>1. ToSet(queue') = {}
      BY <1>4, <1>3, <2>1 DEF WordTellsOwner, ToSet
    <3> QED BY <1>2, <1>3, <3>1 DEF ToSet
  <2> QED BY <2>1 DEF WordTellsOwner, TypeOK, Owns, Handed, Unlocking, Pending
<1>8. RwLockInv' /\ QueueInv'
  BY DEF RwLockInv, QueueInv, TypeOK, Guarded
<1>9. LinkInv' /\ HandleInv' /\ PlaceInv'
  BY <1>4 DEF LinkInv, HandleInv, PlaceInv, RwLockInv, TypeOK, Guarded, Linked, Handed
<1> QED BY <1>5, <1>6, <1>7, <1>8, <1>9

(* A cancelled waiter that slept leaves nothing behind. *)
LEMMA CancelSleepingKeeps ==
  ASSUME NEW t \in Tasks, IInv, CancelSleeping(t) PROVE IInv'
<1> USE DEF IInv, CancelSleeping, Goto, Forget, Load, SetWaker, word, locks, local
<1>1. Line' = Line
  BY DEF Line
<1>2. TypeOK'
  BY TopNull DEF TypeOK, Steps, Unlocking, Pending, Words, Blank, Now, Snapshot
<1>3. MutualExclusion' /\ NeverPanics' /\ WordTellsOwner'
  BY <1>1 DEF MutualExclusion, NeverPanics, WordTellsOwner, HandleInv, TypeOK, Owns, Handed, Unlocking, Pending
<1>4. RwLockInv' /\ QueueInv'
  BY DEF RwLockInv, QueueInv, NeverPanics, MutualExclusion, TypeOK, Guarded, Owns, Unlocking
<1>5. LinkInv' /\ PlaceInv'
  BY <1>1 DEF LinkInv, HandleInv, PlaceInv, RwLockInv, TypeOK, Guarded, Linked, Handed
<1>6. HandleInv'
  BY <1>1 DEF HandleInv, RwLockInv, TypeOK, Guarded
<1> QED BY <1>2, <1>3, <1>4, <1>5, <1>6

(* A cancelled waiter that owned the lock begins to unlock it. *)
LEMMA CancelWokenKeeps ==
  ASSUME NEW t \in Tasks, IInv, CancelWoken(t) PROVE IInv'
<1> USE DEF IInv, CancelWoken, Goto, Forget, Load, SetWaker, word, locks, local
<1>1. Line' = Line
  BY DEF Line
<1>2. TypeOK'
  BY TopNull DEF TypeOK, Steps, Unlocking, Pending, Words, Blank, Now, Snapshot
<1>3. MutualExclusion' /\ NeverPanics' /\ WordTellsOwner'
  BY <1>1 DEF MutualExclusion, NeverPanics, WordTellsOwner, HandleInv, TypeOK, Owns, Handed, Unlocking, Pending
<1>4. RwLockInv' /\ QueueInv'
  BY DEF RwLockInv, QueueInv, NeverPanics, MutualExclusion, TypeOK, Guarded, Owns, Unlocking
<1>5. LinkInv' /\ PlaceInv'
  BY <1>1 DEF LinkInv, HandleInv, PlaceInv, RwLockInv, TypeOK, Guarded, Linked, Handed
<1>6. HandleInv'
  BY <1>1 DEF HandleInv, RwLockInv, TypeOK, Guarded
<1> QED BY <1>2, <1>3, <1>4, <1>5, <1>6

(* The owner begins to unlock. *)
LEMMA UnlockKeeps ==
  ASSUME NEW t \in Tasks, IInv, Unlock(t) PROVE IInv'
<1> USE DEF IInv, Unlock, Goto, Forget, Load, SetWaker, word, locks, local
<1>1. Line' = Line
  BY DEF Line
<1>2. TypeOK'
  BY TopNull DEF TypeOK, Steps, Unlocking, Pending, Words, Blank, Now, Snapshot
<1>3. MutualExclusion' /\ NeverPanics' /\ WordTellsOwner'
  BY <1>1 DEF MutualExclusion, NeverPanics, WordTellsOwner, HandleInv, TypeOK, Owns, Handed, Unlocking, Pending
<1>4. RwLockInv' /\ QueueInv'
  BY DEF RwLockInv, QueueInv, NeverPanics, MutualExclusion, TypeOK, Guarded, Owns, Unlocking
<1>5. LinkInv' /\ PlaceInv'
  BY <1>1 DEF LinkInv, HandleInv, PlaceInv, RwLockInv, TypeOK, Guarded, Linked, Handed
<1>6. HandleInv'
  BY <1>1 DEF HandleInv, RwLockInv, TypeOK, Guarded
<1> QED BY <1>2, <1>3, <1>4, <1>5, <1>6

(* The read lock keeps every cancellation out. *)
LEMMA ReadLockKeeps ==
  ASSUME NEW t \in Tasks, IInv, ReadLock(t) PROVE IInv'
<1> USE DEF IInv, ReadLock, Goto, Forget, Load, SetWaker, word, locks, local
<1>1. Line' = Line
  BY DEF Line
<1>2. TypeOK'
  BY TopNull DEF TypeOK, Steps, Unlocking, Pending, Words, Blank, Now, Snapshot
<1>3. MutualExclusion' /\ NeverPanics' /\ WordTellsOwner'
  BY <1>1 DEF MutualExclusion, NeverPanics, WordTellsOwner, HandleInv, TypeOK, Owns, Handed, Unlocking, Pending
<1>4. RwLockInv' /\ QueueInv'
  BY DEF RwLockInv, QueueInv, NeverPanics, MutualExclusion, TypeOK, Guarded, Owns, Unlocking
<1>5. LinkInv' /\ PlaceInv'
  BY <1>1 DEF LinkInv, HandleInv, PlaceInv, RwLockInv, TypeOK, Guarded, Linked, Handed
<1>6. HandleInv'
  BY <1>1 DEF HandleInv, RwLockInv, TypeOK, Guarded
<1> QED BY <1>2, <1>3, <1>4, <1>5, <1>6

(* Only the owner has the queues, and it takes them once. *)
LEMMA BorrowMutKeeps ==
  ASSUME NEW t \in Tasks, IInv, BorrowMut(t) PROVE IInv'
<1> USE DEF IInv, BorrowMut, Borrow, Goto, Forget, Load, SetWaker, word, locks, local
<1>1. Line' = Line
  BY DEF Line
<1>2. ~borrowed
  BY DEF QueueInv, MutualExclusion, Owns, Unlocking
<1>3. TypeOK' /\ NeverPanics'
  BY <1>2 DEF TypeOK, Steps, Unlocking, Pending, Words, Blank, Now, Snapshot, NeverPanics
<1>4. MutualExclusion' /\ WordTellsOwner'
  BY <1>1, <1>2 DEF MutualExclusion, WordTellsOwner, HandleInv, TypeOK, Owns, Handed, Unlocking, Pending
<1>5. RwLockInv' /\ QueueInv'
  BY <1>2 DEF RwLockInv, QueueInv, MutualExclusion, TypeOK, Guarded, Owns, Unlocking
<1>6. LinkInv' /\ HandleInv' /\ PlaceInv'
  BY <1>1, <1>2 DEF LinkInv, HandleInv, PlaceInv, TypeOK, Guarded, Linked, Handed
<1> QED BY <1>3, <1>4, <1>5, <1>6

(* The owner hands the lock to the oldest waiter, which the queue holds. *)
LEMMA PopQueuedKeeps ==
  ASSUME NEW t \in Tasks, IInv, PopQueued(t) PROVE IInv'
<1>0. atom = 1
  <2>1. Owns(t)
    BY DEF Owns, Unlocking, PopQueued
  <2> QED BY <2>1, OwnedWord
<1> USE DEF IInv, PopQueued, Goto, Forget, Load, SetWaker, word, locks, local
<1> DEFINE w == Head(Line)
<1>1. /\ queue # <<>> /\ Line # <<>> /\ Line' = Tail(Line)
      /\ popped' = [popped EXCEPT ![t] = w] /\ queue' \in Seq(Tasks)
  <2>1. /\ queue \o inbox # <<>> /\ Head(queue \o inbox) = Head(queue)
        /\ Tail(queue \o inbox) = Tail(queue) \o inbox
    BY TailLine DEF TypeOK
  <2>2. Tail(queue) \in Seq(Tasks)
    BY DEF TypeOK
  <2> QED BY <2>1, <2>2 DEF Line
<1>2. Line \in Seq(Tasks) /\ NoRepeats(Line)
  BY DEF Line, TypeOK, LinkInv
<1>3. /\ w \in Tasks /\ w \in ToSet(Line)
      /\ ToSet(Line') = ToSet(Line) \ {w} /\ NoRepeats(Line')
  BY <1>1, <1>2, TailLinks
<1>4. /\ pc[w] \in Linked /\ waker[w] = "waiting"
      /\ pc[w] # "flipping"
      /\ \A u \in Tasks : pc[u] # "waking"
  <2>1. \A u \in Tasks : pc[u] # "waking"
    BY DEF HandleInv, MutualExclusion, Owns, Handed, Unlocking
  <2> QED BY <1>3, <2>1 DEF LinkInv, RwLockInv, Guarded, Linked
<1> HIDE DEF w
<1>5. TypeOK'
  <2>1. popped' \in [Tasks -> Tasks \union {Null}]
    BY <1>1, <1>3 DEF TypeOK
  <2>2. inbox' \in Seq(Tasks) /\ queue' \in Seq(Tasks)
    BY <1>1 DEF TypeOK
  <2> QED BY <2>1, <2>2 DEF TypeOK, Steps, Unlocking, Pending, Words, Blank, Now, Snapshot
<1>6. MutualExclusion' /\ NeverPanics' /\ WordTellsOwner'
  <2>1. ASSUME NEW x \in Tasks, Owns(x)' PROVE x = w
    <3>1. CASE pc'[x] \in Unlocking \union {"held"} \/ (pc'[x] \in Pending /\ waker'[x] = "done")
      <4>1. x # t /\ pc'[x] = pc[x] /\ waker'[x] = waker[x]
        BY <3>1 DEF TypeOK, Unlocking, Pending
      <4> QED BY <3>1, <4>1 DEF MutualExclusion, Owns, Unlocking
    <3>2. CASE Handed(x)'
      BY <1>1, <1>4, <3>2 DEF Handed, TypeOK
    <3> QED BY <2>1, <3>1, <3>2 DEF Owns
  <2>2. ASSUME NEW x \in Tasks, x = w PROVE Owns(x)'
    BY <2>2, <1>1, <1>3 DEF Owns, Handed, TypeOK
  <2> QED BY <1>0, <1>3, <2>1, <2>2 DEF MutualExclusion, NeverPanics, WordTellsOwner, TypeOK
<1>7. RwLockInv' /\ QueueInv'
  BY DEF RwLockInv, QueueInv, MutualExclusion, TypeOK, Guarded, Owns, Unlocking
<1>8. LinkInv'
  BY <1>3 DEF LinkInv, TypeOK, Linked
<1>9. HandleInv'
  BY <1>1, <1>3, <1>4 DEF HandleInv, TypeOK, Linked
<1>10. PlaceInv'
  BY <1>1, <1>3 DEF PlaceInv, TypeOK, Linked, Handed
<1> QED BY <1>5, <1>6, <1>7, <1>8, <1>9, <1>10

(* The owner found the queue empty. *)
LEMMA LoadAtomKeeps ==
  ASSUME NEW t \in Tasks, IInv, LoadAtom(t) PROVE IInv'
<1> USE DEF IInv, LoadAtom, Goto, Forget, Load, SetWaker, word, locks, local
<1>1. Line' = Line
  BY DEF Line
<1>2. TypeOK'
  BY TopNull DEF TypeOK, Steps, Unlocking, Pending, Words, Blank, Now, Snapshot
<1>3. MutualExclusion' /\ NeverPanics' /\ WordTellsOwner'
  BY <1>1 DEF MutualExclusion, NeverPanics, WordTellsOwner, HandleInv, TypeOK, Owns, Handed, Unlocking, Pending
<1>4. RwLockInv' /\ QueueInv'
  BY DEF RwLockInv, QueueInv, NeverPanics, MutualExclusion, TypeOK, Guarded, Owns, Unlocking
<1>5. LinkInv' /\ PlaceInv'
  BY <1>1 DEF LinkInv, HandleInv, PlaceInv, RwLockInv, TypeOK, Guarded, Linked, Handed
<1>6. HandleInv'
  BY <1>1 DEF HandleInv, RwLockInv, TypeOK, Guarded
<1> QED BY <1>2, <1>3, <1>4, <1>5, <1>6

(* The owner hands the lock to the oldest waiter, which the inbox held. *)
LEMMA EnqueueAndPopKeeps ==
  ASSUME NEW t \in Tasks, IInv, EnqueueAndPop(t) PROVE IInv'
<1>0. atom = 1
  <2>1. Owns(t)
    BY DEF Owns, Unlocking, EnqueueAndPop
  <2> QED BY <2>1, OwnedWord
<1> USE DEF IInv, EnqueueAndPop, Goto, Forget, Load, SetWaker, word, locks, local
<1> DEFINE w == Head(Line)
<1>1. /\ Line # <<>> /\ Line' = Tail(Line)
      /\ popped' = [popped EXCEPT ![t] = w] /\ queue' \in Seq(Tasks)
  <2>1. inbox # <<>>
    BY TopNull DEF TypeOK, Now, Snapshot
  <2>2. queue \o inbox \in Seq(Tasks) /\ queue \o inbox # <<>>
    BY <2>1 DEF TypeOK
  <2> QED BY <2>2 DEF Line
<1>2. Line \in Seq(Tasks) /\ NoRepeats(Line)
  BY DEF Line, TypeOK, LinkInv
<1>3. /\ w \in Tasks /\ w \in ToSet(Line)
      /\ ToSet(Line') = ToSet(Line) \ {w} /\ NoRepeats(Line')
  BY <1>1, <1>2, TailLinks
<1>4. /\ pc[w] \in Linked /\ waker[w] = "waiting"
      /\ pc[w] # "flipping"
      /\ \A u \in Tasks : pc[u] # "waking"
  <2>1. \A u \in Tasks : pc[u] # "waking"
    BY DEF HandleInv, MutualExclusion, Owns, Handed, Unlocking
  <2> QED BY <1>3, <2>1 DEF LinkInv, RwLockInv, Guarded, Linked
<1> HIDE DEF w
<1>5. TypeOK'
  <2>1. popped' \in [Tasks -> Tasks \union {Null}]
    BY <1>1, <1>3 DEF TypeOK
  <2>2. inbox' \in Seq(Tasks) /\ queue' \in Seq(Tasks)
    BY <1>1 DEF TypeOK
  <2> QED BY <2>1, <2>2 DEF TypeOK, Steps, Unlocking, Pending, Words, Blank, Now, Snapshot
<1>6. MutualExclusion' /\ NeverPanics' /\ WordTellsOwner'
  <2>1. ASSUME NEW x \in Tasks, Owns(x)' PROVE x = w
    <3>1. CASE pc'[x] \in Unlocking \union {"held"} \/ (pc'[x] \in Pending /\ waker'[x] = "done")
      <4>1. x # t /\ pc'[x] = pc[x] /\ waker'[x] = waker[x]
        BY <3>1 DEF TypeOK, Unlocking, Pending
      <4> QED BY <3>1, <4>1 DEF MutualExclusion, Owns, Unlocking
    <3>2. CASE Handed(x)'
      BY <1>1, <1>4, <3>2 DEF Handed, TypeOK
    <3> QED BY <2>1, <3>1, <3>2 DEF Owns
  <2>2. ASSUME NEW x \in Tasks, x = w PROVE Owns(x)'
    BY <2>2, <1>1, <1>3 DEF Owns, Handed, TypeOK
  <2> QED BY <1>0, <1>3, <2>1, <2>2 DEF MutualExclusion, NeverPanics, WordTellsOwner, TypeOK
<1>7. RwLockInv' /\ QueueInv'
  BY DEF RwLockInv, QueueInv, MutualExclusion, TypeOK, Guarded, Owns, Unlocking
<1>8. LinkInv'
  BY <1>3 DEF LinkInv, TypeOK, Linked
<1>9. HandleInv'
  BY <1>1, <1>3, <1>4 DEF HandleInv, TypeOK, Linked
<1>10. PlaceInv'
  BY <1>1, <1>3 DEF PlaceInv, TypeOK, Linked, Handed
<1> QED BY <1>5, <1>6, <1>7, <1>8, <1>9, <1>10

(* Reloading the word disturbs nothing. *)
LEMMA EnqueueFailedKeeps ==
  ASSUME NEW t \in Tasks, IInv, EnqueueFailed(t) PROVE IInv'
<1> USE DEF IInv, EnqueueFailed, Goto, Forget, Load, SetWaker, word, locks, local
<1>1. Line' = Line
  BY DEF Line
<1>2. TypeOK'
  BY TopNull DEF TypeOK, Steps, Unlocking, Pending, Words, Blank, Now, Snapshot
<1>3. MutualExclusion' /\ NeverPanics' /\ WordTellsOwner'
  BY <1>1 DEF MutualExclusion, NeverPanics, WordTellsOwner, HandleInv, TypeOK, Owns, Handed, Unlocking, Pending
<1>4. RwLockInv' /\ QueueInv'
  BY DEF RwLockInv, QueueInv, NeverPanics, MutualExclusion, TypeOK, Guarded, Owns, Unlocking
<1>5. LinkInv' /\ PlaceInv'
  BY <1>1 DEF LinkInv, HandleInv, PlaceInv, RwLockInv, TypeOK, Guarded, Linked, Handed
<1>6. HandleInv'
  BY <1>1 DEF HandleInv, RwLockInv, TypeOK, Guarded
<1> QED BY <1>2, <1>3, <1>4, <1>5, <1>6

(* The queues are given back before the atom is cleared. *)
LEMMA UnborrowKeeps ==
  ASSUME NEW t \in Tasks, IInv, Unborrow(t) PROVE IInv'
<1> USE DEF IInv, Unborrow, Goto, Forget, Load, SetWaker, word, locks, local
<1>1. Line' = Line
  BY DEF Line
<1>2. TypeOK'
  BY TopNull DEF TypeOK, Steps, Unlocking, Pending, Words, Blank, Now, Snapshot
<1>3. MutualExclusion' /\ NeverPanics' /\ WordTellsOwner'
  BY <1>1 DEF MutualExclusion, NeverPanics, WordTellsOwner, HandleInv, TypeOK, Owns, Handed, Unlocking, Pending
<1>4. RwLockInv' /\ QueueInv'
  BY DEF RwLockInv, QueueInv, NeverPanics, MutualExclusion, TypeOK, Guarded, Owns, Unlocking
<1>5. LinkInv' /\ PlaceInv'
  BY <1>1 DEF LinkInv, HandleInv, PlaceInv, RwLockInv, TypeOK, Guarded, Linked, Handed
<1>6. HandleInv'
  BY <1>1 DEF HandleInv, TypeOK
<1> QED BY <1>2, <1>3, <1>4, <1>5, <1>6

(* Nobody is queued and the CAS saw nobody in the inbox. *)
LEMMA ClearKeeps ==
  ASSUME NEW t \in Tasks, IInv, Clear(t) PROVE IInv'
<1> USE DEF IInv, Clear, Goto, Forget, Load, SetWaker, word, locks, local
<1>1. Line' = Line /\ Line = <<>>
  <2>1. queue = <<>> /\ Top(inbox) = Null
    BY DEF QueueInv, Now, Snapshot
  <2>2. inbox = <<>>
    BY <2>1, TopNull DEF TypeOK
  <2> QED BY <2>1, <2>2 DEF Line
<1>2. TypeOK'
  BY DEF TypeOK, Steps, Unlocking, Pending, Words, Blank, Now, Snapshot
<1>3. MutualExclusion' /\ NeverPanics' /\ WordTellsOwner'
  <2>1. \A x \in Tasks : ~Owns(x)'
    BY DEF MutualExclusion, HandleInv, TypeOK, Owns, Handed, Unlocking, Pending
  <2> QED BY <1>1, <2>1 DEF MutualExclusion, NeverPanics, WordTellsOwner, TypeOK
<1>4. RwLockInv' /\ QueueInv'
  BY DEF RwLockInv, QueueInv, TypeOK, Guarded
<1>5. LinkInv' /\ HandleInv' /\ PlaceInv'
  BY <1>1 DEF LinkInv, HandleInv, PlaceInv, TypeOK, Linked, Handed
<1> QED BY <1>2, <1>3, <1>4, <1>5

(* The queue stays empty when the atom could not be cleared. *)
LEMMA ClearFailedKeeps ==
  ASSUME NEW t \in Tasks, IInv, ClearFailed(t) PROVE IInv'
<1> USE DEF IInv, ClearFailed, Goto, Forget, Load, SetWaker, word, locks, local
<1>1. Line' = Line
  BY DEF Line
<1>2. TypeOK'
  BY TopNull DEF TypeOK, Steps, Unlocking, Pending, Words, Blank, Now, Snapshot
<1>3. MutualExclusion' /\ NeverPanics' /\ WordTellsOwner'
  BY <1>1 DEF MutualExclusion, NeverPanics, WordTellsOwner, HandleInv, TypeOK, Owns, Handed, Unlocking, Pending
<1>4. RwLockInv' /\ QueueInv'
  BY DEF RwLockInv, QueueInv, NeverPanics, MutualExclusion, TypeOK, Guarded, Owns, Unlocking
<1>5. LinkInv' /\ PlaceInv'
  BY <1>1 DEF LinkInv, HandleInv, PlaceInv, RwLockInv, TypeOK, Guarded, Linked, Handed
<1>6. HandleInv'
  <2>1. HandleInv /\ pc \in [Tasks -> Steps] /\ pc[t] = "clearing"
    BY DEF TypeOK
  <2>2. /\ pc' = [pc EXCEPT ![t] = "reborrowing"]
        /\ popped' = popped /\ waker' = waker
    OBVIOUS
  <2> HIDE DEF IInv, ClearFailed
  <2> QED BY <1>1, <2>1, <2>2 DEF HandleInv
<1> QED BY <1>2, <1>3, <1>4, <1>5, <1>6

(* The owner gave the queues back and may take them again. *)
LEMMA ReborrowKeeps ==
  ASSUME NEW t \in Tasks, IInv, Reborrow(t) PROVE IInv'
<1> USE DEF IInv, Reborrow, Borrow, Goto, Forget, Load, SetWaker, word, locks, local
<1>1. Line' = Line
  BY DEF Line
<1>2. ~borrowed
  BY DEF QueueInv, MutualExclusion, Owns, Unlocking
<1>3. TypeOK' /\ NeverPanics'
  BY <1>2 DEF TypeOK, Steps, Unlocking, Pending, Words, Blank, Now, Snapshot, NeverPanics
<1>4. MutualExclusion' /\ WordTellsOwner'
  BY <1>1, <1>2 DEF MutualExclusion, WordTellsOwner, HandleInv, TypeOK, Owns, Handed, Unlocking, Pending
<1>5. RwLockInv' /\ QueueInv'
  BY <1>2 DEF RwLockInv, QueueInv, MutualExclusion, TypeOK, Guarded, Owns, Unlocking
<1>6. LinkInv' /\ HandleInv' /\ PlaceInv'
  BY <1>1, <1>2 DEF LinkInv, HandleInv, PlaceInv, TypeOK, Guarded, Linked, Handed
<1> QED BY <1>3, <1>4, <1>5, <1>6

(* The popped waiter sleeps, so the swap finds its waker and makes it the owner. *)
LEMMA WakeKeeps ==
  ASSUME NEW t \in Tasks, IInv, Wake(t) PROVE IInv'
<1> USE DEF IInv, Wake, Goto, Forget, Load, SetWaker, word, locks, local
<1> DEFINE w == popped[t]
<1>1. Line' = Line
  BY DEF Line
<1>2. /\ w \in Tasks /\ w \notin ToSet(Line)
      /\ pc[w] \in {"waiting", "cancelling"} /\ waker[w] = "waiting"
      /\ Owns(w)
  BY DEF HandleInv, Owns, Handed
<1>3. \A u \in Tasks : pc[u] = "waking" => u = t
  BY DEF HandleInv
<1> HIDE DEF w
<1>4. TypeOK' /\ NeverPanics'
  BY <1>2 DEF TypeOK, Steps, Unlocking, Pending, Words, Blank, Now, Snapshot, NeverPanics, w
<1>5. MutualExclusion' /\ WordTellsOwner'
  BY <1>1, <1>2 DEF MutualExclusion, WordTellsOwner, HandleInv, TypeOK, Owns, Handed, Unlocking, Pending, w
<1>6. RwLockInv' /\ QueueInv'
  BY <1>2 DEF RwLockInv, QueueInv, TypeOK, Guarded, w
<1>7. LinkInv' /\ HandleInv'
  BY <1>1, <1>2, <1>3 DEF LinkInv, HandleInv, TypeOK, Linked, w
<1>8. PlaceInv'
  BY <1>1, <1>2 DEF PlaceInv, TypeOK, Linked, Handed, w
<1> QED BY <1>4, <1>5, <1>6, <1>7, <1>8

(* The read lock ends after the waiter has been woken. *)
LEMMA LeaveKeeps ==
  ASSUME NEW t \in Tasks, IInv, Leave(t) PROVE IInv'
<1> USE DEF IInv, Leave, Goto, Forget, Load, SetWaker, word, locks, local
<1>1. Line' = Line
  BY DEF Line
<1>2. TypeOK'
  BY TopNull DEF TypeOK, Steps, Unlocking, Pending, Words, Blank, Now, Snapshot
<1>3. MutualExclusion' /\ NeverPanics' /\ WordTellsOwner'
  BY <1>1 DEF MutualExclusion, NeverPanics, WordTellsOwner, HandleInv, TypeOK, Owns, Handed, Unlocking, Pending
<1>4. RwLockInv' /\ QueueInv'
  BY DEF RwLockInv, QueueInv, NeverPanics, MutualExclusion, TypeOK, Guarded, Owns, Unlocking
<1>5. LinkInv' /\ PlaceInv'
  BY <1>1 DEF LinkInv, HandleInv, PlaceInv, RwLockInv, TypeOK, Guarded, Linked, Handed
<1>6. HandleInv'
  BY <1>1 DEF HandleInv, RwLockInv, TypeOK, Guarded
<1> QED BY <1>2, <1>3, <1>4, <1>5, <1>6

-----------------------------------------------------------------------------
(* The mutex starts unlocked, with nobody in line. *)
LEMMA InitIInv == Init => IInv
<1> SUFFICES ASSUME Init PROVE IInv
  OBVIOUS
<1> USE DEF Init
<1>1. Line = <<>> /\ Line \in Seq(Tasks) /\ ToSet(Line) = {} /\ NoRepeats(Line)
  BY DEF Line, ToSet, NoRepeats, IsInjective
<1>2. TypeOK
  <2>1. pc \in [Tasks -> Steps] /\ cur \in [Tasks -> Words]
    BY DEF Steps, Words, Blank
  <2>2. inbox \in Seq(Tasks) /\ queue \in Seq(Tasks)
    OBVIOUS
  <2> QED BY <2>1, <2>2 DEF TypeOK
<1>3. MutualExclusion /\ NeverPanics /\ WordTellsOwner
  BY <1>1 DEF MutualExclusion, NeverPanics, WordTellsOwner, Owns, Handed, Unlocking, Pending
<1>4. RwLockInv /\ QueueInv
  BY DEF RwLockInv, QueueInv, Guarded
<1>5. LinkInv /\ HandleInv /\ PlaceInv
  BY <1>1 DEF LinkInv, HandleInv, PlaceInv, Linked
<1> QED BY <1>2, <1>3, <1>4, <1>5 DEF IInv

(* No step of any task breaks the invariant. *)
LEMMA NextIInv == IInv /\ [Next]_vars => IInv'
<1> SUFFICES ASSUME IInv, [Next]_vars PROVE IInv'
  OBVIOUS
<1>1. CASE UNCHANGED vars
  BY <1>1 DEF vars, IInv, TypeOK, MutualExclusion, NeverPanics, RwLockInv, QueueInv,
     WordTellsOwner, LinkInv, HandleInv, PlaceInv, Line, Owns, Handed
<1>2. ASSUME NEW t \in Tasks, LockStep(t) \/ Resume(t) PROVE IInv'
  BY <1>2, LockKeeps, AcquireKeeps, AcquireFailedKeeps, EnterKeeps, EnterFailedKeeps,
     ResumeKeeps DEF LockStep
<1>3. ASSUME NEW t \in Tasks, Drop(t) \/ CancelWrite(t) \/ CancelStep(t) PROVE IInv'
  BY <1>3, DropKeeps, CancelWriteKeeps, CancelRemoveKeeps, CancelSleepingKeeps,
     CancelWokenKeeps DEF CancelStep
<1>4. ASSUME NEW t \in Tasks, Unlock(t) \/ ReadLock(t) \/ UnlockStep(t) \/ Clear(t) PROVE IInv'
  BY <1>4, UnlockKeeps, ReadLockKeeps, BorrowMutKeeps, PopQueuedKeeps, LoadAtomKeeps,
     EnqueueAndPopKeeps, EnqueueFailedKeeps, UnborrowKeeps, ClearKeeps, ClearFailedKeeps,
     ReborrowKeeps, WakeKeeps, LeaveKeeps DEF UnlockStep
<1> QED BY <1>1, <1>2, <1>3, <1>4 DEF Next

THEOREM Invariance == Spec => []IInv
<1> QED BY InitIInv, NextIInv, PTL DEF Spec

(* The variables keep their types: atom stays a boolean, every list holds
   waiters, every pc is a step of the code. *)
THEOREM TypeCorrect == Spec => []TypeOK
<1>1. IInv => TypeOK
  BY DEF IInv
<1> QED BY <1>1, Invariance, PTL

(* lock() gives the mutex to one task at a time, through hand-over and late
   cancellation alike. *)
THEOREM MutexExcludes == Spec => []MutualExclusion
<1>1. IInv => MutualExclusion
  BY DEF IInv
<1> QED BY <1>1, Invariance, PTL

(* A word that reads 0 has no owner and no waiters behind it, which is what
   lock() relies on when it takes the lock without looking at the queue; a
   word that reads 1 has an owner that will unlock. *)
THEOREM WordTellsTruth == Spec => []WordTellsOwner
<1>1. IInv => WordTellsOwner
  BY DEF IInv
<1> QED BY <1>1, Invariance, PTL

(* The assertion in borrow_mut and the panic in Waiter::wake are unreachable. *)
THEOREM UnlockNeverPanics == Spec => []NeverPanics
<1>1. IInv => NeverPanics
  BY DEF IInv
<1> QED BY <1>1, Invariance, PTL

(* A sleeping waiter is in exactly one place where an unlock finds it. *)
THEOREM WaitersAreKept == Spec => []NoWaiterLost
<1>1. IInv => NoWaiterLost
  <2> SUFFICES ASSUME IInv, NEW t \in Tasks, pc[t] \in {"waiting", "cancelling"},
                      waker[t] = "waiting"
               PROVE  (t \in ToSet(Line)) # Handed(t)
    BY DEF IInv, NoWaiterLost, LinkInv
  <2>1. t \in ToSet(Line) \/ Handed(t)
    BY DEF IInv, PlaceInv, Linked
  <2>2. ~(t \in ToSet(Line) /\ Handed(t))
    BY DEF IInv, HandleInv, Handed
  <2>3. Handed(t) \in BOOLEAN
    BY DEF Handed
  <2> QED BY <2>1, <2>2, <2>3
<1> QED BY <1>1, Invariance, PTL

(* No list and no handle points to a waiter whose future is gone. *)
THEOREM WaitersAreLive == Spec => []NoDanglingWaiter
<1>1. IInv => NoDanglingWaiter
  BY DEF IInv, NoDanglingWaiter, LinkInv, HandleInv, Linked, Pending
<1> QED BY <1>1, Invariance, PTL

-----------------------------------------------------------------------------
(* FairMutex implements FairLock: the owner is the one task that Owns, the line
   is the queue followed by the inbox.  Four kinds of step are visible: the CAS
   that takes a free lock, the push on the inbox, the pop that hands the lock
   over and the CAS that frees it; a cancellation leaves the line if it was
   still in it.  Every other step leaves the owner and the line alone. *)

(* The task that owns the lock is the owner. *)
LEMMA OwnerIs ==
  ASSUME MutualExclusion, NEW t \in Tasks, Owns(t) PROVE Owner = t
BY DEF Owner, MutualExclusion

LEMMA OwnerIsNext ==
  ASSUME MutualExclusion', NEW t \in Tasks, Owns(t)' PROVE Owner' = t
BY DEF Owner, MutualExclusion

LEMMA NoOwner ==
  ASSUME \A t \in Tasks : ~Owns(t) PROVE Owner = Null
BY DEF Owner

LEMMA NoOwnerNext ==
  ASSUME \A t \in Tasks : ~Owns(t)' PROVE Owner' = Null
BY DEF Owner

(* A step that neither gives nor takes the lock keeps its owner. *)
LEMMA SameOwner ==
  ASSUME MutualExclusion, MutualExclusion', \A x \in Tasks : Owns(x)' <=> Owns(x)
  PROVE  Owner' = Owner
<1>1. CASE \E x \in Tasks : Owns(x)
  <2>1. PICK x \in Tasks : Owns(x)
    BY <1>1
  <2> QED BY <2>1, OwnerIs, OwnerIsNext
<1>2. CASE \A x \in Tasks : ~Owns(x)
  BY <1>2, NoOwner, NoOwnerNext
<1> QED BY <1>1, <1>2

(* An owned lock has an owner to join the line of. *)
LEMMA OwnerExists ==
  ASSUME IInv, atom = 1 PROVE \E t \in Tasks : Owns(t) /\ Owner = t
<1>1. PICK t \in Tasks : Owns(t)
  BY DEF IInv, WordTellsOwner
<1> QED BY <1>1, OwnerIs DEF IInv

-----------------------------------------------------------------------------
(* The steps the lock does not see. *)
LEMMA Invisible ==
  ASSUME IInv, IInv', NEW t \in Tasks,
         \/ Lock(t) \/ AcquireFailed(t) \/ EnterFailed(t) \/ Resume(t)
         \/ Drop(t) \/ CancelWrite(t) \/ CancelSleeping(t) \/ CancelWoken(t)
         \/ Unlock(t) \/ ReadLock(t) \/ BorrowMut(t) \/ LoadAtom(t) \/ EnqueueFailed(t)
         \/ Unborrow(t) \/ ClearFailed(t) \/ Reborrow(t) \/ Wake(t) \/ Leave(t)
  PROVE  Owner' = Owner /\ Line' = Line
<1> USE DEF Goto, Forget, Load, SetWaker, word, locks, local
<1>1. \A x \in Tasks : Owns(x)' <=> Owns(x)
  <2> USE DEF IInv, TypeOK, HandleInv, NeverPanics, Owns, Handed, Unlocking, Pending
  <2>1. CASE Lock(t)
    BY <2>1 DEF Lock
  <2>2. CASE AcquireFailed(t)
    BY <2>2 DEF AcquireFailed
  <2>3. CASE EnterFailed(t)
    BY <2>3 DEF EnterFailed
  <2>4. CASE Resume(t)
    BY <2>4 DEF Resume
  <2>5. CASE Drop(t)
    BY <2>5 DEF Drop
  <2>6. CASE CancelWrite(t)
    BY <2>6 DEF CancelWrite
  <2>7. CASE CancelSleeping(t)
    BY <2>7 DEF CancelSleeping
  <2>8. CASE CancelWoken(t)
    BY <2>8 DEF CancelWoken
  <2>9. CASE Unlock(t)
    BY <2>9 DEF Unlock
  <2>10. CASE ReadLock(t)
    BY <2>10 DEF ReadLock
  <2>11. CASE BorrowMut(t)
    BY <2>11 DEF BorrowMut, Borrow
  <2>12. CASE LoadAtom(t)
    BY <2>12 DEF LoadAtom
  <2>13. CASE EnqueueFailed(t)
    BY <2>13 DEF EnqueueFailed
  <2>14. CASE Unborrow(t)
    BY <2>14 DEF Unborrow
  <2>15. CASE ClearFailed(t)
    BY <2>15 DEF ClearFailed
  <2>16. CASE Reborrow(t)
    BY <2>16 DEF Reborrow, Borrow
  <2>17. CASE Wake(t)
    BY <2>17 DEF Wake
  <2>18. CASE Leave(t)
    BY <2>18 DEF Leave
  <2> QED BY <2>1, <2>2, <2>3, <2>4, <2>5, <2>6, <2>7, <2>8, <2>9, <2>10, <2>11, <2>12, <2>13, <2>14, <2>15, <2>16, <2>17, <2>18
<1>2. Line' = Line
  BY DEF Line, Lock, AcquireFailed, EnterFailed, Resume, Drop, CancelWrite, CancelSleeping, CancelWoken, Unlock, ReadLock, BorrowMut, LoadAtom, EnqueueFailed, Unborrow, ClearFailed, Reborrow, Wake, Leave, Borrow
<1> QED BY <1>1, <1>2, SameOwner DEF IInv

(* Taking a free lock. *)
LEMMA AcquireStep ==
  ASSUME IInv, IInv', NEW t \in Tasks, Acquire(t) PROVE [Abstract!Next]_Abstract!vars
<1>1. atom = 0 /\ pc'[t] = "held" /\ Line' = Line
  BY DEF IInv, TypeOK, Acquire, Now, Snapshot, Goto, Forget, Load, SetWaker, word, locks, local, Line
<1>2. Line = <<>> /\ Owner = Null
  <2>1. \A x \in Tasks : ~Owns(x)
    BY <1>1 DEF IInv, WordTellsOwner
  <2> QED BY <1>1, <2>1, NoOwner DEF IInv, WordTellsOwner
<1>3. Owner' = t
  <2>1. Owns(t)'
    BY <1>1 DEF Owns
  <2> QED BY <2>1, OwnerIsNext DEF IInv
<1> QED BY <1>1, <1>2, <1>3 DEF Abstract!Next, Abstract!Take

(* Joining the end of the line. *)
LEMMA EnterStep ==
  ASSUME IInv, IInv', NEW t \in Tasks, Enter(t) PROVE [Abstract!Next]_Abstract!vars
<1>1. Line' = Append(Line, t)
  BY AppendLine DEF Enter, Line, IInv, TypeOK
<1>2. atom = 1 /\ pc[t] = "locking"
  BY DEF Enter, Now, Snapshot
<1>3. t \notin ToSet(Line) /\ ~Owns(t)
  BY <1>2 DEF IInv, LinkInv, HandleInv, Linked, Owns, Handed, Unlocking, Pending
<1>4. Owner # Null /\ t # Owner
  BY <1>2, <1>3, OwnerExists, NullIsNoTask
<1>5. Owner' = Owner
  <2>1. \A x \in Tasks : Owns(x)' <=> Owns(x)
    BY <1>3 DEF Enter, IInv, TypeOK, HandleInv, Owns, Handed, Unlocking, Pending, Goto, Forget, Load, SetWaker, word, locks, local
  <2>2. MutualExclusion /\ MutualExclusion'
    BY DEF IInv
  <2> QED BY <2>1, <2>2, SameOwner
<1> QED BY <1>1, <1>3, <1>4, <1>5 DEF Abstract!Next, Abstract!Join, ToSet, Abstract!ToSet

(* Leaving the line, unless the lock was handed over already. *)
LEMMA CancelRemoveStep ==
  ASSUME IInv, IInv', NEW t \in Tasks, CancelRemove(t) PROVE [Abstract!Next]_Abstract!vars
<1>1. Line' = Without(Line, t)
  <2>1. queue' = Without(Line, t) /\ inbox' = <<>>
    BY DEF CancelRemove, Line
  <2>2. queue' \in Seq(Tasks)
    BY DEF IInv, TypeOK
  <2> QED BY <2>1, <2>2 DEF Line
<1>2. Owner' = Owner
  <2>1. \A x \in Tasks : Owns(x)' <=> Owns(x)
    BY DEF CancelRemove, IInv, TypeOK, HandleInv, Owns, Handed, Unlocking, Pending, Goto, Forget, Load, SetWaker, word, locks, local
  <2> QED BY <2>1, SameOwner DEF IInv
<1>3. CASE t \in ToSet(Line)
  <2>1. Abstract!Abandon(t)
    BY <1>1, <1>2, <1>3 DEF Abstract!Abandon, Without, Abstract!Without,
       Position, Abstract!Position, RemoveAt, Abstract!RemoveAt, ToSet, Abstract!ToSet
  <2> QED BY <2>1 DEF Abstract!Next
<1>4. CASE t \notin ToSet(Line)
  BY <1>1, <1>2, <1>4 DEF Without, Abstract!vars
<1> QED BY <1>3, <1>4

(* Handing the lock to the front of the line. *)
LEMMA PopStep ==
  ASSUME IInv, IInv', NEW t \in Tasks, Owns(t),
         Line # <<>>, Line' = Tail(Line),
         pc'[t] = "waking", popped'[t] = Head(Line)
  PROVE  [Abstract!Next]_Abstract!vars
<1>1. Owner = t /\ t # Null
  BY OwnerIs, NullIsNoTask DEF IInv
<1>2. Owner' = Head(Line)
  <2>1. PICK x \in Tasks : x = Head(Line)
    <3>1. Line \in Seq(Tasks)
      BY DEF IInv, TypeOK, Line
    <3> QED BY <3>1
  <2>2. Owns(x)'
    BY <2>1 DEF Owns, Handed
  <2> QED BY <2>1, <2>2, OwnerIsNext DEF IInv
<1> QED BY <1>1, <1>2 DEF Abstract!Next, Abstract!HandOff

(* The queue holds the front of the line. *)
LEMMA PopQueuedStep ==
  ASSUME IInv, IInv', NEW t \in Tasks, PopQueued(t) PROVE [Abstract!Next]_Abstract!vars
<1>1. /\ queue \o inbox # <<>> /\ Head(queue \o inbox) = Head(queue)
      /\ Tail(queue \o inbox) = Tail(queue) \o inbox
  BY TailLine DEF PopQueued, IInv, TypeOK
<1>2. Line # <<>> /\ Line' = Tail(Line) /\ popped' = [popped EXCEPT ![t] = Head(Line)]
  BY <1>1 DEF PopQueued, Line, word
<1>3. Owns(t) /\ pc'[t] = "waking" /\ popped'[t] = Head(Line)
  BY <1>2 DEF PopQueued, IInv, TypeOK, Owns, Unlocking, Goto
<1> QED BY <1>2, <1>3, PopStep

(* The queue is empty: the inbox holds the front of the line. *)
LEMMA EnqueueAndPopStep ==
  ASSUME IInv, IInv', NEW t \in Tasks, EnqueueAndPop(t) PROVE [Abstract!Next]_Abstract!vars
<1>1. inbox # <<>>
  BY TopNull, NullIsNoTask DEF EnqueueAndPop, IInv, TypeOK, Now, Snapshot
<1>2. Line \in Seq(Tasks) /\ Line # <<>>
  BY <1>1 DEF IInv, TypeOK, Line
<1>3. queue' = Tail(Line) /\ inbox' = <<>> /\ popped' = [popped EXCEPT ![t] = Head(Line)]
  BY DEF EnqueueAndPop, Line
<1>4. Line' = Tail(Line)
  BY <1>2, <1>3 DEF Line
<1>5. Owns(t) /\ pc'[t] = "waking" /\ popped'[t] = Head(Line)
  BY <1>3 DEF EnqueueAndPop, IInv, TypeOK, Owns, Unlocking, Goto
<1> QED BY <1>2, <1>4, <1>5, PopStep

(* Freeing a lock nobody waits for. *)
LEMMA ClearStep ==
  ASSUME IInv, IInv', NEW t \in Tasks, Clear(t) PROVE [Abstract!Next]_Abstract!vars
<1>1. Line' = Line /\ Line = <<>>
  <2>1. queue = <<>> /\ Top(inbox) = Null
    BY DEF Clear, IInv, QueueInv, Now, Snapshot
  <2>2. inbox = <<>>
    BY <2>1, TopNull, NullIsNoTask DEF IInv, TypeOK
  <2> QED BY <2>1, <2>2 DEF Line, Clear
<1>2. Owner = t /\ t # Null
  <2>1. Owns(t)
    BY DEF Clear, Owns, Unlocking
  <2> QED BY <2>1, OwnerIs, NullIsNoTask DEF IInv
<1>3. Owner' = Null
  <2>1. \A x \in Tasks : ~Owns(x)'
    BY DEF Clear, IInv, WordTellsOwner
  <2> QED BY <2>1, NoOwnerNext
<1> QED BY <1>1, <1>2, <1>3 DEF Abstract!Next, Abstract!Release

-----------------------------------------------------------------------------
(* The initial state of the mutex is the initial state of the lock. *)
LEMMA InitMaps == Init => Abstract!Init
<1> SUFFICES ASSUME Init PROVE Abstract!Init
  OBVIOUS
<1>1. \A t \in Tasks : ~Owns(t)
  BY DEF Init, Owns, Handed, Unlocking, Pending
<1>2. Line = <<>>
  BY DEF Init, Line
<1> QED BY <1>1, <1>2, NoOwner DEF Abstract!Init

(* Every step of the mutex is a step of the lock or leaves it alone. *)
LEMMA NextMaps == IInv /\ IInv' /\ [Next]_vars => [Abstract!Next]_Abstract!vars
<1> SUFFICES ASSUME IInv, IInv', [Next]_vars PROVE [Abstract!Next]_Abstract!vars
  OBVIOUS
<1>1. CASE UNCHANGED vars
  BY <1>1 DEF vars, Abstract!vars, Owner, Line, Owns, Handed
<1>2. ASSUME NEW t \in Tasks,
             \/ Acquire(t) \/ Enter(t) \/ CancelRemove(t)
             \/ PopQueued(t) \/ EnqueueAndPop(t) \/ Clear(t)
      PROVE  [Abstract!Next]_Abstract!vars
  BY <1>2, AcquireStep, EnterStep, CancelRemoveStep, PopQueuedStep, EnqueueAndPopStep, ClearStep
<1>3. ASSUME NEW t \in Tasks,
             \/ Lock(t) \/ AcquireFailed(t) \/ EnterFailed(t) \/ Resume(t)
             \/ Drop(t) \/ CancelWrite(t) \/ CancelSleeping(t) \/ CancelWoken(t)
             \/ Unlock(t) \/ ReadLock(t) \/ BorrowMut(t) \/ LoadAtom(t) \/ EnqueueFailed(t)
             \/ Unborrow(t) \/ ClearFailed(t) \/ Reborrow(t) \/ Wake(t) \/ Leave(t)
      PROVE  [Abstract!Next]_Abstract!vars
  BY <1>3, Invisible DEF Abstract!vars
<1> QED BY <1>1, <1>2, <1>3 DEF Next, LockStep, CancelStep, UnlockStep

(* The fair mutex is a first-come-first-served lock without barging. *)
THEOREM MutexIsFair == Spec => ImplementsFairLock
<1> QED BY Invariance, InitMaps, NextMaps, PTL DEF Spec, Abstract!Spec, ImplementsFairLock
=============================================================================
