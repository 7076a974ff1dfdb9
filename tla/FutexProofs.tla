----------------------------- MODULE FutexProofs ----------------------------
(***************************************************************************)
(* What the futex protocol guarantees for any finite sets of waiters and   *)
(* futexes.  One inductive invariant, IInv, is kept by each action (the    *)
(* lemmas ...Keeps); the frames say what keeps a part of it when an action *)
(* does not touch what the part is about.  The end is about the once cell. *)
(***************************************************************************)
EXTENDS Futex, OnceCell, FutexOpsProofs, FiniteSetTheorems

USE TargetType, NullIsNothing, WakersType

-----------------------------------------------------------------------------
(* The lines. *)

LEMMA LineParts ==
  ASSUME TypeOK, NEW f \in Futexes
  PROVE  /\ Line(f) \in Seq(Waiters) /\ Filed(f) \in Seq(Waiters)
         /\ Line(f) = handles[f] \o Filed(f)
         /\ ToSet(Line(f)) = ToSet(handles[f]) \union ToSet(Filed(f))
<1> DEFINE h == handles[f]
           q == queue[f]
           i == inbox[f]
<1>1. h \in Seq(Waiters) /\ q \in Seq(Waiters) /\ i \in Seq(Waiters)
  BY DEF TypeOK
<1>2. Line(f) = h \o q \o i /\ Filed(f) = q \o i
  BY DEF Line, Filed
<1> DEFINE r == q \o i
<1> HIDE DEF h, q, i
<1>3. h \o q \o i = h \o r /\ r \in Seq(Waiters)
  BY <1>1
<1>4. Filed(f) = r
  BY <1>2
<1> HIDE DEF r
<1>5. h \o r \in Seq(Waiters) /\ ToSet(h \o r) = ToSet(h) \union ToSet(r)
  BY <1>1, <1>3, ConcatLinks
<1> QED BY <1>2, <1>3, <1>4, <1>5 DEF h

(* A waiter that does not sleep is linked nowhere. *)
LEMMA NotLinked ==
  ASSUME TypeOK, LinkInv, NEW w \in Waiters, ~Asleep(w), NEW f \in Futexes
  PROVE  w \notin ToSet(Line(f)) /\ w \notin ToSet(handles[f]) /\ w \notin ToSet(Filed(f))
BY LineParts DEF LinkInv

(* A step that links and unlinks nobody, and neither puts to sleep nor wakes. *)
LEMMA LinkFrame ==
  ASSUME LinkInv, UNCHANGED lists, \A w \in Waiters : Asleep(w)' <=> Asleep(w)
  PROVE  LinkInv'
<1>1. \A f \in Futexes : Line(f)' = Line(f)
  BY DEF Line, lists
<1> QED BY <1>1 DEF LinkInv

(* A step that links nobody, keeps the futex pointers of those who are linked,
   and no requeue. *)
LEMMA OwnerFrame ==
  ASSUME TypeOK, LinkInv, OwnerInv, UNCHANGED lists,
         \A w \in Waiters : owner'[w] = owner[w] \/ ~Asleep(w),
         \A f \in Futexes : npc'[f] = npc[f] \/ npc[f] # "requeueing"
  PROVE  OwnerInv'
<1>1. \A f \in Futexes : Filed(f)' = Filed(f) /\ handles'[f] = handles[f]
  BY DEF Filed, lists
<1>2. ASSUME NEW f \in Futexes, NEW w \in ToSet(handles[f]) \union ToSet(Filed(f))
      PROVE  owner'[w] = owner[w]
  <2>1. w \in ToSet(Line(f)) /\ w \in Waiters
    BY LineParts, ToSetMembers
  <2> QED BY <2>1 DEF LinkInv
<1> QED BY <1>1, <1>2 DEF OwnerInv

(* The notifiers that call are finitely many. *)
LEMMA CallersFinite ==
  ASSUME NEW w PROVE IsFiniteSet(Callers(w)) /\ Cardinality(Callers(w)) \in Nat
BY FinitelyMany, FS_Subset, FS_CardinalityType DEF Callers

(* A step that makes, calls or drops clones of one waiter's wakers, d more. *)
LEMMA ClonesStep ==
  ASSUME TypeOK, ClonesAccountedFor, NEW w \in Waiters, NEW d \in Int,
         \A v \in Waiters \ {w} : clones'[v] = clones[v] /\ Owed(v)' = Owed(v),
         clones'[w] = clones[w] + d /\ Owed(w)' = Owed(w) + d,
         \A v \in Waiters : Callers(v)' = Callers(v)
  PROVE  ClonesAccountedFor'
<1> SUFFICES ASSUME NEW v \in Waiters PROVE (clones[v] = Owed(v) + Cardinality(Callers(v)))'
  BY DEF ClonesAccountedFor
<1>1. Cardinality(Callers(v)) \in Int /\ Owed(v) \in Int /\ clones[v] \in Int
  BY CallersFinite DEF Owed, TypeOK
<1>2. clones[v] = Owed(v) + Cardinality(Callers(v))
  BY DEF ClonesAccountedFor
<1>3. Callers(v)' = Callers(v)
  OBVIOUS
<1> QED BY <1>1, <1>2, <1>3

(* A step that leaves the clones where they are. *)
LEMMA ClonesSame ==
  ASSUME TypeOK, ClonesAccountedFor,
         \A v \in Waiters : clones'[v] = clones[v] /\ Owed(v)' = Owed(v),
         \A v \in Waiters : Callers(v)' = Callers(v)
  PROVE  ClonesAccountedFor'
<1> SUFFICES ASSUME NEW v \in Waiters PROVE ClonesAccountedFor'
  BY DEF ClonesAccountedFor
<1>1. clones'[v] = clones[v] + 0 /\ Owed(v)' = Owed(v) + 0
  BY DEF TypeOK, Owed
<1> QED BY <1>1, ClonesStep

(* A step that calls no waker and wakes nobody, but may end polls. *)
LEMMA LatestFrame ==
  ASSUME LatestInv,
         \A w \in Waiters : pc'[w] = "pending" =>
           \/ slot'[w] = latest'[w]
           \/ pc[w] = "pending" /\ slot'[w] = slot[w] /\ latest'[w] = latest[w] /\ ready'[w] = ready[w],
         \A f \in Futexes : npc[f] = "calling" => npc'[f] = "calling" /\ called'[f] = called[f]
  PROVE  LatestInv'
<1> SUFFICES ASSUME NEW w \in Waiters, pc'[w] = "pending", slot'[w] # latest'[w]
             PROVE  /\ slot'[w] = "done"
                    /\ \/ ready'[w]
                       \/ \E f \in Futexes : npc'[f] = "calling" /\ called'[f] = <<w, latest'[w]>>
  BY DEF LatestInv
<1>1. /\ slot[w] = "done" /\ slot'[w] = slot[w] /\ latest'[w] = latest[w] /\ ready'[w] = ready[w]
      /\ \/ ready[w]
         \/ \E f \in Futexes : npc[f] = "calling" /\ called[f] = <<w, latest[w]>>
  BY DEF LatestInv
<1> QED BY <1>1
-----------------------------------------------------------------------------
(* The waiting task. *)

(* The waker of this poll is the latest, and its clone is the poll's. *)
LEMMA PollLoadKeeps ==
  ASSUME NEW w \in Waiters, NEW v \in Wakers[w], IInv, PollLoad(w, v) PROVE IInv'
<1> USE DEF IInv, PollLoad, Goto, Count, locks, lists
<1>1. TypeOK'
  BY DEF TypeOK, Steps, Sleeping, AnyWaker
<1>2. WaitInv'
  BY DEF WaitInv, TypeOK, Sleeping
<1>3. LockInv'
  BY DEF LockInv, TypeOK
<1>4. NotifierInv'
  BY DEF NotifierInv, TypeOK
<1>5. \A u \in Waiters : Asleep(u)' <=> Asleep(u)
  BY DEF WaitInv, TypeOK, Asleep, Sleeping
<1>6. LinkInv' /\ OwnerInv'
  BY <1>5, LinkFrame, OwnerFrame
<1>7. LatestInv'
  BY LatestFrame DEF WaitInv, TypeOK
<1>8. ClonesAccountedFor'
  <2>1. ASSUME NEW u \in Waiters \ {w} PROVE clones'[u] = clones[u] /\ Owed(u)' = Owed(u)
    BY DEF Owed, TypeOK
  <2>2. clones'[w] = clones[w] + 1 /\ Owed(w)' = Owed(w) + 1
    BY DEF Owed, TypeOK, WaitInv
  <2>3. \A u \in Waiters : Callers(u)' = Callers(u)
    BY DEF Callers
  <2> QED BY <2>1, <2>2, <2>3, ClonesStep
<1> QED BY <1>1, <1>2, <1>3, <1>4, <1>6, <1>7, <1>8

(* The latest waker is in the slot, when the poll ends. *)
LEMMA PollSwapKeeps ==
  ASSUME NEW w \in Waiters, IInv, PollSwap(w) PROVE IInv'
<1> USE DEF IInv, PollSwap, Goto, Set, Count, EndPoll, locks, lists
<1>1. TypeOK'
  BY DEF TypeOK, WaitInv, Steps, Sleeping, AnyWaker
<1>2. WaitInv'
  BY DEF WaitInv, TypeOK, Sleeping
<1>3. LockInv'
  BY DEF LockInv, TypeOK
<1>4. NotifierInv'
  BY DEF NotifierInv, TypeOK
<1>5. \A v \in Waiters : Asleep(v)' <=> Asleep(v)
  BY DEF WaitInv, TypeOK, Asleep, Sleeping
<1>6. LinkInv' /\ OwnerInv'
  BY <1>5, LinkFrame, OwnerFrame
<1>7. LatestInv'
  BY LatestFrame DEF WaitInv, TypeOK
<1>8. ClonesAccountedFor'
  <2>1. ASSUME NEW v \in Waiters \ {w} PROVE clones'[v] = clones[v] /\ Owed(v)' = Owed(v)
    BY DEF Owed, TypeOK
  <2>2. clones'[w] = clones[w] + (-1) /\ Owed(w)' = Owed(w) + (-1)
    BY DEF Owed, TypeOK, WaitInv, Sleeping
  <2>3. \A v \in Waiters : Callers(v)' = Callers(v)
    BY DEF Callers
  <2> QED BY <2>1, <2>2, <2>3, ClonesStep
<1> QED BY <1>1, <1>2, <1>3, <1>4, <1>6, <1>7, <1>8

(* Done stays in the slot. *)
LEMMA PollRetryKeeps ==
  ASSUME NEW w \in Waiters, IInv, PollRetry(w) PROVE IInv'
<1> USE DEF IInv, PollRetry, locks, task, lists
<1>1. TypeOK'
  BY DEF TypeOK, Steps, NSteps, Sleeping
<1>2. WaitInv'
  BY DEF WaitInv, TypeOK, Sleeping
<1>3. LockInv'
  BY DEF LockInv, TypeOK
<1>4. NotifierInv'
  BY DEF NotifierInv, TypeOK
<1>5. \A v \in Waiters : Asleep(v)' <=> Asleep(v)
  BY DEF WaitInv, TypeOK, Asleep, Sleeping
<1>6. LinkInv' /\ OwnerInv'
  BY <1>5, LinkFrame, OwnerFrame
<1>7. LatestInv'
  BY DEF LatestInv, WaitInv, TypeOK
<1>8. ClonesAccountedFor'
  <2>1. \A v \in Waiters : clones'[v] = clones[v] /\ Owed(v)' = Owed(v)
    BY DEF Owed, TypeOK, WaitInv
  <2>2. \A v \in Waiters : Callers(v)' = Callers(v)
    BY DEF Callers
  <2> QED BY <2>1, <2>2, ClonesSame
<1> QED BY <1>1, <1>2, <1>3, <1>4, <1>6, <1>7, <1>8

(* Who was woken is linked nowhere. *)
LEMMA PollDoneKeeps ==
  ASSUME NEW w \in Waiters, IInv, PollDone(w) PROVE IInv'
<1> USE DEF IInv, PollDone, Goto, Set, Count, EndPoll, EndWait, locks, lists
<1>1. TypeOK'
  BY DEF TypeOK, Steps, NSteps, Sleeping
<1>2. WaitInv'
  BY DEF WaitInv, TypeOK, Sleeping
<1>3. LockInv'
  BY DEF LockInv, TypeOK
<1>4. NotifierInv'
  BY DEF NotifierInv, TypeOK
<1>5. \A v \in Waiters : Asleep(v)' <=> Asleep(v)
  BY DEF WaitInv, TypeOK, Asleep, Sleeping
<1>6. LinkInv' /\ OwnerInv'
  BY <1>5, LinkFrame, OwnerFrame DEF Asleep, WaitInv, Sleeping
<1>7. LatestInv'
  BY LatestFrame DEF TypeOK
<1>8. ClonesAccountedFor'
  <2>1. ASSUME NEW v \in Waiters \ {w} PROVE clones'[v] = clones[v] /\ Owed(v)' = Owed(v)
    BY DEF Owed, TypeOK
  <2>2. clones'[w] = clones[w] + (-1) /\ Owed(w)' = Owed(w) + (-1)
    BY DEF Owed, TypeOK, WaitInv
  <2>3. \A v \in Waiters : Callers(v)' = Callers(v)
    BY DEF Callers
  <2> QED BY <2>1, <2>2, <2>3, ClonesStep
<1> QED BY <1>1, <1>2, <1>3, <1>4, <1>6, <1>7, <1>8

(* A dropped future still sleeps. *)
LEMMA DropKeeps ==
  ASSUME NEW w \in Waiters, IInv, Drop(w) PROVE IInv'
<1> USE DEF IInv, Drop, Goto, locks, poller, task, lists
<1>1. TypeOK'
  BY DEF TypeOK, Steps, NSteps, Sleeping
<1>2. WaitInv'
  BY DEF WaitInv, TypeOK, Sleeping
<1>3. LockInv'
  BY DEF LockInv, TypeOK
<1>4. NotifierInv'
  BY DEF NotifierInv, TypeOK
<1>5. \A v \in Waiters : Asleep(v)' <=> Asleep(v)
  BY DEF WaitInv, TypeOK, Asleep, Sleeping
<1>6. LinkInv' /\ OwnerInv'
  BY <1>5, LinkFrame, OwnerFrame
<1>7. LatestInv'
  BY LatestFrame DEF TypeOK
<1>8. ClonesAccountedFor'
  <2>1. \A v \in Waiters : clones'[v] = clones[v] /\ Owed(v)' = Owed(v)
    BY DEF Owed, TypeOK, WaitInv
  <2>2. \A v \in Waiters : Callers(v)' = Callers(v)
    BY DEF Callers
  <2> QED BY <2>1, <2>2, ClonesSame
<1> QED BY <1>1, <1>2, <1>3, <1>4, <1>6, <1>7, <1>8

(* The write lock is got while nobody reads. *)
LEMMA DropWriteKeeps ==
  ASSUME NEW w \in Waiters, IInv, DropWrite(w) PROVE IInv'
<1> USE DEF IInv, DropWrite, Goto, poller, task, lists
<1>1. TypeOK'
  BY DEF TypeOK, Steps, NSteps, Sleeping
<1>2. WaitInv'
  BY DEF WaitInv, TypeOK, Sleeping
<1>3. LockInv'
  BY DEF LockInv, TypeOK
<1>4. NotifierInv'
  BY DEF NotifierInv, TypeOK
<1>5. \A v \in Waiters : Asleep(v)' <=> Asleep(v)
  BY DEF WaitInv, TypeOK, Asleep, Sleeping
<1>6. LinkInv' /\ OwnerInv'
  BY <1>5, LinkFrame, OwnerFrame
<1>7. LatestInv'
  BY LatestFrame DEF TypeOK
<1>8. ClonesAccountedFor'
  <2>1. \A v \in Waiters : clones'[v] = clones[v] /\ Owed(v)' = Owed(v)
    BY DEF Owed, TypeOK, WaitInv
  <2>2. \A v \in Waiters : Callers(v)' = Callers(v)
    BY DEF Callers
  <2> QED BY <2>1, <2>2, ClonesSame
<1> QED BY <1>1, <1>2, <1>3, <1>4, <1>6, <1>7, <1>8

(* The waiter was moved, and so is the drop. *)
LEMMA DropRetryKeeps ==
  ASSUME NEW w \in Waiters, IInv, DropRetry(w) PROVE IInv'
<1> USE DEF IInv, DropRetry, Goto, poller, task, lists
<1>1. TypeOK'
  BY DEF TypeOK, Steps, NSteps, Sleeping
<1>2. WaitInv'
  BY DEF WaitInv, TypeOK, Sleeping
<1>3. LockInv'
  BY DEF LockInv, TypeOK
<1>4. NotifierInv'
  BY DEF NotifierInv, TypeOK
<1>5. \A v \in Waiters : Asleep(v)' <=> Asleep(v)
  BY DEF WaitInv, TypeOK, Asleep, Sleeping
<1>6. LinkInv' /\ OwnerInv'
  BY <1>5, LinkFrame, OwnerFrame
<1>7. LatestInv'
  BY LatestFrame DEF TypeOK
<1>8. ClonesAccountedFor'
  <2>1. \A v \in Waiters : clones'[v] = clones[v] /\ Owed(v)' = Owed(v)
    BY DEF Owed, TypeOK, WaitInv
  <2>2. \A v \in Waiters : Callers(v)' = Callers(v)
    BY DEF Callers
  <2> QED BY <2>1, <2>2, ClonesSame
<1> QED BY <1>1, <1>2, <1>3, <1>4, <1>6, <1>7, <1>8

(* The waiter left its list before. *)
LEMMA DropSleepingKeeps ==
  ASSUME NEW w \in Waiters, IInv, DropSleeping(w) PROVE IInv'
<1> USE DEF IInv, DropSleeping, Goto, Set, Count, EndWait, locks, poller, lists
<1>1. TypeOK'
  BY DEF TypeOK, Steps, NSteps, Sleeping
<1>2. WaitInv'
  BY DEF WaitInv, TypeOK, Sleeping
<1>3. LockInv'
  BY DEF LockInv, TypeOK
<1>4. NotifierInv'
  BY DEF NotifierInv, TypeOK
<1>5. \A v \in Waiters : Asleep(v)' <=> Asleep(v)
  BY DEF WaitInv, TypeOK, Asleep, Sleeping
<1>6. LinkInv' /\ OwnerInv'
  BY <1>5, LinkFrame, OwnerFrame DEF Asleep, WaitInv, Sleeping
<1>7. LatestInv'
  BY LatestFrame DEF TypeOK
<1>8. ClonesAccountedFor'
  <2>1. ASSUME NEW v \in Waiters \ {w} PROVE clones'[v] = clones[v] /\ Owed(v)' = Owed(v)
    BY DEF Owed, TypeOK
  <2>2. clones'[w] = clones[w] + (-1) /\ Owed(w)' = Owed(w) + (-1)
    BY DEF Owed, TypeOK, WaitInv
  <2>3. \A v \in Waiters : Callers(v)' = Callers(v)
    BY DEF Callers
  <2> QED BY <2>1, <2>2, <2>3, ClonesStep
<1> QED BY <1>1, <1>2, <1>3, <1>4, <1>6, <1>7, <1>8

(* The waker is dropped twice. *)
LEMMA DropUnwindsKeeps ==
  ASSUME NEW w \in Waiters, IInv, DropUnwinds(w) PROVE IInv'
<1> USE DEF IInv, DropUnwinds, Goto, Set, Count, locks, poller, lists
<1>1. TypeOK'
  BY DEF TypeOK, Steps, NSteps, Sleeping
<1>2. WaitInv'
  BY DEF WaitInv, TypeOK, Sleeping
<1>3. LockInv'
  BY DEF LockInv, TypeOK
<1>4. NotifierInv'
  BY DEF NotifierInv, TypeOK
<1>5. \A v \in Waiters : Asleep(v)' <=> Asleep(v)
  BY DEF WaitInv, TypeOK, Asleep, Sleeping
<1>6. LinkInv' /\ OwnerInv'
  BY <1>5, LinkFrame, OwnerFrame DEF Asleep, WaitInv, Sleeping
<1>7. LatestInv'
  BY LatestFrame DEF TypeOK
<1>8. ClonesAccountedFor'
  <2>1. ASSUME NEW v \in Waiters \ {w} PROVE clones'[v] = clones[v] /\ Owed(v)' = Owed(v)
    BY DEF Owed, TypeOK
  <2>2. clones'[w] = clones[w] + (-2) /\ Owed(w)' = Owed(w) + (-2)
    BY DEF Owed, TypeOK, WaitInv
  <2>3. \A v \in Waiters : Callers(v)' = Callers(v)
    BY DEF Callers
  <2> QED BY <2>1, <2>2, <2>3, ClonesStep
<1> QED BY <1>1, <1>2, <1>3, <1>4, <1>6, <1>7, <1>8

(* There is no waker left to drop. *)
LEMMA DropWokenKeeps ==
  ASSUME NEW w \in Waiters, IInv, DropWoken(w) PROVE IInv'
<1> USE DEF IInv, DropWoken, Goto, Set, EndWait, locks, poller, lists
<1>1. TypeOK'
  BY DEF TypeOK, Steps, NSteps, Sleeping
<1>2. WaitInv'
  BY DEF WaitInv, TypeOK, Sleeping
<1>3. LockInv'
  BY DEF LockInv, TypeOK
<1>4. NotifierInv'
  BY DEF NotifierInv, TypeOK
<1>5. \A v \in Waiters : Asleep(v)' <=> Asleep(v)
  BY DEF WaitInv, TypeOK, Asleep, Sleeping
<1>6. LinkInv' /\ OwnerInv'
  BY <1>5, LinkFrame, OwnerFrame DEF Asleep, WaitInv, Sleeping
<1>7. LatestInv'
  BY LatestFrame DEF TypeOK
<1>8. ClonesAccountedFor'
  <2>1. \A v \in Waiters : clones'[v] = clones[v] /\ Owed(v)' = Owed(v)
    BY DEF Owed, TypeOK, WaitInv
  <2>2. \A v \in Waiters : Callers(v)' = Callers(v)
    BY DEF Callers
  <2> QED BY <2>1, <2>2, ClonesSame
<1> QED BY <1>1, <1>2, <1>3, <1>4, <1>6, <1>7, <1>8

-----------------------------------------------------------------------------
(* The notifier. *)

(* The read lock is got while nobody writes. *)
LEMMA NLockKeeps ==
  ASSUME NEW f \in Futexes, IInv, NLock(f) PROVE IInv'
<1> USE DEF IInv, NLock, NGoto, poller, task, lists
<1>1. TypeOK'
  BY DEF TypeOK, Steps, NSteps, Sleeping
<1>2. WaitInv'
  BY DEF WaitInv, TypeOK, Sleeping
<1>3. LockInv'
  BY DEF LockInv, TypeOK
<1>4. NotifierInv'
  BY DEF NotifierInv, TypeOK
<1>5. \A v \in Waiters : Asleep(v)' <=> Asleep(v)
  BY DEF WaitInv, TypeOK, Asleep, Sleeping
<1>6. LinkInv' /\ OwnerInv'
  BY <1>5, LinkFrame, OwnerFrame
<1>7. LatestInv'
  BY LatestFrame DEF TypeOK
<1>8. ClonesAccountedFor'
  <2>1. \A v \in Waiters : clones'[v] = clones[v] /\ Owed(v)' = Owed(v)
    BY DEF Owed, TypeOK, WaitInv
  <2>2. \A v \in Waiters : Callers(v)' = Callers(v)
    BY DEF Callers
  <2> QED BY <2>1, <2>2, ClonesSame
<1> QED BY <1>1, <1>2, <1>3, <1>4, <1>6, <1>7, <1>8

(* A notifier keeps nothing in its hands. *)
LEMMA NUnlockKeeps ==
  ASSUME NEW f \in Futexes, IInv, NUnlock(f) PROVE IInv'
<1> USE DEF IInv, NUnlock, NGoto, poller, task, lists
<1>1. TypeOK'
  BY DEF TypeOK, Steps, NSteps, Sleeping
<1>2. WaitInv'
  BY DEF WaitInv, TypeOK, Sleeping
<1>3. LockInv'
  <2>1. /\ npc[f] = "holding" /\ npc' = [npc EXCEPT ![f] = "idle"] /\ npc \in [Futexes -> NSteps]
        /\ readers' = [readers EXCEPT ![f] = @ \ {f}] /\ readers \in [Futexes -> SUBSET Futexes]
        /\ UNCHANGED <<writer, pc, found>>
    BY DEF TypeOK
  <2> HIDE DEF NUnlock, IInv
  <2>2. \A g, h \in Futexes : h \in readers'[g] <=> h \in readers[g] /\ ~(h = f /\ g = f)
    BY <2>1
  <2>3. ASSUME NEW g \in Futexes, NEW h \in Futexes
        PROVE  h \in readers'[g] <=>
                 \/ h = g /\ npc'[h] # "idle"
                 \/ Target[h] = g /\ npc'[h] \in {"requeueing", "requeued"}
    <3>1. h \in readers[g] <=>
            \/ h = g /\ npc[h] # "idle"
            \/ Target[h] = g /\ npc[h] \in {"requeueing", "requeued"}
      BY DEF LockInv, IInv
    <3>2. npc'[h] = IF h = f THEN "idle" ELSE npc[h]
      BY <2>1
    <3> QED BY <2>1, <2>2, <3>1, <3>2
  <2>4. \A g \in Futexes : writer'[g] # Null => readers'[g] = {}
    BY <2>1, <2>2 DEF LockInv, IInv
  <2> QED BY <2>1, <2>3, <2>4 DEF LockInv, IInv
<1>4. NotifierInv'
  BY DEF NotifierInv, TypeOK
<1>5. \A v \in Waiters : Asleep(v)' <=> Asleep(v)
  BY DEF WaitInv, TypeOK, Asleep, Sleeping
<1>6. LinkInv' /\ OwnerInv'
  BY <1>5, LinkFrame, OwnerFrame
<1>7. LatestInv'
  BY LatestFrame DEF TypeOK
<1>8. ClonesAccountedFor'
  <2>1. \A v \in Waiters : clones'[v] = clones[v] /\ Owed(v)' = Owed(v)
    BY DEF Owed, TypeOK, WaitInv
  <2>2. \A v \in Waiters : Callers(v)' = Callers(v)
    BY DEF Callers
  <2> QED BY <2>1, <2>2, ClonesSame
<1> QED BY <1>1, <1>2, <1>3, <1>4, <1>6, <1>7, <1>8

(* The executor knows the waker if it is the latest. *)
LEMMA NCallKeeps ==
  ASSUME NEW f \in Futexes, IInv, NCall(f) PROVE IInv'
<1> USE DEF IInv, NCall, NGoto, Count, locks, poller, lists
<1> DEFINE w == called[f][1]
<1>1. w \in Waiters
  BY DEF NotifierInv
<1>2. TypeOK'
  BY <1>1 DEF TypeOK, NSteps
<1>3. WaitInv'
  BY DEF WaitInv
<1>4. LockInv'
  BY DEF LockInv, TypeOK
<1>5. NotifierInv'
  BY DEF NotifierInv, TypeOK
<1>6. \A v \in Waiters : Asleep(v)' <=> Asleep(v)
  BY DEF Asleep
<1>7. LinkInv' /\ OwnerInv'
  BY <1>6, LinkFrame, OwnerFrame
<1>8. LatestInv'
  <2> SUFFICES ASSUME NEW v \in Waiters, pc'[v] = "pending", slot'[v] # latest'[v]
               PROVE  /\ slot'[v] = "done"
                      /\ \/ ready'[v]
                         \/ \E g \in Futexes : npc'[g] = "calling" /\ called'[g] = <<v, latest'[v]>>
    BY DEF LatestInv
  <2>0. pc' = pc /\ slot' = slot /\ latest' = latest
    OBVIOUS
  <2>1. CASE ready[v]
    BY <1>1, <2>1 DEF LatestInv, TypeOK
  <2>2. ASSUME NEW g \in Futexes, npc[g] = "calling", called[g] = <<v, latest[v]>>
        PROVE  ready'[v] \/ (npc'[g] = "calling" /\ called'[g] = <<v, latest[v]>>)
    <3>1. CASE g = f
      <4>1. w = v /\ called[f][2] = latest[v]
        BY <2>2, <3>1
      <4> QED BY <1>1, <4>1 DEF TypeOK
    <3>2. CASE g # f
      BY <2>2, <3>2 DEF TypeOK
    <3> QED BY <3>1, <3>2
  <2>3. /\ slot[v] = "done"
        /\ \/ ready[v]
           \/ \E g \in Futexes : npc[g] = "calling" /\ called[g] = <<v, latest[v]>>
    BY <2>0 DEF LatestInv
  <2> HIDE DEF NCall
  <2> QED BY <2>0, <2>1, <2>2, <2>3
<1>9. ClonesAccountedFor'
  <2> SUFFICES ASSUME NEW v \in Waiters PROVE (clones[v] = Owed(v) + Cardinality(Callers(v)))'
    BY DEF ClonesAccountedFor
  <2>1. clones[v] = Owed(v) + Cardinality(Callers(v)) /\ Owed(v)' = Owed(v)
    BY DEF ClonesAccountedFor, Owed
  <2>2. CASE v = w
    <3>1. f \in Callers(v) /\ Callers(v)' = Callers(v) \ {f}
      BY <2>2 DEF Callers, TypeOK
    <3>2. Cardinality(Callers(v))' = Cardinality(Callers(v)) - 1
      BY <3>1, CallersFinite, FS_RemoveElement
    <3>3. clones'[v] = clones[v] - 1
      BY <2>2 DEF TypeOK
    <3> QED BY <2>1, <3>2, <3>3, CallersFinite DEF Owed
  <2>3. CASE v # w
    <3>1. Callers(v)' = Callers(v)
      BY <2>3 DEF Callers, TypeOK
    <3>2. clones'[v] = clones[v]
      BY <2>3 DEF TypeOK
    <3> QED BY <2>1, <3>1, <3>2
  <2> QED BY <2>2, <2>3
<1> QED BY <1>2, <1>3, <1>4, <1>5, <1>7, <1>8, <1>9

(* The other futex is read as well. *)
LEMMA RLockKeeps ==
  ASSUME NEW f \in Futexes, IInv, RLock(f) PROVE IInv'
<1> USE DEF IInv, RLock, NGoto, poller, task, lists
<1>1. TypeOK'
  BY DEF TypeOK, Steps, NSteps, Sleeping
<1>2. WaitInv'
  BY DEF WaitInv, TypeOK, Sleeping
<1>3. LockInv'
  <2>1. Target[f] \in Futexes
    OBVIOUS
  <2>2. \A g, h \in Futexes : h \in readers'[g] <=> h \in readers[g] \/ (h = f /\ g = Target[f])
    BY <2>1 DEF TypeOK
  <2>3. \A g, h \in Futexes : h \in readers'[g] <=>
          \/ h = g /\ npc'[h] # "idle"
          \/ Target[h] = g /\ npc'[h] \in {"requeueing", "requeued"}
    BY <2>1, <2>2 DEF LockInv, TypeOK
  <2>4. \A g \in Futexes : writer'[g] # Null => readers'[g] = {}
    BY <2>1 DEF LockInv, TypeOK
  <2> QED BY <2>3, <2>4 DEF LockInv
<1>4. NotifierInv'
  BY DEF NotifierInv, TypeOK
<1>5. \A v \in Waiters : Asleep(v)' <=> Asleep(v)
  BY DEF WaitInv, TypeOK, Asleep, Sleeping
<1>6. LinkInv' /\ OwnerInv'
  BY <1>5, LinkFrame, OwnerFrame
<1>7. LatestInv'
  BY LatestFrame DEF TypeOK
<1>8. ClonesAccountedFor'
  <2>1. \A v \in Waiters : clones'[v] = clones[v] /\ Owed(v)' = Owed(v)
    BY DEF Owed, TypeOK, WaitInv
  <2>2. \A v \in Waiters : Callers(v)' = Callers(v)
    BY DEF Callers
  <2> QED BY <2>1, <2>2, ClonesSame
<1> QED BY <1>1, <1>2, <1>3, <1>4, <1>6, <1>7, <1>8

(* The other futex is given back. *)
LEMMA RUnlockKeeps ==
  ASSUME NEW f \in Futexes, IInv, RUnlock(f) PROVE IInv'
<1> USE DEF IInv, RUnlock, NGoto, poller, task, lists
<1>1. TypeOK'
  BY DEF TypeOK, Steps, NSteps, Sleeping
<1>2. WaitInv'
  BY DEF WaitInv, TypeOK, Sleeping
<1>3. LockInv'
  BY DEF LockInv, TypeOK
<1>4. NotifierInv'
  BY DEF NotifierInv, TypeOK
<1>5. \A v \in Waiters : Asleep(v)' <=> Asleep(v)
  BY DEF WaitInv, TypeOK, Asleep, Sleeping
<1>6. LinkInv' /\ OwnerInv'
  BY <1>5, LinkFrame, OwnerFrame
<1>7. LatestInv'
  BY LatestFrame DEF TypeOK
<1>8. ClonesAccountedFor'
  <2>1. \A v \in Waiters : clones'[v] = clones[v] /\ Owed(v)' = Owed(v)
    BY DEF Owed, TypeOK, WaitInv
  <2>2. \A v \in Waiters : Callers(v)' = Callers(v)
    BY DEF Callers
  <2> QED BY <2>1, <2>2, ClonesSame
<1> QED BY <1>1, <1>2, <1>3, <1>4, <1>6, <1>7, <1>8

-----------------------------------------------------------------------------
(* Actions that link and unlink waiters. *)

(* A waiter enters at the end of the line, pointing to the futex. *)
LEMMA EnterKeeps ==
  ASSUME NEW w \in Waiters, NEW f \in Futexes, NEW v \in Wakers[w], IInv, Enter(w, f, v)
  PROVE  /\ IInv'
         /\ ~Asleep(w) /\ Line(f)' = Append(Line(f), w)
         /\ \A g \in Futexes \ {f} : Line(g)' = Line(g)
<1> USE DEF IInv, Enter, Goto, Set, Count, locks, poller
<1>1. ~Asleep(w)
  BY DEF Asleep, Sleeping
<1>2. /\ Line(f)' = Append(Line(f), w) /\ Filed(f)' = Append(Filed(f), w)
      /\ \A g \in Futexes \ {f} : Line(g)' = Line(g) /\ Filed(g)' = Filed(g)
  <2> DEFINE h == handles[f] \o queue[f]
             q == queue[f]
             i == inbox[f]
  <2>1. /\ Line(f) = h \o i /\ Filed(f) = q \o i
        /\ Line(f)' = h \o Append(i, w) /\ Filed(f)' = q \o Append(i, w)
        /\ \A g \in Futexes \ {f} : Line(g)' = Line(g) /\ Filed(g)' = Filed(g)
    BY DEF Line, Filed, TypeOK
  <2>2. h \in Seq(Waiters) /\ q \in Seq(Waiters) /\ i \in Seq(Waiters)
    BY DEF TypeOK
  <2> HIDE DEF h, q, i
  <2>3. h \o Append(i, w) = Append(h \o i, w) /\ q \o Append(i, w) = Append(q \o i, w)
    BY <2>2, AppendLine
  <2> QED BY <2>1, <2>3
<1>3. /\ ToSet(Line(f))' = ToSet(Line(f)) \union {w}
      /\ NoRepeats(Line(f))'
      /\ ToSet(Filed(f))' = ToSet(Filed(f)) \union {w}
  <2> DEFINE l == Line(f)
             m == Filed(f)
  <2>1. l \in Seq(Waiters) /\ m \in Seq(Waiters) /\ NoRepeats(l) /\ w \notin ToSet(l)
    BY <1>1, LineParts, NotLinked DEF LinkInv
  <2>2. Line(f)' = Append(l, w) /\ Filed(f)' = Append(m, w)
    BY <1>2
  <2> HIDE DEF l, m
  <2>3. /\ ToSet(Append(l, w)) = ToSet(l) \union {w} /\ NoRepeats(Append(l, w))
        /\ ToSet(Append(m, w)) = ToSet(m) \union {w}
    BY <2>1, AppendLinks
  <2> QED BY <2>2, <2>3 DEF l, m
<1>4. TypeOK'
  BY DEF TypeOK, Steps, Sleeping, AnyWaker
<1>5. WaitInv'
  BY DEF WaitInv, TypeOK, Sleeping
<1>6. LockInv'
  BY DEF LockInv, TypeOK
<1>7. NotifierInv'
  BY DEF NotifierInv
<1>8. LinkInv'
  <2>1. \A u \in Waiters : Asleep(u)' <=> Asleep(u) \/ u = w
    BY DEF Asleep, Sleeping, TypeOK
  <2>2. \A g \in Futexes : w \notin ToSet(Line(g))
    BY <1>1, NotLinked
  <2>3. \A g \in Futexes : ToSet(Line(g))' = IF g = f THEN ToSet(Line(g)) \union {w} ELSE ToSet(Line(g))
    BY <1>2, <1>3
  <2>4. ASSUME NEW g \in Futexes PROVE NoRepeats(Line(g))'
    <3>1. NoRepeats(Line(g))
      BY DEF LinkInv
    <3> HIDE DEF Enter, IInv
    <3>2. CASE g = f
      BY <3>2, <1>3
    <3>3. CASE g # f
      BY <3>1, <3>3, <1>2
    <3> QED BY <3>2, <3>3
  <2> QED BY <2>1, <2>2, <2>3, <2>4 DEF LinkInv
<1>9. OwnerInv'
  <2>1. \A g \in Futexes : w \notin ToSet(handles[g]) /\ w \notin ToSet(Filed(g))
    BY <1>1, NotLinked
  <2>2. \A u \in Waiters : owner'[u] = IF u = w THEN f ELSE owner[u]
    BY DEF TypeOK
  <2>3. \A g \in Futexes : ToSet(Filed(g))' = IF g = f THEN ToSet(Filed(g)) \union {w} ELSE ToSet(Filed(g))
    BY <1>2, <1>3
  <2>4. \A g \in Futexes : ToSet(handles[g]) \subseteq Waiters /\ ToSet(Filed(g)) \subseteq Waiters
    BY LineParts, ToSetMembers DEF TypeOK
  <2> QED BY <2>1, <2>2, <2>3, <2>4 DEF OwnerInv
<1>10. LatestInv'
  BY LatestFrame DEF TypeOK
<1>11. ClonesAccountedFor'
  <2>1. ASSUME NEW u \in Waiters \ {w} PROVE clones'[u] = clones[u] /\ Owed(u)' = Owed(u)
    BY DEF Owed, TypeOK
  <2>2. clones'[w] = clones[w] + 1 /\ Owed(w)' = Owed(w) + 1
    BY DEF Owed, TypeOK, WaitInv
  <2>3. \A u \in Waiters : Callers(u)' = Callers(u)
    BY DEF Callers
  <2> QED BY <2>1, <2>2, <2>3, ClonesStep
<1> QED BY <1>4, <1>5, <1>6, <1>7, <1>8, <1>9, <1>10, <1>11, <1>1, <1>2

(* The futex the drop holds alone is the one that links the waiter. *)
LEMMA DropRemoveKeeps ==
  ASSUME NEW w \in Waiters, IInv, DropRemove(w)
  PROVE  /\ IInv'
         /\ \E f \in Futexes : /\ Line(f)' = Without(Line(f), w)
                             /\ \A g \in Futexes \ {f} : Line(g)' = Line(g)
<1> USE DEF IInv, DropRemove, Goto, poller, task
<1>1. found[w] \in Futexes
  BY DEF WaitInv
<1>2. PICK f \in Futexes : f = found[w] /\ owner[w] = f
  BY <1>1
<1> DEFINE m == Filed(f)
<1>3. npc[f] = "idle" /\ handles[f] = <<>>
      /\ \A g \in Futexes : Target[g] = f => npc[g] # "requeueing"
  BY <1>2 DEF LockInv, NotifierInv
<1>4. /\ Line(f) = m /\ Line(f)' = Without(m, w) /\ Filed(f)' = Without(m, w)
      /\ \A g \in Futexes \ {f} : Line(g)' = Line(g) /\ Filed(g)' = Filed(g)
      /\ handles' = handles
      /\ m \in Seq(Waiters) /\ Without(m, w) \in Seq(Waiters)
  <2> DEFINE o == Without(m, w)
  <2>1. /\ Line(f)' = <<>> \o o \o <<>> /\ Filed(f)' = o \o <<>>
        /\ \A g \in Futexes \ {f} : Line(g)' = Line(g) /\ Filed(g)' = Filed(g)
        /\ handles' = handles
    BY <1>2, <1>3 DEF Line, Filed, TypeOK
  <2>2. m \in Seq(Waiters) /\ Line(f) = <<>> \o m
    BY <1>2, <1>3, LineParts
  <2> HIDE DEF m
  <2>3. o \in Seq(Waiters)
    BY <2>2, WithoutSeq
  <2> HIDE DEF o
  <2>4. <<>> \o o \o <<>> = o /\ o \o <<>> = o /\ <<>> \o m = m
    BY <2>2, <2>3
  <2> QED BY <2>1, <2>2, <2>3, <2>4 DEF o
<1>5. /\ ToSet(Without(m, w)) = ToSet(Line(f)) \ {w} /\ NoRepeats(Without(m, w))
      /\ ToSet(Filed(f)) = ToSet(Line(f))
  <2>1. NoRepeats(m)
    BY <1>2, <1>4 DEF LinkInv
  <2> HIDE DEF m
  <2>2. ToSet(Without(m, w)) = ToSet(m) \ {w} /\ NoRepeats(Without(m, w))
    BY <1>4, <2>1, WithoutLinks
  <2> QED BY <1>4, <2>2 DEF m
<1>6. \A g \in Futexes : w \in ToSet(Line(g)) => g = f
  <2> SUFFICES ASSUME NEW g \in Futexes, w \in ToSet(Line(g)) PROVE g = f
    OBVIOUS
  <2>1. w \in ToSet(handles[g]) \/ w \in ToSet(Filed(g))
    BY LineParts
  <2>2. g # f => npc[g] # "requeueing" \/ Target[g] # f
    BY <1>3
  <2> QED BY <1>2, <2>1, <2>2 DEF OwnerInv
<1>7. TypeOK'
  <2>1. queue' = [queue EXCEPT ![f] = Without(m, w)] /\ Without(m, w) \in Seq(Waiters)
    BY <1>2, <1>4 DEF Filed
  <2> HIDE DEF m
  <2> QED BY <1>2, <2>1 DEF TypeOK, Steps, Sleeping
<1>8. WaitInv'
  BY DEF WaitInv, TypeOK, Sleeping
<1>9. LockInv'
  BY <1>2 DEF LockInv, TypeOK
<1>10. NotifierInv'
  BY DEF NotifierInv
<1>11. LinkInv'
  <2>1. \A u \in Waiters : Asleep(u)' <=> Asleep(u) /\ u # w
    BY DEF Asleep, Sleeping, TypeOK
  <2>2. \A g \in Futexes : ToSet(Line(g))' = ToSet(Line(g)) \ {w}
    BY <1>4, <1>5, <1>6
  <2>3. ASSUME NEW g \in Futexes PROVE NoRepeats(Line(g))'
    <3>1. NoRepeats(Line(g))
      BY DEF LinkInv
    <3> HIDE DEF DropRemove, IInv
    <3>2. CASE g = f
      BY <3>2, <1>4, <1>5
    <3>3. CASE g # f
      BY <3>1, <3>3, <1>4
    <3> QED BY <3>2, <3>3
  <2> QED BY <2>1, <2>2, <2>3 DEF LinkInv
<1>12. OwnerInv'
  <2>1. \A g \in Futexes : ToSet(Filed(g))' \subseteq ToSet(Filed(g))
    BY <1>4, <1>5
  <2>2. UNCHANGED <<owner, npc, handles>>
    BY <1>4
  <2> QED BY <2>1, <2>2 DEF OwnerInv
<1>13. LatestInv'
  BY LatestFrame DEF TypeOK
<1>14. ClonesAccountedFor'
  <2>1. \A v \in Waiters : clones'[v] = clones[v] /\ Owed(v)' = Owed(v)
    BY DEF Owed, TypeOK
  <2>2. \A v \in Waiters : Callers(v)' = Callers(v)
    BY DEF Callers
  <2> QED BY <2>1, <2>2, ClonesSame
<1>15. /\ Line(f)' = Without(Line(f), w)
       /\ \A g \in Futexes \ {f} : Line(g)' = Line(g)
  BY <1>4
<1> QED BY <1>7, <1>8, <1>9, <1>10, <1>11, <1>12, <1>13, <1>14, <1>15

(* What the notifier takes in its hands stays linked. *)
LEMMA NTakeKeeps ==
  ASSUME NEW f \in Futexes, NEW n \in Nat, IInv, NTake(f, n)
  PROVE  /\ IInv'
         /\ \A g \in Futexes : Line(g)' = Line(g)
<1> USE DEF IInv, NTake, NGoto, locks, poller, task
<1> DEFINE m == Filed(f)
           k == IF n < Len(m) THEN n ELSE Len(m)
           a == SubSeq(m, 1, k)
           b == SubSeq(m, k + 1, Len(m))
<1>1. handles[f] = <<>>
  BY DEF NotifierInv
<1>2. m \in Seq(Waiters) /\ Line(f) = <<>> \o m
  BY <1>1, LineParts
<1>3. /\ handles' = [handles EXCEPT ![f] = a]
      /\ queue' = [queue EXCEPT ![f] = b]
      /\ inbox' = [inbox EXCEPT ![f] = <<>>]
  BY DEF Filed
<1>4. /\ handles'[f] = a /\ Line(f)' = a \o b \o <<>> /\ Filed(f)' = b \o <<>>
      /\ \A g \in Futexes \ {f} : Line(g)' = Line(g) /\ Filed(g)' = Filed(g) /\ handles'[g] = handles[g]
  <2>1. /\ handles \in [Futexes -> Seq(Waiters)]
        /\ queue \in [Futexes -> Seq(Waiters)] /\ inbox \in [Futexes -> Seq(Waiters)]
    BY DEF TypeOK
  <2> HIDE DEF a, b, NTake, IInv
  <2> QED BY <1>3, <2>1 DEF Line, Filed
<1>5. /\ Line(f) = m /\ a \in Seq(Waiters) /\ b \in Seq(Waiters)
      /\ a \o b = m /\ a \o b \o <<>> = m /\ b \o <<>> = b
  <2> HIDE DEF m
  <2>1. k \in 0..Len(m)
    BY <1>2
  <2> HIDE DEF k
  <2>2. a \in Seq(Waiters) /\ b \in Seq(Waiters) /\ a \o b = m
    BY <1>2, <2>1, SplitLinks
  <2> HIDE DEF a, b
  <2>3. m \o <<>> = m /\ b \o <<>> = b /\ <<>> \o m = m
    BY <1>2, <2>2
  <2> QED BY <1>2, <2>2, <2>3
<1> HIDE DEF m, k, a, b
<1>6. \A g \in Futexes : Line(g)' = Line(g)
  BY <1>4, <1>5
<1>7. ToSet(a) \subseteq ToSet(m) /\ ToSet(b) \subseteq ToSet(m)
  <2>1. a \o b = m /\ a \in Seq(Waiters) /\ b \in Seq(Waiters)
    BY <1>5
  <2>2. ToSet(a \o b) = ToSet(a) \union ToSet(b)
    <3>1. a \in Seq(Waiters) /\ b \in Seq(Waiters)
      BY <1>5
    <3> QED BY ONLY <3>1, ConcatLinks
  <2> QED BY <2>1, <2>2
<1>8. TypeOK'
  <2>1. /\ npc' = [npc EXCEPT ![f] = "holding"]
        /\ UNCHANGED <<readers, writer, owner, slot, pc, fresh, seen, found, called, latest, ready, clones>>
    OBVIOUS
  <2>2. TypeOK
    OBVIOUS
  <2>3. /\ handles' \in [Futexes -> Seq(Waiters)] /\ queue' \in [Futexes -> Seq(Waiters)]
        /\ inbox' \in [Futexes -> Seq(Waiters)]
    <3> HIDE DEF NTake, IInv
    <3> QED BY <1>3, <1>5, <2>2 DEF TypeOK
  <2> HIDE DEF NTake, IInv
  <2> QED BY <2>1, <2>2, <2>3 DEF TypeOK, NSteps
<1>9. WaitInv'
  BY DEF WaitInv
<1>10. LockInv'
  BY DEF LockInv, TypeOK
<1>11. NotifierInv'
  BY <1>4 DEF NotifierInv, TypeOK
<1>12. LinkInv'
  BY <1>6 DEF LinkInv, Asleep
<1>13. OwnerInv'
  <2>1. \A w \in ToSet(m) : owner[w] = f
    BY DEF OwnerInv, m
  <2>2. Filed(f)' = b
    BY <1>4, <1>5
  <2>3. npc[f] = "locked" /\ npc' = [npc EXCEPT ![f] = "holding"] /\ npc \in [Futexes -> NSteps] /\ owner' = owner
    BY DEF TypeOK
  <2>4. OwnerInv
    OBVIOUS
  <2> HIDE DEF NTake, IInv
  <2> SUFFICES ASSUME NEW g \in Futexes
               PROVE  /\ \A w \in ToSet(Filed(g)') : owner[w] = g
                      /\ \A w \in ToSet(handles'[g]) :
                           owner[w] = g \/ (npc'[g] = "requeueing" /\ owner[w] = Target[g])
    BY <2>3 DEF OwnerInv
  <2>5. CASE g = f
    BY <1>4, <1>7, <2>1, <2>2, <2>5
  <2>6. CASE g # f
    BY <1>4, <2>3, <2>4, <2>6 DEF OwnerInv
  <2> QED BY <2>5, <2>6
<1>14. LatestInv'
  BY LatestFrame DEF TypeOK
<1>15. ClonesAccountedFor'
  <2>1. \A v \in Waiters : clones'[v] = clones[v] /\ Owed(v)' = Owed(v)
    BY DEF Owed
  <2>2. \A v \in Waiters : Callers(v)' = Callers(v)
    BY DEF Callers, TypeOK
  <2> QED BY <2>1, <2>2, ClonesSame
<1> QED BY <1>8, <1>9, <1>10, <1>11, <1>12, <1>13, <1>14, <1>15, <1>6

(* The oldest waiter leaves the line with its waker, which goes from the slot
   to the notifier. *)
LEMMA NSwapKeeps ==
  ASSUME NEW f \in Futexes, IInv, NSwap(f)
  PROVE  /\ IInv'
         /\ Line(f) # <<>> /\ Line(f)' = Tail(Line(f))
         /\ \A g \in Futexes \ {f} : Line(g)' = Line(g)
<1> USE DEF IInv, NSwap, NGoto, Set, locks, poller, task
<1>1. handles[f] \in Seq(Waiters) /\ handles[f] # <<>> /\ Head(handles[f]) \in Waiters
  <2> DEFINE h == handles[f]
  <2>1. h \in Seq(Waiters) /\ h # <<>>
    BY DEF TypeOK
  <2> HIDE DEF h
  <2>2. Head(h) \in Waiters
    BY <2>1
  <2> QED BY <2>1, <2>2 DEF h
<1>2. PICK w \in Waiters : w = Head(handles[f])
  BY <1>1
<1> DEFINE l == Line(f)
           h == handles[f]
<1>3. /\ l \in Seq(Waiters) /\ l # <<>> /\ Head(l) = w /\ NoRepeats(l)
      /\ ToSet(h) = {w} \union ToSet(Tail(h))
      /\ Line(f)' = Tail(l) /\ handles'[f] = Tail(h) /\ Tail(h) \in Seq(Waiters)
      /\ \A g \in Futexes \ {f} : Line(g)' = Line(g) /\ handles'[g] = handles[g]
      /\ \A g \in Futexes : Filed(g)' = Filed(g)
  <2> DEFINE r == Filed(f)
  <2>1. /\ Line(f)' = Tail(h) \o queue[f] \o inbox[f] /\ handles'[f] = Tail(h)
        /\ \A g \in Futexes \ {f} : Line(g)' = Line(g) /\ handles'[g] = handles[g]
        /\ \A g \in Futexes : Filed(g)' = Filed(g)
    BY DEF Line, Filed, TypeOK
  <2> DEFINE t == Tail(h)
             q == queue[f]
             i == inbox[f]
  <2>2. l = h \o r /\ r \in Seq(Waiters) /\ l \in Seq(Waiters) /\ NoRepeats(l)
    BY LineParts DEF LinkInv
  <2>3. h \in Seq(Waiters) /\ h # <<>> /\ w = Head(h)
    BY <1>1, <1>2
  <2>4. r = q \o i /\ q \in Seq(Waiters) /\ i \in Seq(Waiters)
    BY DEF TypeOK, Filed
  <2> HIDE DEF h, r, l, q, i, NSwap, IInv
  <2>5. h \o r # <<>> /\ Head(h \o r) = Head(h) /\ Tail(h \o r) = t \o r
    BY <2>2, <2>3, TailLine
  <2>6. t \in Seq(Waiters)
    BY <2>3
  <2> HIDE DEF t
  <2>7. t \o q \o i = t \o (q \o i)
    BY <2>4, <2>6
  <2>8. NoRepeats(h)
    <3>1. NoRepeats(h \o r)
      BY <2>2
    <3> QED BY <2>2, <2>3, <3>1, ConcatLinks
  <2>9. ToSet(h) = {w} \union ToSet(t)
    BY <2>3, <2>8, TailLinks DEF t
  <2>10. Line(f)' = t \o r
    BY <2>1, <2>4, <2>7 DEF t, q, i
  <2>11. l # <<>> /\ Head(l) = w /\ Tail(l) = t \o r
    BY <2>2, <2>3, <2>5
  <2> QED BY <2>1, <2>2, <2>6, <2>9, <2>10, <2>11 DEF t
<1>4. /\ ToSet(Line(f))' = ToSet(Line(f)) \ {w} /\ NoRepeats(Line(f))' /\ w \in ToSet(Line(f))
      /\ ToSet(handles[f])' = ToSet(handles[f]) \ {w}
  <2>1. Tail(l) \in Seq(Waiters) /\ ToSet(Tail(l)) = ToSet(l) \ {w} /\ NoRepeats(Tail(l)) /\ w \in ToSet(l)
    <3> HIDE DEF l, h
    <3> QED BY <1>3, TailLinks
  <2>2. NoRepeats(h)
    <3>1. l = h \o Filed(f) /\ Filed(f) \in Seq(Waiters)
      BY LineParts
    <3> DEFINE r == Filed(f)
    <3>2. h \in Seq(Waiters)
      BY <1>1
    <3> HIDE DEF l, h, r
    <3> QED BY <1>3, <3>1, <3>2, ConcatLinks DEF r
  <2>3. ToSet(Tail(h)) = ToSet(h) \ {w}
    <3>1. h \in Seq(Waiters) /\ h # <<>> /\ w = Head(h)
      BY <1>1, <1>2
    <3> HIDE DEF h
    <3> QED BY <2>2, <3>1, TailLinks
  <2> QED BY <1>3, <2>1, <2>3
<1> HIDE DEF l, h
<1>5. Asleep(w) /\ slot[w] \in Wakers[w]
  BY <1>4 DEF LinkInv, Asleep
<1>6. /\ slot' = [slot EXCEPT ![w] = "done"]
      /\ called' = [called EXCEPT ![f] = <<w, slot[w]>>]
      /\ npc' = [npc EXCEPT ![f] = "calling"]
      /\ npc[f] = "holding"
      /\ UNCHANGED <<inbox, queue, readers, writer, owner, pc, fresh, seen, found, latest, ready, clones>>
  BY <1>2, <1>5
<1>7. /\ slot \in [Waiters -> AnyWaker \union {"none", "done"}] /\ slot[w] \in AnyWaker
      /\ npc \in [Futexes -> NSteps] /\ called \in [Futexes -> (Waiters \X AnyWaker) \union {Null}]
  BY <1>5 DEF TypeOK, AnyWaker
<1>8. TypeOK'
  <2>1. handles' \in [Futexes -> Seq(Waiters)]
    BY <1>3 DEF TypeOK, h
  <2> HIDE DEF NSwap
  <2> QED BY <1>6, <1>7, <2>1 DEF TypeOK, NSteps
<1> HIDE DEF NSwap
<1>9. WaitInv'
  BY <1>5, <1>6, <1>7 DEF WaitInv, Asleep, Sleeping
<1>10. LockInv'
  BY <1>6, <1>7 DEF LockInv
<1>11. NotifierInv'
  BY <1>3, <1>6, <1>7 DEF NotifierInv
<1>12. LinkInv'
  <2>1. \A u \in Waiters : Asleep(u)' <=> Asleep(u) /\ u # w
    BY <1>5, <1>6, <1>7 DEF Asleep
  <2>2. \A g \in Futexes : ToSet(Line(g))' = ToSet(Line(g)) \ {w}
    <3> SUFFICES ASSUME NEW g \in Futexes PROVE ToSet(Line(g))' = ToSet(Line(g)) \ {w}
      OBVIOUS
    <3>1. CASE g = f
      BY <1>4, <3>1
    <3>2. CASE g # f
      <4>1. w \notin ToSet(Line(g))
        BY <1>4, <3>2 DEF LinkInv
      <4> QED BY <1>3, <3>2, <4>1
    <3> QED BY <3>1, <3>2
  <2>3. ASSUME NEW g \in Futexes PROVE NoRepeats(Line(g))'
    <3>1. NoRepeats(Line(g))
      BY DEF LinkInv
    <3> HIDE DEF IInv
    <3>2. CASE g = f
      BY <3>2, <1>4
    <3>3. CASE g # f
      BY <3>1, <3>3, <1>3
    <3> QED BY <3>2, <3>3
  <2> QED BY <2>1, <2>2, <2>3 DEF LinkInv
<1>13. OwnerInv'
  <2>1. \A g \in Futexes : ToSet(handles'[g]) \subseteq ToSet(handles[g])
    BY <1>3, <1>4
  <2>2. \A g \in Futexes : npc[g] = "requeueing" => npc'[g] = "requeueing"
    BY <1>6, <1>7
  <2>3. \A g \in Futexes : Filed(g)' = Filed(g)
    BY <1>6 DEF Filed
  <2> QED BY <1>6, <2>1, <2>2, <2>3 DEF OwnerInv
<1>14. LatestInv'
  <2>0. pc' = pc /\ latest' = latest /\ ready' = ready
    BY <1>6
  <2> SUFFICES ASSUME NEW u \in Waiters, pc[u] = "pending", slot'[u] # latest[u]
               PROVE  /\ slot'[u] = "done"
                      /\ \/ ready[u]
                         \/ \E g \in Futexes : npc'[g] = "calling" /\ called'[g] = <<u, latest[u]>>
    BY <2>0 DEF LatestInv
  <2>1. CASE u = w
    <3>1. slot[w] = latest[w]
      BY <1>5, <2>1 DEF LatestInv
    <3>2. npc'[f] = "calling" /\ called'[f] = <<u, latest[u]>> /\ slot'[u] = "done"
      BY <1>6, <1>7, <2>1, <3>1
    <3> QED BY <3>2
  <2>2. CASE u # w
    <3>1. /\ slot[u] = "done" /\ slot'[u] = slot[u]
          /\ \/ ready[u]
             \/ \E g \in Futexes : npc[g] = "calling" /\ called[g] = <<u, latest[u]>>
      BY <1>6, <1>7, <2>2 DEF LatestInv
    <3>2. \A g \in Futexes : npc[g] = "calling" => npc'[g] = "calling" /\ called'[g] = called[g]
      BY <1>6, <1>7
    <3> QED BY <3>1, <3>2
  <2> QED BY <2>1, <2>2
<1>15. ClonesAccountedFor'
  <2> SUFFICES ASSUME NEW u \in Waiters PROVE (clones[u] = Owed(u) + Cardinality(Callers(u)))'
    BY DEF ClonesAccountedFor
  <2>1. clones[u] = Owed(u) + Cardinality(Callers(u)) /\ clones'[u] = clones[u] /\ Owed(u) \in Int
    BY <1>6 DEF ClonesAccountedFor, Owed
  <2>2. CASE u = w
    <3>1. f \notin Callers(u) /\ Callers(u)' = Callers(u) \union {f}
      BY <1>6, <1>7, <2>2 DEF Callers
    <3>2. Cardinality(Callers(u))' = Cardinality(Callers(u)) + 1
      BY <3>1, CallersFinite, FS_AddElement
    <3>3. Owed(u)' = Owed(u) - 1
      BY <1>5, <1>6, <1>7, <2>2 DEF Owed
    <3> QED BY <2>1, <3>2, <3>3, CallersFinite
  <2>3. CASE u # w
    <3>1. Callers(u)' = Callers(u)
      BY <1>6, <1>7, <2>3 DEF Callers
    <3>2. Owed(u)' = Owed(u)
      BY <1>6, <1>7, <2>3 DEF Owed
    <3> QED BY <2>1, <3>1, <3>2
  <2> QED BY <2>2, <2>3
<1> QED BY <1>8, <1>9, <1>10, <1>11, <1>12, <1>13, <1>14, <1>15, <1>3 DEF l

(* One more waiter points to where the list in hand will go. *)
LEMMA RStoreKeeps ==
  ASSUME NEW f \in Futexes, IInv, RStore(f) PROVE IInv'
<1> USE DEF IInv, RStore, locks, poller, task
<1> DEFINE h == handles[f]
           g == Target[f]
<1>1. h \in Seq(Waiters) /\ g \in Futexes
  BY DEF TypeOK, NotifierInv
<1>2. PICK i \in 1..Len(h) : owner' = [owner EXCEPT ![h[i]] = g]
  BY DEF Unmoved
<1>3. h[i] \in Waiters /\ h[i] \in ToSet(h)
  <2> HIDE DEF h
  <2> QED BY <1>1 DEF ToSet
<1>4. PICK x \in Waiters : x = h[i]
  BY <1>3
<1>5. owner' = [owner EXCEPT ![x] = g] /\ x \in ToSet(h)
  BY <1>2, <1>3, <1>4
<1>6. UNCHANGED <<lists, locks, slot, pc, poller, found, npc, called, task>> /\ npc[f] = "requeueing"
  OBVIOUS
<1> HIDE DEF RStore
<1>7. Asleep(x)
  BY <1>5, LineParts DEF LinkInv
<1>8. TypeOK'
  BY <1>1, <1>5, <1>6 DEF TypeOK, lists
<1>9. WaitInv'
  BY <1>1, <1>5, <1>6 DEF WaitInv, TypeOK
<1>10. LockInv'
  BY <1>6 DEF LockInv
<1>11. NotifierInv'
  BY <1>6 DEF NotifierInv, lists
<1>12. LinkInv'
  BY <1>6, LinkFrame DEF Asleep
<1>13. OwnerInv'
  <2>1. \A e \in Futexes : Filed(e)' = Filed(e) /\ handles'[e] = handles[e]
    BY <1>6 DEF Filed, lists
  <2>2. \A e \in Futexes : x \notin ToSet(Filed(e)) /\ (e # f => x \notin ToSet(handles[e]))
    <3> SUFFICES ASSUME NEW e \in Futexes
                 PROVE  x \notin ToSet(Filed(e)) /\ (e # f => x \notin ToSet(handles[e]))
      OBVIOUS
    <3>1. x \in ToSet(Line(f))
      BY <1>5, LineParts
    <3>2. CASE e # f
      BY <3>1, <3>2, LineParts DEF LinkInv
    <3>3. CASE e = f
      <4> DEFINE r == Filed(f)
                 l == Line(f)
      <4>1. l = h \o r /\ r \in Seq(Waiters) /\ NoRepeats(l)
        BY LineParts DEF LinkInv
      <4> HIDE DEF h, r, l
      <4>2. NoRepeats(h \o r)
        BY <4>1
      <4>3. ToSet(h) \intersect ToSet(r) = {}
        BY <1>1, <4>1, <4>2, ConcatLinks
      <4> QED BY <1>5, <3>3, <4>3 DEF r
    <3> QED BY <3>2, <3>3
  <2>3. \A e \in Futexes : ToSet(handles[e]) \subseteq Waiters /\ ToSet(Filed(e)) \subseteq Waiters
    BY LineParts, ToSetMembers DEF TypeOK
  <2>4. \A u \in Waiters : owner'[u] = IF u = x THEN g ELSE owner[u]
    BY <1>5 DEF TypeOK
  <2>5. npc' = npc
    BY <1>6
  <2> QED BY <1>6, <2>1, <2>2, <2>3, <2>4, <2>5 DEF OwnerInv
<1>14. LatestInv'
  BY <1>6 DEF LatestInv
<1>15. ClonesAccountedFor'
  <2>1. \A v \in Waiters : clones'[v] = clones[v] /\ Owed(v)' = Owed(v)
    BY <1>6 DEF Owed
  <2>2. \A v \in Waiters : Callers(v)' = Callers(v)
    BY <1>6 DEF Callers
  <2> QED BY <2>1, <2>2, ClonesSame
<1> QED BY <1>8, <1>9, <1>10, <1>11, <1>12, <1>13, <1>14, <1>15

(* The list in hand goes to the end of the other line, whose futex all its
   waiters point to. *)
LEMMA RPushKeeps ==
  ASSUME NEW f \in Futexes, IInv, RPush(f)
  PROVE  /\ IInv'
         /\ \E g \in Futexes \ {f}, h \in Seq(Waiters) :
              /\ Line(f)' \in Seq(Waiters) /\ Line(f) = h \o Line(f)' /\ Line(g)' = Line(g) \o h
              /\ \A e \in Futexes \ {f, g} : Line(e)' = Line(e)
<1> USE DEF IInv, RPush, NGoto, locks, poller, task
<1>1. Target[f] \in Futexes /\ Target[f] # f
  BY DEF NotifierInv
<1>2. PICK g \in Futexes : g = Target[f] /\ g # f
  BY <1>1
<1> DEFINE h == handles[f]
           l == Line(g)
           m == Filed(g)
           r == Filed(f)
<1>3. /\ inbox' = [inbox EXCEPT ![g] = @ \o h]
      /\ handles' = [handles EXCEPT ![f] = <<>>]
      /\ npc' = [npc EXCEPT ![f] = "requeued"]
      /\ npc[f] = "requeueing" /\ Unmoved(f) = {}
      /\ UNCHANGED <<queue, readers, writer, owner, slot, pc, fresh, seen, found, called, latest, ready, clones>>
  BY <1>2
<1>4. /\ handles \in [Futexes -> Seq(Waiters)] /\ inbox \in [Futexes -> Seq(Waiters)]
      /\ queue \in [Futexes -> Seq(Waiters)] /\ npc \in [Futexes -> NSteps]
  BY DEF TypeOK
<1> HIDE DEF RPush
<1>5. h \in Seq(Waiters) /\ l \in Seq(Waiters) /\ m \in Seq(Waiters) /\ r \in Seq(Waiters)
  BY <1>4, LineParts
<1>6. /\ Line(g)' = l \o h /\ Filed(g)' = m \o h /\ Line(f)' = r /\ Filed(f)' = r
      /\ \A e \in Futexes \ {f, g} : Line(e)' = Line(e)
      /\ \A e \in Futexes \ {g} : Filed(e)' = Filed(e)
      /\ \A e \in Futexes : handles'[e] = IF e = f THEN <<>> ELSE handles[e]
  <2> DEFINE a == handles[g]
             q == queue[g]
             i == inbox[g]
             u == queue[f]
             v == inbox[f]
  <2>1. /\ Line(g)' = a \o q \o (i \o h) /\ Filed(g)' = q \o (i \o h)
        /\ Line(f)' = <<>> \o u \o v /\ Filed(f)' = u \o v
        /\ \A e \in Futexes \ {f, g} : Line(e)' = Line(e)
        /\ \A e \in Futexes \ {g} : Filed(e)' = Filed(e)
        /\ \A e \in Futexes : handles'[e] = IF e = f THEN <<>> ELSE handles[e]
    <3> HIDE DEF IInv
    <3> QED BY <1>2, <1>3, <1>4 DEF Line, Filed
  <2>2. l = a \o q \o i /\ m = q \o i /\ r = u \o v
    BY DEF Line, Filed
  <2>3. /\ a \in Seq(Waiters) /\ q \in Seq(Waiters) /\ i \in Seq(Waiters)
        /\ u \in Seq(Waiters) /\ v \in Seq(Waiters)
    BY <1>4
  <2> HIDE DEF IInv, a, q, i, u, v, h, l, m, r
  <2>4. a \o q \o (i \o h) = (a \o q \o i) \o h
    <3> DEFINE b == a \o q
    <3>1. b \in Seq(Waiters)
      BY <2>3
    <3> HIDE DEF b
    <3>2. b \o (i \o h) = (b \o i) \o h
      <4>1. h \in Seq(Waiters) /\ i \in Seq(Waiters)
        BY <1>5, <2>3
      <4> QED BY ONLY <3>1, <4>1, ConcatAssociative
    <3> QED BY <3>2 DEF b
  <2>5. q \o (i \o h) = (q \o i) \o h
    <3>1. h \in Seq(Waiters)
      BY <1>5
    <3>2. q \in Seq(Waiters) /\ i \in Seq(Waiters)
      BY <2>3
    <3> QED BY ONLY <3>1, <3>2, ConcatAssociative
  <2>6. <<>> \o u \o v = u \o v
    BY <2>3
  <2> QED BY <2>1, <2>2, <2>4, <2>5, <2>6
<1>7. /\ ToSet(Line(g))' = ToSet(l) \union ToSet(h) /\ ToSet(Filed(g))' = ToSet(m) \union ToSet(h)
      /\ ToSet(Line(f)) = ToSet(r) \union ToSet(h)
      /\ NoRepeats(Line(g))' /\ NoRepeats(Line(f))' /\ ToSet(r) \intersect ToSet(h) = {}
  <2> DEFINE k == Line(f)
  <2>1. /\ NoRepeats(k) /\ NoRepeats(l) /\ k = h \o r
        /\ ToSet(k) \intersect ToSet(l) = {} /\ ToSet(k) = ToSet(h) \union ToSet(r)
    BY <1>2, LineParts DEF LinkInv
  <2> HIDE DEF IInv, h, l, m, r, k
  <2>2. NoRepeats(h) /\ NoRepeats(r) /\ ToSet(h) \intersect ToSet(r) = {}
    <3>1. NoRepeats(h \o r)
      BY <2>1
    <3> QED BY <1>5, <3>1, ConcatLinks
  <2>3. NoRepeats(l \o h) /\ ToSet(l \o h) = ToSet(l) \union ToSet(h)
    BY <1>5, <2>1, <2>2, ConcatLinks
  <2>4. ToSet(m \o h) = ToSet(m) \union ToSet(h)
    BY <1>5, ConcatLinks
  <2> QED BY <1>6, <2>1, <2>2, <2>3, <2>4 DEF k
<1>8. \A w \in ToSet(h) : owner[w] = g
  <2>1. h \in Seq(Waiters)
    BY <1>5
  <2>2. \A i \in 1..Len(h) : owner[h[i]] = g
    BY <1>2, <1>3 DEF Unmoved
  <2> HIDE DEF h
  <2> QED BY <2>1, <2>2 DEF ToSet
<1>9. TypeOK'
  <2>1. l \in Seq(Waiters) /\ inbox' \in [Futexes -> Seq(Waiters)]
    <3> DEFINE i == inbox[g]
    <3>1. i \in Seq(Waiters)
      BY <1>4
    <3> HIDE DEF i, h
    <3>2. i \o h \in Seq(Waiters)
      BY <1>5, <3>1
    <3> QED BY <1>3, <1>4, <1>5, <3>2 DEF i
  <2> QED BY <1>3, <2>1 DEF TypeOK, NSteps
<1>10. WaitInv'
  BY <1>3 DEF WaitInv
<1>11. LockInv'
  BY <1>3, <1>4 DEF LockInv
<1>12. NotifierInv'
  BY <1>3, <1>4, <1>6 DEF NotifierInv
<1>13. LinkInv'
  <2>1. \A u \in Waiters : Asleep(u)' <=> Asleep(u)
    BY <1>3 DEF Asleep
  <2>2. \A e \in Futexes :
          ToSet(Line(e))' = IF e = g THEN ToSet(Line(g)) \union ToSet(h)
                            ELSE IF e = f THEN ToSet(Line(f)) \ ToSet(h) ELSE ToSet(Line(e))
    BY <1>2, <1>6, <1>7
  <2>3. ASSUME NEW e \in Futexes PROVE NoRepeats(Line(e))'
    <3>1. NoRepeats(Line(e))
      BY DEF LinkInv
    <3> HIDE DEF IInv
    <3>2. CASE e \in {f, g}
      BY <3>2, <1>7
    <3>3. CASE e \notin {f, g}
      BY <3>1, <3>3, <1>6
    <3> QED BY <3>2, <3>3
  <2>4. ToSet(h) \subseteq ToSet(Line(f))
    BY <1>7
  <2>5. LinkInv
    OBVIOUS
  <2> HIDE DEF IInv, h
  <2>6. ASSUME NEW d \in Futexes, NEW e \in Futexes, d # e
        PROVE  ToSet(Line(d))' \intersect ToSet(Line(e))' = {}
    BY <1>2, <2>2, <2>4, <2>5, <2>6 DEF LinkInv
  <2>7. \A u \in Waiters : (\E e \in Futexes : u \in ToSet(Line(e))) <=> (\E e \in Futexes : u \in ToSet(Line(e))')
    BY <1>2, <2>2, <2>4
  <2> QED BY <2>1, <2>3, <2>5, <2>6, <2>7 DEF LinkInv
<1>14. OwnerInv'
  <2>1. OwnerInv
    OBVIOUS
  <2>2. \A e \in Futexes : ToSet(Filed(e))' = IF e = g THEN ToSet(Filed(e)) \union ToSet(h) ELSE ToSet(Filed(e))
    BY <1>6, <1>7
  <2>3. ToSet(handles[f])' = {}
    BY <1>6, EmptyLinks
  <2> HIDE DEF IInv, h
  <2>4. ASSUME NEW e \in Futexes, NEW w \in ToSet(Filed(e))' PROVE owner'[w] = e
    BY <1>3, <1>8, <2>1, <2>2, <2>4 DEF OwnerInv
  <2>5. ASSUME NEW e \in Futexes, NEW w \in ToSet(handles[e])'
        PROVE  owner'[w] = e \/ (npc'[e] = "requeueing" /\ owner'[w] = Target[e])
    BY <1>3, <1>4, <1>6, <2>1, <2>3, <2>5 DEF OwnerInv
  <2> QED BY <2>4, <2>5 DEF OwnerInv
<1>15. LatestInv'
  BY <1>3, <1>4, LatestFrame
<1>16. ClonesAccountedFor'
  <2>1. \A v \in Waiters : clones'[v] = clones[v] /\ Owed(v)' = Owed(v)
    BY <1>3 DEF Owed
  <2>2. \A v \in Waiters : Callers(v)' = Callers(v)
    BY <1>3, <1>4 DEF Callers
  <2> QED BY <2>1, <2>2, ClonesSame
<1>17. /\ Line(f)' \in Seq(Waiters) /\ Line(f) = h \o Line(f)' /\ Line(g)' = Line(g) \o h
       /\ \A e \in Futexes \ {f, g} : Line(e)' = Line(e)
  BY <1>5, <1>6, LineParts
<1> HIDE DEF h, r, l
<1> QED BY <1>9, <1>10, <1>11, <1>12, <1>13, <1>14, <1>15, <1>16, <1>17, <1>2, <1>5 DEF l

-----------------------------------------------------------------------------
(* The invariant holds of every behaviour. *)

LEMMA InitIInv ==
  ASSUME Init PROVE IInv
<1> USE DEF Init
<1>1. \A f \in Futexes : Line(f) = <<>> /\ Filed(f) = <<>> /\ handles[f] = <<>>
  BY DEF Line, Filed
<1>2. TypeOK
  BY DEF TypeOK, Steps, NSteps
<1>3. WaitInv /\ LockInv /\ NotifierInv /\ LatestInv
  BY DEF WaitInv, LockInv, NotifierInv, LatestInv, Sleeping
<1>4. LinkInv /\ OwnerInv
  BY <1>1, EmptyLinks DEF LinkInv, OwnerInv, Asleep, Sleeping
<1>5. ClonesAccountedFor
  <2> SUFFICES ASSUME NEW w \in Waiters PROVE clones[w] = Owed(w) + Cardinality(Callers(w))
    BY DEF ClonesAccountedFor
  <2>1. Callers(w) = {} /\ Owed(w) = 0 /\ clones[w] = 0
    BY DEF Callers, Owed
  <2> QED BY <2>1, FS_EmptySet
<1> QED BY <1>2, <1>3, <1>4, <1>5 DEF IInv

LEMMA NextIInv ==
  ASSUME IInv, [Next]_vars PROVE IInv'
<1>1. CASE UNCHANGED vars
  <2> USE <1>1 DEF vars
  <2>1. UNCHANGED lists /\ \A f \in Futexes : Line(f)' = Line(f) /\ Filed(f)' = Filed(f)
    BY DEF lists, Line, Filed
  <2>2. TypeOK'
    BY DEF IInv, TypeOK
  <2>3. WaitInv' /\ LockInv' /\ NotifierInv' /\ LatestInv'
    BY DEF IInv, WaitInv, LockInv, NotifierInv, LatestInv
  <2>4. LinkInv' /\ OwnerInv'
    BY <2>1 DEF IInv, LinkInv, OwnerInv, Asleep
  <2>5. ClonesAccountedFor'
    BY DEF IInv, ClonesAccountedFor, Owed, Callers
  <2> QED BY <2>2, <2>3, <2>4, <2>5 DEF IInv
<1>2. ASSUME NEW w \in Waiters, NEW f \in Futexes, NEW v \in Wakers[w], Enter(w, f, v) PROVE IInv'
  BY <1>2, EnterKeeps
<1>3. ASSUME NEW w \in Waiters, Poll(w) \/ PollStep(w) PROVE IInv'
  BY <1>3, PollLoadKeeps, PollSwapKeeps, PollRetryKeeps, PollDoneKeeps DEF Poll, PollStep
<1>4. ASSUME NEW w \in Waiters, Drop(w) \/ DropWrite(w) \/ DropStep(w) PROVE IInv'
  BY <1>4, DropKeeps, DropWriteKeeps, DropRetryKeeps, DropRemoveKeeps, DropSleepingKeeps,
     DropUnwindsKeeps, DropWokenKeeps DEF DropStep
<1>5. ASSUME NEW f \in Futexes, NLock(f) \/ NStep(f) \/ RLock(f) PROVE IInv'
  <2>1. ASSUME NEW n \in 1..Cardinality(Waiters), NTake(f, n) PROVE IInv'
    <3>1. n \in Nat
      BY FinitelyMany, FS_CardinalityType
    <3> QED BY <2>1, <3>1, NTakeKeeps
  <2> QED BY <1>5, <2>1, NLockKeeps, RLockKeeps, NSwapKeeps, NCallKeeps, NUnlockKeeps,
             RStoreKeeps, RPushKeeps, RUnlockKeeps DEF NStep
<1> QED BY <1>1, <1>2, <1>3, <1>4, <1>5 DEF Next

(* IInv is inductive: it holds in every state the protocol can reach. *)
THEOREM Invariance == Spec => []IInv
<1>1. Init => IInv
  BY InitIInv
<1>2. IInv /\ [Next]_vars => IInv'
  BY NextIInv
<1> QED BY <1>1, <1>2, PTL DEF Spec

-----------------------------------------------------------------------------
(* What follows for the users of a futex. *)

(* A notifier never finds a slot without a waker, the unwrap of Waiter::wake. *)
THEOREM WakesFindWakers == Spec => []WakeFindsWaker
<1>1. IInv => WakeFindsWaker
  BY DEF IInv, NotifierInv, WakeFindsWaker
<1> QED BY <1>1, Invariance, PTL

(* A list with no repeats is no longer than the waiters are many. *)
LEMMA ShortList ==
  ASSUME NEW s \in Seq(Waiters), NoRepeats(s) PROVE Len(s) <= Cardinality(Waiters)
<1>1. PICK n \in Nat : n = Len(s)
  OBVIOUS
<1>2. s \in Injection(1..n, Waiters)
  BY <1>1 DEF NoRepeats, IsInjective, Injection
<1>3. Cardinality(1..n) <= Cardinality(Waiters)
  BY <1>2, FinitelyMany, FS_Injection
<1>4. Cardinality(1..n) = n
  <2>1. 1 \in Int /\ n \in Int
    OBVIOUS
  <2> QED BY ONLY <2>1, FS_Interval, n \in Nat
<1> QED BY <1>1, <1>3, <1>4

(* A sleeping waiter is in one place of one line, another waiter in none. *)
THEOREM LinkedOnce == Spec => []LinkedOnceWhileAsleep
<1>1. ASSUME IInv, NEW w \in Waiters, Asleep(w) PROVE Cardinality(Places(w)) = 1
  <2>1. PICK f \in Futexes : w \in ToSet(Line(f))
    BY <1>1 DEF IInv, LinkInv
  <2>2. \A g \in Futexes : Line(g) \in Seq(Waiters) /\ NoRepeats(Line(g))
    BY <1>1, LineParts DEF IInv, LinkInv
  <2>3. PICK i \in 1..Len(Line(f)) : Line(f)[i] = w
    BY <2>1, <2>2 DEF ToSet
  <2>4. <<f, i>> \in Places(w)
    <3>1. Len(Line(f)) <= Cardinality(Waiters) /\ Len(Line(f)) \in Nat
      BY <2>2, ShortList
    <3>2. Cardinality(Waiters) \in Nat
      BY FinitelyMany, FS_CardinalityType
    <3>3. i \in 1..Cardinality(Waiters) /\ i <= Len(Line(f))
      BY <3>1, <3>2
    <3> QED BY <2>3, <3>3 DEF Places
  <2>5. ASSUME NEW p \in Places(w) PROVE p = <<f, i>>
    <3>1. PICK g \in Futexes, j \in 1..Cardinality(Waiters) : p = <<g, j>>
      BY DEF Places
    <3>2. j <= Len(Line(g)) /\ Line(g)[j] = w /\ j \in Nat /\ j >= 1
      BY <3>1, FinitelyMany, FS_CardinalityType DEF Places
    <3>3. w \in ToSet(Line(g))
      BY <2>2, <3>2 DEF ToSet
    <3>4. g = f
      BY <1>1, <2>1, <3>3 DEF IInv, LinkInv
    <3>5. j = i
      BY <2>2, <2>3, <3>2, <3>4 DEF NoRepeats, IsInjective
    <3> QED BY <3>1, <3>4, <3>5
  <2>6. Places(w) = {<<f, i>>}
    BY <2>4, <2>5
  <2> QED BY <2>6, FS_Singleton
<1>2. ASSUME IInv, NEW w \in Waiters, ~Asleep(w) PROVE Cardinality(Places(w)) = 0
  <2>1. Places(w) = {}
    <3> SUFFICES ASSUME NEW p \in Places(w) PROVE FALSE
      OBVIOUS
    <3>1. PICK g \in Futexes, j \in 1..Cardinality(Waiters) : p = <<g, j>>
      BY DEF Places
    <3>2. j <= Len(Line(g)) /\ Line(g)[j] = w /\ j \in Nat /\ j >= 1
      BY <3>1, FinitelyMany, FS_CardinalityType DEF Places
    <3>3. Line(g) \in Seq(Waiters)
      BY <1>2, LineParts DEF IInv
    <3>4. w \in ToSet(Line(g))
      BY <3>2, <3>3 DEF ToSet
    <3> QED BY <1>2, <3>4 DEF IInv, LinkInv
  <2> QED BY <2>1, FS_EmptySet
<1>3. IInv => LinkedOnceWhileAsleep
  BY <1>1, <1>2 DEF LinkedOnceWhileAsleep, Asleep
<1> QED BY <1>3, Invariance, PTL

(* The futex pointer of a linked waiter leads to its list, or to the list it
   is being moved to while the notifier holds both read locks. *)
THEOREM OwnerLeads == Spec => []OwnerLeadsToList
<1>1. IInv => OwnerLeadsToList
  <2> SUFFICES ASSUME IInv, NEW f \in Futexes
               PROVE  /\ \A w \in ToSet(Filed(f)) : owner[w] = f
                      /\ \A w \in ToSet(handles[f]) :
                           owner[w] # f => owner[w] = Target[f] /\ f \in readers[f] \intersect readers[owner[w]]
    BY DEF OwnerLeadsToList, Filed
  <2>1. \A w \in ToSet(Filed(f)) : owner[w] = f
    BY DEF IInv, OwnerInv
  <2>2. ASSUME NEW w \in ToSet(handles[f]), owner[w] # f
        PROVE  owner[w] = Target[f] /\ f \in readers[f] \intersect readers[owner[w]]
    <3>1. npc[f] = "requeueing" /\ owner[w] = Target[f]
      BY <2>2 DEF IInv, OwnerInv
    <3>2. Target[f] \in Futexes
      BY <3>1 DEF IInv, NotifierInv
    <3> QED BY <3>1, <3>2 DEF IInv, LockInv
  <2> QED BY <2>1, <2>2
<1> QED BY <1>1, Invariance, PTL

(* Every clone of a waker is dropped or called once, but for the waker that a
   drop that met a todo!() drops twice. *)
THEOREM NoCloneLost == Spec => []ClonesAccountedFor
<1>1. IInv => ClonesAccountedFor
  BY DEF IInv
<1> QED BY <1>1, Invariance, PTL

(* The waker of the latest poll is the one in the slot or the one called. *)
THEOREM LatestCalled == Spec => []LatestWakerIsCalled
<1>1. IInv => LatestWakerIsCalled
  BY DEF IInv, LatestInv, LatestWakerIsCalled
<1> QED BY <1>1, Invariance, PTL

-----------------------------------------------------------------------------
(* Strict FIFO. *)

(* What a step may do to the lines: nothing, or one waiter more at the end of
   one, one cancelled, the first one woken, or the first ones of one moved to
   the end of another. *)
LEMMA LineStep ==
  ASSUME IInv, [Next]_vars
  PROVE  \/ \A e \in Futexes : Line(e)' = Line(e)
         \/ \E d \in Futexes, w \in Waiters :
              /\ ~Asleep(w) /\ Line(d)' = Append(Line(d), w)
              /\ \A e \in Futexes \ {d} : Line(e)' = Line(e)
         \/ \E d \in Futexes, w \in Waiters :
              /\ Line(d)' = Without(Line(d), w)
              /\ \A e \in Futexes \ {d} : Line(e)' = Line(e)
         \/ \E d \in Futexes :
              /\ Line(d) # <<>> /\ Line(d)' = Tail(Line(d))
              /\ \A e \in Futexes \ {d} : Line(e)' = Line(e)
         \/ \E d \in Futexes : \E c \in Futexes \ {d}, h \in Seq(Waiters) :
              /\ Line(d)' \in Seq(Waiters) /\ Line(d) = h \o Line(d)' /\ Line(c)' = Line(c) \o h
              /\ \A e \in Futexes \ {d, c} : Line(e)' = Line(e)
<1> DEFINE Same == \A e \in Futexes : Line(e)' = Line(e)
           Entered == \E d \in Futexes, w \in Waiters :
                        /\ ~Asleep(w) /\ Line(d)' = Append(Line(d), w)
                        /\ \A e \in Futexes \ {d} : Line(e)' = Line(e)
           Cancelled == \E d \in Futexes, w \in Waiters :
                          /\ Line(d)' = Without(Line(d), w)
                          /\ \A e \in Futexes \ {d} : Line(e)' = Line(e)
           Woken == \E d \in Futexes :
                      /\ Line(d) # <<>> /\ Line(d)' = Tail(Line(d))
                      /\ \A e \in Futexes \ {d} : Line(e)' = Line(e)
           Moved == \E d \in Futexes : \E c \in Futexes \ {d}, h \in Seq(Waiters) :
                      /\ Line(d)' \in Seq(Waiters) /\ Line(d) = h \o Line(d)' /\ Line(c)' = Line(c) \o h
                      /\ \A e \in Futexes \ {d, c} : Line(e)' = Line(e)
<1>1. UNCHANGED lists => Same
  BY DEF lists, Line
<1>2. UNCHANGED vars => Same
  BY <1>1 DEF vars, lists
<1>3. ASSUME NEW w \in Waiters, \/ Poll(w) \/ PollStep(w) \/ Drop(w) \/ DropWrite(w)
                                \/ DropRetry(w) \/ DropSleeping(w) \/ DropUnwinds(w) \/ DropWoken(w)
      PROVE  Same
  BY <1>1, <1>3 DEF Poll, PollStep, PollLoad, PollSwap, PollRetry, PollDone, Drop, DropWrite,
                    DropRetry, DropSleeping, DropUnwinds, DropWoken
<1>4. ASSUME NEW f \in Futexes, NLock(f) \/ RLock(f) \/ NCall(f) \/ NUnlock(f) \/ RStore(f) \/ RUnlock(f)
      PROVE  Same
  BY <1>1, <1>4 DEF NLock, RLock, NCall, NUnlock, RStore, RUnlock
<1>5. ASSUME NEW f \in Futexes, NEW n \in 1..Cardinality(Waiters), NTake(f, n) PROVE Same
  <2>1. n \in Nat
    BY FinitelyMany, FS_CardinalityType
  <2> QED BY <1>5, <2>1, NTakeKeeps
<1> HIDE DEF Same
<1>6. \/ Same
      \/ \E w \in Waiters : \/ \E f \in Futexes, v \in Wakers[w] : Enter(w, f, v)
                            \/ DropRemove(w)
      \/ \E f \in Futexes : NSwap(f) \/ RPush(f)
  BY <1>2, <1>3, <1>4, <1>5 DEF Next, DropStep, NStep
<1>7. ASSUME NEW w \in Waiters, NEW f \in Futexes, NEW v \in Wakers[w], Enter(w, f, v) PROVE Entered
  BY <1>7, EnterKeeps
<1>8. ASSUME NEW w \in Waiters, DropRemove(w) PROVE Cancelled
  BY <1>8, DropRemoveKeeps
<1>9. ASSUME NEW f \in Futexes, NSwap(f) PROVE Woken
  BY <1>9, NSwapKeeps
<1>10. ASSUME NEW f \in Futexes, RPush(f) PROVE Moved
  BY <1>10, RPushKeeps
<1> HIDE DEF Entered, Cancelled, Woken, Moved
<1>11. Same \/ Entered \/ Cancelled \/ Woken \/ Moved
  BY <1>6, <1>7, <1>8, <1>9, <1>10
<1> QED BY <1>11, Zenon DEF Same, Entered, Cancelled, Woken, Moved

(* Waiters that were in one line and are in one again keep their order. *)
LEMMA OrderStep ==
  ASSUME IInv, [Next]_vars, NEW f \in Futexes, NEW g \in Futexes, NEW a, NEW b,
         Before(Line(f), a, b), a \in ToSet(Line(g)'), b \in ToSet(Line(g)')
  PROVE  Before(Line(g)', a, b)
<1>1. \A e \in Futexes : Line(e) \in Seq(Waiters) /\ NoRepeats(Line(e))
  BY LineParts DEF IInv, LinkInv
<1>2. a \in ToSet(Line(f)) /\ b \in ToSet(Line(f))
  BY <1>1 DEF Before, ToSet
<1>3. \A e \in Futexes \ {f} : a \notin ToSet(Line(e)) /\ b \notin ToSet(Line(e))
  BY <1>2 DEF IInv, LinkInv
<1>4. \A w \in Waiters : ~Asleep(w) => w # a /\ w # b
  BY <1>2 DEF IInv, LinkInv
<1>5. CASE \A e \in Futexes : Line(e)' = Line(e)
  BY <1>3, <1>5
<1>6. ASSUME NEW d \in Futexes, NEW w \in Waiters, ~Asleep(w), Line(d)' = Append(Line(d), w),
             \A e \in Futexes \ {d} : Line(e)' = Line(e)
      PROVE  Before(Line(g)', a, b)
  <2> DEFINE l == Line(d)
  <2>1. l \in Seq(Waiters)
    BY <1>1
  <2> HIDE DEF l
  <2>2. ToSet(Append(l, w)) = ToSet(l) \union {w}
    BY <2>1, AppendLinks
  <2>3. Before(l, a, b) => Before(Append(l, w), a, b)
    BY <2>1, BeforeAppend
  <2>4. f = g
    BY <1>3, <1>4, <1>6, <2>2 DEF l
  <2> QED BY <1>6, <2>3, <2>4 DEF l
<1>7. ASSUME NEW d \in Futexes, NEW w \in Waiters, Line(d)' = Without(Line(d), w),
             \A e \in Futexes \ {d} : Line(e)' = Line(e)
      PROVE  Before(Line(g)', a, b)
  <2> DEFINE l == Line(d)
  <2>1. l \in Seq(Waiters) /\ NoRepeats(l)
    BY <1>1
  <2> HIDE DEF l
  <2>2. ToSet(Without(l, w)) = ToSet(l) \ {w}
    BY <2>1, WithoutLinks
  <2>3. Before(l, a, b) /\ w # a /\ w # b => Before(Without(l, w), a, b)
    BY <2>1, BeforeWithout
  <2>4. f = g /\ (g = d => w # a /\ w # b)
    BY <1>3, <1>7, <2>2 DEF l
  <2> QED BY <1>7, <2>3, <2>4 DEF l
<1>8. ASSUME NEW d \in Futexes, Line(d) # <<>>, Line(d)' = Tail(Line(d)),
             \A e \in Futexes \ {d} : Line(e)' = Line(e)
      PROVE  Before(Line(g)', a, b)
  <2> DEFINE l == Line(d)
  <2>1. l \in Seq(Waiters) /\ NoRepeats(l) /\ l # <<>>
    BY <1>1, <1>8
  <2> HIDE DEF l
  <2>2. ToSet(Tail(l)) = ToSet(l) \ {Head(l)}
    BY <2>1, TailLinks
  <2>3. Before(l, a, b) /\ a # Head(l) => Before(Tail(l), a, b)
    BY <2>1, BeforeTail
  <2>4. f = g /\ (g = d => a # Head(l))
    BY <1>3, <1>8, <2>2 DEF l
  <2> QED BY <1>8, <2>3, <2>4 DEF l
<1>9. ASSUME NEW d \in Futexes, NEW c \in Futexes \ {d}, NEW h \in Seq(Waiters),
             Line(d)' \in Seq(Waiters), Line(d) = h \o Line(d)', Line(c)' = Line(c) \o h,
             \A e \in Futexes \ {d, c} : Line(e)' = Line(e)
      PROVE  Before(Line(g)', a, b)
  <2> DEFINE l == Line(c)
  <2>1. PICK r \in Seq(Waiters) : r = Line(d)'
    BY <1>9
  <2>2. l \in Seq(Waiters) /\ Line(d) = h \o r /\ NoRepeats(h \o r)
    <3>1. NoRepeats(Line(d)) /\ l \in Seq(Waiters)
      BY <1>1
    <3>2. Line(d) = h \o r
      BY <1>9, <2>1
    <3> QED BY <3>1, <3>2
  <2> HIDE DEF l
  <2>3. /\ ToSet(h \o r) = ToSet(h) \union ToSet(r) /\ ToSet(h) \intersect ToSet(r) = {}
        /\ NoRepeats(h) /\ NoRepeats(r)
    BY <2>2, ConcatLinks
  <2>4. ToSet(l \o h) = ToSet(l) \union ToSet(h)
    BY <2>2, ConcatLinks
  <2>5. CASE f = d /\ g = c
    <3>1. a \in ToSet(h) /\ b \in ToSet(h)
      BY <1>3, <1>9, <2>4, <2>5 DEF l
    <3>2. Before(h \o r, a, b)
      BY <2>2, <2>5
    <3>3. Before(h, a, b)
      BY <2>2, <3>1, <3>2, BeforePrefix
    <3>4. Before(l \o h, a, b)
      BY <2>2, <3>3, BeforeConcat
    <3> QED BY <1>9, <2>5, <3>4 DEF l
  <2>6. CASE f = d /\ g = d
    <3>1. a \in ToSet(r) /\ b \in ToSet(r)
      BY <2>1, <2>6
    <3>2. Before(h \o r, a, b)
      BY <2>2, <2>6
    <3>3. Before(r, a, b)
      BY <2>2, <3>1, <3>2, BeforeSuffix
    <3> QED BY <2>1, <2>6, <3>3
  <2>7. CASE f = c /\ g = c
    <3>1. Before(l \o h, a, b)
      BY <2>2, <2>7, BeforeConcat DEF l
    <3> QED BY <1>9, <2>7, <3>1 DEF l
  <2>8. CASE f = c /\ g = d
    <3>1. a \in ToSet(Line(d))
      <4>1. a \in ToSet(r)
        BY <2>1, <2>8
      <4>2. ToSet(Line(d)) = ToSet(h \o r)
        BY <2>2
      <4> QED BY <2>3, <4>1, <4>2
    <3> QED BY <1>3, <1>9, <2>8, <3>1
  <2>9. CASE g \notin {d, c}
    <3>1. Line(g)' = Line(g)
      BY <1>9, <2>9
    <3> QED BY <1>3, <3>1
  <2>10. CASE f \notin {d, c} /\ g \in {d, c}
    <3>1. a \notin ToSet(l) /\ a \notin ToSet(h \o r)
      <4>1. Line(d) = h \o r
        BY <2>2
      <4> QED BY <1>3, <1>9, <2>10, <4>1 DEF l
    <3>2. a \notin ToSet(r) /\ a \notin ToSet(l \o h)
      BY <2>3, <2>4, <3>1
    <3> QED BY <1>9, <2>1, <2>10, <3>2 DEF l
  <2> QED BY <2>5, <2>6, <2>7, <2>8, <2>9, <2>10
<1> QED BY <1>5, <1>6, <1>7, <1>8, <1>9, LineStep

(* No waiter ever overtakes another one it stands behind, also when both are
   moved to another futex. *)
THEOREM FirstInFirstOut == Spec => OrderKept
<1>1. IInv /\ [Next]_vars =>
        [\A f, g \in Futexes : \A a, b \in Waiters :
           Before(Line(f), a, b) /\ {a, b} \subseteq ToSet(Line(g)')
           => Before(Line(g)', a, b)]_vars
  BY OrderStep
<1> QED BY <1>1, Invariance, PTL DEF Spec, OrderKept

-----------------------------------------------------------------------------
(* The once cell, a user of the futex, for every set Tasks of callers, finite or
   not: InitialisedOnce, which with the types and WrittenInv is inductive. *)

(* An untouched cell has no initialiser, no value and no waiters. *)
LEMMA CellInitIInv == CellInit => CellIInv
<1> SUFFICES ASSUME CellInit PROVE CellIInv
  OBVIOUS
<1>1. line \in Seq(Tasks) /\ <<>> \in Seq(Tasks)
  BY DEF CellInit
<1>2. CellTypeOK
  BY <1>1 DEF CellInit, CellTypeOK, CellSteps
<1>3. InitialisedOnce /\ WrittenInv
  BY DEF CellInit, InitialisedOnce, WrittenInv, Initialising
<1> QED BY <1>2, <1>3 DEF CellIInv

(* A call begins to look at the word. *)
LEMMA CellCallKeeps ==
  ASSUME NEW t \in Tasks, CellIInv, Call(t) PROVE CellIInv'
<1> USE DEF CellIInv, Call, CellGoto
<1>1. CellTypeOK'
  BY DEF CellTypeOK, CellSteps, Initialising
<1>2. InitialisedOnce'
  BY DEF InitialisedOnce, WrittenInv, CellTypeOK, Initialising
<1>3. WrittenInv'
  BY DEF WrittenInv, InitialisedOnce, CellTypeOK
<1> QED BY <1>1, <1>2, <1>3

(* An untouched cell has no initialiser and no waiters: this is the one. *)
LEMMA CellBeginKeeps ==
  ASSUME NEW t \in Tasks, CellIInv, Begin(t) PROVE CellIInv'
<1> USE DEF CellIInv, Begin, CellGoto
<1>1. CellTypeOK'
  BY DEF CellTypeOK, CellSteps, Initialising
<1>2. InitialisedOnce'
  BY DEF InitialisedOnce, WrittenInv, CellTypeOK, Initialising
<1>3. WrittenInv'
  BY DEF WrittenInv, InitialisedOnce, CellTypeOK
<1> QED BY <1>1, <1>2, <1>3

(* A waiter enters only behind an initialiser. *)
LEMMA CellAwaitKeeps ==
  ASSUME NEW t \in Tasks, CellIInv, Await(t) PROVE CellIInv'
<1> USE DEF CellIInv, Await, CellGoto
<1>1. CellTypeOK'
  BY AppendLinks DEF CellTypeOK, CellSteps, Initialising
<1>2. InitialisedOnce'
  BY DEF InitialisedOnce, WrittenInv, CellTypeOK, Initialising
<1>3. WrittenInv'
  BY DEF WrittenInv, InitialisedOnce, CellTypeOK
<1> QED BY <1>1, <1>2, <1>3

(* A word that reads CellInit has its value written. *)
LEMMA CellSeeKeeps ==
  ASSUME NEW t \in Tasks, CellIInv, See(t) PROVE CellIInv'
<1> USE DEF CellIInv, See, CellGoto
<1>1. CellTypeOK'
  BY DEF CellTypeOK, CellSteps, Initialising
<1>2. InitialisedOnce'
  BY DEF InitialisedOnce, WrittenInv, CellTypeOK, Initialising
<1>3. WrittenInv'
  BY DEF WrittenInv, InitialisedOnce, CellTypeOK
<1> QED BY <1>1, <1>2, <1>3

(* The woken caller looks again. *)
LEMMA CellResumeKeeps ==
  ASSUME NEW t \in Tasks, CellIInv, Resume(t) PROVE CellIInv'
<1> USE DEF CellIInv, Resume, CellGoto
<1>1. CellTypeOK'
  BY DEF CellTypeOK, CellSteps, Initialising
<1>2. InitialisedOnce'
  BY DEF InitialisedOnce, WrittenInv, CellTypeOK, Initialising
<1>3. WrittenInv'
  BY DEF WrittenInv, InitialisedOnce, CellTypeOK
<1> QED BY <1>1, <1>2, <1>3

(* A line that loses a waiter was not empty. *)
LEMMA CellCancelKeeps ==
  ASSUME NEW t \in Tasks, CellIInv, Cancel(t) PROVE CellIInv'
<1> USE DEF CellIInv, Cancel, CellGoto
<1>1. line' \in Seq(Tasks) /\ (line = <<>> => line' = <<>>)
  BY WithoutSeq DEF CellTypeOK
<1>2. CellTypeOK'
  BY <1>1 DEF CellTypeOK, CellSteps, Initialising
<1>3. InitialisedOnce'
  BY <1>1 DEF InitialisedOnce, WrittenInv, CellTypeOK, Initialising
<1>4. WrittenInv'
  BY DEF WrittenInv, InitialisedOnce, CellTypeOK
<1> QED BY <1>2, <1>3, <1>4

(* The value is written before it is published. *)
LEMMA CellCompleteKeeps ==
  ASSUME NEW t \in Tasks, CellIInv, Complete(t) PROVE CellIInv'
<1> USE DEF CellIInv, Complete, CellGoto
<1>1. CellTypeOK'
  BY DEF CellTypeOK, CellSteps, Initialising
<1>2. InitialisedOnce'
  BY DEF InitialisedOnce, WrittenInv, CellTypeOK, Initialising
<1>3. WrittenInv'
  BY DEF WrittenInv, InitialisedOnce, CellTypeOK
<1> QED BY <1>1, <1>2, <1>3

(* An initialiser that is dropped still counts as one. *)
LEMMA CellAbortKeeps ==
  ASSUME NEW t \in Tasks, CellIInv, Abort(t) PROVE CellIInv'
<1> USE DEF CellIInv, Abort, CellGoto
<1>1. CellTypeOK'
  BY DEF CellTypeOK, CellSteps, Initialising
<1>2. InitialisedOnce'
  BY DEF InitialisedOnce, WrittenInv, CellTypeOK, Initialising
<1>3. WrittenInv'
  BY DEF WrittenInv, InitialisedOnce, CellTypeOK
<1> QED BY <1>1, <1>2, <1>3

(* So does one that has begun to finish. *)
LEMMA CellReadLockKeeps ==
  ASSUME NEW t \in Tasks, CellIInv, ReadLock(t) PROVE CellIInv'
<1> USE DEF CellIInv, ReadLock, CellGoto
<1>1. CellTypeOK'
  BY DEF CellTypeOK, CellSteps, Initialising
<1>2. InitialisedOnce'
  BY DEF InitialisedOnce, WrittenInv, CellTypeOK, Initialising
<1>3. WrittenInv'
  BY DEF WrittenInv, InitialisedOnce, CellTypeOK
<1> QED BY <1>1, <1>2, <1>3

(* The one initialiser ends with the word, and empties the line. *)
LEMMA CellPublishKeeps ==
  ASSUME NEW t \in Tasks, CellIInv, Publish(t) PROVE CellIInv'
<1> USE DEF CellIInv, Publish, CellGoto
<1>1. CellTypeOK'
  BY DEF CellTypeOK, CellSteps, Initialising
<1>2. InitialisedOnce'
  BY DEF InitialisedOnce, WrittenInv, CellTypeOK, Initialising
<1>3. WrittenInv'
  BY DEF WrittenInv, InitialisedOnce, CellTypeOK
<1> QED BY <1>1, <1>2, <1>3

(* Waking changes neither the word nor the value. *)
LEMMA CellWakeKeeps ==
  ASSUME NEW t \in Tasks, CellIInv, Wake(t) PROVE CellIInv'
<1> USE DEF CellIInv, Wake, CellGoto
<1>1. Head(popped[t]) \in Tasks /\ Tail(popped[t]) \in Seq(Tasks)
  <2>1. popped[t] \in Seq(Tasks) /\ popped[t] # <<>>
    BY DEF CellTypeOK
  <2> QED BY <2>1
<1>2. CellTypeOK'
  BY <1>1 DEF CellTypeOK, CellSteps, Initialising
<1>3. InitialisedOnce'
  BY DEF InitialisedOnce, WrittenInv, CellTypeOK, Initialising
<1>4. WrittenInv'
  BY DEF WrittenInv, InitialisedOnce, CellTypeOK
<1> QED BY <1>2, <1>3, <1>4

(* Who returns the value published it. *)
LEMMA CellFinishKeeps ==
  ASSUME NEW t \in Tasks, CellIInv, Finish(t) PROVE CellIInv'
<1> USE DEF CellIInv, Finish, CellGoto
<1>1. CellTypeOK'
  BY DEF CellTypeOK, CellSteps, Initialising
<1>2. InitialisedOnce'
  BY DEF InitialisedOnce, WrittenInv, CellTypeOK, Initialising
<1>3. WrittenInv'
  BY DEF WrittenInv, InitialisedOnce, CellTypeOK
<1> QED BY <1>1, <1>2, <1>3

(* The caller is done. *)
LEMMA CellReturnKeeps ==
  ASSUME NEW t \in Tasks, CellIInv, Return(t) PROVE CellIInv'
<1> USE DEF CellIInv, Return, CellGoto
<1>1. CellTypeOK'
  BY DEF CellTypeOK, CellSteps, Initialising
<1>2. InitialisedOnce'
  BY DEF InitialisedOnce, WrittenInv, CellTypeOK, Initialising
<1>3. WrittenInv'
  BY DEF WrittenInv, InitialisedOnce, CellTypeOK
<1> QED BY <1>1, <1>2, <1>3

(* Together: every step of CellNext, and stuttering. *)
LEMMA CellNextIInv == CellIInv /\ [CellNext]_cellVars => CellIInv'
<1> SUFFICES ASSUME CellIInv, [CellNext]_cellVars PROVE CellIInv'
  OBVIOUS
<1>1. CASE UNCHANGED cellVars
  BY <1>1 DEF CellIInv, cellVars, CellTypeOK, InitialisedOnce, WrittenInv
<1>2. ASSUME NEW t \in Tasks, Call(t) \/ Step(t) \/ Cancel(t) PROVE CellIInv'
  BY <1>2, CellCallKeeps, CellBeginKeeps, CellAwaitKeeps, CellSeeKeeps, CellResumeKeeps,
     CellCancelKeeps, CellCompleteKeeps, CellAbortKeeps, CellReadLockKeeps, CellPublishKeeps,
     CellWakeKeeps, CellFinishKeeps, CellReturnKeeps DEF Step
<1> QED BY <1>1, <1>2 DEF CellNext

(* One initialiser at a time, a line only behind it, and the value is seen only
   once it is written, however many calls and initialisers are dropped. *)
THEOREM CellIsInitialisedOnce == CellSpec => []InitialisedOnce
<1>1. CellIInv => InitialisedOnce
  BY DEF CellIInv
<1> QED BY <1>1, CellInitIInv, CellNextIInv, PTL DEF CellSpec
=============================================================================
