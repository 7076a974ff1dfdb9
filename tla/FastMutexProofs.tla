--------------------------- MODULE FastMutexProofs --------------------------
(***************************************************************************)
(* What FastMutex guarantees for every finite set of tasks.  One inductive *)
(* invariant, IInv, is kept by each action (the lemmas ...Keeps).  The     *)
(* argument turns on the flag waking: while it is set one task is coming   *)
(* and no unlock enters the queues; a holder that goes to the queues found *)
(* it clear, and only a holder can set it.  Nor can a counted waiter leave *)
(* the line meanwhile, but by being dropped: SnapshotInv says so of the    *)
(* snapshot on which the assertion in unlock() rests.                      *)
(***************************************************************************)
EXTENDS FastMutex, FutexOpsProofs, FiniteSetTheorems

USE TasksFinite

(* The tasks that the word counts. *)
Counted == Waiting \union Dropped

LEMMA CountedFinite == IsFiniteSet(Counted)
BY FS_Subset DEF Counted, Waiting, Dropped

LEMMA InitIInv == Init => IInv
<1> SUFFICES ASSUME Init PROVE IInv
  OBVIOUS
<1> USE DEF Init
<1>1. TypeOK
  <2>1. inbox \in Seq(Tasks) /\ queue \in Seq(Tasks)
    OBVIOUS
  <2>2. pc \in [Tasks -> Steps] /\ popped \in [Tasks -> Tasks \union {Null}]
    BY DEF Steps
  <2>3. cur \in [Tasks -> Words]
    BY DEF Words, Blank
  <2> QED BY <2>1, <2>2, <2>3 DEF TypeOK
<1>2. MutualExclusion /\ NeverPanics
  BY DEF MutualExclusion, NeverPanics, Holding
<1>3. WaitersCounted
  BY FS_EmptySet DEF WaitersCounted, Waiting, Dropped
<1>4. FreeLockIsComing /\ QueueInv /\ SnapshotInv /\ HandleInv /\ PlaceInv
  BY DEF FreeLockIsComing, QueueInv, SnapshotInv, HandleInv, PlaceInv, Coming
<1>5. LineInv
  <2>1. line = <<>>
    BY DEF line
  <2> QED BY <2>1, EmptyLinks DEF LineInv
<1> QED BY <1>1, <1>2, <1>3, <1>4, <1>5 DEF IInv

(* What a load returns is a word. *)
LEMMA NowIsWord == TypeOK => Now \in Words
BY TopNull DEF TypeOK, Now, Words

(* Waiters are counted, none is in line and none is coming: one was dropped
   while it slept. *)
LEMMA CountedElsewhere ==
  ASSUME IInv, waiters > 0, ~waking, queue = <<>>, inbox = <<>>
  PROVE  \E u \in Tasks : pc[u] = "dropped_asleep"
<1>1. Counted # {}
  BY FS_EmptySet DEF IInv, WaitersCounted, Counted
<1>2. PICK u \in Tasks : u \in Counted
  BY <1>1 DEF Counted, Waiting, Dropped
<1>3. \A v \in Tasks : ~Coming(v)
  BY DEF IInv, FreeLockIsComing
<1>4. ToSet(line) = {}
  BY EmptyLinks DEF line
<1>5. pc[u] = "dropped_asleep"
  BY <1>2, <1>3, <1>4 DEF IInv, Counted, Waiting, Dropped, Coming, PlaceInv
<1> QED BY <1>5

(* A free lock has no holder, so the CAS makes the one holder. *)
LEMMA AcquireKeeps ==
  ASSUME NEW t \in Tasks, IInv, Acquire(t) PROVE IInv'
<1> USE DEF IInv, Acquire, Goto, atom
<1>0. line' = line
  BY DEF line
<1>1. TypeOK'
  BY DEF TypeOK, Steps
<1>2. MutualExclusion'
  BY DEF MutualExclusion, Holding, TypeOK
<1>3. NeverPanics'
  BY DEF NeverPanics, QueueInv, MutualExclusion, HandleInv, Holding, TypeOK
<1>4. WaitersCounted'
  <2>1. Counted' = Counted
    BY DEF Counted, Waiting, Dropped, TypeOK
  <2> QED BY <2>1 DEF WaitersCounted, Counted
<1>5. FreeLockIsComing'
  BY <1>0 DEF FreeLockIsComing, MutualExclusion, QueueInv, LineInv, HandleInv, Holding, Coming, TypeOK
<1>6. QueueInv'
  BY <1>0 DEF QueueInv, MutualExclusion, FreeLockIsComing, Coming, Holding, TypeOK
<1>7. LineInv'
  BY <1>0 DEF LineInv, HandleInv, TypeOK
<1>8. HandleInv'
  BY <1>0 DEF HandleInv, LineInv, FreeLockIsComing, Coming, TypeOK
<1>9. PlaceInv'
  BY <1>0 DEF PlaceInv, FreeLockIsComing, Coming, TypeOK
<1>10. SnapshotInv'
  BY DEF SnapshotInv, MutualExclusion, Holding, TypeOK
<1> QED BY <1>1, <1>2, <1>3, <1>4, <1>5, <1>6, <1>7, <1>8, <1>9, <1>10

(* One more task sleeps, at the end of the line, and is counted. *)
LEMMA EnterKeeps ==
  ASSUME NEW t \in Tasks, IInv, Enter(t) PROVE IInv'
<1> USE DEF IInv, Enter, Goto, atom
<1>1. t \notin ToSet(line)
  BY DEF LineInv
<1>2. /\ inbox' \in Seq(Tasks)
      /\ ToSet(line') = ToSet(line) \union {t}
      /\ NoRepeats(line')
  <2>1. line \in Seq(Tasks) /\ line' = Append(line, t)
    BY AppendLine DEF line, TypeOK
  <2> QED BY <1>1, <2>1, AppendLinks DEF LineInv, TypeOK
<1>3. TypeOK'
  BY <1>2 DEF TypeOK, Steps
<1>4. MutualExclusion'
  BY DEF MutualExclusion, Holding, TypeOK
<1>5. NeverPanics'
  BY DEF NeverPanics, QueueInv, MutualExclusion, HandleInv, Holding, TypeOK
<1>6. WaitersCounted'
  <2>1. Counted' = Counted \union {t} /\ t \notin Counted
    BY DEF Counted, Waiting, Dropped, TypeOK
  <2>2. Cardinality(Counted') = Cardinality(Counted) + 1
    BY <2>1, CountedFinite, FS_AddElement
  <2> QED BY <2>2 DEF WaitersCounted, Counted
<1>7. FreeLockIsComing'
  BY <1>2 DEF FreeLockIsComing, MutualExclusion, QueueInv, LineInv, HandleInv, Holding, Coming, TypeOK
<1>8. QueueInv'
  BY <1>2 DEF QueueInv, MutualExclusion, FreeLockIsComing, Coming, Holding, TypeOK
<1>9. LineInv'
  BY <1>2 DEF LineInv, HandleInv, TypeOK
<1>10. HandleInv'
  BY <1>2 DEF HandleInv, LineInv, FreeLockIsComing, Coming, TypeOK
<1>11. PlaceInv'
  BY <1>2 DEF PlaceInv, FreeLockIsComing, Coming, TypeOK
<1>12. SnapshotInv'
  BY DEF SnapshotInv, TypeOK
<1> QED BY <1>3, <1>4, <1>5, <1>6, <1>7, <1>8, <1>9, <1>10, <1>11, <1>12

(* The woken task remains the one that is coming. *)
LEMMA ResumeKeeps ==
  ASSUME NEW t \in Tasks, IInv, Resume(t) PROVE IInv'
<1> USE DEF IInv, Resume, Goto, atom
<1>0. line' = line
  BY DEF line
<1>1. TypeOK'
  BY DEF TypeOK, Steps
<1>2. MutualExclusion'
  BY DEF MutualExclusion, Holding, TypeOK
<1>3. NeverPanics'
  BY DEF NeverPanics, QueueInv, MutualExclusion, HandleInv, Holding, TypeOK
<1>4. WaitersCounted'
  <2>1. Counted' = Counted
    BY DEF Counted, Waiting, Dropped, TypeOK
  <2> QED BY <2>1 DEF WaitersCounted, Counted
<1>5. FreeLockIsComing'
  BY <1>0 DEF FreeLockIsComing, MutualExclusion, QueueInv, LineInv, HandleInv, Holding, Coming, TypeOK
<1>6. QueueInv'
  BY <1>0 DEF QueueInv, MutualExclusion, FreeLockIsComing, Coming, Holding, TypeOK
<1>7. LineInv'
  BY <1>0 DEF LineInv, HandleInv, TypeOK
<1>8. HandleInv'
  BY <1>0 DEF HandleInv, LineInv, FreeLockIsComing, Coming, TypeOK
<1>9. PlaceInv'
  BY <1>0 DEF PlaceInv, FreeLockIsComing, Coming, TypeOK
<1>10. SnapshotInv'
  BY DEF SnapshotInv, TypeOK
<1> QED BY <1>1, <1>2, <1>3, <1>4, <1>5, <1>6, <1>7, <1>8, <1>9, <1>10

(* The one task that was coming takes the lock and clears waking. *)
LEMMA ReacquireKeeps ==
  ASSUME NEW t \in Tasks, IInv, Reacquire(t) PROVE IInv'
<1> USE DEF IInv, Reacquire, Goto, atom
<1>0. line' = line
  BY DEF line
<1>1. Counted' = Counted \ {t} /\ t \in Counted
  BY DEF Counted, Waiting, Dropped, TypeOK
<1>2. Cardinality(Counted') = waiters' /\ waiters' \in Nat
  <2>1. /\ IsFiniteSet(Counted')
        /\ Cardinality(Counted') = Cardinality(Counted) - 1
    BY <1>1, CountedFinite, FS_RemoveElement
  <2>2. Cardinality(Counted') \in Nat
    BY <2>1, FS_CardinalityType
  <2> QED BY <2>1, <2>2 DEF WaitersCounted, Counted
<1>3. TypeOK' /\ WaitersCounted'
  BY <1>2 DEF TypeOK, Steps, WaitersCounted, Counted
<1>4. MutualExclusion'
  BY DEF MutualExclusion, Holding, TypeOK
<1>5. NeverPanics'
  BY DEF NeverPanics, QueueInv, MutualExclusion, HandleInv, Holding, TypeOK
<1>6. FreeLockIsComing'
  BY <1>0 DEF FreeLockIsComing, MutualExclusion, QueueInv, LineInv, HandleInv, Holding, Coming, TypeOK
<1>7. QueueInv'
  BY <1>0 DEF QueueInv, MutualExclusion, FreeLockIsComing, Coming, Holding, TypeOK
<1>8. LineInv'
  BY <1>0 DEF LineInv, HandleInv, TypeOK
<1>9. HandleInv'
  BY <1>0 DEF HandleInv, LineInv, FreeLockIsComing, Coming, TypeOK
<1>10. PlaceInv'
  BY <1>0 DEF PlaceInv, FreeLockIsComing, Coming, TypeOK
<1>11. SnapshotInv'
  BY DEF SnapshotInv, MutualExclusion, Holding, TypeOK
<1> QED BY <1>3, <1>4, <1>5, <1>6, <1>7, <1>8, <1>9, <1>10, <1>11

(* It finds the lock taken: it sleeps again, and nobody is coming. *)
LEMMA ReenterKeeps ==
  ASSUME NEW t \in Tasks, IInv, Reenter(t) PROVE IInv'
<1> USE DEF IInv, Reenter, Goto, atom
<1>1. t \notin ToSet(line)
  BY DEF LineInv
<1>2. /\ inbox' \in Seq(Tasks)
      /\ ToSet(line') = ToSet(line) \union {t}
      /\ NoRepeats(line')
  <2>1. line \in Seq(Tasks) /\ line' = Append(line, t)
    BY AppendLine DEF line, TypeOK
  <2> QED BY <1>1, <2>1, AppendLinks DEF LineInv, TypeOK
<1>3. TypeOK'
  BY <1>2 DEF TypeOK, Steps
<1>4. MutualExclusion'
  BY DEF MutualExclusion, Holding, TypeOK
<1>5. NeverPanics'
  BY DEF NeverPanics, QueueInv, MutualExclusion, HandleInv, Holding, TypeOK
<1>6. WaitersCounted'
  <2>1. Counted' = Counted
    BY DEF Counted, Waiting, Dropped, TypeOK
  <2> QED BY <2>1 DEF WaitersCounted, Counted
<1>7. FreeLockIsComing'
  BY <1>2 DEF FreeLockIsComing, MutualExclusion, QueueInv, LineInv, HandleInv, Holding, Coming, TypeOK
<1>8. QueueInv'
  BY <1>2 DEF QueueInv, MutualExclusion, FreeLockIsComing, Coming, Holding, TypeOK
<1>9. LineInv'
  BY <1>2 DEF LineInv, HandleInv, TypeOK
<1>10. HandleInv'
  BY <1>2 DEF HandleInv, LineInv, FreeLockIsComing, Coming, TypeOK
<1>11. PlaceInv'
  BY <1>2 DEF PlaceInv, FreeLockIsComing, Coming, TypeOK
<1>12. SnapshotInv'
  BY DEF SnapshotInv, TypeOK
<1> QED BY <1>3, <1>4, <1>5, <1>6, <1>7, <1>8, <1>9, <1>10, <1>11, <1>12

(* The waiter leaves the line if it is there, and stays counted. *)
LEMMA DropKeeps ==
  ASSUME NEW t \in Tasks, IInv, Drop(t) PROVE IInv'
<1> USE DEF IInv, Drop, Goto, atom
<1>1. \A u \in Tasks : pc[u] # "waking"
  OBVIOUS
<1>2. /\ inbox' \in Seq(Tasks) /\ queue' \in Seq(Tasks)
      /\ ToSet(line') = ToSet(line) \ {t}
      /\ NoRepeats(line')
  <2>1. line \in Seq(Tasks)
    BY DEF line, TypeOK
  <2>2. Without(line, t) \in Seq(Tasks)
    BY <2>1, WithoutSeq
  <2>3. line' = Without(line, t)
    BY <2>2 DEF line
  <2> QED BY <2>1, <2>2, <2>3, WithoutLinks DEF LineInv
<1>3. TypeOK'
  BY <1>1, <1>2 DEF TypeOK, Steps
<1>4. MutualExclusion'
  BY DEF MutualExclusion, Holding, TypeOK
<1>5. NeverPanics'
  BY DEF NeverPanics, QueueInv, MutualExclusion, HandleInv, Holding, TypeOK
<1>6. WaitersCounted'
  <2>1. Counted' = Counted
    BY DEF Counted, Waiting, Dropped, TypeOK
  <2> QED BY <2>1 DEF WaitersCounted, Counted
<1>7. FreeLockIsComing'
  BY <1>1, <1>2 DEF FreeLockIsComing, MutualExclusion, QueueInv, LineInv, HandleInv, Holding, Coming, TypeOK
<1>8. QueueInv'
  BY <1>1, <1>2 DEF QueueInv, MutualExclusion, FreeLockIsComing, Coming, Holding, TypeOK
<1>9. LineInv'
  BY <1>1, <1>2 DEF LineInv, HandleInv, TypeOK
<1>10. HandleInv'
  BY <1>1, <1>2 DEF HandleInv, LineInv, FreeLockIsComing, Coming, TypeOK
<1>11. PlaceInv'
  BY <1>1, <1>2 DEF PlaceInv, FreeLockIsComing, Coming, TypeOK
<1>12. SnapshotInv'
  <2>1. ASSUME NEW u \in Tasks, pc'[u] \in {"releasing", "notifying"}
        PROVE  pc'[t] = "dropped_asleep"
    BY <2>1 DEF QueueInv, FreeLockIsComing, Coming, TypeOK
  <2> QED BY <2>1 DEF SnapshotInv, TypeOK
<1> QED BY <1>3, <1>4, <1>5, <1>6, <1>7, <1>8, <1>9, <1>10, <1>11, <1>12

(* Nobody waits, or somebody is coming already. *)
LEMMA UnlockKeeps ==
  ASSUME NEW t \in Tasks, IInv, Unlock(t) PROVE IInv'
<1> USE DEF IInv, Unlock, Goto, atom
<1>0. line' = line
  BY DEF line
<1>1. TypeOK'
  BY DEF TypeOK, Steps
<1>2. MutualExclusion'
  BY DEF MutualExclusion, Holding, TypeOK
<1>3. NeverPanics'
  BY DEF NeverPanics, QueueInv, MutualExclusion, HandleInv, Holding, TypeOK
<1>4. WaitersCounted'
  <2>1. Counted' = Counted
    BY DEF Counted, Waiting, Dropped, TypeOK
  <2> QED BY <2>1 DEF WaitersCounted, Counted
<1>5. FreeLockIsComing'
  BY <1>0 DEF FreeLockIsComing, MutualExclusion, QueueInv, LineInv, HandleInv, Holding, Coming, TypeOK
<1>6. QueueInv'
  BY <1>0 DEF QueueInv, MutualExclusion, FreeLockIsComing, Coming, Holding, TypeOK
<1>7. LineInv'
  BY <1>0 DEF LineInv, HandleInv, TypeOK
<1>8. HandleInv'
  BY <1>0 DEF HandleInv, LineInv, FreeLockIsComing, Coming, TypeOK
<1>9. PlaceInv'
  BY <1>0 DEF PlaceInv, FreeLockIsComing, Coming, TypeOK
<1>10. SnapshotInv'
  BY DEF SnapshotInv, TypeOK
<1> QED BY <1>1, <1>2, <1>3, <1>4, <1>5, <1>6, <1>7, <1>8, <1>9, <1>10

(* The holder keeps the lock, and nobody is coming. *)
LEMMA UnlockSlowlyKeeps ==
  ASSUME NEW t \in Tasks, IInv, UnlockSlowly(t) PROVE IInv'
<1> USE DEF IInv, UnlockSlowly, Goto, Load, atom
<1>0. line' = line
  BY DEF line
<1>1. TypeOK'
  BY NowIsWord DEF TypeOK, Steps
<1>2. MutualExclusion'
  BY DEF MutualExclusion, Holding, TypeOK
<1>3. NeverPanics'
  BY DEF NeverPanics, QueueInv, MutualExclusion, HandleInv, Holding, TypeOK
<1>4. WaitersCounted'
  <2>1. Counted' = Counted
    BY DEF Counted, Waiting, Dropped, TypeOK
  <2> QED BY <2>1 DEF WaitersCounted, Counted
<1>5. FreeLockIsComing'
  BY <1>0 DEF FreeLockIsComing, MutualExclusion, QueueInv, LineInv, HandleInv, Holding, Coming, TypeOK
<1>6. QueueInv'
  BY <1>0 DEF QueueInv, MutualExclusion, FreeLockIsComing, Coming, Holding, TypeOK
<1>7. LineInv'
  BY <1>0 DEF LineInv, HandleInv, TypeOK
<1>8. HandleInv'
  BY <1>0 DEF HandleInv, LineInv, FreeLockIsComing, Coming, TypeOK
<1>9. PlaceInv'
  BY <1>0 DEF PlaceInv, FreeLockIsComing, Coming, TypeOK
<1>10. SnapshotInv'
  <2>1. Top(inbox) = Null /\ queue = <<>> => \E u \in Tasks : pc[u] = "dropped_asleep"
    BY TopNull, CountedElsewhere DEF TypeOK
  <2> QED BY <2>1 DEF SnapshotInv, Now, TypeOK
<1> QED BY <1>1, <1>2, <1>3, <1>4, <1>5, <1>6, <1>7, <1>8, <1>9, <1>10

(* The queues are free: only a holder notifies, and nobody pops while waking is clear. *)
LEMMA BorrowKeeps ==
  ASSUME NEW t \in Tasks, IInv, Borrow(t) PROVE IInv'
<1> USE DEF IInv, Borrow, Goto, atom
<1>0. line' = line
  BY DEF line
<1>1. ~borrowed
  BY DEF QueueInv, FreeLockIsComing, Coming, MutualExclusion, Holding
<1>2. TypeOK'
  BY <1>1 DEF TypeOK, Steps
<1>3. MutualExclusion'
  BY <1>1 DEF MutualExclusion, Holding, TypeOK
<1>4. NeverPanics'
  BY <1>1 DEF NeverPanics, QueueInv, MutualExclusion, HandleInv, Holding, TypeOK
<1>5. WaitersCounted'
  <2>1. Counted' = Counted
    BY <1>1 DEF Counted, Waiting, Dropped, TypeOK
  <2> QED BY <2>1 DEF WaitersCounted, Counted
<1>6. FreeLockIsComing'
  BY <1>0, <1>1 DEF FreeLockIsComing, MutualExclusion, QueueInv, LineInv, HandleInv, Holding, Coming, TypeOK
<1>7. QueueInv'
  BY <1>0, <1>1 DEF QueueInv, MutualExclusion, FreeLockIsComing, Coming, Holding, TypeOK
<1>8. LineInv'
  BY <1>0, <1>1 DEF LineInv, HandleInv, TypeOK
<1>9. HandleInv'
  BY <1>0, <1>1 DEF HandleInv, LineInv, FreeLockIsComing, Coming, TypeOK
<1>10. PlaceInv'
  BY <1>0, <1>1 DEF PlaceInv, FreeLockIsComing, Coming, TypeOK
<1>11. SnapshotInv'
  BY DEF SnapshotInv, TypeOK
<1> QED BY <1>2, <1>3, <1>4, <1>5, <1>6, <1>7, <1>8, <1>9, <1>10, <1>11

(* The lock is let go; if anybody is in line, this task is about to wake one. *)
LEMMA ReleaseKeeps ==
  ASSUME NEW t \in Tasks, IInv, Release(t) PROVE IInv'
<1> USE DEF IInv, Release, Goto, Forget, atom
<1>0. line' = line
  BY DEF line, TypeOK
<1>1. /\ AssertHolds(t) /\ cur[t] = Now /\ ~waking
      /\ Found(t) <=> queue' # <<>>
      /\ waiters > 0 => Found(t)
  BY TopNull DEF AssertHolds, Found, Now, QueueInv, TypeOK
<1>2. TypeOK'
  BY DEF TypeOK, Steps, Words, Blank, Found
<1>3. MutualExclusion'
  BY DEF MutualExclusion, Holding, TypeOK
<1>4. NeverPanics'
  BY <1>1 DEF NeverPanics, QueueInv, MutualExclusion, HandleInv, Holding, TypeOK
<1>5. WaitersCounted'
  <2>1. Counted' = Counted
    BY DEF Counted, Waiting, Dropped, TypeOK
  <2> QED BY <2>1 DEF WaitersCounted, Counted
<1>6. FreeLockIsComing'
  BY <1>0, <1>1 DEF FreeLockIsComing, MutualExclusion, QueueInv, LineInv, HandleInv, Holding, Coming, TypeOK
<1>7. QueueInv'
  BY <1>0, <1>1 DEF QueueInv, MutualExclusion, FreeLockIsComing, Coming, Holding, TypeOK
<1>8. LineInv'
  BY <1>0 DEF LineInv, HandleInv, TypeOK
<1>9. HandleInv'
  BY <1>0 DEF HandleInv, LineInv, FreeLockIsComing, Coming, TypeOK
<1>10. PlaceInv'
  BY <1>0 DEF PlaceInv, FreeLockIsComing, Coming, TypeOK
<1>11. SnapshotInv'
  BY DEF SnapshotInv, MutualExclusion, Holding, TypeOK
<1> QED BY <1>2, <1>3, <1>4, <1>5, <1>6, <1>7, <1>8, <1>9, <1>10, <1>11

(* The new snapshot counts waiters as the old one did. *)
LEMMA ReloadKeeps ==
  ASSUME NEW t \in Tasks, IInv, Reload(t) PROVE IInv'
<1> USE DEF IInv, Reload, Load, atom
<1>1. line' = line
  BY DEF line
<1>2. TypeOK'
  BY NowIsWord DEF TypeOK
<1>3. SnapshotInv'
  <2>1. ~waking /\ waiters > 0
    BY DEF SnapshotInv, QueueInv
  <2>2. Top(inbox) = Null /\ queue = <<>> => \E u \in Tasks : pc[u] = "dropped_asleep"
    BY <2>1, TopNull, CountedElsewhere DEF TypeOK
  <2> QED BY <2>1, <2>2 DEF SnapshotInv, Now, TypeOK
<1>4. MutualExclusion' /\ NeverPanics' /\ WaitersCounted' /\ FreeLockIsComing'
  BY DEF MutualExclusion, NeverPanics, WaitersCounted, FreeLockIsComing, Holding, Waiting, Dropped, Coming
<1>5. QueueInv' /\ LineInv' /\ HandleInv' /\ PlaceInv'
  BY <1>1 DEF QueueInv, LineInv, HandleInv, PlaceInv
<1> QED BY <1>2, <1>3, <1>4, <1>5

(* Counted by the snapshot but not to be found: a waiter was dropped while it
   slept, before the load or after it. *)
LEMMA ReleaseFailsKeeps ==
  ASSUME NEW t \in Tasks, IInv, ReleaseFails(t) PROVE IInv'
<1> USE DEF IInv, ReleaseFails, Goto, Forget, atom
<1>0. line' = line
  BY DEF line
<1>1. TypeOK'
  BY DEF TypeOK, Steps, Words, Blank
<1>2. MutualExclusion'
  BY DEF MutualExclusion, Holding, TypeOK
<1>3. NeverPanics'
  BY DEF NeverPanics, SnapshotInv, AssertHolds, Found, QueueInv, MutualExclusion, HandleInv, Holding, TypeOK
<1>4. WaitersCounted'
  <2>1. Counted' = Counted
    BY DEF Counted, Waiting, Dropped, TypeOK
  <2> QED BY <2>1 DEF WaitersCounted, Counted
<1>5. FreeLockIsComing'
  BY <1>0 DEF FreeLockIsComing, MutualExclusion, QueueInv, LineInv, HandleInv, Holding, Coming, TypeOK
<1>6. QueueInv'
  BY <1>0 DEF QueueInv, MutualExclusion, FreeLockIsComing, Coming, Holding, TypeOK
<1>7. LineInv'
  BY <1>0 DEF LineInv, HandleInv, TypeOK
<1>8. HandleInv'
  BY <1>0 DEF HandleInv, LineInv, FreeLockIsComing, Coming, TypeOK
<1>9. PlaceInv'
  BY <1>0 DEF PlaceInv, FreeLockIsComing, Coming, TypeOK
<1>10. SnapshotInv'
  BY DEF SnapshotInv, TypeOK
<1> QED BY <1>1, <1>2, <1>3, <1>4, <1>5, <1>6, <1>7, <1>8, <1>9, <1>10

(* The head of the line is now in the hands of the task that wakes it. *)
LEMMA PopKeeps ==
  ASSUME NEW t \in Tasks, IInv, Pop(t) PROVE IInv'
<1> USE DEF IInv, Pop, Goto, atom
<1>1. queue # <<>>
  BY DEF QueueInv
<1>2. /\ queue' \in Seq(Tasks) /\ Head(queue) = Head(line)
      /\ Head(line) \in Tasks /\ Head(line) \in ToSet(line)
      /\ ToSet(line') = ToSet(line) \ {Head(line)}
      /\ NoRepeats(line')
  <2>1. /\ line # <<>> /\ line \in Seq(Tasks)
        /\ Head(line) = Head(queue) /\ line' = Tail(line)
    BY <1>1, TailLine DEF line, TypeOK
  <2> QED BY <1>1, <2>1, TailLinks DEF LineInv, TypeOK
<1>3. TypeOK'
  BY <1>2 DEF TypeOK, Steps
<1>4. MutualExclusion'
  BY DEF MutualExclusion, Holding, TypeOK
<1>5. NeverPanics'
  BY DEF NeverPanics, QueueInv, MutualExclusion, HandleInv, Holding, TypeOK
<1>6. WaitersCounted'
  <2>1. Counted' = Counted
    BY DEF Counted, Waiting, Dropped, TypeOK
  <2> QED BY <2>1 DEF WaitersCounted, Counted
<1>7. FreeLockIsComing'
  BY <1>2 DEF FreeLockIsComing, MutualExclusion, QueueInv, LineInv, HandleInv, Holding, Coming, TypeOK
<1>8. QueueInv'
  BY <1>2 DEF QueueInv, MutualExclusion, FreeLockIsComing, Coming, Holding, TypeOK
<1>9. LineInv'
  BY <1>2 DEF LineInv, HandleInv, TypeOK
<1>10. HandleInv'
  BY <1>2 DEF HandleInv, LineInv, FreeLockIsComing, Coming, TypeOK
<1>11. PlaceInv'
  BY <1>2 DEF PlaceInv, FreeLockIsComing, Coming, TypeOK
<1>12. SnapshotInv'
  BY DEF SnapshotInv, QueueInv, FreeLockIsComing, Coming, TypeOK
<1> QED BY <1>3, <1>4, <1>5, <1>6, <1>7, <1>8, <1>9, <1>10, <1>11, <1>12

(* The popped waiter sleeps, and is the one that is coming from now on. *)
LEMMA WakeKeeps ==
  ASSUME NEW t \in Tasks, IInv, Wake(t) PROVE IInv'
<1> USE DEF IInv, Wake, Goto, atom
<1>0. line' = line
  BY DEF line
<1>1. TypeOK'
  BY DEF TypeOK, Steps, HandleInv
<1>2. MutualExclusion'
  BY DEF MutualExclusion, Holding, TypeOK
<1>3. NeverPanics'
  BY DEF NeverPanics, QueueInv, MutualExclusion, HandleInv, Holding, TypeOK
<1>4. WaitersCounted'
  <2>1. Counted' = Counted
    BY DEF Counted, Waiting, Dropped, TypeOK
  <2> QED BY <2>1 DEF WaitersCounted, Counted
<1>5. FreeLockIsComing'
  BY <1>0 DEF FreeLockIsComing, MutualExclusion, QueueInv, LineInv, HandleInv, Holding, Coming, TypeOK
<1>6. QueueInv'
  BY <1>0 DEF QueueInv, MutualExclusion, FreeLockIsComing, Coming, Holding, TypeOK
<1>7. LineInv'
  BY <1>0 DEF LineInv, HandleInv, TypeOK
<1>8. HandleInv'
  BY <1>0 DEF HandleInv, LineInv, FreeLockIsComing, Coming, TypeOK
<1>9. PlaceInv'
  BY <1>0 DEF PlaceInv, FreeLockIsComing, Coming, TypeOK
<1>10. SnapshotInv'
  BY DEF SnapshotInv, TypeOK
<1> QED BY <1>1, <1>2, <1>3, <1>4, <1>5, <1>6, <1>7, <1>8, <1>9, <1>10

(* Together: every step of Next, and stuttering. *)
LEMMA NextIInv == IInv /\ [Next]_vars => IInv'
<1> SUFFICES ASSUME IInv, [Next]_vars PROVE IInv'
  OBVIOUS
<1>1. CASE UNCHANGED vars
  BY <1>1 DEF IInv, vars, TypeOK, MutualExclusion, NeverPanics, WaitersCounted, FreeLockIsComing,
     QueueInv, SnapshotInv, LineInv, HandleInv, PlaceInv, Holding, Waiting, Dropped, Coming, line
<1>2. ASSUME NEW t \in Tasks, Acquire(t) \/ Enter(t) \/ LockStep(t) \/ Reacquire(t) \/ Drop(t) PROVE IInv'
  BY <1>2, AcquireKeeps, EnterKeeps, ResumeKeeps, ReenterKeeps, ReacquireKeeps, DropKeeps DEF LockStep
<1>3. ASSUME NEW t \in Tasks, Unlock(t) \/ UnlockStep(t) PROVE IInv'
  BY <1>3, UnlockKeeps, UnlockSlowlyKeeps, BorrowKeeps, ReleaseKeeps, ReloadKeeps, ReleaseFailsKeeps, PopKeeps, WakeKeeps
     DEF UnlockStep
<1> QED BY <1>1, <1>2, <1>3 DEF Next

(* Every reachable state satisfies the inductive invariant. *)
THEOREM Invariance == Spec => []IInv
<1> QED BY InitIInv, NextIInv, PTL DEF Spec

(* lock() returns to one task at a time, whatever futures were dropped. *)
THEOREM LockExcludes == Spec => []MutualExclusion
<1>1. IInv => MutualExclusion
  BY DEF IInv
<1> QED BY <1>1, Invariance, PTL

(* unlock() is a single notifier, wakes only waiters that sleep, and its
   assertion fails only after a sleeping lock future was dropped. *)
THEOREM UnlockNeverPanics == Spec => []NeverPanics
<1>1. IInv => NeverPanics
  BY DEF IInv
<1> QED BY <1>1, Invariance, PTL

(* The waiters field counts the tasks that wait and those dropped waiting. *)
THEOREM CountIsTrue == Spec => []WaitersCounted
<1>1. IInv => WaitersCounted
  BY DEF IInv
<1> QED BY <1>1, Invariance, PTL

(* A free lock with waiters has exactly one task on its way to take it. *)
THEOREM FreeLockIsTaken == Spec => []FreeLockIsComing
<1>1. IInv => FreeLockIsComing
  BY DEF IInv
<1> QED BY <1>1, Invariance, PTL
=============================================================================
