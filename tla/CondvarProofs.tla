---------------------------- MODULE CondvarProofs ---------------------------
(***************************************************************************)
(* What the condition variable guarantees for any finite set of tasks.     *)
(* The inductive invariant IInv says which list a task is in by the step   *)
(* it is at; each action keeps it (the lemmas ...Keeps), and WaiterKept    *)
(* follows.                                                                *)
(***************************************************************************)
EXTENDS Condvar, FutexOpsProofs, FiniteSetTheorems

USE TasksFinite

-----------------------------------------------------------------------------
(* The lists hold tasks. *)
LEMMA Members ==
  ASSUME TypeOK
  PROVE  /\ ToSet(cline) \subseteq Tasks /\ ToSet(line) \subseteq Tasks
         /\ \A u \in Tasks : ToSet(list[u]) \subseteq Tasks
BY ToSetMembers DEF TypeOK

(* A task that owns the mutex, or is outside of lock() and wait(), is in no
   list. *)
LEMMA InNoList ==
  ASSUME TypeOK, ListInv, PlaceInv, NEW t \in Tasks, pc[t] # "parting",
         owner = t \/ pc[t] \notin {"locking", "waiting"}
  PROVE  t \notin ToSet(cline) /\ t \notin ToSet(line) /\ \A u \in Tasks : t \notin ToSet(list[u])
BY DEF PlaceInv

(* Only the owner holds the mutex, so a notifier is alone with its list. *)
LEMMA HolderAlone ==
  ASSUME OwnerInv, NEW t \in Tasks, owner = t
  PROVE  \A u \in Tasks : u # t => pc[u] \notin Holding
BY DEF OwnerInv

(* Unlocking gives the mutex to the first in line, which leaves the line. *)
LEMMA UnlockedEffect ==
  ASSUME IInv, Unlocked
  PROVE  /\ line' \in Seq(Tasks) /\ NoRepeats(line')
         /\ owner' \in Tasks \union {Null}
         /\ ToSet(line') = ToSet(line) \ {owner'}
         /\ owner' \in Tasks => owner' \in ToSet(line)
         /\ owner' = Null => line' = <<>>
<1>1. line \in Seq(Tasks) /\ NoRepeats(line)
  BY DEF IInv, TypeOK, ListInv
<1>2. CASE Mutex!HandOff
  BY ONLY <1>1, <1>2, TailLinks, TasksFinite DEF Mutex!HandOff
<1>3. CASE Mutex!Release
  BY <1>1, <1>3, EmptyLinks DEF Mutex!Release
<1> QED BY <1>2, <1>3 DEF Unlocked

(* The owner t lets the mutex go and goes on to the step given. *)
LEMMA LetsGo ==
  ASSUME IInv, NEW t \in Tasks, owner = t, Unlocked,
         NEW step, Goto(t, step), UNCHANGED <<bound, cline, list>>,
         \/ step = "idle" /\ pc[t] \in {"holding", "locking", "waiting"}
         \/ step = "waiting" /\ pc[t] = "parting"
  PROVE  IInv'
<1> USE DEF IInv
<1>1. /\ line' \in Seq(Tasks) /\ NoRepeats(line')
      /\ owner' \in Tasks \union {Null}
      /\ ToSet(line') = ToSet(line) \ {owner'}
      /\ owner' \in Tasks => owner' \in ToSet(line)
      /\ owner' = Null => line' = <<>>
  BY UnlockedEffect
<1>2. /\ \A v \in Tasks : pc'[v] = IF v = t THEN step ELSE pc[v]
      /\ step \in Steps /\ pc' \in [Tasks -> Steps]
  BY DEF TypeOK, Goto, Steps
<1>3. /\ owner' # t
      /\ owner' \in Tasks => /\ pc[owner'] \in {"locking", "waiting"}
                             /\ owner' \notin ToSet(cline)
                             /\ \A u \in Tasks : owner' \notin ToSet(list[u])
  BY <1>1 DEF PlaceInv, ListInv
<1>4. \A u \in Tasks : u # t => pc[u] \notin Holding
  BY HolderAlone
<1> HIDE DEF Unlocked, Goto
<1>5. TypeOK'
  BY <1>1, <1>2 DEF TypeOK
<1>6. OwnerInv'
  BY <1>1, <1>2, <1>3, <1>4 DEF OwnerInv, Holding
<1>7. ListInv'
  <2>1. \A u \in Tasks : list[u] = <<>>
    BY <1>4 DEF ListInv, Holding
  <2> QED BY <1>1, <2>1, EmptyLinks DEF ListInv
<1>8. PlaceInv'
  <2> USE Members
  <2>1. \A v \in ToSet(cline) : pc'[v] = "parting" \/ (pc'[v] = "waiting" /\ owner' # v)
    BY <1>2, <1>3 DEF PlaceInv
  <2>2. \A v \in ToSet(line') : pc'[v] \in {"locking", "waiting"} /\ owner' # v
    BY <1>1, <1>2 DEF PlaceInv
  <2>3. \A u \in Tasks : \A v \in ToSet(list[u]) : pc'[v] = "waiting" /\ owner' # v
    BY <1>2, <1>3 DEF PlaceInv
  <2>4. \A v \in Tasks : pc'[v] = "parting" => v \in ToSet(cline)
    BY <1>2 DEF PlaceInv
  <2>5. \A v \in Tasks : pc'[v] = "waiting" =>
          \/ owner' = v \/ v \in ToSet(cline) \/ v \in ToSet(line')
          \/ \E u \in Tasks : v \in ToSet(list[u])
    BY <1>1, <1>2 DEF PlaceInv
  <2> QED BY <2>1, <2>2, <2>3, <2>4, <2>5 DEF PlaceInv
<1> QED BY <1>5, <1>6, <1>7, <1>8

-----------------------------------------------------------------------------
(* The mutex. *)

LEMMA TakeKeeps ==
  ASSUME NEW t \in Tasks, IInv, Take(t) PROVE IInv'
<1> USE DEF IInv
<1>1. pc[t] = "idle" /\ owner = Null /\ line = <<>>
  BY DEF Take, Mutex!Take
<1>2. /\ owner' = t
      /\ \A v \in Tasks : pc'[v] = IF v = t THEN "holding" ELSE pc[v]
      /\ pc' \in [Tasks -> Steps]
      /\ UNCHANGED <<line, bound, cline, list>>
  BY DEF Take, Mutex!Take, Goto, TypeOK, Steps, Holding
<1>3. t \notin ToSet(cline) /\ \A u \in Tasks : t \notin ToSet(list[u])
  BY <1>1, InNoList
<1>4. TypeOK'
  BY <1>2 DEF TypeOK
<1>5. OwnerInv'
  BY <1>1, <1>2 DEF OwnerInv
<1>6. ListInv'
  BY <1>1, <1>2 DEF ListInv
<1>7. PlaceInv'
  BY <1>1, <1>2, <1>3, Members, EmptyLinks DEF PlaceInv
<1> QED BY <1>4, <1>5, <1>6, <1>7

LEMMA JoinKeeps ==
  ASSUME NEW t \in Tasks, IInv, Join(t) PROVE IInv'
<1> USE DEF IInv
<1>1. pc[t] = "idle" /\ owner # Null /\ owner # t /\ line' = Append(line, t)
  BY DEF Join, Mutex!Join
<1>2. /\ \A v \in Tasks : pc'[v] = IF v = t THEN "locking" ELSE pc[v]
      /\ pc' \in [Tasks -> Steps]
      /\ UNCHANGED <<owner, bound, cline, list>>
  BY DEF Join, Mutex!Join, Goto, TypeOK, Steps
<1>3. t \notin ToSet(cline) /\ t \notin ToSet(line) /\ \A u \in Tasks : t \notin ToSet(list[u])
  BY <1>1, InNoList
<1>4. line' \in Seq(Tasks) /\ NoRepeats(line') /\ ToSet(line') = ToSet(line) \union {t}
  BY <1>1, <1>3, AppendLinks DEF TypeOK, ListInv
<1>5. TypeOK'
  BY <1>2, <1>4 DEF TypeOK
<1>6. OwnerInv'
  BY <1>1, <1>2 DEF OwnerInv, Holding
<1>7. ListInv'
  BY <1>1, <1>2, <1>3, <1>4 DEF ListInv
<1>8. PlaceInv'
  BY <1>1, <1>2, <1>3, <1>4, Members DEF PlaceInv
<1> QED BY <1>5, <1>6, <1>7, <1>8

LEMMA AbandonKeeps ==
  ASSUME NEW t \in Tasks, IInv, Abandon(t) PROVE IInv'
<1> USE DEF IInv
<1>1. pc[t] = "locking" /\ t \in ToSet(line) /\ line' = Without(line, t)
  BY DEF Abandon, Mutex!Abandon, Mutex!ToSet, ToSet, Mutex!Without, Without,
         Mutex!Position, Position, Mutex!RemoveAt, RemoveAt
<1>2. /\ \A v \in Tasks : pc'[v] = IF v = t THEN "idle" ELSE pc[v]
      /\ pc' \in [Tasks -> Steps]
      /\ UNCHANGED <<owner, bound, cline, list>>
  <2>1. Goto(t, "idle") /\ UNCHANGED <<owner, bound, cline, list>>
    BY DEF Abandon, Mutex!Abandon
  <2> QED BY <2>1 DEF Goto, TypeOK, Steps
<1>3. owner # t
  BY <1>1 DEF PlaceInv
<1>4. /\ line' \in Seq(Tasks) /\ NoRepeats(line') /\ ToSet(line') = ToSet(line) \ {t}
      /\ line = <<>> => line' = <<>>
  BY <1>1, WithoutLinks, WithoutSeq DEF TypeOK, ListInv
<1>5. TypeOK'
  BY <1>2, <1>4 DEF TypeOK
<1>6. OwnerInv'
  BY <1>1, <1>2, <1>3, <1>4 DEF OwnerInv, Holding
<1>7. ListInv'
  BY <1>1, <1>2, <1>4 DEF ListInv
<1>8. PlaceInv'
  BY <1>1, <1>2, <1>4, Members DEF PlaceInv
<1> QED BY <1>5, <1>6, <1>7, <1>8

LEMMA ReturnKeeps ==
  ASSUME NEW t \in Tasks, IInv, Return(t) PROVE IInv'
<1> USE DEF IInv
<1>1. pc[t] \in {"locking", "waiting"} /\ owner = t
  BY DEF Return
<1>2. /\ \A v \in Tasks : pc'[v] = IF v = t THEN "holding" ELSE pc[v]
      /\ pc' \in [Tasks -> Steps]
      /\ UNCHANGED <<owner, line, bound, cline, list>>
  BY DEF Return, Goto, TypeOK, Steps, Holding, mutex
<1>3. t \notin ToSet(cline) /\ t \notin ToSet(line) /\ \A u \in Tasks : t \notin ToSet(list[u])
  BY <1>1, InNoList
<1>4. TypeOK'
  BY <1>2 DEF TypeOK
<1>5. OwnerInv'
  BY <1>1, <1>2 DEF OwnerInv
<1>6. ListInv'
  BY <1>1, <1>2 DEF ListInv
<1>7. PlaceInv'
  BY <1>1, <1>2, <1>3, Members DEF PlaceInv
<1> QED BY <1>4, <1>5, <1>6, <1>7

LEMMA AbandonLateKeeps ==
  ASSUME NEW t \in Tasks, IInv, AbandonLate(t) PROVE IInv'
BY LetsGo DEF AbandonLate

LEMMA UnlockKeeps ==
  ASSUME NEW t \in Tasks, IInv, Unlock(t) PROVE IInv'
<1>1. owner = t
  BY DEF Unlock, IInv, OwnerInv, Holding
<1> QED BY <1>1, LetsGo DEF Unlock

-----------------------------------------------------------------------------
(* wait(). *)

LEMMA PushKeeps ==
  ASSUME NEW t \in Tasks, IInv, Push(t) PROVE IInv'
<1> USE DEF IInv
<1>1. pc[t] = "holding" /\ owner = t /\ cline' = Append(cline, t)
  BY DEF Push, OwnerInv, Holding
<1>2. /\ \A v \in Tasks : pc'[v] = IF v = t THEN "parting" ELSE pc[v]
      /\ pc' \in [Tasks -> Steps] /\ bound' = TRUE
      /\ UNCHANGED <<owner, line, list>>
  BY DEF Push, Goto, TypeOK, Steps, Holding, mutex
<1>3. t \notin ToSet(cline) /\ t \notin ToSet(line) /\ \A u \in Tasks : t \notin ToSet(list[u])
  BY <1>1, InNoList
<1>4. cline' \in Seq(Tasks) /\ NoRepeats(cline') /\ ToSet(cline') = ToSet(cline) \union {t}
  BY <1>1, <1>3, AppendLinks DEF TypeOK, ListInv
<1>5. TypeOK'
  BY <1>2, <1>4 DEF TypeOK
<1>6. OwnerInv'
  BY <1>1, <1>2 DEF OwnerInv
<1>7. ListInv'
  BY <1>1, <1>2, <1>3, <1>4 DEF ListInv
<1>8. PlaceInv'
  BY <1>1, <1>2, <1>3, <1>4, Members DEF PlaceInv
<1> QED BY <1>5, <1>6, <1>7, <1>8

LEMMA PartKeeps ==
  ASSUME NEW t \in Tasks, IInv, Part(t) PROVE IInv'
<1>1. owner = t
  BY DEF Part, IInv, OwnerInv, Holding
<1> QED BY <1>1, LetsGo DEF Part

(* No notifier has waiters in its hands: the dropped waiter is in one of the
   two lines, and leaves it. *)
LEMMA DropKeeps ==
  ASSUME NEW t \in Tasks, IInv, Drop(t) PROVE IInv'
<1> USE DEF IInv
<1>1. /\ pc[t] = "waiting" /\ owner # t
      /\ cline' = Without(cline, t) /\ line' = Without(line, t)
      /\ \A u \in Tasks : pc[u] # "requeueing"
  BY DEF Drop
<1>2. /\ \A v \in Tasks : pc'[v] = IF v = t THEN "dropped" ELSE pc[v]
      /\ pc' \in [Tasks -> Steps]
      /\ UNCHANGED <<owner, bound, list>>
  BY DEF Drop, Goto, TypeOK, Steps
<1>3. /\ line' \in Seq(Tasks) /\ NoRepeats(line') /\ ToSet(line') = ToSet(line) \ {t}
      /\ line = <<>> => line' = <<>>
  BY <1>1, WithoutLinks, WithoutSeq DEF TypeOK, ListInv
<1>4. cline' \in Seq(Tasks) /\ NoRepeats(cline') /\ ToSet(cline') = ToSet(cline) \ {t}
  BY <1>1, WithoutLinks DEF TypeOK, ListInv
<1>5. \A u \in Tasks : list[u] = <<>> /\ ToSet(list[u]) = {}
  BY <1>1, EmptyLinks DEF ListInv
<1>6. TypeOK'
  BY <1>2, <1>3, <1>4 DEF TypeOK
<1>7. OwnerInv'
  BY <1>1, <1>2, <1>3 DEF OwnerInv, Holding
<1>8. ListInv'
  BY <1>2, <1>3, <1>4, <1>5 DEF ListInv
<1>9. PlaceInv'
  BY <1>1, <1>2, <1>3, <1>4, <1>5, Members DEF PlaceInv
<1> QED BY <1>6, <1>7, <1>8, <1>9

-----------------------------------------------------------------------------
(* notify().  Its caller owns the mutex, so that every waiter it pops has let
   the mutex go. *)

LEMMA NotifyKeeps ==
  ASSUME NEW t \in Tasks, NEW count \in 1..Cardinality(Tasks), IInv, Notify(t, count)
  PROVE  IInv'
<1> USE DEF IInv
<1> DEFINE n == Min({count, Len(cline)})
           h == SubSeq(cline, 1, n)
           r == SubSeq(cline, n + 1, Len(cline))
<1>1. pc[t] = "holding" /\ owner = t /\ cline \in Seq(Tasks) /\ NoRepeats(cline)
  BY DEF Notify, OwnerInv, Holding, TypeOK, ListInv
<1>2. n \in 0..Len(cline)
  <2>1. count \in Nat /\ Len(cline) \in Nat
    BY <1>1, FS_CardinalityType
  <2>2. \E m \in {count, Len(cline)} : \A k \in {count, Len(cline)} : m <= k
    BY <2>1
  <2> QED BY <2>1, <2>2 DEF Min
<1>3. /\ h \in Seq(Tasks) /\ r \in Seq(Tasks) /\ h \o r = cline
  <2> HIDE DEF n
  <2> QED BY <1>1, <1>2, SplitLinks
<1>4. /\ list' = [list EXCEPT ![t] = h] /\ cline' = r
      /\ \A v \in Tasks : pc'[v] = IF v = t THEN "requeueing" ELSE pc[v]
      /\ pc' \in [Tasks -> Steps]
      /\ UNCHANGED <<owner, line, bound>>
  BY DEF Notify, Goto, TypeOK, Steps, Holding, mutex
<1> HIDE DEF n, h, r
<1>5. /\ NoRepeats(h) /\ NoRepeats(r) /\ ToSet(h) \intersect ToSet(r) = {}
      /\ ToSet(cline) = ToSet(h) \union ToSet(r)
  <2>1. NoRepeats(h \o r) /\ ToSet(h \o r) = ToSet(cline)
    BY ONLY <1>1, <1>3
  <2>2. h \in Seq(Tasks) /\ r \in Seq(Tasks)
    BY ONLY <1>3
  <2> QED BY ONLY <2>1, <2>2, ConcatLinks
<1>6. \A v \in ToSet(cline) : pc[v] = "waiting" /\ owner # v
  <2>1. \A v \in Tasks : pc[v] # "parting"
    BY <1>1, HolderAlone DEF Holding
  <2> QED BY <2>1, Members DEF PlaceInv
<1>7. \A u \in Tasks : list[u] = <<>> /\ ToSet(list[u]) = {}
  <2>1. \A u \in Tasks : pc[u] # "requeueing"
    BY <1>1, HolderAlone DEF Holding
  <2> QED BY <2>1, EmptyLinks DEF ListInv
<1>8. \A u \in Tasks : list'[u] = IF u = t THEN h ELSE <<>>
  BY <1>4, <1>7 DEF TypeOK
<1>9. TypeOK'
  BY <1>3, <1>4 DEF TypeOK
<1>10. OwnerInv'
  BY <1>1, <1>4 DEF OwnerInv
<1>11. ListInv'
  BY <1>4, <1>5, <1>8, EmptyLinks DEF ListInv
<1>12. PlaceInv'
  <2> USE Members
  <2>1. \A v \in ToSet(cline') : pc'[v] = "waiting" /\ owner' # v
    BY <1>1, <1>4, <1>5, <1>6
  <2>2. \A v \in ToSet(line') : pc'[v] \in {"locking", "waiting"} /\ owner' # v
    BY <1>1, <1>4 DEF PlaceInv
  <2>3. \A u \in Tasks : \A v \in ToSet(list'[u]) : pc'[v] = "waiting" /\ owner' # v
    BY <1>1, <1>4, <1>5, <1>6, <1>8, EmptyLinks
  <2>4. \A v \in Tasks : pc'[v] # "parting"
    BY <1>1, <1>4, HolderAlone DEF Holding
  <2>5. \A v \in Tasks : pc'[v] = "waiting" =>
          \/ owner' = v \/ v \in ToSet(cline') \/ v \in ToSet(line')
          \/ \E u \in Tasks : v \in ToSet(list'[u])
    BY <1>4, <1>5, <1>7, <1>8 DEF PlaceInv
  <2> QED BY <2>1, <2>2, <2>3, <2>4, <2>5 DEF PlaceInv
<1> QED BY <1>9, <1>10, <1>11, <1>12

LEMMA RequeueKeeps ==
  ASSUME NEW t \in Tasks, IInv, Requeue(t) PROVE IInv'
<1> USE DEF IInv
<1> DEFINE h == list[t]
<1>1. /\ pc[t] = "requeueing" /\ owner = t /\ line' = line \o h
      /\ line \in Seq(Tasks) /\ h \in Seq(Tasks) /\ NoRepeats(line) /\ NoRepeats(h)
      /\ ToSet(line) \intersect ToSet(h) = {} /\ ToSet(cline) \intersect ToSet(h) = {}
  BY DEF Requeue, OwnerInv, Holding, TypeOK, ListInv
<1>2. /\ \A v \in Tasks : pc'[v] = IF v = t THEN "holding" ELSE pc[v]
      /\ pc' \in [Tasks -> Steps]
      /\ list' = [list EXCEPT ![t] = <<>>]
      /\ UNCHANGED <<owner, cline, bound>>
  BY DEF Requeue, Goto, TypeOK, Steps, Holding
<1>3. \A u \in Tasks : list'[u] = <<>> /\ (u # t => list[u] = <<>>)
  <2>1. \A u \in Tasks : u # t => list[u] = <<>>
    BY <1>1, HolderAlone DEF ListInv, Holding
  <2> QED BY <1>2, <2>1 DEF TypeOK
<1> HIDE DEF h
<1>4. line' \in Seq(Tasks) /\ NoRepeats(line') /\ ToSet(line') = ToSet(line) \union ToSet(h)
  BY ONLY <1>1, ConcatLinks
<1>5. \A v \in ToSet(h) : v \in Tasks /\ pc[v] = "waiting" /\ owner # v
  BY Members DEF PlaceInv, h
<1>6. TypeOK'
  <2>1. <<>> \in Seq(Tasks)
    BY EmptySeq
  <2> QED BY <1>2, <1>4, <2>1 DEF TypeOK
<1>7. OwnerInv'
  BY <1>1, <1>2 DEF OwnerInv
<1>8. ListInv'
  BY <1>1, <1>2, <1>3, <1>4, EmptyLinks DEF ListInv
<1>9. PlaceInv'
  <2> USE Members
  <2>1. \A v \in ToSet(cline) : pc'[v] = "parting" \/ (pc'[v] = "waiting" /\ owner' # v)
    BY <1>1, <1>2 DEF PlaceInv
  <2>2. \A v \in ToSet(line') : pc'[v] \in {"locking", "waiting"} /\ owner' # v
    BY <1>1, <1>2, <1>4, <1>5 DEF PlaceInv
  <2>3. \A u \in Tasks : \A v \in ToSet(list'[u]) : pc'[v] = "waiting" /\ owner' # v
    BY <1>3, EmptyLinks
  <2>4. \A v \in Tasks : pc'[v] = "parting" => v \in ToSet(cline)
    BY <1>2 DEF PlaceInv
  <2>5. \A v \in Tasks : pc'[v] = "waiting" => owner' = v \/ v \in ToSet(cline) \/ v \in ToSet(line')
    <3> SUFFICES ASSUME NEW v \in Tasks, pc'[v] = "waiting", owner' # v, v \notin ToSet(cline)
                 PROVE  v \in ToSet(line')
      OBVIOUS
    <3>1. v \in ToSet(line) \/ \E u \in Tasks : v \in ToSet(list[u])
      BY <1>2 DEF PlaceInv
    <3>2. \A u \in Tasks : v \in ToSet(list[u]) => u = t
      BY <1>3, EmptyLinks
    <3> QED BY <1>4, <3>1, <3>2 DEF h
  <2> QED BY <1>2, <2>1, <2>2, <2>3, <2>4, <2>5 DEF PlaceInv
<1> QED BY <1>6, <1>7, <1>8, <1>9

-----------------------------------------------------------------------------
(* The invariant holds of every behaviour. *)

LEMMA InitIInv ==
  ASSUME Init PROVE IInv
<1>1. owner = Null /\ line = <<>> /\ cline = <<>> /\ bound = FALSE
  BY DEF Init, Mutex!Init
<1>2. \A u \in Tasks : list[u] = <<>> /\ pc[u] = "idle"
  BY DEF Init
<1>3. TypeOK
  <2>1. <<>> \in Seq(Tasks) /\ "idle" \in Steps
    BY EmptySeq DEF Steps
  <2> QED BY <1>1, <2>1 DEF Init, TypeOK
<1>4. OwnerInv
  BY <1>1, <1>2 DEF OwnerInv, Holding
<1>5. ListInv /\ PlaceInv
  BY <1>1, <1>2, EmptyLinks DEF ListInv, PlaceInv
<1> QED BY <1>3, <1>4, <1>5 DEF IInv

LEMMA NextIInv ==
  ASSUME IInv, [Next]_vars PROVE IInv'
<1>1. CASE UNCHANGED vars
  BY <1>1 DEF vars, IInv, TypeOK, OwnerInv, ListInv, PlaceInv
<1>2. ASSUME NEW t \in Tasks,
             \/ Take(t) \/ Join(t) \/ Abandon(t) \/ AbandonLate(t)
             \/ LetGo(t) \/ Step(t) \/ Drop(t)
             \/ \E count \in 1..Cardinality(Tasks) : Notify(t, count)
      PROVE  IInv'
  BY <1>2, TakeKeeps, JoinKeeps, AbandonKeeps, ReturnKeeps, AbandonLateKeeps, UnlockKeeps,
     PushKeeps, PartKeeps, DropKeeps, NotifyKeeps, RequeueKeeps DEF LetGo, Step
<1> QED BY <1>1, <1>2 DEF Next

(* IInv is inductive: it holds in every state of the condition variable. *)
THEOREM Invariance == Spec => []IInv
<1>1. Init => IInv
  BY InitIInv
<1>2. IInv /\ [Next]_vars => IInv'
  BY NextIInv
<1> QED BY <1>1, <1>2, PTL DEF Spec

-----------------------------------------------------------------------------
(* What follows for the tasks that wait. *)

(* The lists by their names. *)
LEMMA NamedLists ==
  /\ Named("cline") = cline /\ Named("line") = line
  /\ \A u \in Tasks : Named(u) = list[u]
BY NamesDiffer DEF Named

(* The places of a task, from where it is. *)
LEMMA PlacesOf ==
  ASSUME NEW t \in Tasks
  PROVE  /\ "cline" \in Places(t) <=> t \in ToSet(cline)
         /\ "line" \in Places(t) <=> t \in ToSet(line)
         /\ \A u \in Tasks : u \in Places(t) <=> t \in ToSet(list[u])
         /\ Places(t) \subseteq {"cline", "line"} \union Tasks
BY NamedLists DEF Places, Names

(* A task is in one place at most. *)
LEMMA OnePlace ==
  ASSUME IInv, NEW t \in Tasks, NEW l \in Places(t)
  PROVE  Places(t) = {l} /\ Cardinality(Places(t)) = 1
<1>1. \A u, v \in Tasks : t \in ToSet(list[u]) /\ t \in ToSet(list[v]) => u = v
  <2>1. \A u \in Tasks : t \in ToSet(list[u]) => owner = u
    BY EmptyLinks DEF IInv, ListInv, OwnerInv, Holding
  <2> QED BY <2>1
<1>2. /\ ~(t \in ToSet(cline) /\ t \in ToSet(line))
      /\ \A u \in Tasks : t \in ToSet(list[u]) => t \notin ToSet(cline) /\ t \notin ToSet(line)
  BY DEF IInv, ListInv
<1>3. \A m \in Places(t) : m = l
  BY <1>1, <1>2, PlacesOf
<1>4. Places(t) = {l}
  BY <1>3
<1> QED BY <1>4, FS_Singleton

(* Between the moment wait() lets the mutex go and its return a task is in one
   list exactly or owns the mutex; whoever holds the mutex owns it. *)
THEOREM WaitersAreKept == Spec => []WaiterKept
<1>1. IInv => WaiterKept
  <2> SUFFICES ASSUME IInv PROVE WaiterKept
    OBVIOUS
  <2> USE DEF IInv
  <2>1. ASSUME NEW t \in Tasks, pc[t] = "waiting"
        PROVE  Cardinality(Places(t)) = IF owner = t THEN 0 ELSE 1
    <3>1. CASE owner = t
      <4>1. Places(t) = {}
        BY <2>1, <3>1, InNoList, PlacesOf
      <4> QED BY <3>1, <4>1, FS_EmptySet
    <3>2. CASE owner # t
      <4>1. PICK l \in Names : l \in Places(t)
        BY <2>1, <3>2, PlacesOf DEF PlaceInv, Names
      <4> QED BY <3>2, <4>1, OnePlace
    <3> QED BY <3>1, <3>2
  <2>2. ASSUME NEW t \in Tasks, pc[t] = "parting" PROVE Places(t) = {"cline"}
    BY <2>2, PlacesOf, OnePlace DEF PlaceInv
  <2>3. ASSUME NEW t \in Tasks, pc[t] = "dropped" PROVE Places(t) = {} /\ owner # t
    BY <2>3, InNoList, PlacesOf DEF OwnerInv
  <2>4. \A t \in Tasks : pc[t] \in {"holding", "parting", "requeueing"} => owner = t
    BY DEF OwnerInv, Holding
  <2>5. \A l \in Names : IsInjective(Named(l))
    BY NamedLists DEF Names, ListInv, NoRepeats
  <2>6. ASSUME owner = Null, NEW t \in Tasks PROVE Places(t) \subseteq {"cline"}
    <3>1. \A u \in Tasks : t \notin ToSet(list[u])
      BY <2>6, EmptyLinks DEF ListInv, OwnerInv, Holding
    <3>2. t \notin ToSet(line)
      BY <2>6, EmptyLinks DEF OwnerInv
    <3> QED BY <3>1, <3>2, PlacesOf
  <2> QED BY <2>1, <2>2, <2>3, <2>4, <2>5, <2>6 DEF WaiterKept
<1> QED BY <1>1, Invariance, PTL

=============================================================================
