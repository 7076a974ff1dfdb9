------------------------------- MODULE Condvar ------------------------------
(***************************************************************************)
(* condvar.rs on top of the fair mutex, which is taken at the level of     *)
(* FairLock.  wait() joins the line of the condition variable and then     *)
(* unlocks, within one poll; notify() takes waiters out of that line and   *)
(* appends them to the line of the mutex, which its caller holds, so that  *)
(* a notified task returns from wait() when the mutex is handed to it.     *)
(*                                                                         *)
(* All tasks use the same mutex, as the code demands.  Waking is left to   *)
(* Futex: a task that waits goes on when it owns the mutex.  Dropping a    *)
(* wait that sleeps takes the waiter out of its line and then panics in    *)
(* todo!(): the task is gone ("dropped").                                  *)
(***************************************************************************)
EXTENDS FutexOps, FiniteSets

CONSTANT Tasks

ASSUME TasksFinite  == IsFiniteSet(Tasks) /\ Null \notin Tasks
ASSUME NamesDiffer  == {"cline", "line"} \intersect Tasks = {}

VARIABLES
  owner, line,  \* the mutex: its owner, and the tasks that wait for it
  bound,        \* the atom holds the mutex's address
  cline,        \* the tasks that wait for a notification
  list,         \* list[t]: the waiters t has popped and not yet requeued
  pc            \* pc[t]: the step task t takes next

mutex == <<owner, line>>
vars  == <<owner, line, bound, cline, list, pc>>

Mutex == INSTANCE FairLock

Goto(t, step) == pc' = [pc EXCEPT ![t] = step]

Init == /\ Mutex!Init
        /\ bound = FALSE
        /\ cline = <<>>
        /\ list = [t \in Tasks |-> <<>>]
        /\ pc = [t \in Tasks |-> "idle"]

-----------------------------------------------------------------------------
(* The mutex. *)

Unlocked == Mutex!HandOff \/ Mutex!Release

Take(t) ==
  /\ pc[t] = "idle"
  /\ Mutex!Take(t)
  /\ Goto(t, "holding")
  /\ UNCHANGED <<bound, cline, list>>

Join(t) ==
  /\ pc[t] = "idle"
  /\ Mutex!Join(t)
  /\ Goto(t, "locking")
  /\ UNCHANGED <<bound, cline, list>>

Abandon(t) ==
  /\ pc[t] = "locking"
  /\ Mutex!Abandon(t)
  /\ Goto(t, "idle")
  /\ UNCHANGED <<bound, cline, list>>

(* The poll that finds the mutex handed over: lock() or wait() returns. *)
Return(t) ==
  /\ pc[t] \in {"locking", "waiting"}
  /\ owner = t
  /\ Goto(t, "holding")
  /\ UNCHANGED <<mutex, bound, cline, list>>

(* Mutant of AbandonLate: on_cancel_woken does nothing. *)
AbandonLateSilently(t) ==
  /\ pc[t] \in {"locking", "waiting"}
  /\ owner = t
  /\ Goto(t, "idle")
  /\ UNCHANGED <<mutex, bound, cline, list>>

(* The future of lock() or wait() is dropped after the mutex was handed to it:
   on_cancel_woken unlocks. *)
AbandonLate(t) ==
  /\ pc[t] \in {"locking", "waiting"}
  /\ owner = t
  /\ Unlocked
  /\ Goto(t, "idle")
  /\ UNCHANGED <<bound, cline, list>>

Unlock(t) ==
  /\ pc[t] = "holding"
  /\ Unlocked
  /\ Goto(t, "idle")
  /\ UNCHANGED <<bound, cline, list>>

-----------------------------------------------------------------------------
(* wait(): enter the line, then unlock in on_pending. *)

Push(t) ==
  /\ pc[t] = "holding"
  /\ bound' = TRUE
  /\ cline' = Append(cline, t)
  /\ Goto(t, "parting")
  /\ UNCHANGED <<mutex, list>>

Part(t) ==
  /\ pc[t] = "parting"
  /\ Unlocked
  /\ Goto(t, "waiting")
  /\ UNCHANGED <<bound, cline, list>>

(* Mutant of Drop: the first read of the waiter's futex is believed, although
   a notify moved the waiter before the write lock was granted. *)
DropStale(t) ==
  /\ pc[t] = "waiting"
  /\ owner # t
  /\ \A u \in Tasks : pc[u] # "requeueing"
  /\ cline' = Without(cline, t)
  /\ Goto(t, "dropped")
  /\ UNCHANGED <<mutex, bound, list>>

(* The future of wait() is dropped asleep: the write lock of the futex it is
   linked in keeps a notify out, which holds the read lock to its end.  The
   waiter leaves the line it is in by then, and on_cancel_sleeping panics. *)
Drop(t) ==
  /\ pc[t] = "waiting"
  /\ owner # t
  /\ \A u \in Tasks : pc[u] # "requeueing"
  /\ cline' = Without(cline, t)
  /\ line' = Without(line, t)
  /\ Goto(t, "dropped")
  /\ UNCHANGED <<owner, bound, list>>

-----------------------------------------------------------------------------
(* notify().  While nobody has ever waited it does nothing. *)

Notify(t, count) ==
  /\ pc[t] = "holding"
  /\ bound
  /\ LET n == Min({count, Len(cline)}) IN
       /\ list' = [list EXCEPT ![t] = SubSeq(cline, 1, n)]
       /\ cline' = SubSeq(cline, n + 1, Len(cline))
  /\ Goto(t, "requeueing")
  /\ UNCHANGED <<mutex, bound>>

Requeue(t) ==
  /\ pc[t] = "requeueing"
  /\ line' = line \o list[t]
  /\ list' = [list EXCEPT ![t] = <<>>]
  /\ Goto(t, "holding")
  /\ UNCHANGED <<owner, bound, cline>>

-----------------------------------------------------------------------------
LetGo(t) == Unlock(t) \/ Push(t)
Step(t)  == Return(t) \/ Part(t) \/ Requeue(t)

Next == \E t \in Tasks :
  \/ Take(t) \/ Join(t) \/ Abandon(t) \/ AbandonLate(t)
  \/ LetGo(t) \/ Step(t) \/ Drop(t)
  \/ \E count \in 1..Cardinality(Tasks) : Notify(t, count)

(* A poll or a notify that has begun runs on; a task that holds the mutex lets
   it go some day, however often it notifies.  Nobody is obliged to lock, to
   wait, to notify or to be cancelled. *)
Fairness == \A t \in Tasks : WF_vars(Step(t)) /\ SF_vars(LetGo(t))

Spec     == Init /\ [][Next]_vars
FairSpec == Spec /\ Fairness

-----------------------------------------------------------------------------
(* The lists task t is in, by name; list[u] goes by the name of u. *)
Named(l)  == CASE l = "cline" -> cline [] l = "line" -> line [] OTHER -> list[l]
Names     == {"cline", "line"} \union Tasks
Places(t) == {l \in Names : t \in ToSet(Named(l))}

(* From the moment wait() lets the mutex go until it returns, the task is in
   exactly one line or owns the mutex, and it is in the first line before it
   lets go: no notification finds it missing, none finds it twice.  A dropped
   wait is in no line, whichever it had been moved to.  Tasks that hold the
   mutex own it, and a mutex with waiters has an owner. *)
WaiterKept ==
  /\ \A t \in Tasks : pc[t] = "waiting" =>
       Cardinality(Places(t)) = IF owner = t THEN 0 ELSE 1
  /\ \A t \in Tasks : pc[t] = "parting" => Places(t) = {"cline"}
  /\ \A t \in Tasks : pc[t] = "dropped" => Places(t) = {} /\ owner # t
  /\ \A t \in Tasks : pc[t] \in {"holding", "parting", "requeueing"} => owner = t
  /\ \A l \in Names : IsInjective(Named(l))
  /\ owner = Null => \A t \in Tasks : Places(t) \subseteq {"cline"}

(* A notified task gets the mutex, unless its wait is dropped. *)
NotifiedReturns == \A t \in Tasks :
  pc[t] = "waiting" /\ t \notin ToSet(cline) ~> pc[t] \in {"holding", "idle", "dropped"}

-----------------------------------------------------------------------------
(* The inductive invariant behind WaiterKept, in parts. *)

Holding == {"holding", "parting", "requeueing"}
Steps   == Holding \union {"idle", "locking", "waiting", "dropped"}

(* The values of every variable. *)
TypeOK ==
  /\ owner \in Tasks \union {Null}
  /\ line \in Seq(Tasks) /\ cline \in Seq(Tasks)
  /\ bound \in BOOLEAN
  /\ list \in [Tasks -> Seq(Tasks)]
  /\ pc \in [Tasks -> Steps]

(* Who may own the mutex, and who does. *)
OwnerInv ==
  /\ \A t \in Tasks : pc[t] \in Holding => owner = t
  /\ \A t \in Tasks : owner = t => pc[t] \notin {"idle", "dropped"}
  /\ owner = Null => line = <<>>

(* Nobody is in two lists, or in one twice. *)
ListInv ==
  /\ NoRepeats(cline) /\ NoRepeats(line)
  /\ ToSet(cline) \intersect ToSet(line) = {}
  /\ \A u \in Tasks :
       /\ NoRepeats(list[u])
       /\ list[u] # <<>> => pc[u] = "requeueing"
       /\ ToSet(list[u]) \intersect (ToSet(cline) \union ToSet(line)) = {}

(* Who is in a list, and which tasks must be. *)
PlaceInv ==
  /\ \A t \in ToSet(cline) : pc[t] = "parting" \/ (pc[t] = "waiting" /\ owner # t)
  /\ \A t \in ToSet(line) : pc[t] \in {"locking", "waiting"} /\ owner # t
  /\ \A u \in Tasks : \A t \in ToSet(list[u]) : pc[t] = "waiting" /\ owner # t
  /\ \A t \in Tasks : pc[t] = "parting" => t \in ToSet(cline)
  /\ \A t \in Tasks : pc[t] = "waiting" =>
       \/ owner = t \/ t \in ToSet(cline) \/ t \in ToSet(line)
       \/ \E u \in Tasks : t \in ToSet(list[u])

IInv == TypeOK /\ OwnerInv /\ ListInv /\ PlaceInv
=============================================================================
