------------------------------ MODULE OnceCell ------------------------------
(***************************************************************************)
(* lazy.rs: a cell that is initialised once.  The first caller runs its    *)
(* initialiser, the others wait in the futex; finish() publishes the       *)
(* outcome, which is poison if the initialiser was dropped half-way, and   *)
(* wakes them all.                                                         *)
(*                                                                         *)
(* A load and the compare-and-swap that succeeds on it are one step, since *)
(* the swap compares the whole word.  The line is the queue followed by    *)
(* the inbox.  Several initialisers never meet in finish(), whose borrow   *)
(* of the queues is left out.  The specification has names of its own      *)
(* (CellSpec and so on), so that FutexProofs can extend it.                *)
(***************************************************************************)
EXTENDS FutexOps, FiniteSets

CONSTANT Tasks

ASSUME NullIsNoTask == Null \notin Tasks

VARIABLES
  atom,      \* "Uninit", "Active", "Poison" or "Init"
  written,   \* inner holds a value
  line,      \* the waiters, oldest first
  guards,    \* the tasks that hold the futex's RwLock shared
  at,        \* at[t]: the step task t takes next
  popped,    \* popped[t]: the waiters t has popped and not yet woken
  woken      \* the tasks whose waker slot is Done

cellVars == <<atom, written, line, guards, at, popped, woken>>

Initialising == {"running", "publishing", "poisoning", "in_publish", "in_poison"}

CellGoto(t, step) == at' = [at EXCEPT ![t] = step]

CellInit == /\ atom = "Uninit" /\ written = FALSE
        /\ line = <<>>
        /\ guards = {}
        /\ at = [t \in Tasks |-> "idle"]
        /\ popped = [t \in Tasks |-> <<>>]
        /\ woken = {}

-----------------------------------------------------------------------------
(* get_or_init(). *)

Call(t) ==
  /\ at[t] = "idle"
  /\ CellGoto(t, "looking")
  /\ UNCHANGED <<atom, written, line, guards, popped, woken>>

Begin(t) ==
  /\ at[t] = "looking"
  /\ atom = "Uninit"
  /\ atom' = "Active"
  /\ CellGoto(t, "running")
  /\ UNCHANGED <<written, line, guards, popped, woken>>

(* Mutant of Await: the word is not compared. *)
AwaitBlind(t) ==
  /\ at[t] = "looking"
  /\ atom # "Uninit"
  /\ line' = Append(line, t)
  /\ CellGoto(t, "asleep")
  /\ UNCHANGED <<atom, written, guards, popped, woken>>

Await(t) ==
  /\ at[t] = "looking"
  /\ atom = "Active"
  /\ line' = Append(line, t)
  /\ CellGoto(t, "asleep")
  /\ UNCHANGED <<atom, written, guards, popped, woken>>

(* The outcome is there: the value, or a panic. *)
See(t) ==
  /\ at[t] = "looking"
  /\ atom \in {"Init", "Poison"}
  /\ CellGoto(t, IF atom = "Init" THEN "returned" ELSE "refused")
  /\ UNCHANGED <<atom, written, line, guards, popped, woken>>

Resume(t) ==
  /\ at[t] = "asleep"
  /\ t \in woken
  /\ woken' = woken \ {t}
  /\ CellGoto(t, "looking")
  /\ UNCHANGED <<atom, written, line, guards, popped>>

(* A pending call is dropped, under the write lock of the futex. *)
Cancel(t) ==
  /\ at[t] = "asleep"
  /\ guards = {}
  /\ line' = Without(line, t)
  /\ woken' = woken \ {t}
  /\ CellGoto(t, "idle")
  /\ UNCHANGED <<atom, written, guards, popped>>

-----------------------------------------------------------------------------
(* The initialiser completes, or it panics or is dropped with the call. *)

Complete(t) ==
  /\ at[t] = "running"
  /\ written' = TRUE
  /\ CellGoto(t, "publishing")
  /\ UNCHANGED <<atom, line, guards, popped, woken>>

(* Mutant of Abort: OnDrop is missing. *)
AbortQuietly(t) ==
  /\ at[t] = "running"
  /\ CellGoto(t, "idle")
  /\ UNCHANGED <<atom, written, line, guards, popped, woken>>

Abort(t) ==
  /\ at[t] = "running"
  /\ CellGoto(t, "poisoning")
  /\ UNCHANGED <<atom, written, line, guards, popped, woken>>

-----------------------------------------------------------------------------
(* finish(). *)

ReadLock(t) ==
  /\ at[t] \in {"publishing", "poisoning"}
  /\ guards' = guards \union {t}
  /\ CellGoto(t, IF at[t] = "publishing" THEN "in_publish" ELSE "in_poison")
  /\ UNCHANGED <<atom, written, line, popped, woken>>

Publish(t) ==
  /\ at[t] \in {"in_publish", "in_poison"}
  /\ atom' = IF at[t] = "in_publish" THEN "Init" ELSE "Poison"
  /\ popped' = [popped EXCEPT ![t] = line]
  /\ line' = <<>>
  /\ CellGoto(t, IF atom # "Active" THEN "panicked" ELSE
             IF at[t] = "in_publish" THEN "waking" ELSE "waking_poisoned")
  /\ UNCHANGED <<written, guards, woken>>

Wake(t) ==
  /\ at[t] \in {"waking", "waking_poisoned"}
  /\ popped[t] # <<>>
  /\ woken' = woken \union {Head(popped[t])}
  /\ popped' = [popped EXCEPT ![t] = Tail(@)]
  /\ IF at[Head(popped[t])] = "asleep" THEN UNCHANGED at ELSE CellGoto(t, "panicked")
  /\ UNCHANGED <<atom, written, line, guards>>

(* The end of finish(): the call returns the value, or is gone. *)
Finish(t) ==
  /\ at[t] \in {"waking", "waking_poisoned"}
  /\ popped[t] = <<>>
  /\ guards' = guards \ {t}
  /\ CellGoto(t, IF at[t] = "waking" THEN "returned" ELSE "idle")
  /\ UNCHANGED <<atom, written, line, popped, woken>>

(* The reference is dropped, or the panic was caught. *)
Return(t) ==
  /\ at[t] \in {"returned", "refused"}
  /\ CellGoto(t, "idle")
  /\ UNCHANGED <<atom, written, line, guards, popped, woken>>

-----------------------------------------------------------------------------
Step(t) ==
  \/ Begin(t) \/ Await(t) \/ See(t) \/ Resume(t)
  \/ Complete(t) \/ Abort(t)
  \/ ReadLock(t) \/ Publish(t) \/ Wake(t) \/ Finish(t) \/ Return(t)

CellNext == \E t \in Tasks : Call(t) \/ Step(t) \/ Cancel(t)

(* A call that has begun is polled, and its initialiser ends or is dropped.
   Nobody is obliged to call or to drop a pending call. *)
CellFairness == \A t \in Tasks : WF_cellVars(Step(t))

CellSpec     == CellInit /\ [][CellNext]_cellVars
CellFairSpec == CellSpec /\ CellFairness

-----------------------------------------------------------------------------
(* At most one initialiser ever runs; the cell is Active exactly while there is
   one, and only then does anybody wait; who gets the value finds it written. *)
InitialisedOnce ==
  /\ atom = "Active" <=> \E t \in Tasks : at[t] \in Initialising
  /\ \A t, u \in Tasks : at[t] \in Initialising /\ at[u] \in Initialising => t = u
  /\ line # <<>> => atom = "Active"
  /\ atom = "Init" => written
  /\ \A t \in Tasks : at[t] = "returned" => written

(* Every call ends, with the value or a panic, also when the initialiser is
   dropped; in particular nobody is woken who has left. *)
CallEnds == \A t \in Tasks : at[t] = "looking" ~> at[t] \in {"idle", "returned", "refused"}
-----------------------------------------------------------------------------
(* The inductive invariant behind InitialisedOnce. *)

CellSteps == Initialising \union {"idle", "looking", "asleep", "waking", "waking_poisoned",
                              "returned", "refused", "panicked"}

(* The values of every variable. *)
CellTypeOK ==
  /\ atom \in {"Uninit", "Active", "Poison", "Init"}
  /\ written \in BOOLEAN
  /\ line \in Seq(Tasks)
  /\ guards \subseteq Tasks
  /\ at \in [Tasks -> CellSteps]
  /\ popped \in [Tasks -> Seq(Tasks)]
  /\ woken \subseteq Tasks

(* Who publishes a value has written it. *)
WrittenInv == \A t \in Tasks :
  at[t] \in {"publishing", "in_publish", "waking", "returned"} => written

CellIInv == CellTypeOK /\ InitialisedOnce /\ WrittenInv
=============================================================================
