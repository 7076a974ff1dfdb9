------------------------------- MODULE RwLock -------------------------------
(***************************************************************************)
(* rwlock.rs: the asynchronous readers-writer lock.  Its word counts the   *)
(* readers that hold the lock, and the writers that hold it or wait.  A    *)
(* writer that lets go hands the lock to the next writer, or, if there is  *)
(* none, to all the readers in line: it becomes a reader itself for the    *)
(* moment it takes to count them.                                          *)
(*                                                                         *)
(* A load and the compare-and-swap that succeeds on it are one step, since *)
(* the swap compares the whole word and the loops decide by that word.  A  *)
(* line is a queue followed by the inbox's waiters for it: what enqueue    *)
(* moves from one to the other stays in place.                             *)
(*                                                                         *)
(* Dropping a write future that sleeps is unimplemented: its waiter leaves *)
(* the line, and then write_abort panics with the word as it was.          *)
(***************************************************************************)
EXTENDS FutexOps, FiniteSets

CONSTANTS Tasks,
          Half    \* how many values a usize_half has

ASSUME TasksFinite    == IsFiniteSet(Tasks) /\ Null \notin Tasks
ASSUME HalfAssumption == Half \in Nat /\ Cardinality(Tasks) < Half

VARIABLES
  readers, writers,  \* the two fields of Atom
  rline, wline,      \* the waiters for READ_QUEUE and WRITE_QUEUE, oldest first
  guards,            \* the tasks with a FutexWaitersGuard
  borrowed,          \* a FutexQueueGuard exists
  pc,                \* pc[t]: the step task t takes next
  popped,            \* popped[t]: the waiters t has popped and not yet woken
  woken              \* the tasks whose waker slot is Done

word  == <<readers, writers>>
lines == <<rline, wline>>
locks == <<guards, borrowed>>
vars  == <<readers, writers, rline, wline, guards, borrowed, pc, popped, woken>>

Reading == {"reading", "read_unlocking", "read_leading", "read_notifying"}
Writing == {"writing", "write_unlocking", "write_notifying", "clearing"}
Leading == {"counting", "adding"}
Steps   == Reading \union Writing \union Leading
           \union {"idle", "read_waiting", "write_waiting", "waking", "leaving",
                   "dropped", "stuck", "panicked"}

Goto(t, step) == pc' = [pc EXCEPT ![t] = step]

(* Mutant of Low: a count of one value less. *)
LowNarrow(n) == n % (Half - 1)

(* What encode keeps of a count: the low half of a word. *)
Low(n) == n % Half

Init == /\ readers = 0 /\ writers = 0
        /\ rline = <<>> /\ wline = <<>>
        /\ guards = {}
        /\ borrowed = FALSE
        /\ pc = [t \in Tasks |-> "idle"]
        /\ popped = [t \in Tasks |-> <<>>]
        /\ woken = {}

-----------------------------------------------------------------------------
(* read() and write(). *)

Read(t) ==
  /\ pc[t] = "idle"
  /\ writers = 0
  /\ readers' = Low(readers + 1)
  /\ Goto(t, "reading")
  /\ UNCHANGED <<writers, lines, locks, popped, woken>>

ReadWait(t) ==
  /\ pc[t] = "idle"
  /\ writers > 0
  /\ rline' = Append(rline, t)
  /\ Goto(t, "read_waiting")
  /\ UNCHANGED <<word, wline, locks, popped, woken>>

Write(t) ==
  /\ pc[t] = "idle"
  /\ readers = 0 /\ writers = 0
  /\ writers' = 1
  /\ Goto(t, "writing")
  /\ UNCHANGED <<readers, lines, locks, popped, woken>>

WriteWait(t) ==
  /\ pc[t] = "idle"
  /\ readers > 0 \/ writers > 0
  /\ writers' = Low(writers + 1)
  /\ wline' = Append(wline, t)
  /\ Goto(t, "write_waiting")
  /\ UNCHANGED <<readers, rline, locks, popped, woken>>

Resume(t) ==
  /\ t \in woken
  /\ woken' = woken \ {t}
  /\ Goto(t, IF pc[t] = "read_waiting" THEN "reading" ELSE "writing")
  /\ UNCHANGED <<word, lines, locks, popped>>

(* Mutant of CancelRead: the waiter is removed among notifiers. *)
CancelReadUnlocked(t) ==
  /\ pc[t] = "read_waiting"
  /\ rline' = Without(rline, t)
  /\ woken' = woken \ {t}
  /\ Goto(t, IF t \in woken THEN "read_unlocking" ELSE "idle")
  /\ UNCHANGED <<word, wline, locks, popped>>

(* Dropping a pending read future, under the write lock of the futex: a
   sleeping waiter leaves the line; one already woken unlocks. *)
CancelRead(t) ==
  /\ pc[t] = "read_waiting"
  /\ guards = {}
  /\ rline' = Without(rline, t)
  /\ woken' = woken \ {t}
  /\ Goto(t, IF t \in woken THEN "read_unlocking" ELSE "idle")
  /\ UNCHANGED <<word, wline, locks, popped>>

CancelWrite(t) ==
  /\ pc[t] = "write_waiting"
  /\ t \in woken
  /\ guards = {}
  /\ woken' = woken \ {t}
  /\ Goto(t, "write_unlocking")
  /\ UNCHANGED <<word, lines, locks, popped>>

(* write_abort(). *)
DropWrite(t) ==
  /\ pc[t] = "write_waiting"
  /\ t \notin woken
  /\ guards = {}
  /\ wline' = Without(wline, t)
  /\ Goto(t, "dropped")
  /\ UNCHANGED <<word, rline, locks, popped, woken>>

-----------------------------------------------------------------------------
(* The guards are dropped. *)

DropGuard(t) ==
  /\ pc[t] \in {"reading", "writing"}
  /\ Goto(t, IF pc[t] = "reading" THEN "read_unlocking" ELSE "write_unlocking")
  /\ UNCHANGED <<word, lines, locks, popped, woken>>

(* read_unlock(): one reader less, unless a writer waits for the last one. *)
ReadUnlock(t) ==
  /\ pc[t] = "read_unlocking"
  /\ ~(readers = 1 /\ writers > 0)
  /\ readers' = Low(readers - 1)
  /\ Goto(t, "idle")
  /\ UNCHANGED <<writers, lines, locks, popped, woken>>

LastReader(t) ==
  /\ pc[t] = "read_unlocking"
  /\ readers = 1 /\ writers > 0
  /\ Goto(t, "read_leading")
  /\ UNCHANGED <<word, lines, locks, popped, woken>>

(* Futex::lock, and the borrow of the queues, which nobody else may have. *)
Borrow(t) ==
  /\ pc[t] \in {"read_leading", "write_unlocking"}
  /\ guards' = guards \union {t}
  /\ borrowed' = TRUE
  /\ Goto(t, IF borrowed THEN "panicked"
             ELSE IF pc[t] = "read_leading" THEN "read_notifying" ELSE "write_notifying")
  /\ UNCHANGED <<word, lines, popped, woken>>

(* The first writer in line gets the lock. *)
PopWriter(t) ==
  /\ wline' = Tail(wline)
  /\ popped' = [popped EXCEPT ![t] = <<Head(wline)>>]
  /\ borrowed' = FALSE
  /\ Goto(t, "waking")
  /\ UNCHANGED guards

(* There is none: the guards are dropped, at the end or by unwinding. *)
Quit(t, step) ==
  /\ borrowed' = FALSE
  /\ guards' = guards \ {t}
  /\ Goto(t, step)
  /\ UNCHANGED <<wline, popped>>

ReadToWriter(t) ==
  /\ pc[t] = "read_notifying"
  /\ readers' = 0
  /\ IF writers > 0 /\ wline # <<>> THEN PopWriter(t)
     ELSE Quit(t, CASE writers > 0 /\ wline = <<>>        -> "stuck"
                    [] writers = 0 /\ rline \o wline = <<>> -> "idle"
                    [] OTHER                              -> "panicked")
  /\ UNCHANGED <<writers, rline, woken>>

-----------------------------------------------------------------------------
(* write_unlock(). *)

WriteToWriter(t) ==
  /\ pc[t] = "write_notifying"
  /\ writers > 1
  /\ writers' = Low(writers - 1)
  /\ IF readers = 0 /\ wline # <<>> THEN PopWriter(t)
     ELSE Quit(t, IF readers = 0 THEN "stuck" ELSE "panicked")
  /\ UNCHANGED <<readers, rline, woken>>

(* Nobody waits: give the queues back, then clear the word. *)
Unborrow(t) ==
  /\ pc[t] = "write_notifying"
  /\ writers = 1 /\ rline = <<>>
  /\ borrowed' = FALSE
  /\ Goto(t, "clearing")
  /\ UNCHANGED <<word, lines, guards, popped, woken>>

(* Mutant of Clear: the inbox pointer is not compared. *)
ClearBlind(t) ==
  /\ pc[t] = "clearing"
  /\ writers = 1
  /\ writers' = 0
  /\ Goto(t, "leaving")
  /\ UNCHANGED <<readers, lines, locks, popped, woken>>

Clear(t) ==
  /\ pc[t] = "clearing"
  /\ writers = 1 /\ rline = <<>>
  /\ writers' = 0
  /\ Goto(t, "leaving")
  /\ UNCHANGED <<readers, lines, locks, popped, woken>>

(* The swap fails, perhaps spuriously. *)
Reborrow(t) ==
  /\ pc[t] = "clearing"
  /\ borrowed' = TRUE
  /\ Goto(t, IF borrowed THEN "panicked" ELSE "write_notifying")
  /\ UNCHANGED <<word, lines, guards, popped, woken>>

(* Mutants of Downgrade: one reader is let in instead of all; the lock is given
   up before the readers are counted. *)
DowngradeToFirst(t) ==
  /\ pc[t] = "write_notifying"
  /\ writers = 1 /\ rline # <<>>
  /\ readers' = 1 /\ writers' = 0
  /\ popped' = [popped EXCEPT ![t] = <<Head(rline)>>]
  /\ rline' = Tail(rline)
  /\ Goto(t, IF readers = 0 /\ wline = <<>> THEN "counting" ELSE "panicked")
  /\ UNCHANGED <<wline, locks, woken>>

DowngradeToNobody(t) ==
  /\ pc[t] = "write_notifying"
  /\ writers = 1 /\ rline # <<>>
  /\ readers' = 0 /\ writers' = 0
  /\ popped' = [popped EXCEPT ![t] = rline]
  /\ rline' = <<>>
  /\ Goto(t, IF readers = 0 /\ wline = <<>> THEN "counting" ELSE "panicked")
  /\ UNCHANGED <<wline, locks, woken>>

(* Only readers wait: become a reader, and take them all out of the line. *)
Downgrade(t) ==
  /\ pc[t] = "write_notifying"
  /\ writers = 1 /\ rline # <<>>
  /\ readers' = 1 /\ writers' = 0
  /\ popped' = [popped EXCEPT ![t] = rline]
  /\ rline' = <<>>
  /\ Goto(t, IF readers = 0 /\ wline = <<>> THEN "counting" ELSE "panicked")
  /\ UNCHANGED <<wline, locks, woken>>

GiveBack(t) ==
  /\ pc[t] = "counting"
  /\ borrowed' = FALSE
  /\ Goto(t, "adding")
  /\ UNCHANGED <<word, lines, guards, popped, woken>>

(* Mutant of AddReaders: this task goes on counting as a reader. *)
AddReadersAndOne(t) ==
  /\ pc[t] = "adding"
  /\ readers' = Low(readers + Len(popped[t]))
  /\ Goto(t, "waking")
  /\ UNCHANGED <<writers, lines, locks, popped, woken>>

(* Put the readers in its own place. *)
AddReaders(t) ==
  /\ pc[t] = "adding"
  /\ readers' = Low(readers + Len(popped[t]) - 1)
  /\ Goto(t, "waking")
  /\ UNCHANGED <<writers, lines, locks, popped, woken>>

-----------------------------------------------------------------------------
(* Wake what was popped, one after the other, and drop the guard. *)

Wake(t) ==
  /\ pc[t] = "waking"
  /\ woken' = woken \union {Head(popped[t])}
  /\ popped' = [popped EXCEPT ![t] = Tail(@)]
  /\ Goto(t, IF Head(popped[t]) \in woken \/ pc[Head(popped[t])] \notin {"read_waiting", "write_waiting"}
             THEN "panicked" ELSE IF Len(popped[t]) = 1 THEN "leaving" ELSE "waking")
  /\ UNCHANGED <<word, lines, locks>>

Leave(t) ==
  /\ pc[t] = "leaving"
  /\ guards' = guards \ {t}
  /\ Goto(t, "idle")
  /\ UNCHANGED <<word, lines, borrowed, popped, woken>>

-----------------------------------------------------------------------------
UnlockStep(t) ==
  \/ ReadUnlock(t) \/ LastReader(t) \/ Borrow(t) \/ ReadToWriter(t)
  \/ WriteToWriter(t) \/ Unborrow(t) \/ Reborrow(t)
  \/ Downgrade(t) \/ GiveBack(t) \/ AddReaders(t) \/ Wake(t) \/ Leave(t)

Next == \E t \in Tasks :
  \/ Read(t) \/ ReadWait(t) \/ Write(t) \/ WriteWait(t)
  \/ Resume(t) \/ CancelRead(t) \/ CancelWrite(t) \/ DropWrite(t)
  \/ DropGuard(t) \/ UnlockStep(t) \/ Clear(t)

(* A woken task is polled, a guard is dropped some day, an unlock that has
   begun runs on, and a swap does not fail for ever on a word that stays. *)
Fairness == \A t \in Tasks :
  WF_vars(Resume(t)) /\ WF_vars(DropGuard(t)) /\ WF_vars(UnlockStep(t)) /\ SF_vars(Clear(t))

Spec     == Init /\ [][Next]_vars
FairSpec == Spec /\ Fairness

-----------------------------------------------------------------------------
Handed(t) == \E u \in Tasks : pc[u] = "waking" /\ t \in ToSet(popped[u])

(* The tasks that own the lock shared, or exclusively: from the swap that
   counts them to the one that does so no longer. *)
Readers == {t \in Tasks : \/ pc[t] \in Reading
                          \/ pc[t] = "read_waiting" /\ (t \in woken \/ Handed(t))}
Writers == {t \in Tasks : \/ pc[t] \in Writing
                          \/ pc[t] = "write_waiting" /\ (t \in woken \/ Handed(t))}
Leaders == {t \in Tasks : pc[t] \in Leading}
Dropped == {t \in Tasks : pc[t] = "dropped"}

(* A writer owns the lock alone, also while the lock is handed over. *)
Exclusion == \A w \in Writers : Writers = {w} /\ Readers \union Leaders = {}

(* The word counts the owners: readers, the writer that is leading them in,
   and every writer, also those in line, and for ever those whose future was
   dropped there.  So it does while a half word can count the tasks. *)
CountsMatch == /\ readers = Cardinality(Readers \union Leaders)
               /\ writers = Cardinality(Writers \union Dropped) + Len(wline)

(* No two unlocks meet in the queues, nobody is woken twice or after leaving,
   and the assertions of the two unlocks hold; that a counted writer is in line
   fails only after one was dropped there. *)
NeverPanics == \A t \in Tasks :
  /\ pc[t] # "panicked"
  /\ pc[t] = "stuck" => Dropped # {}

(* Readers wait only while a writer owns the lock or waits for it, writers only
   while somebody owns it, or since one was dropped in line: otherwise whoever
   waits has somebody to wake it. *)
WaitersHaveLeader ==
  /\ rline # <<>> => writers > 0
  /\ wline # <<>> => Readers \union Writers \union Leaders \union Dropped # {}

(* Writers are served: readers do not pass them, and they queue up. *)
WriterServed == \A t \in Tasks :
  pc[t] = "write_waiting" ~> pc[t] \in {"writing", "write_unlocking"} \/ Dropped # {}

(* Readers are served once writers stop coming; before that, each writer may
   hand the lock over to the next. *)
ReaderServed == <>[](wline = <<>>) =>
  \A t \in Tasks : pc[t] = "read_waiting" ~> pc[t] # "read_waiting" \/ Dropped # {}
-----------------------------------------------------------------------------
(* The inductive invariant behind the safety properties, in parts. *)

Waiting   == {"read_waiting", "write_waiting"}
Borrowing == {"read_notifying", "write_notifying", "counting"}
Guarding  == Borrowing \union {"clearing", "adding", "waking", "leaving"}
Waking    == Leading \union {"waking"}
Shared    == Readers \union Leaders
Counted   == Writers \union Dropped \union ToSet(wline)

(* The values of every variable. *)
TypeOK ==
  /\ readers \in Nat /\ writers \in Nat
  /\ rline \in Seq(Tasks) /\ wline \in Seq(Tasks)
  /\ guards \in SUBSET Tasks /\ borrowed \in BOOLEAN
  /\ pc \in [Tasks -> Steps]
  /\ popped \in [Tasks -> Seq(Tasks)]
  /\ woken \in SUBSET Tasks

(* Who holds a FutexWaitersGuard, and who the borrow of the queues. *)
GuardInv ==
  /\ \A t \in Tasks : t \in guards <=> pc[t] \in Guarding
  /\ \A t \in Tasks : pc[t] \in Borrowing => borrowed /\ \A u \in Tasks : pc[u] \in Borrowing => u = t
  /\ borrowed => \E t \in Tasks : pc[t] \in Borrowing

(* Who is in line, and who was woken. *)
LineInv ==
  /\ NoRepeats(rline) /\ NoRepeats(wline)
  /\ \A t \in ToSet(rline) : pc[t] = "read_waiting" /\ t \notin woken
  /\ \A t \in ToSet(wline) : pc[t] = "write_waiting" /\ t \notin woken
  /\ \A t \in woken : pc[t] \in Waiting
  /\ \A t \in Tasks : pc[t] = "write_waiting" => t \in woken \/ Handed(t) \/ t \in ToSet(wline)

(* What an unlock has in its hands. *)
PopInv == \A u \in Tasks :
  /\ NoRepeats(popped[u])
  /\ popped[u] # <<>> <=> pc[u] \in Waking
  /\ \A t \in ToSet(popped[u]) :
       /\ pc[t] \in Waiting /\ t \notin woken /\ t \notin ToSet(rline) /\ t \notin ToSet(wline)
       /\ pc[u] \in Leading => pc[t] = "read_waiting"
       /\ \A v \in Tasks : t \in ToSet(popped[v]) => v = u

(* What the word counts; a writer waits for the last reader. *)
CountInv ==
  /\ readers = Cardinality(Shared)
  /\ writers = Cardinality(Counted)
  /\ \A t \in Tasks : pc[t] \in {"read_leading", "read_notifying"} => readers = 1 /\ writers > 0

IInv == /\ TypeOK /\ GuardInv /\ LineInv /\ PopInv /\ CountInv
        /\ Exclusion /\ NeverPanics /\ WaitersHaveLeader
=============================================================================
