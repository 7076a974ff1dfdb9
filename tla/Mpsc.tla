-------------------------------- MODULE Mpsc --------------------------------
(***************************************************************************)
(* mpsc.rs: the bounded channel.  Senders claim the buckets of a ring by   *)
(* counting in the futex word and fill them in any order; the receiver     *)
(* empties them in the order of the ring.  A sender that finds the ring    *)
(* full waits in the futex with its message; the receiver that empties a   *)
(* bucket then fills it again with the first waiting message.              *)
(*                                                                         *)
(* The receiver sleeps on recv_state, outside the futex, where it meets    *)
(* the senders: it leaves its waker and looks at the bucket again, they    *)
(* fill the bucket and take the waker.                                     *)
(*                                                                         *)
(* A load and the compare-and-swap that succeeds on it are one step, since *)
(* the swap compares the whole word.  The line is the queue followed by    *)
(* the inbox; the receiver is the futex's only notifier.                   *)
(***************************************************************************)
EXTENDS FutexOps, FiniteSets

CONSTANTS Senders,
          Cap       \* the number of buckets

ASSUME CapAssumption == Cap \in Nat \ {0}
ASSUME NullIsNoSender == Null \notin Senders

VARIABLES
  write_head, size,   \* the two fields of SendState
  line,               \* the waiting senders, oldest first
  filled, data,       \* filled[b], data[b]: bucket b and whose message it holds
  recv_state,         \* "dirty" or "waiting"
  recv_head,          \* the bucket to be emptied next
  pc,                 \* pc[s]: where sender s is
  selected,           \* selected[s]: the bucket s has claimed
  woken,              \* the senders whose waker slot is Done
  rpc,                \* where the receiver is
  result,             \* the message recv is about to return
  handle,             \* the sender popped and not yet woken
  ready               \* the executor was told to poll the receiver

word     == <<write_head, size>>
ring     == <<filled, data>>
sender   == <<pc, selected, woken>>
receiver == <<recv_head, rpc, result, handle>>
vars     == <<write_head, size, line, filled, data, recv_state, recv_head,
              pc, selected, woken, rpc, result, handle, ready>>

Buckets == 0..Cap - 1
Guarded == {"popping", "backfilling", "waking", "returning"}   \* the read lock is held

Goto(s, step) == pc' = [pc EXCEPT ![s] = step]
After(b)      == (b + 1) % Cap

Init == /\ write_head = 0 /\ size = 0
        /\ line = <<>>
        /\ filled = [b \in Buckets |-> FALSE] /\ data = [b \in Buckets |-> Null]
        /\ recv_state = "dirty" /\ recv_head = 0
        /\ pc = [s \in Senders |-> "idle"]
        /\ selected = [s \in Senders |-> 0]
        /\ woken = {}
        /\ rpc = "idle" /\ result = Null /\ handle = Null /\ ready = FALSE

-----------------------------------------------------------------------------
(* send(). *)

Claim(s) ==
  /\ pc[s] = "idle"
  /\ size < Cap
  /\ selected' = [selected EXCEPT ![s] = write_head]
  /\ write_head' = After(write_head) /\ size' = size + 1
  /\ Goto(s, "filling")
  /\ UNCHANGED <<line, ring, recv_state, receiver, woken, ready>>

Fill(s) ==
  /\ pc[s] = "filling"
  /\ data' = [data EXCEPT ![selected[s]] = s]
  /\ filled' = [filled EXCEPT ![selected[s]] = TRUE]
  /\ Goto(s, "notifying")
  /\ UNCHANGED <<word, line, recv_state, receiver, selected, woken, ready>>

Notify(s) ==
  /\ pc[s] = "notifying"
  /\ recv_state' = "dirty"
  /\ Goto(s, IF recv_state = "waiting" THEN "calling" ELSE "idle")
  /\ UNCHANGED <<word, line, ring, receiver, selected, woken, ready>>

CallWaker(s) ==
  /\ pc[s] = "calling"
  /\ ready' = TRUE
  /\ Goto(s, "idle")
  /\ UNCHANGED <<word, line, ring, recv_state, receiver, selected, woken>>

Enter(s) ==
  /\ pc[s] = "idle"
  /\ size >= Cap
  /\ line' = Append(line, s)
  /\ Goto(s, "asleep")
  /\ UNCHANGED <<word, ring, recv_state, receiver, selected, woken, ready>>

Resume(s) ==
  /\ pc[s] = "asleep"
  /\ s \in woken
  /\ woken' = woken \ {s}
  /\ Goto(s, "idle")
  /\ UNCHANGED <<word, line, ring, recv_state, receiver, selected, ready>>

(* Mutant of Cancel: the waiter is removed while the receiver notifies. *)
CancelAmongReaders(s) ==
  /\ pc[s] = "asleep"
  /\ line' = Without(line, s)
  /\ woken' = woken \ {s}
  /\ Goto(s, "idle")
  /\ UNCHANGED <<word, ring, recv_state, receiver, selected, ready>>

(* Dropping a pending send, under the write lock of the futex.  If it was
   woken, its message must be in the ring: nobody is left to send it. *)
Cancel(s) ==
  /\ pc[s] = "asleep"
  /\ rpc \notin Guarded
  /\ line' = Without(line, s)
  /\ woken' = woken \ {s}
  /\ Goto(s, "idle")
  /\ UNCHANGED <<word, ring, recv_state, receiver, selected, ready>>

-----------------------------------------------------------------------------
(* recv(): one poll of its future. *)

RGoto(step) == rpc' = step

Poll ==
  /\ rpc \in {"idle", "pending"}
  /\ ready' = FALSE
  /\ RGoto(IF filled[recv_head] THEN "taking" ELSE "arming")
  /\ UNCHANGED <<word, line, ring, recv_state, sender, recv_head, result, handle>>

Arm ==
  /\ rpc = "arming"
  /\ recv_state' = "waiting"
  /\ RGoto("checking")
  /\ UNCHANGED <<word, line, ring, sender, recv_head, result, handle, ready>>

(* Mutant of Check: the bucket is not looked at again. *)
CheckNothing ==
  /\ rpc = "checking"
  /\ RGoto("pending")
  /\ UNCHANGED <<word, line, ring, recv_state, sender, recv_head, result, handle, ready>>

(* The bucket may have been filled before the waker was left. *)
Check ==
  /\ rpc = "checking"
  /\ RGoto(IF filled[recv_head] THEN "disarming" ELSE "pending")
  /\ UNCHANGED <<word, line, ring, recv_state, sender, recv_head, result, handle, ready>>

Disarm ==
  /\ rpc = "disarming"
  /\ recv_state' = "dirty"
  /\ RGoto("taking")
  /\ UNCHANGED <<word, line, ring, sender, recv_head, result, handle, ready>>

(* Empty the bucket, and lock and borrow the senders' queue. *)
Take ==
  /\ rpc = "taking"
  /\ filled' = [filled EXCEPT ![recv_head] = FALSE]
  /\ result' = data[recv_head]
  /\ recv_head' = After(recv_head)
  /\ RGoto("popping")
  /\ UNCHANGED <<word, line, data, recv_state, sender, handle, ready>>

(* Nobody waits: one message less. *)
Shrink ==
  /\ rpc = "popping"
  /\ line = <<>>
  /\ size' = size - 1
  /\ RGoto("returning")
  /\ UNCHANGED <<write_head, line, ring, recv_state, sender, recv_head, result, handle, ready>>

(* Mutant of Replace: the last in line is let in. *)
ReplaceLast ==
  /\ rpc = "popping"
  /\ line # <<>>
  /\ line' = Front(line)
  /\ handle' = Last(line)
  /\ write_head' = After(write_head)
  /\ RGoto(IF size = Cap THEN "backfilling" ELSE "panicked")
  /\ UNCHANGED <<size, ring, recv_state, sender, recv_head, result, ready>>

(* The first in line takes the place: the ring must be full, so that the place
   after the last message is the bucket just emptied. *)
Replace ==
  /\ rpc = "popping"
  /\ line # <<>>
  /\ line' = Tail(line)
  /\ handle' = Head(line)
  /\ write_head' = After(write_head)
  /\ RGoto(IF size = Cap THEN "backfilling" ELSE "panicked")
  /\ UNCHANGED <<size, ring, recv_state, sender, recv_head, result, ready>>

(* The bucket emptied before is the one behind recv_head. *)
Emptied == (recv_head + Cap - 1) % Cap

Backfill ==
  /\ rpc = "backfilling"
  /\ filled' = [filled EXCEPT ![Emptied] = TRUE]
  /\ data' = [data EXCEPT ![Emptied] = handle]
  /\ RGoto("waking")
  /\ UNCHANGED <<word, line, recv_state, sender, recv_head, result, handle, ready>>

Wake ==
  /\ rpc = "waking"
  /\ woken' = woken \union {handle}
  /\ handle' = Null
  /\ RGoto(IF pc[handle] = "asleep" /\ handle \notin woken THEN "returning" ELSE "panicked")
  /\ UNCHANGED <<word, line, ring, recv_state, pc, selected, recv_head, result, ready>>

Return ==
  /\ rpc = "returning"
  /\ result' = Null
  /\ RGoto("idle")
  /\ UNCHANGED <<word, line, ring, recv_state, sender, recv_head, handle, ready>>

(* The recv future has no Drop of its own: recv_state stays as it is. *)
Forget ==
  /\ rpc = "pending"
  /\ RGoto("idle")
  /\ UNCHANGED <<word, line, ring, recv_state, sender, recv_head, result, handle, ready>>

-----------------------------------------------------------------------------
(* Dropping the handles: Drop for Inner runs with the last of them, and panics
   if there is a waker in recv_state. *)

DropSender(s) ==
  /\ pc[s] = "idle"
  /\ Goto(s, "dropped")
  /\ UNCHANGED <<word, line, ring, recv_state, receiver, selected, woken, ready>>

DropReceiver ==
  /\ rpc = "idle"
  /\ RGoto("dropped")
  /\ UNCHANGED <<word, line, ring, recv_state, sender, recv_head, result, handle, ready>>

SendStep(s) == Fill(s) \/ Notify(s) \/ CallWaker(s) \/ Resume(s)
RecvStep    == \/ Arm \/ Check \/ Disarm \/ Take \/ Shrink \/ Replace
               \/ Backfill \/ Wake \/ Return

Next == \/ \E s \in Senders : \/ Claim(s) \/ SendStep(s) \/ Enter(s) \/ Cancel(s)
                              \/ DropSender(s)
        \/ Poll \/ RecvStep \/ Forget \/ DropReceiver

(* A send or a poll that has begun runs on; a receiver whose waker was called
   is polled.  Nobody is obliged to send, to receive or to drop. *)
Fairness == /\ \A s \in Senders : WF_vars(SendStep(s))
            /\ WF_vars(RecvStep)
            /\ WF_vars(ready /\ rpc = "pending" /\ Poll)

Spec     == Init /\ [][Next]_vars
FairSpec == Spec /\ Fairness

-----------------------------------------------------------------------------
(* The assertions of recv hold and no sender is woken twice or after it left. *)
NeverPanics == rpc # "panicked"

(* A sleeping receiver whose bucket is filled has been woken, or a sender is
   about to take its waker. *)
ReceiverWoken == rpc = "pending" /\ filled[recv_head] =>
  \/ ready
  \/ \E s \in Senders : pc[s] = "calling" \/ (pc[s] = "notifying" /\ recv_state = "waiting")

(* The messages in the ring, from the oldest: what is in the bucket, or what is
   about to be put there. *)
Oldest == (write_head + Cap - size) % Cap
Content(b) ==
  IF rpc = "popping" /\ b = Oldest THEN result
  ELSE IF rpc = "backfilling" /\ b = Emptied THEN handle
  ELSE IF filled[b] THEN data[b]
  ELSE CHOOSE s \in Senders : pc[s] = "filling" /\ selected[s] = b
Items == [i \in 1..size |-> Content((Oldest + i - 1) % Cap)]

(* Messages are received once each, in the order of their claims, and senders
   that wait are let in first come, first served. *)
Abstract == INSTANCE Channel WITH items <- Items, waiting <- line
ImplementsChannel == Abstract!Spec

(* A receiver that waits while there are messages receives one, unless its
   future is dropped. *)
RecvReturns == rpc = "pending" /\ size > 0 ~> rpc \in {"idle", "dropped"}

(* Drop for Inner asserts that no waker is left in recv_state. *)
DropsCleanly ==
  rpc = "dropped" /\ (\A s \in Senders : pc[s] = "dropped") => recv_state = "dirty"

-----------------------------------------------------------------------------
(* The inductive invariant behind the safety properties, in parts. *)

SendSteps == {"idle", "filling", "notifying", "calling", "asleep", "dropped"}
RecvSteps == Guarded \union {"idle", "arming", "checking", "pending", "disarming",
                             "taking", "panicked", "dropped"}

(* The values of every variable. *)
TypeOK ==
  /\ write_head \in Buckets /\ size \in 0..Cap
  /\ line \in Seq(Senders)
  /\ filled \in [Buckets -> BOOLEAN] /\ data \in [Buckets -> Senders \union {Null}]
  /\ recv_state \in {"dirty", "waiting"} /\ recv_head \in Buckets
  /\ pc \in [Senders -> SendSteps] /\ selected \in [Senders -> Buckets]
  /\ woken \in SUBSET Senders
  /\ rpc \in RecvSteps
  /\ result \in Senders \union {Null} /\ handle \in Senders \union {Null}
  /\ ready \in BOOLEAN

(* Senders wait only at a full ring, each in one place. *)
LineInv ==
  /\ NoRepeats(line)
  /\ \A s \in ToSet(line) : pc[s] = "asleep" /\ s \notin woken /\ s # handle
  /\ \A s \in woken : pc[s] = "asleep" /\ s # handle
  /\ handle \in Senders => pc[handle] = "asleep"
  /\ handle # Null <=> rpc \in {"backfilling", "waking"}
  /\ line # <<>> => size = Cap
  /\ rpc = "backfilling" => size = Cap

(* A waker left by the receiver is there, or in the hands of a sender, or was
   called. *)
WakerInv ==
  rpc \in {"checking", "pending"} =>
    recv_state = "waiting" \/ ready \/ \E s \in Senders : pc[s] = "calling"

(* Bucket b holds one of the messages counted, except that the one emptied last
   is a hole until the place is given to the next or given up. *)
Claimed(b) == (b + Cap - Oldest) % Cap < size
Hole(b)    == \/ rpc = "popping" /\ b = Oldest
              \/ rpc = "backfilling" /\ b = Emptied
Filling(s, b) == pc[s] = "filling" /\ selected[s] = b

(* Each bucket claimed is filled, about to be filled by one sender, or the hole. *)
RingInv ==
  /\ recv_head = IF rpc = "popping" THEN After(Oldest) ELSE Oldest
  /\ rpc \in {"disarming", "taking"} => filled[recv_head]
  /\ rpc = "popping" => size > 0 /\ result \in Senders
  /\ \A b \in Buckets :
       /\ filled[b] => Claimed(b) /\ data[b] \in Senders /\ ~Hole(b)
       /\ Claimed(b) => filled[b] \/ Hole(b) \/ \E s \in Senders : Filling(s, b)
       /\ \A s \in Senders : Filling(s, b) =>
            /\ Claimed(b) /\ ~filled[b] /\ ~Hole(b)
            /\ \A r \in Senders : Filling(r, b) => r = s

IInv == TypeOK /\ LineInv /\ WakerInv /\ RingInv /\ NeverPanics /\ ReceiverWoken
=============================================================================
