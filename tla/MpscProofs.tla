----------------------------- MODULE MpscProofs -----------------------------
(***************************************************************************)
(* What the channel guarantees for any set of senders and any number of    *)
(* buckets.  The inductive invariant IInv says which buckets of the ring   *)
(* hold the messages counted, and who fills the others; each action keeps  *)
(* it (the lemmas ...Keeps).  With it, each action is a step of Channel,   *)
(* or none (the lemmas ...Maps).                                           *)
(***************************************************************************)
EXTENDS Mpsc, FutexOpsProofs

USE CapAssumption, NullIsNoSender

-----------------------------------------------------------------------------
(* Counting round the ring. *)

LEMMA ModSmall ==
  ASSUME NEW c \in Nat \ {0}, NEW x \in 0..(c - 1) PROVE x % c = x
OBVIOUS

LEMMA ModOnce ==
  ASSUME NEW c \in Nat \ {0}, NEW x \in c..(2 * c - 1) PROVE x % c = x - c
OBVIOUS

LEMMA AfterIs ==
  ASSUME NEW b \in Buckets
  PROVE  After(b) = IF b = Cap - 1 THEN 0 ELSE b + 1
BY ModSmall, ModOnce DEF After, Buckets

(* The bucket n places behind b. *)
LEMMA BehindIs ==
  ASSUME NEW b \in Buckets, NEW n \in 0..Cap
  PROVE  (b + Cap - n) % Cap = IF n <= b THEN b - n ELSE b + Cap - n
BY ModSmall, ModOnce DEF Buckets

(* The bucket i places after b. *)
LEMMA BeyondIs ==
  ASSUME NEW b \in Buckets, NEW i \in 0..Cap - 1
  PROVE  (b + i) % Cap = IF b + i < Cap THEN b + i ELSE b + i - Cap
<1> DEFINE x == b + i
<1>1. x \in 0..(Cap - 1) \/ x \in Cap..(2 * Cap - 1)
  BY DEF Buckets
<1> HIDE DEF x
<1>2. x % Cap = IF x < Cap THEN x ELSE x - Cap
  BY <1>1, ModSmall, ModOnce
<1> QED BY <1>2 DEF x, Buckets

(* The oldest message's bucket, and the one emptied last. *)
LEMMA OldestIs ==
  ASSUME NEW w \in Buckets, NEW n \in 0..Cap, NEW o, o = (w + Cap - n) % Cap
  PROVE  o \in Buckets /\ o = IF n <= w THEN w - n ELSE w + Cap - n
<1>1. o = IF n <= w THEN w - n ELSE w + Cap - n
  BY BehindIs
<1> QED BY <1>1 DEF Buckets

(* What a step keeps of the ring that leaves the word alone. *)
LEMMA RingFrame ==
  ASSUME UNCHANGED word
  PROVE  Oldest' = Oldest /\ \A b \in Buckets : Claimed(b)' <=> Claimed(b)
BY DEF Oldest, Claimed, word

(* A step that leaves the word and the buckets alone, and is none of those by
   which the hole comes and goes, keeps the order of the ring. *)
LEMMA RingQuiet ==
  ASSUME IInv, UNCHANGED <<word, ring, recv_head, selected, result>>,
         \A s \in Senders : pc'[s] = "filling" <=> pc[s] = "filling",
         rpc' = rpc \/ {rpc, rpc'} \intersect {"popping", "backfilling"} = {},
         rpc' # rpc /\ rpc' \in {"disarming", "taking"} => filled[recv_head]
  PROVE  RingInv'
<1>1. Oldest' = Oldest /\ \A b \in Buckets : Claimed(b)' <=> Claimed(b)
  BY RingFrame
<1>2. Emptied' = Emptied
  BY DEF Emptied
<1>3. \A b \in Buckets : Hole(b)' <=> Hole(b)
  BY <1>1, <1>2 DEF Hole
<1>4. \A b \in Buckets : \A s \in Senders : Filling(s, b)' <=> Filling(s, b)
  BY DEF Filling
<1>5. filled' = filled /\ data' = data
  BY DEF ring
<1>6. /\ recv_head' = IF rpc' = "popping" THEN After(Oldest)' ELSE Oldest'
      /\ rpc' \in {"disarming", "taking"} => filled'[recv_head']
      /\ rpc' = "popping" => size' > 0 /\ result' \in Senders
  BY <1>1, <1>5 DEF IInv, RingInv, word, After
<1> QED BY <1>1, <1>3, <1>4, <1>5, <1>6 DEF IInv, RingInv

(* A step keeps a receiver's chance to be woken that takes no waker away. *)
LEMMA WakerQuiet ==
  ASSUME IInv, rpc' \in {"checking", "pending"} => rpc' = rpc,
         filled' = filled, recv_head' = recv_head, recv_state' = recv_state, ready' = ready,
         \A s \in Senders : pc[s] \in {"calling", "notifying"} => pc'[s] = pc[s]
  PROVE  WakerInv' /\ ReceiverWoken'
<1>1. \A s \in Senders : /\ pc[s] = "calling" => pc'[s] = "calling"
                         /\ pc[s] = "notifying" => pc'[s] = "notifying"
  OBVIOUS
<1>2. WakerInv'
  BY <1>1 DEF IInv, WakerInv
<1>3. ReceiverWoken'
  BY <1>1 DEF IInv, ReceiverWoken
<1> QED BY <1>2, <1>3

-----------------------------------------------------------------------------
(* The steps that leave the ring alone. *)

LEMMA NotifyKeeps ==
  ASSUME NEW s \in Senders, IInv, Notify(s) PROVE IInv'
<1> DEFINE next == IF recv_state = "waiting" THEN "calling" ELSE "idle"
<1>1. /\ pc[s] = "notifying" /\ recv_state' = "dirty"
      /\ UNCHANGED <<write_head, size, line, filled, data, recv_head, rpc, result, handle,
                     selected, woken, ready>>
  BY DEF Notify, word, ring, receiver
<1>2. /\ \A v \in Senders : pc'[v] = IF v = s THEN next ELSE pc[v]
      /\ pc' \in [Senders -> SendSteps]
  BY DEF IInv, TypeOK, SendSteps, Notify, Goto
<1>3. TypeOK'
  BY <1>1, <1>2 DEF IInv, TypeOK
<1>4. LineInv'
  BY <1>1, <1>2, ToSetMembers DEF IInv, LineInv, TypeOK
<1>5. RingInv'
  BY <1>1, <1>2, RingQuiet DEF word, ring
<1>6. WakerInv'
  BY <1>1, <1>2 DEF IInv, WakerInv, TypeOK
<1>7. ReceiverWoken'
  BY <1>1, <1>2 DEF IInv, ReceiverWoken, TypeOK
<1> QED BY <1>1, <1>3, <1>4, <1>5, <1>6, <1>7 DEF IInv, NeverPanics

LEMMA CallWakerKeeps ==
  ASSUME NEW s \in Senders, IInv, CallWaker(s) PROVE IInv'
<1>1. /\ pc[s] = "calling" /\ ready' = TRUE
      /\ UNCHANGED <<write_head, size, line, filled, data, recv_state, recv_head, rpc, result,
                     handle, selected, woken>>
  BY DEF CallWaker, word, ring, receiver
<1>2. /\ \A v \in Senders : pc'[v] = IF v = s THEN "idle" ELSE pc[v]
      /\ pc' \in [Senders -> SendSteps]
  BY DEF IInv, TypeOK, SendSteps, CallWaker, Goto
<1>3. TypeOK'
  BY <1>1, <1>2 DEF IInv, TypeOK
<1>4. LineInv'
  BY <1>1, <1>2, ToSetMembers DEF IInv, LineInv, TypeOK
<1>5. RingInv'
  BY <1>1, <1>2, RingQuiet DEF word, ring
<1>6. WakerInv' /\ ReceiverWoken'
  BY <1>1 DEF WakerInv, ReceiverWoken
<1> QED BY <1>1, <1>3, <1>4, <1>5, <1>6 DEF IInv, NeverPanics

LEMMA EnterKeeps ==
  ASSUME NEW s \in Senders, IInv, Enter(s) PROVE IInv'
<1>1. /\ pc[s] = "idle" /\ size >= Cap /\ line' = Append(line, s)
      /\ UNCHANGED <<write_head, size, filled, data, recv_state, recv_head, rpc, result,
                     handle, selected, woken, ready>>
  BY DEF Enter, word, ring, receiver
<1>2. /\ \A v \in Senders : pc'[v] = IF v = s THEN "asleep" ELSE pc[v]
      /\ pc' \in [Senders -> SendSteps]
  BY DEF IInv, TypeOK, SendSteps, Enter, Goto
<1>3. s \notin ToSet(line) /\ s \notin woken /\ s # handle /\ size = Cap
  BY <1>1 DEF IInv, LineInv, TypeOK
<1>4. line' \in Seq(Senders) /\ NoRepeats(line') /\ ToSet(line') = ToSet(line) \union {s}
  BY <1>1, <1>3, AppendLinks DEF IInv, TypeOK, LineInv
<1>5. TypeOK'
  BY <1>1, <1>2, <1>4 DEF IInv, TypeOK
<1>6. LineInv'
  BY <1>1, <1>2, <1>3, <1>4, ToSetMembers DEF IInv, LineInv, TypeOK
<1>7. RingInv'
  BY <1>1, <1>2, RingQuiet DEF word, ring
<1>8. WakerInv' /\ ReceiverWoken'
  BY <1>1, <1>2, WakerQuiet
<1> QED BY <1>1, <1>5, <1>6, <1>7, <1>8 DEF IInv, NeverPanics

LEMMA ResumeKeeps ==
  ASSUME NEW s \in Senders, IInv, Resume(s) PROVE IInv'
<1>1. /\ pc[s] = "asleep" /\ s \in woken /\ woken' = woken \ {s}
      /\ UNCHANGED <<write_head, size, line, filled, data, recv_state, recv_head, rpc, result,
                     handle, selected, ready>>
  BY DEF Resume, word, ring, receiver
<1>2. /\ \A v \in Senders : pc'[v] = IF v = s THEN "idle" ELSE pc[v]
      /\ pc' \in [Senders -> SendSteps]
  BY DEF IInv, TypeOK, SendSteps, Resume, Goto
<1>3. TypeOK'
  BY <1>1, <1>2 DEF IInv, TypeOK
<1>4. LineInv'
  BY <1>1, <1>2, ToSetMembers DEF IInv, LineInv, TypeOK
<1>5. RingInv'
  BY <1>1, <1>2, RingQuiet DEF word, ring
<1>6. WakerInv' /\ ReceiverWoken'
  BY <1>1, <1>2, WakerQuiet
<1> QED BY <1>1, <1>3, <1>4, <1>5, <1>6 DEF IInv, NeverPanics

(* The receiver has no sender in its hands while the write lock is held. *)
LEMMA CancelKeeps ==
  ASSUME NEW s \in Senders, IInv, Cancel(s) PROVE IInv'
<1>1. /\ pc[s] = "asleep" /\ rpc \notin Guarded
      /\ line' = Without(line, s) /\ woken' = woken \ {s}
      /\ UNCHANGED <<write_head, size, filled, data, recv_state, recv_head, rpc, result,
                     handle, selected, ready>>
  BY DEF Cancel, word, ring, receiver
<1>2. /\ \A v \in Senders : pc'[v] = IF v = s THEN "idle" ELSE pc[v]
      /\ pc' \in [Senders -> SendSteps]
  BY DEF IInv, TypeOK, SendSteps, Cancel, Goto
<1>3. handle = Null
  BY <1>1 DEF IInv, LineInv, Guarded
<1>4. /\ line' \in Seq(Senders) /\ NoRepeats(line') /\ ToSet(line') = ToSet(line) \ {s}
      /\ line = <<>> => line' = <<>>
  BY <1>1, WithoutLinks, WithoutSeq DEF IInv, TypeOK, LineInv
<1>5. TypeOK'
  BY <1>1, <1>2, <1>4 DEF IInv, TypeOK
<1>6. LineInv'
  BY <1>1, <1>2, <1>3, <1>4, ToSetMembers DEF IInv, LineInv, TypeOK
<1>7. RingInv'
  BY <1>1, <1>2, RingQuiet DEF word, ring
<1>8. WakerInv' /\ ReceiverWoken'
  BY <1>1, <1>2, WakerQuiet
<1> QED BY <1>1, <1>5, <1>6, <1>7, <1>8 DEF IInv, NeverPanics

LEMMA DropSenderKeeps ==
  ASSUME NEW s \in Senders, IInv, DropSender(s) PROVE IInv'
<1>1. /\ pc[s] = "idle"
      /\ UNCHANGED <<write_head, size, line, filled, data, recv_state, recv_head, rpc, result,
                     handle, selected, woken, ready>>
  BY DEF DropSender, word, ring, receiver
<1>2. /\ \A v \in Senders : pc'[v] = IF v = s THEN "dropped" ELSE pc[v]
      /\ pc' \in [Senders -> SendSteps]
  BY DEF IInv, TypeOK, SendSteps, DropSender, Goto
<1>3. TypeOK'
  BY <1>1, <1>2 DEF IInv, TypeOK
<1>4. LineInv'
  BY <1>1, <1>2, ToSetMembers DEF IInv, LineInv, TypeOK
<1>5. RingInv'
  BY <1>1, <1>2, RingQuiet DEF word, ring
<1>6. WakerInv' /\ ReceiverWoken'
  BY <1>1, <1>2, WakerQuiet
<1> QED BY <1>1, <1>3, <1>4, <1>5, <1>6 DEF IInv, NeverPanics

(* The steps of the receiver. *)

LEMMA PollKeeps ==
  ASSUME IInv, Poll PROVE IInv'
<1>1. /\ rpc \in {"idle", "pending"} /\ ready' = FALSE
      /\ rpc' = IF filled[recv_head] THEN "taking" ELSE "arming"
      /\ UNCHANGED <<write_head, size, line, filled, data, recv_state, pc, selected, woken,
                     recv_head, result, handle>>
  BY DEF Poll, RGoto, word, ring, sender
<1>2. TypeOK'
  BY <1>1 DEF IInv, TypeOK, RecvSteps
<1>3. LineInv'
  BY <1>1 DEF IInv, LineInv
<1>4. RingInv'
  BY <1>1, RingQuiet DEF word, ring
<1>5. WakerInv' /\ ReceiverWoken' /\ NeverPanics'
  BY <1>1 DEF WakerInv, ReceiverWoken, NeverPanics
<1> QED BY <1>2, <1>3, <1>4, <1>5 DEF IInv

LEMMA ArmKeeps ==
  ASSUME IInv, Arm PROVE IInv'
<1>1. /\ rpc = "arming" /\ recv_state' = "waiting" /\ rpc' = "checking"
      /\ UNCHANGED <<write_head, size, line, filled, data, pc, selected, woken,
                     recv_head, result, handle, ready>>
  BY DEF Arm, RGoto, word, ring, sender
<1>2. TypeOK'
  BY <1>1 DEF IInv, TypeOK, RecvSteps
<1>3. LineInv'
  BY <1>1 DEF IInv, LineInv
<1>4. RingInv'
  BY <1>1, RingQuiet DEF word, ring
<1>5. WakerInv' /\ ReceiverWoken' /\ NeverPanics'
  BY <1>1 DEF WakerInv, ReceiverWoken, NeverPanics
<1> QED BY <1>2, <1>3, <1>4, <1>5 DEF IInv

(* An empty bucket is looked at after the waker was left. *)
LEMMA CheckKeeps ==
  ASSUME IInv, Check PROVE IInv'
<1>1. /\ rpc = "checking"
      /\ rpc' = IF filled[recv_head] THEN "disarming" ELSE "pending"
      /\ UNCHANGED <<write_head, size, line, filled, data, recv_state, pc, selected, woken,
                     recv_head, result, handle, ready>>
  BY DEF Check, RGoto, word, ring, sender
<1>2. TypeOK'
  BY <1>1 DEF IInv, TypeOK, RecvSteps
<1>3. LineInv'
  BY <1>1 DEF IInv, LineInv
<1>4. RingInv'
  BY <1>1, RingQuiet DEF word, ring
<1>5. WakerInv' /\ ReceiverWoken' /\ NeverPanics'
  BY <1>1 DEF IInv, WakerInv, ReceiverWoken, NeverPanics
<1> QED BY <1>2, <1>3, <1>4, <1>5 DEF IInv

LEMMA DisarmKeeps ==
  ASSUME IInv, Disarm PROVE IInv'
<1>1. /\ rpc = "disarming" /\ recv_state' = "dirty" /\ rpc' = "taking"
      /\ UNCHANGED <<write_head, size, line, filled, data, pc, selected, woken,
                     recv_head, result, handle, ready>>
  BY DEF Disarm, RGoto, word, ring, sender
<1>2. TypeOK'
  BY <1>1 DEF IInv, TypeOK, RecvSteps, Guarded
<1>3. LineInv'
  BY <1>1 DEF IInv, LineInv
<1>4. RingInv'
  <2>1. filled[recv_head]
    BY <1>1 DEF IInv, RingInv
  <2> QED BY <1>1, <2>1, RingQuiet DEF word, ring
<1>5. WakerInv' /\ ReceiverWoken' /\ NeverPanics'
  BY <1>1 DEF WakerInv, ReceiverWoken, NeverPanics
<1> QED BY <1>2, <1>3, <1>4, <1>5 DEF IInv

LEMMA WakeKeeps ==
  ASSUME IInv, Wake PROVE IInv'
<1>1. /\ rpc = "waking" /\ woken' = woken \union {handle} /\ handle' = Null
      /\ UNCHANGED <<write_head, size, line, filled, data, recv_state, pc, selected,
                     recv_head, result, ready>>
  BY DEF Wake, word, ring
<1>2. handle \in Senders /\ pc[handle] = "asleep" /\ handle \notin woken
  BY <1>1 DEF IInv, LineInv, TypeOK
<1>3. rpc' = "returning"
  BY <1>2 DEF Wake, RGoto
<1>4. TypeOK'
  BY <1>1, <1>2, <1>3 DEF IInv, TypeOK, RecvSteps, Guarded
<1>5. LineInv'
  BY <1>1, <1>2, <1>3, ToSetMembers DEF IInv, LineInv, TypeOK
<1>6. RingInv'
  BY <1>1, <1>3, RingQuiet DEF word, ring
<1>7. WakerInv' /\ ReceiverWoken' /\ NeverPanics'
  BY <1>3 DEF WakerInv, ReceiverWoken, NeverPanics
<1> QED BY <1>4, <1>5, <1>6, <1>7 DEF IInv

LEMMA ReturnKeeps ==
  ASSUME IInv, Return PROVE IInv'
<1>1. /\ rpc = "returning" /\ rpc' = "idle" /\ result' = Null
      /\ UNCHANGED <<write_head, size, line, filled, data, recv_state, pc, selected, woken,
                     recv_head, handle, ready>>
  BY DEF Return, RGoto, word, ring, sender
<1>2. TypeOK'
  BY <1>1 DEF IInv, TypeOK, RecvSteps
<1>3. LineInv'
  BY <1>1 DEF IInv, LineInv
<1>4. RingInv'
  <2>1. /\ Oldest' = Oldest /\ Emptied' = Emptied
        /\ \A b \in Buckets : Claimed(b)' <=> Claimed(b)
    BY <1>1, RingFrame DEF word, Emptied
  <2>2. \A b \in Buckets : ~Hole(b)' /\ ~Hole(b)
    BY <1>1 DEF Hole
  <2>3. \A b \in Buckets : \A s \in Senders : Filling(s, b)' <=> Filling(s, b)
    BY <1>1 DEF Filling
  <2> QED BY <1>1, <2>1, <2>2, <2>3 DEF IInv, RingInv
<1>5. WakerInv' /\ ReceiverWoken' /\ NeverPanics'
  BY <1>1 DEF WakerInv, ReceiverWoken, NeverPanics
<1> QED BY <1>2, <1>3, <1>4, <1>5 DEF IInv

LEMMA ForgetKeeps ==
  ASSUME IInv, Forget PROVE IInv'
<1>1. /\ rpc = "pending" /\ rpc' = "idle"
      /\ UNCHANGED <<write_head, size, line, filled, data, recv_state, pc, selected, woken,
                     recv_head, result, handle, ready>>
  BY DEF Forget, RGoto, word, ring, sender
<1>2. TypeOK'
  BY <1>1 DEF IInv, TypeOK, RecvSteps
<1>3. LineInv'
  BY <1>1 DEF IInv, LineInv
<1>4. RingInv'
  BY <1>1, RingQuiet DEF word, ring
<1>5. WakerInv' /\ ReceiverWoken' /\ NeverPanics'
  BY <1>1 DEF WakerInv, ReceiverWoken, NeverPanics
<1> QED BY <1>2, <1>3, <1>4, <1>5 DEF IInv

LEMMA DropReceiverKeeps ==
  ASSUME IInv, DropReceiver PROVE IInv'
<1>1. /\ rpc = "idle" /\ rpc' = "dropped"
      /\ UNCHANGED <<write_head, size, line, filled, data, recv_state, pc, selected, woken,
                     recv_head, result, handle, ready>>
  BY DEF DropReceiver, RGoto, word, ring, sender
<1>2. TypeOK'
  BY <1>1 DEF IInv, TypeOK, RecvSteps
<1>3. LineInv'
  BY <1>1 DEF IInv, LineInv
<1>4. RingInv'
  BY <1>1, RingQuiet DEF word, ring
<1>5. WakerInv' /\ ReceiverWoken' /\ NeverPanics'
  BY <1>1 DEF WakerInv, ReceiverWoken, NeverPanics
<1> QED BY <1>2, <1>3, <1>4, <1>5 DEF IInv

-----------------------------------------------------------------------------
(* The steps that move messages round the ring. *)

(* How the window of claimed buckets lies in the ring. *)
Window ==
  /\ Oldest \in Buckets
  /\ Oldest = IF size <= write_head THEN write_head - size ELSE write_head + Cap - size
  /\ Emptied \in Buckets
  /\ Emptied = IF recv_head = 0 THEN Cap - 1 ELSE recv_head - 1
  /\ \A b \in Buckets :
       Claimed(b) <=> (IF Oldest <= b THEN b - Oldest ELSE b + Cap - Oldest) < size

LEMMA WindowLies == TypeOK => Window
<1> SUFFICES ASSUME TypeOK PROVE Window
  OBVIOUS
<1>1. write_head \in Buckets /\ size \in 0..Cap /\ recv_head \in Buckets
  BY DEF TypeOK
<1>2. /\ Oldest = IF size <= write_head THEN write_head - size ELSE write_head + Cap - size
      /\ Oldest \in Buckets
  BY <1>1, OldestIs DEF Oldest
<1>3. /\ Emptied = IF recv_head = 0 THEN Cap - 1 ELSE recv_head - 1
      /\ Emptied \in Buckets
  <2>1. (recv_head + Cap - 1) % Cap = IF 1 <= recv_head THEN recv_head - 1 ELSE recv_head + Cap - 1
    BY <1>1, BehindIs
  <2> QED BY <1>1, <2>1 DEF Emptied, Buckets
<1>4. ASSUME NEW b \in Buckets
      PROVE  Claimed(b) <=> (IF Oldest <= b THEN b - Oldest ELSE b + Cap - Oldest) < size
  <2>1. Oldest \in 0..Cap
    BY <1>2 DEF Buckets
  <2>2. (b + Cap - Oldest) % Cap = IF Oldest <= b THEN b - Oldest ELSE b + Cap - Oldest
    BY <2>1, BehindIs
  <2> QED BY <2>2 DEF Claimed
<1> QED BY <1>2, <1>3, <1>4 DEF Window

LEMMA WindowLiesNext == TypeOK' => Window'
BY WindowLies, PTL

(* A claim lengthens the window by the bucket behind its end. *)
LEMMA ClaimMoves ==
  ASSUME TypeOK, TypeOK', size < Cap, write_head' = After(write_head), size' = size + 1
  PROVE  /\ Oldest' = Oldest
         /\ ~Claimed(write_head) /\ (size > 0 => write_head # Oldest)
         /\ \A b \in Buckets : Claimed(b)' <=> Claimed(b) \/ b = write_head
<1>1. write_head \in Buckets /\ size \in 0..Cap
  BY DEF TypeOK
<1>2. write_head' = IF write_head = Cap - 1 THEN 0 ELSE write_head + 1
  BY <1>1, AfterIs
<1>3. Window /\ Window'
  BY WindowLies, WindowLiesNext
<1>4. Oldest' = Oldest
  BY <1>1, <1>2, <1>3 DEF Window, Buckets
<1>5. ~Claimed(write_head) /\ (size > 0 => write_head # Oldest)
  BY <1>1, <1>3 DEF Window, Buckets
<1>6. \A b \in Buckets : Claimed(b)' <=> Claimed(b) \/ b = write_head
  BY <1>1, <1>3, <1>4 DEF Window, Buckets
<1> QED BY <1>4, <1>5, <1>6

(* Giving up the oldest bucket shortens it at its front. *)
LEMMA ShrinkMoves ==
  ASSUME TypeOK, TypeOK', size > 0, write_head' = write_head, size' = size - 1
  PROVE  /\ Oldest' = After(Oldest)
         /\ \A b \in Buckets : Claimed(b)' <=> Claimed(b) /\ b # Oldest
<1>1. write_head \in Buckets /\ size \in 0..Cap
  BY DEF TypeOK
<1>2. Window /\ Window'
  BY WindowLies, WindowLiesNext
<1>3. After(Oldest) = IF Oldest = Cap - 1 THEN 0 ELSE Oldest + 1
  BY <1>2, AfterIs DEF Window
<1>4. Oldest' = After(Oldest)
  BY <1>1, <1>2, <1>3 DEF Window, Buckets
<1>5. \A b \in Buckets : Claimed(b)' <=> Claimed(b) /\ b # Oldest
  BY <1>1, <1>2, <1>3, <1>4 DEF Window, Buckets
<1> QED BY <1>4, <1>5

(* In a full ring the bucket of the oldest message is the next one to claim. *)
LEMMA ReplaceMoves ==
  ASSUME TypeOK, TypeOK', size = Cap, write_head' = After(write_head), UNCHANGED size,
         recv_head' = recv_head, recv_head = After(Oldest)
  PROVE  /\ Oldest' = After(Oldest) /\ Emptied' = Oldest
         /\ \A b \in Buckets : Claimed(b)' /\ Claimed(b)
<1>1. write_head \in Buckets /\ recv_head \in Buckets
  BY DEF TypeOK
<1>2. Window /\ Window'
  BY WindowLies, WindowLiesNext
<1>3. /\ write_head' = IF write_head = Cap - 1 THEN 0 ELSE write_head + 1
      /\ After(Oldest) = IF Oldest = Cap - 1 THEN 0 ELSE Oldest + 1
  BY <1>1, <1>2, AfterIs DEF Window
<1>4. Oldest' = After(Oldest) /\ Emptied' = Oldest
  BY <1>1, <1>2, <1>3 DEF Window, Buckets
<1>5. \A b \in Buckets : Claimed(b)' /\ Claimed(b)
  BY <1>1, <1>2 DEF Window, Buckets
<1> QED BY <1>4, <1>5

LEMMA ClaimKeeps ==
  ASSUME NEW s \in Senders, IInv, Claim(s) PROVE IInv'
<1> DEFINE w == write_head
<1>1. /\ pc[s] = "idle" /\ size < Cap
      /\ write_head' = After(w) /\ size' = size + 1
      /\ UNCHANGED <<line, filled, data, recv_state, recv_head, rpc, result, handle, woken, ready>>
  BY DEF Claim, ring, receiver
<1>2. /\ \A v \in Senders : pc'[v] = IF v = s THEN "filling" ELSE pc[v]
      /\ pc' \in [Senders -> SendSteps]
  BY DEF IInv, TypeOK, SendSteps, Claim, Goto
<1>3. w \in Buckets /\ size \in 0..Cap /\ selected \in [Senders -> Buckets]
  BY DEF IInv, TypeOK
<1>4. /\ \A v \in Senders : selected'[v] = IF v = s THEN w ELSE selected[v]
      /\ selected' \in [Senders -> Buckets]
  BY <1>3 DEF Claim
<1>5. After(w) \in Buckets /\ size' \in 0..Cap
  BY <1>1, <1>3, AfterIs DEF Buckets
<1>6. TypeOK'
  BY <1>1, <1>2, <1>4, <1>5 DEF IInv, TypeOK
<1>7. LineInv'
  BY <1>1, <1>2, <1>3, ToSetMembers DEF IInv, LineInv, TypeOK
<1>8. WakerInv' /\ ReceiverWoken'
  BY <1>1, <1>2, WakerQuiet
<1>9. /\ Oldest' = Oldest
      /\ ~Claimed(w) /\ (size > 0 => w # Oldest)
      /\ \A b \in Buckets : Claimed(b)' <=> Claimed(b) \/ b = w
  BY <1>1, <1>6, ClaimMoves DEF IInv
<1>10. rpc # "backfilling"
  BY <1>1, <1>3 DEF IInv, LineInv
<1>11. \A b \in Buckets : (Hole(b)' <=> Hole(b)) /\ ~Hole(w)
  BY <1>1, <1>9, <1>10 DEF Hole, IInv, RingInv
<1>12. \A b \in Buckets : \A v \in Senders : Filling(v, b)' <=> Filling(v, b) \/ (v = s /\ b = w)
  BY <1>1, <1>2, <1>4 DEF Filling
<1>13. ~filled[w] /\ \A v \in Senders : ~Filling(v, w)
  BY <1>3, <1>9 DEF IInv, RingInv
<1>14. RingInv'
  <2>1. /\ recv_head' = IF rpc' = "popping" THEN After(Oldest)' ELSE Oldest'
        /\ rpc' \in {"disarming", "taking"} => filled'[recv_head']
        /\ rpc' = "popping" => size' > 0 /\ result' \in Senders
    BY <1>1, <1>3, <1>9 DEF IInv, RingInv, After
  <2>2. ASSUME NEW b \in Buckets
        PROVE  /\ filled'[b] => Claimed(b)' /\ data'[b] \in Senders /\ ~Hole(b)'
               /\ Claimed(b)' => filled'[b] \/ Hole(b)' \/ \E v \in Senders : Filling(v, b)'
    BY <1>1, <1>9, <1>11, <1>12 DEF IInv, RingInv
  <2>3. ASSUME NEW b \in Buckets, NEW v \in Senders, Filling(v, b)'
        PROVE  /\ Claimed(b)' /\ ~filled'[b] /\ ~Hole(b)'
               /\ \A r \in Senders : Filling(r, b)' => r = v
    BY <1>1, <1>9, <1>11, <1>12, <1>13, <2>3 DEF IInv, RingInv
  <2> QED BY <2>1, <2>2, <2>3 DEF RingInv
<1> QED BY <1>1, <1>6, <1>7, <1>8, <1>14 DEF IInv, NeverPanics

LEMMA FillKeeps ==
  ASSUME NEW s \in Senders, IInv, Fill(s) PROVE IInv'
<1>1. /\ pc[s] = "filling"
      /\ UNCHANGED <<write_head, size, line, recv_state, recv_head, rpc, result, handle,
                     selected, woken, ready>>
  BY DEF Fill, word, receiver
<1>2. /\ \A v \in Senders : pc'[v] = IF v = s THEN "notifying" ELSE pc[v]
      /\ pc' \in [Senders -> SendSteps]
  BY DEF IInv, TypeOK, SendSteps, Fill, Goto
<1>3. PICK c \in Buckets : c = selected[s]
  BY DEF IInv, TypeOK
<1>4. /\ \A b \in Buckets : filled'[b] = IF b = c THEN TRUE ELSE filled[b]
      /\ \A b \in Buckets : data'[b] = IF b = c THEN s ELSE data[b]
      /\ filled' \in [Buckets -> BOOLEAN] /\ data' \in [Buckets -> Senders \union {Null}]
  BY <1>3 DEF Fill, IInv, TypeOK
<1>5. TypeOK'
  BY <1>1, <1>2, <1>4 DEF IInv, TypeOK
<1>6. LineInv'
  BY <1>1, <1>2, ToSetMembers DEF IInv, LineInv, TypeOK
<1>7. WakerInv'
  BY <1>1, <1>2 DEF IInv, WakerInv
<1>8. ReceiverWoken'
  <2>1. CASE rpc = "pending" /\ ~ready /\ \A v \in Senders : pc[v] # "calling"
    BY <1>1, <1>2, <2>1 DEF IInv, WakerInv, ReceiverWoken
  <2>2. CASE \E v \in Senders : pc[v] = "calling"
    BY <1>1, <1>2, <2>2 DEF ReceiverWoken
  <2> QED BY <1>1, <2>1, <2>2 DEF ReceiverWoken
<1>9. Oldest' = Oldest /\ \A b \in Buckets : (Claimed(b)' <=> Claimed(b)) /\ (Hole(b)' <=> Hole(b))
  BY <1>1, RingFrame DEF word, Hole, Emptied
<1>10. \A b \in Buckets : \A v \in Senders : Filling(v, b)' <=> Filling(v, b) /\ v # s
  BY <1>1, <1>2 DEF Filling
<1>11. Filling(s, c) /\ Claimed(c) /\ ~Hole(c) /\ \A b \in Buckets : Filling(s, b) => b = c
  BY <1>1, <1>3 DEF IInv, RingInv, Filling
<1>12. RingInv'
  <2>1. /\ recv_head' = IF rpc' = "popping" THEN After(Oldest)' ELSE Oldest'
        /\ rpc' \in {"disarming", "taking"} => filled'[recv_head']
        /\ rpc' = "popping" => size' > 0 /\ result' \in Senders
    BY <1>1, <1>4, <1>9 DEF IInv, RingInv, TypeOK, After
  <2>2. ASSUME NEW b \in Buckets
        PROVE  /\ filled'[b] => Claimed(b)' /\ data'[b] \in Senders /\ ~Hole(b)'
               /\ Claimed(b)' => filled'[b] \/ Hole(b)' \/ \E v \in Senders : Filling(v, b)'
    <3>1. CASE b = c
      BY <1>4, <1>9, <1>11, <3>1
    <3>2. CASE b # c
      <4>1. \A v \in Senders : Filling(v, b)' <=> Filling(v, b)
        BY <1>10, <1>11, <3>2
      <4> QED BY <1>4, <1>9, <3>2, <4>1 DEF IInv, RingInv
    <3> QED BY <3>1, <3>2
  <2>3. ASSUME NEW b \in Buckets, NEW v \in Senders, Filling(v, b)'
        PROVE  /\ Claimed(b)' /\ ~filled'[b] /\ ~Hole(b)'
               /\ \A r \in Senders : Filling(r, b)' => r = v
    <3>1. Filling(v, b) /\ v # s
      BY <1>10, <2>3
    <3>2. /\ Claimed(b) /\ ~filled[b] /\ ~Hole(b)
          /\ \A r \in Senders : Filling(r, b) => r = v
      BY <3>1 DEF IInv, RingInv
    <3>3. b # c
      BY <1>11, <3>1, <3>2
    <3> QED BY <1>4, <1>9, <1>10, <3>2, <3>3
  <2> QED BY <2>1, <2>2, <2>3 DEF RingInv
<1> QED BY <1>1, <1>5, <1>6, <1>7, <1>8, <1>12 DEF IInv, NeverPanics

LEMMA TakeKeeps ==
  ASSUME IInv, Take PROVE IInv'
<1> DEFINE o == Oldest
<1>1. /\ rpc = "taking" /\ rpc' = "popping"
      /\ UNCHANGED <<write_head, size, line, data, recv_state, pc, selected, woken, handle, ready>>
  BY DEF Take, RGoto, word, sender
<1>2. recv_head = o /\ filled[o] /\ o \in Buckets
  BY <1>1 DEF IInv, RingInv, TypeOK
<1>3. /\ recv_head' = After(o) /\ result' = data[o] /\ data[o] \in Senders
      /\ \A b \in Buckets : filled'[b] = IF b = o THEN FALSE ELSE filled[b]
      /\ filled' \in [Buckets -> BOOLEAN]
  BY <1>2 DEF Take, IInv, TypeOK, RingInv
<1>4. After(o) \in Buckets
  BY <1>2, AfterIs DEF Buckets
<1>5. size > 0
  BY <1>2, WindowLies DEF IInv, RingInv, TypeOK, Window, Buckets
<1> HIDE DEF o
<1>6. TypeOK'
  BY <1>1, <1>3, <1>4 DEF IInv, TypeOK, RecvSteps, Guarded
<1>7. LineInv'
  BY <1>1 DEF IInv, LineInv
<1>8. WakerInv' /\ ReceiverWoken' /\ NeverPanics'
  BY <1>1 DEF WakerInv, ReceiverWoken, NeverPanics
<1>9. /\ Oldest = o /\ Oldest' = o
      /\ \A b \in Buckets : Claimed(b)' <=> Claimed(b)
  BY <1>1, RingFrame DEF word, o
<1>10. \A b \in Buckets : ~Hole(b) /\ (Hole(b)' <=> b = o)
  BY <1>1, <1>9 DEF Hole
<1>11. \A b \in Buckets : \A v \in Senders : Filling(v, b)' <=> Filling(v, b)
  BY <1>1 DEF Filling
<1>12. RingInv'
  <2>1. /\ recv_head' = IF rpc' = "popping" THEN After(Oldest)' ELSE Oldest'
        /\ rpc' \in {"disarming", "taking"} => filled'[recv_head']
        /\ rpc' = "popping" => size' > 0 /\ result' \in Senders
    BY <1>1, <1>3, <1>5, <1>9 DEF After
  <2>2. ASSUME NEW b \in Buckets
        PROVE  /\ filled'[b] => Claimed(b)' /\ data'[b] \in Senders /\ ~Hole(b)'
               /\ Claimed(b)' => filled'[b] \/ Hole(b)' \/ \E v \in Senders : Filling(v, b)'
    BY <1>1, <1>3, <1>9, <1>10, <1>11 DEF IInv, RingInv
  <2>3. ASSUME NEW b \in Buckets, NEW v \in Senders, Filling(v, b)'
        PROVE  /\ Claimed(b)' /\ ~filled'[b] /\ ~Hole(b)'
               /\ \A r \in Senders : Filling(r, b)' => r = v
    <3>1. Filling(v, b) /\ Claimed(b) /\ ~filled[b] /\ \A r \in Senders : Filling(r, b) => r = v
      BY <1>11, <2>3 DEF IInv, RingInv
    <3>2. b # o
      BY <1>2, <3>1
    <3> QED BY <1>3, <1>9, <1>10, <1>11, <3>1, <3>2
  <2> QED BY <2>1, <2>2, <2>3 DEF RingInv
<1> QED BY <1>6, <1>7, <1>8, <1>12 DEF IInv

LEMMA ShrinkKeeps ==
  ASSUME IInv, Shrink PROVE IInv'
<1>1. /\ rpc = "popping" /\ line = <<>> /\ size' = size - 1 /\ rpc' = "returning"
      /\ UNCHANGED <<write_head, line, filled, data, recv_state, pc, selected, woken,
                     recv_head, result, handle, ready>>
  BY DEF Shrink, RGoto, ring, sender
<1>2. size \in 0..Cap /\ size > 0 /\ recv_head = After(Oldest)
  BY <1>1 DEF IInv, TypeOK, RingInv
<1>3. size' \in 0..Cap
  BY <1>1, <1>2
<1>4. TypeOK'
  BY <1>1, <1>3 DEF IInv, TypeOK, RecvSteps, Guarded
<1>5. LineInv'
  BY <1>1 DEF IInv, LineInv
<1>6. WakerInv' /\ ReceiverWoken' /\ NeverPanics'
  BY <1>1 DEF WakerInv, ReceiverWoken, NeverPanics
<1>7. /\ Oldest' = After(Oldest)
      /\ \A b \in Buckets : Claimed(b)' <=> Claimed(b) /\ b # Oldest
  BY <1>1, <1>2, <1>4, ShrinkMoves DEF IInv
<1>8. \A b \in Buckets : ~Hole(b)' /\ (Hole(b) <=> b = Oldest)
  BY <1>1 DEF Hole
<1>9. \A b \in Buckets : \A v \in Senders : Filling(v, b)' <=> Filling(v, b)
  BY <1>1 DEF Filling
<1>10. RingInv'
  BY <1>1, <1>2, <1>7, <1>8, <1>9 DEF IInv, RingInv
<1> QED BY <1>4, <1>5, <1>6, <1>10 DEF IInv

(* Senders wait only at a full ring: the place is there to be given on. *)
LEMMA ReplaceKeeps ==
  ASSUME IInv, Replace PROVE IInv'
<1>1. /\ rpc = "popping" /\ line # <<>> /\ line' = Tail(line) /\ write_head' = After(write_head)
      /\ UNCHANGED <<size, filled, data, recv_state, pc, selected, woken, recv_head, result, ready>>
  BY DEF Replace, ring, sender
<1>2. size = Cap /\ rpc' = "backfilling" /\ recv_head = After(Oldest) /\ write_head \in Buckets
  BY <1>1 DEF Replace, RGoto, IInv, TypeOK, LineInv, RingInv
<1>3. PICK h \in Senders : h = Head(line)
  BY <1>1, TailLinks DEF IInv, TypeOK, LineInv
<1>4. /\ line' \in Seq(Senders) /\ NoRepeats(line') /\ h \in ToSet(line) /\ handle' = h
      /\ ToSet(line') = ToSet(line) \ {h}
  BY <1>1, <1>3, TailLinks DEF Replace, IInv, TypeOK, LineInv
<1>5. After(write_head) \in Buckets
  BY <1>2, AfterIs DEF Buckets
<1>6. TypeOK'
  BY <1>1, <1>2, <1>4, <1>5 DEF IInv, TypeOK, RecvSteps, Guarded
<1>7. LineInv'
  <2>1. handle = Null
    BY <1>1 DEF IInv, LineInv
  <2> QED BY <1>1, <1>2, <1>4, <2>1 DEF IInv, LineInv
<1>8. WakerInv' /\ ReceiverWoken' /\ NeverPanics'
  BY <1>2 DEF WakerInv, ReceiverWoken, NeverPanics
<1>9. /\ Oldest' = After(Oldest) /\ Emptied' = Oldest
      /\ \A b \in Buckets : Claimed(b)' /\ Claimed(b)
  BY <1>1, <1>2, <1>6, ReplaceMoves DEF IInv
<1>10. \A b \in Buckets : Hole(b)' <=> Hole(b)
  BY <1>1, <1>2, <1>9 DEF Hole
<1>11. \A b \in Buckets : \A v \in Senders : Filling(v, b)' <=> Filling(v, b)
  BY <1>1 DEF Filling
<1>12. RingInv'
  BY <1>1, <1>2, <1>9, <1>10, <1>11 DEF IInv, RingInv
<1> QED BY <1>6, <1>7, <1>8, <1>12 DEF IInv

LEMMA BackfillKeeps ==
  ASSUME IInv, Backfill PROVE IInv'
<1> DEFINE e == Emptied
<1>1. /\ rpc = "backfilling" /\ rpc' = "waking"
      /\ UNCHANGED <<write_head, size, line, recv_state, pc, selected, woken,
                     recv_head, result, handle, ready>>
  BY DEF Backfill, RGoto, word, sender
<1>2. e \in Buckets /\ handle \in Senders /\ size = Cap
  BY <1>1, WindowLies DEF IInv, LineInv, TypeOK, Window
<1>3. /\ \A b \in Buckets : filled'[b] = IF b = e THEN TRUE ELSE filled[b]
      /\ \A b \in Buckets : data'[b] = IF b = e THEN handle ELSE data[b]
      /\ filled' \in [Buckets -> BOOLEAN] /\ data' \in [Buckets -> Senders \union {Null}]
  BY <1>2 DEF Backfill, IInv, TypeOK
<1>4. \A b \in Buckets : ~Hole(b)' /\ (Hole(b) <=> b = e)
  BY <1>1 DEF Hole
<1>5. Oldest' = Oldest /\ \A b \in Buckets : Claimed(b)' <=> Claimed(b)
  BY <1>1, RingFrame DEF word
<1>6. \A b \in Buckets : Claimed(b)
  BY <1>2, WindowLies DEF IInv, TypeOK, Window, Buckets
<1> HIDE DEF e
<1>7. \A b \in Buckets : \A v \in Senders : Filling(v, b)' <=> Filling(v, b)
  BY <1>1 DEF Filling
<1>8. TypeOK'
  BY <1>1, <1>3 DEF IInv, TypeOK, RecvSteps, Guarded
<1>9. LineInv'
  BY <1>1 DEF IInv, LineInv
<1>10. WakerInv' /\ ReceiverWoken' /\ NeverPanics'
  BY <1>1 DEF WakerInv, ReceiverWoken, NeverPanics
<1>11. RingInv'
  <2>1. recv_head' = Oldest'
    BY <1>1, <1>5 DEF IInv, RingInv
  <2>2. ASSUME NEW b \in Buckets
        PROVE  /\ filled'[b] => Claimed(b)' /\ data'[b] \in Senders
               /\ Claimed(b)' => filled'[b] \/ \E v \in Senders : Filling(v, b)'
    BY <1>2, <1>3, <1>4, <1>5, <1>6, <1>7 DEF IInv, RingInv
  <2>3. ASSUME NEW b \in Buckets, NEW v \in Senders, Filling(v, b)'
        PROVE  /\ Claimed(b)' /\ ~filled'[b]
               /\ \A r \in Senders : Filling(r, b)' => r = v
    BY <1>2, <1>3, <1>4, <1>5, <1>7, <2>3 DEF IInv, RingInv
  <2> QED BY <1>1, <1>4, <2>1, <2>2, <2>3 DEF RingInv
<1> QED BY <1>8, <1>9, <1>10, <1>11 DEF IInv

-----------------------------------------------------------------------------
(* The invariant holds of every behaviour. *)

LEMMA InitIInv ==
  ASSUME Init PROVE IInv
<1>1. 0 \in Buckets /\ 0 \in 0..Cap
  BY DEF Buckets
<1>2. TypeOK
  BY <1>1, EmptySeq DEF Init, TypeOK, SendSteps, RecvSteps, Guarded
<1>3. LineInv
  BY EmptyLinks DEF Init, LineInv
<1>4. WakerInv /\ ReceiverWoken /\ NeverPanics
  BY DEF Init, WakerInv, ReceiverWoken, NeverPanics
<1>5. RingInv
  <2>1. Oldest = 0
    BY <1>2, WindowLies DEF Init, Window, Buckets
  <2>2. \A b \in Buckets : ~Claimed(b)
    BY <1>2, <2>1, WindowLies DEF Init, Window, Buckets
  <2> QED BY <1>1, <2>1, <2>2 DEF Init, RingInv, Filling
<1> QED BY <1>2, <1>3, <1>4, <1>5 DEF IInv

LEMMA NextIInv ==
  ASSUME IInv, [Next]_vars PROVE IInv'
<1>1. CASE UNCHANGED vars
  <2>1. TypeOK' /\ LineInv' /\ WakerInv' /\ ReceiverWoken' /\ NeverPanics'
    BY <1>1 DEF vars, IInv, TypeOK, LineInv, WakerInv, ReceiverWoken, NeverPanics
  <2>2. RingInv'
    BY <1>1, RingQuiet DEF vars, word, ring
  <2> QED BY <2>1, <2>2 DEF IInv
<1>2. ASSUME NEW s \in Senders, Claim(s) \/ SendStep(s) \/ Enter(s) \/ Cancel(s) \/ DropSender(s)
      PROVE  IInv'
  BY <1>2, ClaimKeeps, FillKeeps, NotifyKeeps, CallWakerKeeps, ResumeKeeps, EnterKeeps,
     CancelKeeps, DropSenderKeeps DEF SendStep
<1>3. CASE Poll \/ RecvStep \/ Forget \/ DropReceiver
  BY <1>3, PollKeeps, ArmKeeps, CheckKeeps, DisarmKeeps, TakeKeeps, ShrinkKeeps, ReplaceKeeps,
     BackfillKeeps, WakeKeeps, ReturnKeeps, ForgetKeeps, DropReceiverKeeps DEF RecvStep
<1> QED BY <1>1, <1>2, <1>3 DEF Next

(* IInv is inductive: it holds in every state of the channel. *)
THEOREM Invariance == Spec => []IInv
<1>1. Init => IInv
  BY InitIInv
<1>2. IInv /\ [Next]_vars => IInv'
  BY NextIInv
<1> QED BY <1>1, <1>2, PTL DEF Spec

(* Senders wait only at a full ring, and none is woken twice or after it left. *)
THEOREM ReceiverNeverPanics == Spec => []NeverPanics
<1>1. IInv => NeverPanics
  BY DEF IInv
<1> QED BY <1>1, Invariance, PTL

(* No message is left in the ring with the receiver asleep and nobody to wake
   it. *)
THEOREM ReceiverIsWoken == Spec => []ReceiverWoken
<1>1. IInv => ReceiverWoken
  BY DEF IInv
<1> QED BY <1>1, Invariance, PTL

-----------------------------------------------------------------------------
(* The channel implements Channel: the messages in the window of the ring are
   its items, also while they are on their way into their buckets. *)

(* The i-th message's bucket. *)
Slot(i) == (Oldest + i - 1) % Cap

(* Whose message a bucket holds, by the four states it can be in. *)
Contents == \A b \in Buckets :
  /\ rpc = "popping" /\ b = Oldest => Content(b) = result
  /\ rpc = "backfilling" /\ b = Emptied => Content(b) = handle
  /\ filled[b] => Content(b) = data[b]
  /\ \A s \in Senders : Filling(s, b) => Content(b) = s

LEMMA ContentsAre == IInv => Contents
<1> SUFFICES ASSUME IInv, NEW b \in Buckets
             PROVE  /\ rpc = "popping" /\ b = Oldest => Content(b) = result
                    /\ rpc = "backfilling" /\ b = Emptied => Content(b) = handle
                    /\ filled[b] => Content(b) = data[b]
                    /\ \A s \in Senders : Filling(s, b) => Content(b) = s
  BY DEF Contents
<1>1. filled[b] => ~Hole(b)
  BY DEF IInv, RingInv
<1>2. ASSUME NEW s \in Senders, Filling(s, b) PROVE Content(b) = s
  <2>1. ~filled[b] /\ ~Hole(b) /\ \A r \in Senders : Filling(r, b) => r = s
    BY <1>2 DEF IInv, RingInv
  <2>2. (CHOOSE r \in Senders : pc[r] = "filling" /\ selected[r] = b) = s
    BY <1>2, <2>1 DEF Filling
  <2> QED BY <2>1, <2>2 DEF Content, Hole
<1> QED BY <1>1, <1>2 DEF Content, Hole

LEMMA ContentsAreNext == IInv' => Contents'
BY ContentsAre, PTL

(* Where the messages are, and that each is a sender's. *)
Listed ==
  /\ \A b \in Buckets : Claimed(b) => Content(b) \in Senders
  /\ \A i \in 1..size : Slot(i) \in Buckets /\ Claimed(Slot(i))
  /\ \A i \in 1..size : Slot(i) = IF Oldest + i - 1 < Cap THEN Oldest + i - 1 ELSE Oldest + i - 1 - Cap
  /\ Items \in Seq(Senders) /\ Len(Items) = size
  /\ \A i \in 1..size : Items[i] = Content(Slot(i))

LEMMA ItemsListed == IInv => Listed
<1> SUFFICES ASSUME IInv PROVE Listed
  OBVIOUS
<1>1. size \in 0..Cap /\ Window
  BY WindowLies DEF IInv, TypeOK
<1>2. ASSUME NEW b \in Buckets, Claimed(b) PROVE Content(b) \in Senders
  <2>1. filled[b] \/ Hole(b) \/ \E s \in Senders : Filling(s, b)
    BY <1>2 DEF IInv, RingInv
  <2>2. filled[b] => data[b] \in Senders
    BY DEF IInv, RingInv
  <2>3. /\ rpc = "popping" => result \in Senders
        /\ rpc = "backfilling" => handle \in Senders
    BY DEF IInv, RingInv, LineInv, TypeOK
  <2> QED BY <2>1, <2>2, <2>3, ContentsAre DEF Contents, Hole
<1>3. ASSUME NEW i \in 1..size
      PROVE  /\ Slot(i) = IF Oldest + i - 1 < Cap THEN Oldest + i - 1 ELSE Oldest + i - 1 - Cap
             /\ Slot(i) \in Buckets /\ Claimed(Slot(i))
  <2>1. Oldest \in Buckets /\ i - 1 \in 0..Cap - 1
    BY <1>1 DEF Window
  <2>2. Oldest + (i - 1) = Oldest + i - 1
    BY <2>1 DEF Buckets
  <2>3. Slot(i) = IF Oldest + i - 1 < Cap THEN Oldest + i - 1 ELSE Oldest + i - 1 - Cap
    BY <2>1, <2>2, BeyondIs DEF Slot
  <2>4. Slot(i) \in Buckets
    BY <2>1, <2>3 DEF Buckets
  <2> QED BY <1>1, <2>1, <2>3, <2>4 DEF Window, Buckets
<1>4. \A i \in 1..size : Content(Slot(i)) \in Senders
  BY <1>2, <1>3
<1>5. Items = [i \in 1..size |-> Content(Slot(i))]
  BY DEF Items, Slot
<1>6. /\ Items \in Seq(Senders) /\ Len(Items) = size
      /\ \A i \in 1..size : Items[i] = Content(Slot(i))
  BY ONLY <1>1, <1>4, <1>5
<1> QED BY <1>2, <1>3, <1>6 DEF Listed

LEMMA ItemsListedNext == IInv' => Listed'
BY ItemsListed, PTL

(* A step that keeps the window and what it holds keeps the items. *)
LEMMA SameItems ==
  ASSUME IInv, IInv', UNCHANGED word,
         \A b \in Buckets : Claimed(b) => Content(b)' = Content(b)
  PROVE  Items' = Items
<1>1. Listed /\ Listed'
  BY ItemsListed, ItemsListedNext
<1>2. size' = size /\ \A i \in 1..size : Slot(i)' = Slot(i)
  BY DEF word, Slot, Oldest
<1>3. \A i \in 1..size : Items'[i] = Items[i]
  BY <1>1, <1>2 DEF Listed
<1> DEFINE x == Items
           y == Items'
<1>4. x \in Seq(Senders) /\ y \in Seq(Senders) /\ Len(y) = Len(x) /\ \A i \in 1..Len(x) : y[i] = x[i]
  BY <1>1, <1>2, <1>3 DEF Listed
<1> HIDE DEF x, y
<1>5. y = x
  BY <1>4, SeqEqual
<1> QED BY <1>5 DEF x, y

(* The same of a step that leaves the buckets alone. *)
LEMMA QuietItems ==
  ASSUME IInv, IInv', UNCHANGED <<word, ring, recv_head, selected>>,
         \A s \in Senders : pc'[s] = "filling" <=> pc[s] = "filling",
         \/ rpc' = rpc /\ UNCHANGED <<result, handle>>
         \/ {rpc, rpc'} \intersect {"popping", "backfilling"} = {}
  PROVE  Items' = Items
<1>1. Contents /\ Contents'
  BY ContentsAre, ContentsAreNext
<1>2. Oldest' = Oldest /\ Emptied' = Emptied /\ filled' = filled /\ data' = data
  BY RingFrame DEF Emptied, ring
<1>3. ASSUME NEW b \in Buckets, Claimed(b) PROVE Content(b)' = Content(b)
  <2>1. filled[b] \/ Hole(b) \/ \E s \in Senders : Filling(s, b)
    BY <1>3 DEF IInv, RingInv
  <2>2. CASE filled[b]
    BY <1>1, <1>2, <2>2 DEF Contents
  <2>3. CASE Hole(b)
    BY <1>1, <1>2, <2>3 DEF Contents, Hole
  <2>4. ASSUME NEW s \in Senders, Filling(s, b) PROVE Content(b)' = Content(b)
    BY <1>1, <2>4 DEF Contents, Filling
  <2> QED BY <2>1, <2>2, <2>3, <2>4
<1> QED BY <1>3, SameItems

-----------------------------------------------------------------------------
(* The steps that a user of the channel sees. *)

(* A claim accepts a message: nobody is in line before it. *)
LEMMA ClaimMaps ==
  ASSUME IInv, IInv', NEW s \in Senders, Claim(s) PROVE Abstract!Accept(s)
<1> PICK w \in Buckets, m \in Nat : w = write_head /\ m = size + 1
  BY DEF IInv, TypeOK
<1>1. /\ pc[s] = "idle" /\ size < Cap /\ write_head' = After(w) /\ size' = m /\ m = size + 1
      /\ UNCHANGED <<line, filled, data, recv_head, rpc, result, handle>>
  BY DEF Claim, ring, receiver
<1>2. /\ size \in 0..Cap /\ line = <<>> /\ rpc # "backfilling"
  BY <1>1 DEF IInv, TypeOK, LineInv
<1>3. /\ \A v \in Senders : pc'[v] = IF v = s THEN "filling" ELSE pc[v]
      /\ \A v \in Senders : selected'[v] = IF v = s THEN w ELSE selected[v]
  BY DEF Claim, Goto, IInv, TypeOK
<1>4. /\ Oldest' = Oldest /\ ~Claimed(w) /\ (size > 0 => w # Oldest)
      /\ \A b \in Buckets : Claimed(b)' <=> Claimed(b) \/ b = w
  BY <1>1, ClaimMoves DEF IInv
<1>5. Contents /\ Contents' /\ Listed /\ Listed'
  BY ContentsAre, ContentsAreNext, ItemsListed, ItemsListedNext
<1>6. ASSUME NEW b \in Buckets, Claimed(b) PROVE Content(b)' = Content(b)
  <2>1. filled[b] \/ Hole(b) \/ \E v \in Senders : Filling(v, b)
    BY <1>6 DEF IInv, RingInv
  <2>2. CASE filled[b]
    BY <1>1, <1>5, <2>2 DEF Contents
  <2>3. CASE Hole(b)
    BY <1>1, <1>2, <1>4, <1>5, <2>3 DEF Contents, Hole
  <2>4. ASSUME NEW v \in Senders, Filling(v, b) PROVE Content(b)' = Content(b)
    BY <1>1, <1>3, <1>5, <2>4 DEF Contents, Filling
  <2> QED BY <2>1, <2>2, <2>3, <2>4
<1>7. Content(w)' = s
  <2>1. Filling(s, w)'
    BY <1>3 DEF Filling
  <2> QED BY <1>5, <2>1 DEF Contents
<1>8. \A i \in 1..m : Slot(i)' = Slot(i)
  BY <1>4 DEF Slot
<1>9. Slot(m)' = w
  <2>1. write_head' = IF w = Cap - 1 THEN 0 ELSE w + 1
    BY <1>1, <1>2, AfterIs
  <2>2. Window /\ Oldest \in Buckets
    BY WindowLies DEF IInv, Window
  <2>3. m \in 1..size'
    BY <1>1, <1>2
  <2>4. Slot(m) = IF Oldest + size < Cap THEN Oldest + size ELSE Oldest + size - Cap
    <3>1. Slot(m)' = IF Oldest' + m - 1 < Cap THEN Oldest' + m - 1 ELSE Oldest' + m - 1 - Cap
      BY <1>5, <2>3 DEF Listed
    <3> QED BY <1>1, <1>2, <1>4, <1>8, <2>2, <2>3, <3>1 DEF Buckets
  <2> QED BY <1>1, <1>2, <1>8, <2>2, <2>3, <2>4 DEF Window, Buckets
<1>10. \A i \in 1..size : Items'[i] = Items[i]
  BY <1>1, <1>2, <1>5, <1>6, <1>8 DEF Listed
<1>11. Items'[m] = s
  <2>1. Items'[m] = Content(Slot(m))'
    BY <1>1, <1>2, <1>5 DEF Listed
  <2>2. PICK c \in Buckets : c = Slot(m)'
    BY <1>9
  <2>3. Content(Slot(m))' = Content(c)'
    BY <2>2
  <2> QED BY <1>7, <1>9, <2>1, <2>2, <2>3
<1>12. Len(Items) = size /\ Len(Items') = size + 1 /\ Items \in Seq(Senders) /\ Items' \in Seq(Senders)
  BY <1>1, <1>5 DEF Listed
<1>13. Items' = Append(Items, s)
  <2> DEFINE x == Items
             y == Items'
  <2>1. /\ x \in Seq(Senders) /\ y \in Seq(Senders) /\ Len(y) = Len(x) + 1
        /\ \A i \in 1..Len(x) : y[i] = x[i]
        /\ y[Len(x) + 1] = s
    BY <1>1, <1>10, <1>11, <1>12
  <2> HIDE DEF x, y
  <2>2. y = Append(x, s)
    BY <2>1
  <2> QED BY <2>2 DEF x, y
<1> QED BY <1>1, <1>2, <1>12, <1>13 DEF Abstract!Accept

(* A sender that finds the ring full joins the line. *)
LEMMA EnterMaps ==
  ASSUME IInv, IInv', NEW s \in Senders, Enter(s) PROVE Abstract!Queue(s)
<1>1. /\ pc[s] = "idle" /\ size >= Cap /\ line' = Append(line, s)
      /\ UNCHANGED <<word, ring, recv_head, rpc, result, handle, selected>>
      /\ \A v \in Senders : pc'[v] = IF v = s THEN "asleep" ELSE pc[v]
  BY DEF Enter, Goto, receiver, IInv, TypeOK
<1>2. Items' = Items
  BY <1>1, QuietItems
<1>3. s \notin ToSet(line) /\ size = Cap
  BY <1>1 DEF IInv, LineInv, TypeOK
<1>4. Len(Items) = Cap
  BY <1>3, ItemsListed DEF Listed
<1> QED BY <1>1, <1>2, <1>3, <1>4 DEF Abstract!Queue, Abstract!ToSet, ToSet

(* A cancelled sender leaves the line, unless it was let in already. *)
LEMMA CancelMaps ==
  ASSUME IInv, IInv', NEW s \in Senders, Cancel(s)
  PROVE  Abstract!Abandon(s) \/ UNCHANGED <<Items, line>>
<1>1. /\ pc[s] = "asleep" /\ line' = Without(line, s)
      /\ UNCHANGED <<word, ring, recv_head, rpc, result, handle, selected>>
      /\ \A v \in Senders : pc'[v] = IF v = s THEN "idle" ELSE pc[v]
  BY DEF Cancel, Goto, receiver, IInv, TypeOK
<1>2. Items' = Items
  BY <1>1, QuietItems
<1>3. CASE s \in ToSet(line)
  <2>1. line' = Abstract!Without(line, s) /\ s \in Abstract!ToSet(line)
    BY <1>1, <1>3 DEF Abstract!ToSet, ToSet, Abstract!Without, Without,
       Abstract!Position, Position, Abstract!RemoveAt, RemoveAt
  <2> QED BY <1>2, <2>1 DEF Abstract!Abandon
<1>4. CASE s \notin ToSet(line)
  BY <1>1, <1>2, <1>4 DEF Without
<1> QED BY <1>3, <1>4

(* The oldest message is received, and one more may follow the last. *)
LEMMA ReceiveMaps ==
  ASSUME IInv, IInv', rpc = "popping",
         NEW o \in Buckets, o = Oldest, Oldest' = After(o),
         \A b \in Buckets : Claimed(b) /\ b # o => Content(b)' = Content(b),
         \/ size' = size - 1 /\ line = <<>> /\ line' = <<>>
         \/ /\ size' = size /\ line # <<>> /\ line' = Tail(line)
            /\ size = Cap /\ Content(o)' = Head(line)
  PROVE  Abstract!Receive
<1>1. Listed /\ Listed' /\ Window /\ size \in 1..Cap /\ size' \in 0..Cap
  BY ItemsListed, ItemsListedNext, WindowLies DEF IInv, TypeOK, RingInv
<1>2. Oldest' = IF o = Cap - 1 THEN 0 ELSE o + 1
  BY AfterIs
<1>3. ASSUME NEW i \in 1..size - 1 PROVE Slot(i)' = Slot(i + 1) /\ Slot(i + 1) # o
  <2>1. i \in 1..size' /\ i \in 1..size /\ i + 1 \in 1..size /\ i \in Nat /\ i < Cap
    BY <1>1
  <2>2. Slot(i)' = IF Oldest' + i - 1 < Cap THEN Oldest' + i - 1 ELSE Oldest' + i - 1 - Cap
    BY <1>1, <2>1 DEF Listed
  <2>3. Slot(i + 1) = IF o + (i + 1) - 1 < Cap THEN o + (i + 1) - 1 ELSE o + (i + 1) - 1 - Cap
    BY <1>1, <2>1 DEF Listed
  <2> QED BY <1>2, <2>1, <2>2, <2>3 DEF Buckets
<1>4. ASSUME NEW i \in 1..size - 1 PROVE Items'[i] = Items[i + 1]
  <2>1. i \in 1..size' /\ i + 1 \in 1..size
    BY <1>1
  <2>2. PICK c \in Buckets : c = Slot(i + 1) /\ Claimed(c)
    BY <1>1, <2>1 DEF Listed
  <2>3. Slot(i)' = c /\ c # o
    BY <1>3, <2>2
  <2>4. Items'[i] = Content(Slot(i))' /\ Items[i + 1] = Content(c)
    BY <1>1, <2>1, <2>2 DEF Listed
  <2>5. Content(Slot(i))' = Content(c)'
    BY <2>3
  <2> QED BY <2>2, <2>3, <2>4, <2>5
<1> DEFINE x == Items
           y == Items'
<1>5. /\ x \in Seq(Senders) /\ y \in Seq(Senders) /\ Len(x) = size /\ Len(y) = size'
      /\ \A i \in 1..size - 1 : y[i] = x[i + 1]
  BY <1>1, <1>4 DEF Listed
<1>6. CASE size' = size - 1 /\ line = <<>> /\ line' = <<>>
  <2>1. y = Tail(x) \o <<>> /\ x # <<>>
    <3> HIDE DEF x, y
    <3>1. y = Tail(x) /\ x # <<>>
      BY <1>1, <1>5, <1>6
    <3> QED BY <1>1, <1>5, <3>1, ConcatEmptySeq
  <2>2. SubSeq(line, 1, Abstract!Min({1, Len(line)})) = <<>> /\ SubSeq(line, 2, Len(line)) = <<>>
    BY <1>6 DEF Abstract!Min
  <2> QED BY <1>6, <2>1, <2>2 DEF Abstract!Receive
<1>7. CASE /\ size' = size /\ line # <<>> /\ line' = Tail(line)
           /\ size = Cap /\ Content(o)' = Head(line)
  <2>1. line \in Seq(Senders) /\ Head(line) \in Senders /\ Len(line) \in Nat \ {0}
    BY <1>7, EmptySeq DEF IInv, TypeOK
  <2>2. Slot(size)' = o
    <3>1. Slot(size)' = IF Oldest' + size - 1 < Cap THEN Oldest' + size - 1 ELSE Oldest' + size - 1 - Cap
      BY <1>1, <1>7 DEF Listed
    <3> QED BY <1>1, <1>2, <1>7, <3>1 DEF Buckets
  <2>3. y[size] = Head(line)
    <3>1. y[size] = Content(Slot(size))'
      BY <1>1, <1>7 DEF Listed
    <3>2. Content(Slot(size))' = Content(o)'
      BY <2>2
    <3> QED BY <1>7, <3>1, <3>2
  <2>4. y = Tail(x) \o <<Head(line)>> /\ x # <<>>
    <3> HIDE DEF x, y
    <3> QED BY <1>1, <1>5, <1>7, <2>1, <2>3
  <2>5. SubSeq(line, 1, Abstract!Min({1, Len(line)})) = <<Head(line)>>
    <3>1. Abstract!Min({1, Len(line)}) = 1
      BY <2>1 DEF Abstract!Min
    <3>2. SubSeq(line, 1, 1) = <<Head(line)>>
      <4> DEFINE f == SubSeq(line, 1, 1)
                 g == <<Head(line)>>
      <4>1. f \in Seq(Senders) /\ Len(f) = 1 /\ f[1] = Head(line)
        BY <2>1
      <4>2. g \in Seq(Senders) /\ Len(g) = 1 /\ g[1] = Head(line)
        BY <2>1
      <4> HIDE DEF f, g
      <4>3. f = g
        BY <4>1, <4>2, SeqEqual
      <4> QED BY <4>3 DEF f, g
    <3> QED BY <3>1, <3>2
  <2>6. SubSeq(line, 2, Len(line)) = Tail(line)
    BY <2>1
  <2> QED BY <1>7, <2>4, <2>5, <2>6 DEF Abstract!Receive
<1> QED BY <1>6, <1>7

LEMMA ShrinkMaps ==
  ASSUME IInv, IInv', Shrink PROVE Abstract!Receive
<1>1. /\ rpc = "popping" /\ line = <<>> /\ line' = <<>> /\ size' = size - 1 /\ rpc' = "returning"
      /\ UNCHANGED <<write_head, filled, data, pc, selected>>
  BY DEF Shrink, RGoto, ring, sender
<1>2. size > 0
  BY <1>1 DEF IInv, RingInv
<1>3. PICK o \in Buckets : o = Oldest
  BY WindowLies DEF IInv, Window
<1>4. Oldest' = After(o)
  BY <1>1, <1>2, <1>3, ShrinkMoves DEF IInv
<1>5. Contents /\ Contents'
  BY ContentsAre, ContentsAreNext
<1>6. ASSUME NEW b \in Buckets, Claimed(b), b # o PROVE Content(b)' = Content(b)
  <2>1. filled[b] \/ \E v \in Senders : Filling(v, b)
    BY <1>1, <1>3, <1>6 DEF IInv, RingInv, Hole
  <2>2. CASE filled[b]
    BY <1>1, <1>5, <2>2 DEF Contents
  <2>3. ASSUME NEW v \in Senders, Filling(v, b) PROVE Content(b)' = Content(b)
    BY <1>1, <1>5, <2>3 DEF Contents, Filling
  <2> QED BY <2>1, <2>2, <2>3
<1> QED BY <1>1, <1>3, <1>4, <1>6, ReceiveMaps

LEMMA ReplaceMaps ==
  ASSUME IInv, IInv', Replace PROVE Abstract!Receive
<1>1. /\ rpc = "popping" /\ line # <<>> /\ line' = Tail(line) /\ handle' = Head(line)
      /\ write_head' = After(write_head)
      /\ UNCHANGED <<size, filled, data, pc, selected, recv_head>>
  BY DEF Replace, ring, sender
<1>2. size = Cap /\ rpc' = "backfilling" /\ recv_head = After(Oldest)
  BY <1>1 DEF Replace, RGoto, IInv, TypeOK, LineInv, RingInv
<1>3. PICK o \in Buckets : o = Oldest
  BY WindowLies DEF IInv, Window
<1>4. Oldest' = After(o) /\ Emptied' = o
  BY <1>1, <1>2, <1>3, ReplaceMoves DEF IInv
<1>5. Contents /\ Contents'
  BY ContentsAre, ContentsAreNext
<1>6. ASSUME NEW b \in Buckets, Claimed(b), b # o PROVE Content(b)' = Content(b)
  <2>1. filled[b] \/ \E v \in Senders : Filling(v, b)
    BY <1>1, <1>3, <1>6 DEF IInv, RingInv, Hole
  <2>2. CASE filled[b]
    BY <1>1, <1>5, <2>2 DEF Contents
  <2>3. ASSUME NEW v \in Senders, Filling(v, b) PROVE Content(b)' = Content(b)
    BY <1>1, <1>5, <2>3 DEF Contents, Filling
  <2> QED BY <2>1, <2>2, <2>3
<1>7. Content(o)' = Head(line)
  BY <1>1, <1>2, <1>4, <1>5 DEF Contents
<1> QED BY <1>1, <1>2, <1>3, <1>4, <1>6, <1>7, ReceiveMaps

-----------------------------------------------------------------------------
(* The steps that nobody sees: a message moves to its bucket or out of it. *)

LEMMA FillMaps ==
  ASSUME IInv, IInv', NEW s \in Senders, Fill(s) PROVE UNCHANGED <<Items, line>>
<1>1. /\ pc[s] = "filling"
      /\ UNCHANGED <<word, line, recv_head, rpc, result, handle, selected>>
      /\ \A v \in Senders : v # s => pc'[v] = pc[v]
  BY DEF Fill, Goto, receiver, IInv, TypeOK
<1>2. PICK c \in Buckets : c = selected[s]
  BY DEF IInv, TypeOK
<1>3. /\ \A b \in Buckets : b # c => filled'[b] = filled[b] /\ data'[b] = data[b]
      /\ filled'[c] /\ data'[c] = s
  BY <1>2 DEF Fill, IInv, TypeOK
<1>4. Contents /\ Contents' /\ Oldest' = Oldest /\ Emptied' = Emptied
  BY <1>1, ContentsAre, ContentsAreNext, RingFrame DEF Emptied
<1>5. ASSUME NEW b \in Buckets, Claimed(b) PROVE Content(b)' = Content(b)
  <2>1. CASE b = c
    <3>1. Filling(s, c)
      BY <1>1, <1>2 DEF Filling
    <3>2. Content(c) = s /\ Content(c)' = s
      BY <1>3, <1>4, <3>1 DEF Contents
    <3> QED BY <2>1, <3>2
  <2>2. CASE b # c
    <3>1. filled[b] \/ Hole(b) \/ \E v \in Senders : Filling(v, b)
      BY <1>5 DEF IInv, RingInv
    <3>2. CASE filled[b]
      BY <1>3, <1>4, <2>2, <3>2 DEF Contents
    <3>3. CASE Hole(b)
      BY <1>1, <1>4, <3>3 DEF Contents, Hole
    <3>4. ASSUME NEW v \in Senders, Filling(v, b) PROVE Content(b)' = Content(b)
      BY <1>1, <1>2, <1>4, <2>2, <3>4 DEF Contents, Filling
    <3> QED BY <3>1, <3>2, <3>3, <3>4
  <2> QED BY <2>1, <2>2
<1> QED BY <1>1, <1>5, SameItems

LEMMA TakeMaps ==
  ASSUME IInv, IInv', Take PROVE UNCHANGED <<Items, line>>
<1>1. /\ rpc = "taking" /\ rpc' = "popping"
      /\ UNCHANGED <<word, line, data, pc, selected>>
  BY DEF Take, RGoto, sender
<1>2. PICK o \in Buckets : o = recv_head
  BY DEF IInv, TypeOK
<1>3. /\ \A b \in Buckets : b # o => filled'[b] = filled[b]
      /\ result' = data[o]
  BY <1>2 DEF Take, IInv, TypeOK
<1>4. /\ Contents /\ Contents' /\ Oldest = o /\ Oldest' = o
      /\ filled[o]
  BY <1>1, <1>2, ContentsAre, ContentsAreNext, RingFrame DEF IInv, RingInv
<1>5. ASSUME NEW b \in Buckets, Claimed(b) PROVE Content(b)' = Content(b)
  <2>1. CASE b = o
    BY <1>1, <1>3, <1>4, <2>1 DEF Contents
  <2>2. CASE b # o
    <3>1. filled[b] \/ \E v \in Senders : Filling(v, b)
      BY <1>1, <1>5 DEF IInv, RingInv, Hole
    <3>2. CASE filled[b]
      BY <1>1, <1>3, <1>4, <2>2, <3>2 DEF Contents
    <3>3. ASSUME NEW v \in Senders, Filling(v, b) PROVE Content(b)' = Content(b)
      BY <1>1, <1>4, <3>3 DEF Contents, Filling
    <3> QED BY <3>1, <3>2, <3>3
  <2> QED BY <2>1, <2>2
<1> QED BY <1>1, <1>5, SameItems

LEMMA BackfillMaps ==
  ASSUME IInv, IInv', Backfill PROVE UNCHANGED <<Items, line>>
<1>1. /\ rpc = "backfilling" /\ rpc' = "waking"
      /\ UNCHANGED <<word, line, pc, selected>>
  BY DEF Backfill, RGoto, sender
<1>2. PICK e \in Buckets : e = Emptied
  BY WindowLies DEF IInv, Window
<1>3. /\ \A b \in Buckets : b # e => filled'[b] = filled[b] /\ data'[b] = data[b]
      /\ filled'[e] /\ data'[e] = handle
  BY <1>2 DEF Backfill, IInv, TypeOK
<1>4. Contents /\ Contents'
  BY ContentsAre, ContentsAreNext
<1>5. ASSUME NEW b \in Buckets, Claimed(b) PROVE Content(b)' = Content(b)
  <2>1. CASE b = e
    BY <1>1, <1>2, <1>3, <1>4, <2>1 DEF Contents
  <2>2. CASE b # e
    <3>1. filled[b] \/ \E v \in Senders : Filling(v, b)
      BY <1>1, <1>2, <1>5, <2>2 DEF IInv, RingInv, Hole
    <3>2. CASE filled[b]
      BY <1>3, <1>4, <2>2, <3>2 DEF Contents
    <3>3. ASSUME NEW v \in Senders, Filling(v, b) PROVE Content(b)' = Content(b)
      BY <1>1, <1>4, <3>3 DEF Contents, Filling
    <3> QED BY <3>1, <3>2, <3>3
  <2> QED BY <2>1, <2>2
<1> QED BY <1>1, <1>5, SameItems

LEMMA SenderQuiet ==
  ASSUME IInv, IInv', NEW s \in Senders,
         Notify(s) \/ CallWaker(s) \/ Resume(s) \/ DropSender(s)
  PROVE  UNCHANGED <<Items, line>>
<1>1. /\ pc[s] # "filling" /\ pc'[s] # "filling" /\ \A v \in Senders : v # s => pc'[v] = pc[v]
      /\ UNCHANGED <<word, line, ring, receiver, selected>>
  BY DEF Notify, CallWaker, Resume, DropSender, Goto, IInv, TypeOK
<1> QED BY <1>1, QuietItems DEF receiver

LEMMA ReceiverQuiet ==
  ASSUME IInv, IInv',
         Poll \/ Arm \/ Check \/ Disarm \/ Wake \/ Return \/ Forget \/ DropReceiver
  PROVE  UNCHANGED <<Items, line>>
<1>1. /\ {rpc, rpc'} \intersect {"popping", "backfilling"} = {}
      /\ UNCHANGED <<word, line, ring, pc, selected, recv_head>>
  BY DEF Poll, Arm, Check, Disarm, Wake, Return, Forget, DropReceiver, RGoto, sender
<1> QED BY <1>1, QuietItems

-----------------------------------------------------------------------------
LEMMA InitMaps == Init => Abstract!Init
<1> SUFFICES ASSUME Init PROVE Abstract!Init
  OBVIOUS
<1>1. Items \in Seq(Senders) /\ Len(Items) = 0
  BY InitIInv, ItemsListed DEF Listed, Init
<1> DEFINE x == Items
<1>2. x \in Seq(Senders) /\ Len(x) = 0
  BY <1>1
<1> HIDE DEF x
<1>3. x = <<>>
  BY <1>2, EmptySeq
<1> QED BY <1>3 DEF Abstract!Init, Init, x

(* Every step of the channel is a step of Channel or leaves it alone. *)
LEMMA NextMaps == IInv /\ IInv' /\ [Next]_vars => [Abstract!Next]_Abstract!vars
<1> SUFFICES ASSUME IInv, IInv', [Next]_vars PROVE [Abstract!Next]_Abstract!vars
  OBVIOUS
<1>1. CASE UNCHANGED vars
  <2>1. UNCHANGED <<Items, line>>
    BY <1>1, QuietItems DEF vars, word, ring
  <2> QED BY <2>1 DEF Abstract!vars
<1>2. ASSUME NEW s \in Senders, Claim(s) \/ SendStep(s) \/ Enter(s) \/ Cancel(s) \/ DropSender(s)
      PROVE  [Abstract!Next]_Abstract!vars
  BY <1>2, ClaimMaps, EnterMaps, CancelMaps, FillMaps, SenderQuiet
     DEF SendStep, Abstract!Next, Abstract!vars
<1>3. CASE Poll \/ RecvStep \/ Forget \/ DropReceiver
  BY <1>3, ReceiverQuiet, TakeMaps, ShrinkMaps, ReplaceMaps, BackfillMaps
     DEF RecvStep, Abstract!Next, Abstract!vars
<1> QED BY <1>1, <1>2, <1>3 DEF Next

(* The channel hands over every message once, in the order of the claims, and
   lets waiting senders in first come, first served. *)
THEOREM ChannelImplemented == Spec => ImplementsChannel
<1> QED BY Invariance, InitMaps, NextMaps, PTL DEF Spec, Abstract!Spec, ImplementsChannel

=============================================================================
