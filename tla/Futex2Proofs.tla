---------------------------- MODULE Futex2Proofs ----------------------------
(***************************************************************************)
(* What Futex2 guarantees for every set of tasks, every number of calls    *)
(* and every width of the counters.                                        *)
(*                                                                         *)
(* First what holds in every behaviour, whether or not the sums wrap: a    *)
(* wait has its bucket for itself (SlotInv), because an iteration is put   *)
(* only into a bucket that is empty, and because an old generation is all  *)
(* tombstones (GrowInv).  Then, while the sums fit in half a word, that no *)
(* wakeup is lost.  That is a counting argument: a bucket has had at most  *)
(* as many notifications as it has served iterations (BucketInv), so who   *)
(* sleeps in it and was notified is owed a notification under way; and who *)
(* is not notified yet will be by somebody who is still to act, unless a   *)
(* wakeup went to a wait that was given up (ActiveInv).                    *)
(***************************************************************************)
EXTENDS Futex2, FiniteSetTheorems, TLAPS

(* The steps a task can be at, and the values of the other variables. *)
Steps == {"idle", "trying", "entering", "placing", "checking", "pending", "held",
          "notifying", "signalling", "expanding", "burying", "installing",
          "dropped", "panicked"}

Contents == {Empty(i) : i \in Nat} \union {Woken(i) : i \in Nat}
            \union {Waiting(t) : t \in Tasks} \union {Waking, Tombstone}
Buckets  == UNION {[0..n - 1 -> Contents] : n \in Nat \ {0}}

TypeOK ==
  /\ atom \in 0..2
  /\ generations \in Seq(Buckets) /\ Current \in Nat \ {0}
  /\ waits \in 0..Half - 1 /\ notifies \in 0..Half - 1
  /\ growing \in Tasks \union {Null}
  /\ calls \in [Tasks -> Nat]
  /\ pc \in [Tasks -> Steps]
  /\ at \in [Tasks -> [gen : 1..Current, it : Nat]]
  /\ target \in [Tasks -> [gen : 1..Current, it : Nat]]
  /\ back \in [Tasks -> {"idle", "trying"}]

(* The atom tells whether the mutex is held, by one task. *)
LockInv ==
  /\ atom # 0 <=> \E t \in Tasks : pc[t] = "held"
  /\ \A t, u \in Tasks : pc[t] = "held" /\ pc[u] = "held" => t = u
  /\ \A t \in Tasks : pc[t] # "panicked"

(* A wait is in its bucket from Place until it ends, and there alone. *)
InBucket(t) == pc[t] \in {"checking", "pending"}
SlotInv ==
  /\ \A t \in Tasks : InBucket(t) => Bucket(at[t]) \in {Waiting(t), Waking, Tombstone}
  /\ \A t, u \in Tasks : InBucket(t) /\ InBucket(u) /\ SameBucket(at[t], at[u]) => t = u

(* One task at a time buries, and what lies behind it is buried. *)
GrowInv ==
  /\ \A t \in Tasks : growing = t <=> pc[t] \in {"burying", "installing"}
  /\ \A t \in Tasks : growing = t => at[t].gen = Current
  /\ \A t \in Tasks : pc[t] = "burying" => at[t].it < Cap(Current)
  /\ \A t \in Tasks : \A i \in 0..Cap(Current) - 1 :
       pc[t] = "installing" \/ (pc[t] = "burying" /\ i < at[t].it) =>
         generations[Current][i] = Tombstone
  /\ \A g \in 1..Current - 1 : \A i \in 0..Cap(g) - 1 : generations[g][i] = Tombstone

IInv == TypeOK /\ LockInv /\ SlotInv /\ GrowInv

-----------------------------------------------------------------------------
(* Facts about generations and their buckets. *)

(* The contents of a bucket tell its state, its iteration and its waiter apart. *)
LEMMA BucketsDiffer ==
  /\ \A i, j \in Nat : Empty(i) = Empty(j) => i = j
  /\ \A i, j \in Nat : Woken(i) = Woken(j) => i = j
  /\ \A t, u \in Tasks : Waiting(t) = Waiting(u) => t = u
  /\ \A i, j \in Nat : Empty(i) # Woken(j)
  /\ \A i \in Nat, t \in Tasks : Empty(i) # Waiting(t) /\ Woken(i) # Waiting(t)
  /\ \A i \in Nat : Empty(i) \notin {Waking, Tombstone} /\ Woken(i) \notin {Waking, Tombstone}
  /\ \A t \in Tasks : Waiting(t) \notin {Waking, Tombstone}
  /\ Waking # Tombstone
BY DEF Empty, Woken, Waiting, Waking, Tombstone

(* Half-word arithmetic: what % returns for a positive divisor. *)
LEMMA Remainder ==
  ASSUME NEW n \in Nat, NEW c \in Nat \ {0}
  PROVE  n % c \in 0..c - 1 /\ (n < c => n % c = n)
OBVIOUS

(* Iterations of one bucket are its capacity apart. *)
LEMMA RemainderAdds ==
  ASSUME NEW n \in Nat, NEW c \in Nat \ {0}
  PROVE  (n + c) % c = n % c
<1> DEFINE q == n \div c
           r == n % c
           p == (n + c) \div c
           s == (n + c) % c
<1>1. q \in Int /\ p \in Int /\ r \in 0..c - 1 /\ s \in 0..c - 1
  OBVIOUS
<1>2. n = c * q + r /\ n + c = c * p + s
  OBVIOUS
<1> HIDE DEF q, r, p, s
<1>3. PICK d \in Int : d = p - q - 1
  BY <1>1
<1>4. c * d = r - s
  <2>1. c * p = c * q + c * d + c
    BY <1>1, <1>3
  <2> QED BY <1>1, <1>2, <2>1
<1>5. d = 0
  <2>1. d >= 1 => c * d >= c
    BY <1>3
  <2>2. d <= -1 => c * d <= -c
    BY <1>3
  <2> QED BY <1>1, <1>3, <1>4, <2>1, <2>2
<1> QED BY <1>1, <1>4, <1>5 DEF r, s

(* A count below Half is itself. *)
LEMMA LowFits ==
  ASSUME NEW n \in Nat PROVE Low(n) \in 0..Half - 1 /\ (n < Half => Low(n) = n)
BY Remainder, HalfAssumption DEF Low

(* The smaller of two counters. *)
LEMMA MinOfTwo ==
  ASSUME NEW a \in Nat, NEW b \in Nat PROVE Min({a, b}) = IF a <= b THEN a ELSE b
<1> DEFINE m == IF a <= b THEN a ELSE b
<1>1. m \in {a, b} /\ \A y \in {a, b} : m <= y
  OBVIOUS
<1>2. \A x \in {a, b} : (\A y \in {a, b} : x <= y) => x = m
  OBVIOUS
<1> QED BY <1>1, <1>2 DEF Min

(* Every generation has buckets, numbered from 0. *)
LEMMA Caps ==
  ASSUME TypeOK
  PROVE  \A g \in 1..Current : /\ Cap(g) \in Nat \ {0}
                               /\ DOMAIN generations[g] = 0..Cap(g) - 1
                               /\ generations[g] \in [0..Cap(g) - 1 -> Contents]
<1> SUFFICES ASSUME NEW g \in 1..Current
             PROVE  /\ Cap(g) \in Nat \ {0}
                    /\ DOMAIN generations[g] = 0..Cap(g) - 1
                    /\ generations[g] \in [0..Cap(g) - 1 -> Contents]
  OBVIOUS
<1>1. generations[g] \in Buckets
  BY DEF TypeOK, Current
<1>2. PICK n \in Nat \ {0} : generations[g] \in [0..n - 1 -> Contents]
  BY <1>1 DEF Buckets
<1>3. Cardinality(0..n - 1) = n
  BY FS_Interval
<1> QED BY <1>2, <1>3 DEF Cap

(* The current generation is one, and has buckets. *)
LEMMA Latest ==
  ASSUME TypeOK
  PROVE  /\ Current \in Nat \ {0} /\ Current \in 1..Current
         /\ Cap(Current) \in Nat \ {0} /\ Cap(Current) > 0
         /\ \A g \in 1..Current - 1 : g \in 1..Current
<1>1. Current \in Nat \ {0}
  BY DEF TypeOK
<1>2. Current \in 1..Current /\ \A g \in 1..Current - 1 : g \in 1..Current
  BY <1>1
<1>3. Cap(Current) \in Nat \ {0}
  BY <1>2, Caps
<1> QED BY <1>1, <1>2, <1>3

(* A place leads to one of the buckets of its generation. *)
LEMMA Reading ==
  ASSUME TypeOK, NEW p \in [gen : 1..Current, it : Nat]
  PROVE  /\ Cap(p.gen) \in Nat \ {0}
         /\ p.it % Cap(p.gen) \in 0..Cap(p.gen) - 1
         /\ Bucket(p) \in Contents
<1>1. Cap(p.gen) \in Nat \ {0} /\ generations[p.gen] \in [0..Cap(p.gen) - 1 -> Contents]
  BY Caps
<1>2. p.it % Cap(p.gen) \in 0..Cap(p.gen) - 1
  BY <1>1, Remainder
<1> QED BY <1>1, <1>2 DEF Bucket

(* Writing to a bucket changes no other and no generation's size. *)
LEMMA PutEffect ==
  ASSUME TypeOK, NEW p \in [gen : 1..Current, it : Nat], NEW b \in Contents, Put(p, b)
  PROVE  /\ generations' \in Seq(Buckets) /\ Current' = Current
         /\ \A g \in 1..Current : Cap(g)' = Cap(g) /\ DOMAIN generations'[g] = DOMAIN generations[g]
         /\ \A g \in 1..Current : \A i \in 0..Cap(g) - 1 :
              generations'[g][i] =
                IF g = p.gen /\ i = p.it % Cap(p.gen) THEN b ELSE generations[g][i]
<1> DEFINE c == Cap(p.gen)
           s == p.it % c
           h == [generations[p.gen] EXCEPT ![s] = b]
<1>1. c \in Nat \ {0} /\ s \in 0..c - 1 /\ generations[p.gen] \in [0..c - 1 -> Contents]
  BY Caps, Reading
<1>2. generations' = [generations EXCEPT ![p.gen] = h]
  BY DEF Put
<1> HIDE DEF c, s
<1>3. h \in [0..c - 1 -> Contents] /\ DOMAIN h = DOMAIN generations[p.gen]
      /\ \A i \in 0..c - 1 : h[i] = IF i = s THEN b ELSE generations[p.gen][i]
  BY <1>1
<1>4. h \in Buckets
  BY <1>1, <1>3 DEF Buckets
<1> HIDE DEF h
<1>5. /\ generations' \in Seq(Buckets) /\ Len(generations') = Len(generations)
      /\ \A g \in 1..Len(generations) :
           generations'[g] = IF g = p.gen THEN h ELSE generations[g]
  BY <1>2, <1>4 DEF TypeOK, Current
<1>6. \A g \in 1..Current : DOMAIN generations'[g] = DOMAIN generations[g]
  BY <1>3, <1>5 DEF Current
<1>7. \A g \in 1..Current : Cap(g)' = Cap(g)
  BY <1>6 DEF Cap
<1>8. \A g \in 1..Current : \A i \in 0..Cap(g) - 1 :
        generations'[g][i] = IF g = p.gen /\ i = s THEN b ELSE generations[g][i]
  BY <1>3, <1>5 DEF Current, c
<1> QED BY <1>5, <1>6, <1>7, <1>8 DEF Current, s, c

-----------------------------------------------------------------------------
(* What a step keeps that writes to no bucket and buries nothing. *)

(* A step that leaves the generations alone keeps the types if what it assigns has them. *)
LEMMA TypeFrame ==
  ASSUME TypeOK, NEW t \in Tasks, NEW n \in Steps, pc' = [pc EXCEPT ![t] = n],
         atom' \in 0..2, waits' \in 0..Half - 1, notifies' \in 0..Half - 1,
         at' \in [Tasks -> [gen : 1..Current, it : Nat]],
         target' \in [Tasks -> [gen : 1..Current, it : Nat]],
         calls' \in [Tasks -> Nat], back' \in [Tasks -> {"idle", "trying"}],
         UNCHANGED <<generations, growing>>
  PROVE  TypeOK'
<1>1. pc' \in [Tasks -> Steps]
  BY DEF TypeOK
<1>2. Current' = Current /\ generations' \in Seq(Buckets) /\ Current' \in Nat \ {0}
  BY DEF TypeOK, Current
<1> QED BY <1>1, <1>2 DEF TypeOK

(* A step that neither takes nor gives back the mutex keeps LockInv. *)
LEMMA LockFrame ==
  ASSUME TypeOK, LockInv, NEW t \in Tasks, NEW n, n \notin {"held", "panicked"},
         pc' = [pc EXCEPT ![t] = n], pc[t] # "held", atom' = 0 <=> atom = 0
  PROVE  LockInv'
<1>1. \A u \in Tasks : pc'[u] = "held" <=> pc[u] = "held"
  BY DEF TypeOK
<1>2. \A u \in Tasks : pc'[u] # "panicked"
  BY DEF TypeOK, LockInv
<1> QED BY <1>1, <1>2 DEF LockInv

(* A step that brings nobody into a bucket and leaves the generations alone
   keeps the waits where they are and what is buried buried. *)
LEMMA Frame ==
  ASSUME IInv, NEW t \in Tasks, NEW n \in Steps \ {"burying", "installing"},
         pc' = [pc EXCEPT ![t] = n], pc[t] \notin {"burying", "installing"},
         \A u \in Tasks \ {t} : at'[u] = at[u],
         n \in {"checking", "pending"} => InBucket(t) /\ at'[t] = at[t],
         UNCHANGED <<generations, growing>>
  PROVE  SlotInv' /\ GrowInv'
<1> USE DEF IInv
<1>1. \A u \in Tasks : InBucket(u)' => InBucket(u) /\ at'[u] = at[u]
  BY DEF InBucket, TypeOK
<1>2. SlotInv'
  BY <1>1 DEF SlotInv, Bucket, SameBucket, Cap
<1>3. \A u \in Tasks : growing = u => at'[u] = at[u] /\ pc'[u] = pc[u]
  BY DEF GrowInv, TypeOK
<1>4. \A u \in Tasks : pc'[u] \in {"burying", "installing"} <=> pc[u] \in {"burying", "installing"}
  BY DEF TypeOK
<1>5. \A u \in Tasks : pc'[u] \in {"burying", "installing"} => at'[u] = at[u] /\ pc'[u] = pc[u]
  BY DEF TypeOK
<1>6. GrowInv'
  BY <1>3, <1>4, <1>5 DEF GrowInv, Current, Cap
<1> QED BY <1>2, <1>6

-----------------------------------------------------------------------------
(* The mutex. *)

(* An unlocked atom has no holder. *)
LEMMA LockKeeps ==
  ASSUME NEW t \in Tasks, IInv, Lock(t) PROVE IInv'
<1> USE DEF IInv, word, local
<1>1. PICK n \in {"held", "trying", "entering"} :
        /\ pc' = [pc EXCEPT ![t] = n] /\ pc[t] = "idle"
        /\ n = "held" <=> atom = 0
        /\ atom' = IF atom = 0 THEN 1 ELSE atom
        /\ calls[t] > 0 /\ calls' = [calls EXCEPT ![t] = @ - 1]
        /\ UNCHANGED <<generations, word, growing, local>>
  <2>1. atom = 0 \/ atom = 1 \/ atom = 2
    BY DEF TypeOK
  <2>2. CASE atom = 0
    BY <2>2 DEF Lock, Goto
  <2>3. CASE atom = 1
    BY <2>3 DEF Lock, Goto
  <2>4. CASE atom = 2
    BY <2>4 DEF Lock, Goto
  <2> QED BY <2>1, <2>2, <2>3, <2>4
<1>2. n \in Steps \ {"burying", "installing"} /\ pc[t] \notin {"burying", "installing"}
  BY <1>1 DEF Steps
<1>3. atom' \in 0..2 /\ waits' \in 0..Half - 1 /\ notifies' \in 0..Half - 1
  BY <1>1 DEF TypeOK
<1>4. /\ at' \in [Tasks -> [gen : 1..Current, it : Nat]]
      /\ target' \in [Tasks -> [gen : 1..Current, it : Nat]]
      /\ calls' \in [Tasks -> Nat] /\ back' \in [Tasks -> {"idle", "trying"}]
  <2>1. calls[t] \in Nat /\ calls[t] > 0 => calls[t] - 1 \in Nat
    BY DEF TypeOK
  <2> QED BY <1>1, <2>1 DEF TypeOK
<1>5. TypeOK'
  BY <1>1, <1>2, <1>3, <1>4, TypeFrame
<1>6. LockInv'
  <2>1. CASE n = "held"
    BY <1>1, <2>1 DEF LockInv, TypeOK
  <2>2. CASE n # "held"
    BY <1>1, <2>2, LockFrame
  <2> QED BY <2>1, <2>2
<1>7. SlotInv' /\ GrowInv'
  BY <1>1, <1>2, Frame DEF TypeOK, InBucket
<1> QED BY <1>5, <1>6, <1>7

(* Who finds the mutex unlocked holds it alone. *)
LEMMA RetryKeeps ==
  ASSUME NEW t \in Tasks, IInv, Retry(t) PROVE IInv'
<1> USE DEF IInv, Retry, Goto, word, local
<1>1. PICK n \in {"held", "entering"} : pc' = [pc EXCEPT ![t] = n]
  BY DEF TypeOK
<1>2. n \in Steps \ {"burying", "installing"} /\ pc[t] \notin {"burying", "installing"}
  BY DEF Steps
<1>3. atom' \in 0..2 /\ waits' \in 0..Half - 1 /\ notifies' \in 0..Half - 1
  BY DEF TypeOK
<1>4. /\ at' \in [Tasks -> [gen : 1..Current, it : Nat]]
      /\ target' \in [Tasks -> [gen : 1..Current, it : Nat]]
      /\ calls' \in [Tasks -> Nat] /\ back' \in [Tasks -> {"idle", "trying"}]
  BY DEF TypeOK
<1>5. TypeOK'
  BY <1>1, <1>2, <1>3, <1>4, TypeFrame
<1>6. LockInv'
  BY <1>1 DEF LockInv, TypeOK
<1>7. SlotInv' /\ GrowInv'
  BY <1>1, <1>2, Frame DEF TypeOK, InBucket
<1> QED BY <1>5, <1>6, <1>7

(* The holder is the one, and goes. *)
LEMMA UnlockKeeps ==
  ASSUME NEW t \in Tasks, IInv, Unlock(t) PROVE IInv'
<1> USE DEF IInv, Unlock, Goto, CallThen, word, local
<1>1. PICK n \in {"notifying", "idle"} : pc' = [pc EXCEPT ![t] = n]
  BY DEF TypeOK
<1>2. n \in Steps \ {"burying", "installing"} /\ pc[t] \notin {"burying", "installing"}
  BY DEF Steps
<1>3. atom' \in 0..2 /\ waits' \in 0..Half - 1 /\ notifies' \in 0..Half - 1
  BY DEF TypeOK
<1>4. /\ at' \in [Tasks -> [gen : 1..Current, it : Nat]]
      /\ target' \in [Tasks -> [gen : 1..Current, it : Nat]]
      /\ calls' \in [Tasks -> Nat] /\ back' \in [Tasks -> {"idle", "trying"}]
  BY DEF TypeOK
<1>5. TypeOK'
  BY <1>1, <1>2, <1>3, <1>4, TypeFrame
<1>6. LockInv'
  BY <1>1 DEF LockInv, TypeOK
<1>7. SlotInv' /\ GrowInv'
  BY <1>1, <1>2, Frame DEF TypeOK, InBucket
<1> QED BY <1>5, <1>6, <1>7

-----------------------------------------------------------------------------
(* Waiting. *)

(* The wait gets an iteration of the current generation. *)
LEMMA EnterKeeps ==
  ASSUME NEW t \in Tasks, IInv, Enter(t) PROVE IInv'
<1> USE DEF IInv, Enter, Goto, word, local
<1>1. PICK n \in {"placing"} : pc' = [pc EXCEPT ![t] = n]
  BY DEF TypeOK
<1>2. n \in Steps \ {"burying", "installing"} /\ pc[t] \notin {"burying", "installing"}
  BY DEF Steps
<1>3. atom' \in 0..2 /\ waits' \in 0..Half - 1 /\ notifies' \in 0..Half - 1
  BY LowFits DEF TypeOK
<1>4. /\ at' \in [Tasks -> [gen : 1..Current, it : Nat]]
      /\ target' \in [Tasks -> [gen : 1..Current, it : Nat]]
      /\ calls' \in [Tasks -> Nat] /\ back' \in [Tasks -> {"idle", "trying"}]
  <2>1. [gen |-> Current, it |-> waits] \in [gen : 1..Current, it : Nat]
    BY DEF TypeOK
  <2> QED BY <2>1 DEF TypeOK
<1>5. TypeOK'
  BY <1>1, <1>2, <1>3, <1>4, TypeFrame
<1>6. LockInv'
  BY <1>1, LockFrame DEF TypeOK
<1>7. SlotInv' /\ GrowInv'
  BY <1>1, <1>2, Frame DEF TypeOK, InBucket
<1> QED BY <1>5, <1>6, <1>7

(* The bucket stays as it is. *)
LEMMA PlaceTakenKeeps ==
  ASSUME NEW t \in Tasks, IInv, PlaceTaken(t) PROVE IInv'
<1> USE DEF IInv, PlaceTaken, Goto, CallThen, word, local
<1>1. PICK n \in {"expanding"} : pc' = [pc EXCEPT ![t] = n]
  BY DEF TypeOK
<1>2. n \in Steps \ {"burying", "installing"} /\ pc[t] \notin {"burying", "installing"}
  BY DEF Steps
<1>3. atom' \in 0..2 /\ waits' \in 0..Half - 1 /\ notifies' \in 0..Half - 1
  BY DEF TypeOK
<1>4. /\ at' \in [Tasks -> [gen : 1..Current, it : Nat]]
      /\ target' \in [Tasks -> [gen : 1..Current, it : Nat]]
      /\ calls' \in [Tasks -> Nat] /\ back' \in [Tasks -> {"idle", "trying"}]
  BY DEF TypeOK
<1>5. TypeOK'
  BY <1>1, <1>2, <1>3, <1>4, TypeFrame
<1>6. LockInv'
  BY <1>1, LockFrame DEF TypeOK
<1>7. SlotInv' /\ GrowInv'
  BY <1>1, <1>2, Frame DEF TypeOK, InBucket
<1> QED BY <1>5, <1>6, <1>7

(* The wait stays in its bucket, or leaves it. *)
LEMMA CheckKeeps ==
  ASSUME NEW t \in Tasks, IInv, Check(t) PROVE IInv'
<1> USE DEF IInv, Check, Goto, CallThen, word, local
<1>1. PICK n \in {"pending", "notifying"} : pc' = [pc EXCEPT ![t] = n]
  BY DEF TypeOK
<1>2. n \in Steps \ {"burying", "installing"} /\ pc[t] \notin {"burying", "installing"}
  BY DEF Steps
<1>3. atom' \in 0..2 /\ waits' \in 0..Half - 1 /\ notifies' \in 0..Half - 1
  BY DEF TypeOK
<1>4. /\ at' \in [Tasks -> [gen : 1..Current, it : Nat]]
      /\ target' \in [Tasks -> [gen : 1..Current, it : Nat]]
      /\ calls' \in [Tasks -> Nat] /\ back' \in [Tasks -> {"idle", "trying"}]
  BY DEF TypeOK
<1>5. TypeOK'
  BY <1>1, <1>2, <1>3, <1>4, TypeFrame
<1>6. LockInv'
  BY <1>1, LockFrame DEF TypeOK
<1>7. SlotInv' /\ GrowInv'
  BY <1>1, <1>2, Frame DEF TypeOK, InBucket
<1> QED BY <1>5, <1>6, <1>7

(* The wait leaves its tombstone. *)
LEMMA ResumeBuriedKeeps ==
  ASSUME NEW t \in Tasks, IInv, ResumeBuried(t) PROVE IInv'
<1> USE DEF IInv, ResumeBuried, Goto, CallThen, word, local
<1>1. PICK n \in {"expanding"} : pc' = [pc EXCEPT ![t] = n]
  BY DEF TypeOK
<1>2. n \in Steps \ {"burying", "installing"} /\ pc[t] \notin {"burying", "installing"}
  BY DEF Steps
<1>3. atom' \in 0..2 /\ waits' \in 0..Half - 1 /\ notifies' \in 0..Half - 1
  BY DEF TypeOK
<1>4. /\ at' \in [Tasks -> [gen : 1..Current, it : Nat]]
      /\ target' \in [Tasks -> [gen : 1..Current, it : Nat]]
      /\ calls' \in [Tasks -> Nat] /\ back' \in [Tasks -> {"idle", "trying"}]
  BY DEF TypeOK
<1>5. TypeOK'
  BY <1>1, <1>2, <1>3, <1>4, TypeFrame
<1>6. LockInv'
  BY <1>1, LockFrame DEF TypeOK
<1>7. SlotInv' /\ GrowInv'
  BY <1>1, <1>2, Frame DEF TypeOK, InBucket
<1> QED BY <1>5, <1>6, <1>7

(* The wait leaves its bucket as it is. *)
LEMMA DropKeeps ==
  ASSUME NEW t \in Tasks, IInv, Drop(t) PROVE IInv'
<1> USE DEF IInv, Drop, Goto, word, local
<1>1. PICK n \in {"dropped"} : pc' = [pc EXCEPT ![t] = n]
  BY DEF TypeOK
<1>2. n \in Steps \ {"burying", "installing"} /\ pc[t] \notin {"burying", "installing"}
  BY DEF Steps
<1>3. atom' \in 0..2 /\ waits' \in 0..Half - 1 /\ notifies' \in 0..Half - 1
  BY DEF TypeOK
<1>4. /\ at' \in [Tasks -> [gen : 1..Current, it : Nat]]
      /\ target' \in [Tasks -> [gen : 1..Current, it : Nat]]
      /\ calls' \in [Tasks -> Nat] /\ back' \in [Tasks -> {"idle", "trying"}]
  BY DEF TypeOK
<1>5. TypeOK'
  BY <1>1, <1>2, <1>3, <1>4, TypeFrame
<1>6. LockInv'
  BY <1>1, LockFrame DEF TypeOK
<1>7. SlotInv' /\ GrowInv'
  BY <1>1, <1>2, Frame DEF TypeOK, InBucket
<1> QED BY <1>5, <1>6, <1>7

-----------------------------------------------------------------------------
(* Notifying. *)

(* The notification gets an iteration of the current generation. *)
LEMMA NotifyKeeps ==
  ASSUME NEW t \in Tasks, IInv, Notify(t) PROVE IInv'
<1> USE DEF IInv, Notify, Goto, word, local
<1>1. PICK n \in {"signalling", "idle", "trying"} : pc' = [pc EXCEPT ![t] = n]
  BY DEF TypeOK
<1>2. n \in Steps \ {"burying", "installing"} /\ pc[t] \notin {"burying", "installing"}
  BY DEF Steps
<1>3. atom' \in 0..2 /\ waits' \in 0..Half - 1 /\ notifies' \in 0..Half - 1
  <2>1. Low(notifies + 1) \in 0..Half - 1 /\ Low(notifies + 1) \in Nat /\ waits \in Nat
    <3>1. notifies + 1 \in Nat /\ waits \in Nat
      BY HalfAssumption DEF TypeOK
    <3>2. Low(notifies + 1) \in 0..Half - 1
      BY <3>1, LowFits
    <3> QED BY <3>1, <3>2, HalfAssumption
  <2>2. notifies' \in {Low(notifies + 1), waits}
    BY <2>1, MinOfTwo
  <2> QED BY <2>1, <2>2 DEF TypeOK
<1>4. /\ at' \in [Tasks -> [gen : 1..Current, it : Nat]]
      /\ target' \in [Tasks -> [gen : 1..Current, it : Nat]]
      /\ calls' \in [Tasks -> Nat] /\ back' \in [Tasks -> {"idle", "trying"}]
  BY DEF TypeOK, Current
<1>5. TypeOK'
  BY <1>1, <1>2, <1>3, <1>4, TypeFrame
<1>6. LockInv'
  BY <1>1, LockFrame DEF TypeOK
<1>7. SlotInv' /\ GrowInv'
  BY <1>1, <1>2, Frame DEF TypeOK, InBucket
<1> QED BY <1>5, <1>6, <1>7

(* The notification names the generation to bury. *)
LEMMA SignalStrayKeeps ==
  ASSUME NEW t \in Tasks, IInv, SignalStray(t) PROVE IInv'
<1> USE DEF IInv, SignalStray, Goto, word, local
<1>1. PICK n \in {"expanding"} : pc' = [pc EXCEPT ![t] = n]
  BY DEF TypeOK
<1>2. n \in Steps \ {"burying", "installing"} /\ pc[t] \notin {"burying", "installing"}
  BY DEF Steps
<1>3. atom' \in 0..2 /\ waits' \in 0..Half - 1 /\ notifies' \in 0..Half - 1
  BY DEF TypeOK
<1>4. /\ at' \in [Tasks -> [gen : 1..Current, it : Nat]]
      /\ target' \in [Tasks -> [gen : 1..Current, it : Nat]]
      /\ calls' \in [Tasks -> Nat] /\ back' \in [Tasks -> {"idle", "trying"}]
  BY DEF TypeOK
<1>5. TypeOK'
  BY <1>1, <1>2, <1>3, <1>4, TypeFrame
<1>6. LockInv'
  BY <1>1, LockFrame DEF TypeOK
<1>7. SlotInv' /\ GrowInv'
  BY <1>1, <1>2, Frame DEF TypeOK, InBucket
<1> QED BY <1>5, <1>6, <1>7

-----------------------------------------------------------------------------
(* Writing to buckets. *)

(* A write is sound that leaves the tasks in the bucket what they may find there. *)
LEMMA PutKeeps ==
  ASSUME IInv, NEW t \in Tasks, NEW n \in Steps \ {"held", "panicked", "burying", "installing"},
         pc' = [pc EXCEPT ![t] = n], pc[t] \notin {"held", "burying", "installing"},
         NEW p \in [gen : 1..Current, it : Nat], NEW b \in Contents,
         Put(p, b), Bucket(p) # Tombstone,
         n \in {"checking", "pending"} => p = at[t] /\ b = Waiting(t),
         \A u \in Tasks \ {t} : InBucket(u) /\ SameBucket(at[u], p) =>
           b = Waking /\ n \notin {"checking", "pending"},
         UNCHANGED <<atom, waits, notifies, growing, calls, at, target, back>>
  PROVE  IInv'
<1> USE DEF IInv
<1>1. /\ generations' \in Seq(Buckets) /\ Current' = Current
      /\ \A g \in 1..Current : Cap(g)' = Cap(g) /\ DOMAIN generations'[g] = DOMAIN generations[g]
      /\ \A g \in 1..Current : \A i \in 0..Cap(g) - 1 :
           generations'[g][i] =
             IF g = p.gen /\ i = p.it % Cap(p.gen) THEN b ELSE generations[g][i]
  BY PutEffect
<1>2. TypeOK'
  <2>1. pc' \in [Tasks -> Steps]
    BY DEF TypeOK
  <2> QED BY <1>1, <2>1 DEF TypeOK
<1>3. LockInv'
  BY LockFrame
<1>4. SlotInv'
  <2>1. \A u \in Tasks : at[u] \in [gen : 1..Current, it : Nat]
    BY DEF TypeOK
  <2>2. \A u \in Tasks : /\ Cap(at[u].gen) \in Nat \ {0} /\ Cap(at[u].gen)' = Cap(at[u].gen)
                         /\ at[u].it % Cap(at[u].gen) \in 0..Cap(at[u].gen) - 1
    BY <1>1, <2>1, Reading
  <2>3. \A u \in Tasks : generations'[at[u].gen][at[u].it % Cap(at[u].gen)]
                         = IF SameBucket(at[u], p) THEN b ELSE Bucket(at[u])
    BY <1>1, <2>1, <2>2 DEF SameBucket, Bucket
  <2>4. \A u \in Tasks : InBucket(u)' <=> IF u = t THEN n \in {"checking", "pending"} ELSE InBucket(u)
    BY DEF InBucket, TypeOK
  <2>5. ASSUME NEW u \in Tasks, InBucket(u)'
        PROVE  generations'[at[u].gen][at[u].it % Cap(at[u].gen)] \in {Waiting(u), Waking, Tombstone}
    <3>1. CASE u = t
      BY <2>3, <2>4, <2>5, <3>1 DEF SameBucket
    <3>2. CASE u # t
      BY <2>3, <2>4, <2>5, <3>2 DEF SlotInv
    <3> QED BY <3>1, <3>2
  <2>6. ASSUME NEW u \in Tasks, NEW v \in Tasks, InBucket(u)', InBucket(v)',
               SameBucket(at[u], at[v])
        PROVE  u = v
    BY <2>4, <2>6 DEF SlotInv, SameBucket
  <2>7. \A u \in Tasks : Bucket(at[u])' = generations'[at[u].gen][at[u].it % Cap(at[u].gen)]
    BY <2>2 DEF Bucket
  <2>8. \A u, v \in Tasks : SameBucket(at[u], at[v])' <=> SameBucket(at[u], at[v])
    BY <2>2 DEF SameBucket
  <2> QED BY <2>5, <2>6, <2>7, <2>8 DEF SlotInv
<1>5. GrowInv'
  <2>1. \A u \in Tasks : pc'[u] \in {"burying", "installing"} <=> pc[u] \in {"burying", "installing"}
    BY DEF TypeOK
  <2>2. \A u \in Tasks : pc'[u] \in {"burying", "installing"} => pc'[u] = pc[u]
    BY DEF TypeOK
  <2>3. p.it % Cap(p.gen) \in 0..Cap(p.gen) - 1
        /\ generations[p.gen][p.it % Cap(p.gen)] # Tombstone
    BY Reading DEF Bucket
  <2>4. \A g \in 1..Current : \A i \in 0..Cap(g) - 1 :
          generations[g][i] = Tombstone => generations'[g][i] = Tombstone
    BY <1>1, <2>3
  <2>5. Current \in 1..Current /\ \A g \in 1..Current - 1 : g \in 1..Current
    BY DEF TypeOK
  <2>6. Cap(Current)' = Cap(Current) /\ \A g \in 1..Current - 1 : Cap(g)' = Cap(g)
    BY <1>1, <2>5
  <2> QED BY <1>1, <2>1, <2>2, <2>4, <2>5, <2>6 DEF GrowInv
<1> QED BY <1>2, <1>3, <1>4, <1>5

(* Every place the code names has a bucket; what is written there is a bucket's contents. *)
LEMMA Written ==
  ASSUME TypeOK, NEW p \in [gen : 1..Current, it : Nat], NEW t \in Tasks
  PROVE  {Waiting(t), Waking, Tombstone, Woken(p.it), Empty(Low(p.it + Cap(p.gen)))} \subseteq Contents
<1>1. p.it + Cap(p.gen) \in Nat
  BY Reading
<1>2. Low(p.it + Cap(p.gen)) \in Nat
  BY <1>1, LowFits, HalfAssumption
<1> QED BY <1>2 DEF Contents

(* An empty bucket has nobody in it. *)
LEMMA PlaceKeeps ==
  ASSUME NEW t \in Tasks, IInv, Place(t) PROVE IInv'
<1> USE DEF Place, Goto, word, local
<1>1. at[t] \in [gen : 1..Current, it : Nat] /\ TypeOK
  BY DEF IInv, TypeOK
<1>2. Bucket(at[t]) \notin {Waking, Tombstone} /\ \A u \in Tasks : Bucket(at[t]) # Waiting(u)
  BY <1>1, BucketsDiffer
<1>3. \A u \in Tasks \ {t} : ~(InBucket(u) /\ SameBucket(at[u], at[t]))
  BY <1>2 DEF IInv, SlotInv, SameBucket, Bucket
<1>4. Waiting(t) \in Contents
  BY <1>1, Written
<1> QED BY <1>1, <1>2, <1>3, <1>4, PutKeeps DEF Steps

(* The bucket holds a notification, so nobody is in it; it is emptied. *)
LEMMA PlaceWokenKeeps ==
  ASSUME NEW t \in Tasks, IInv, PlaceWoken(t) PROVE IInv'
<1> USE DEF PlaceWoken, Goto, word, local
<1>1. at[t] \in [gen : 1..Current, it : Nat] /\ TypeOK
  BY DEF IInv, TypeOK
<1>2. Bucket(at[t]) \notin {Waking, Tombstone} /\ \A u \in Tasks : Bucket(at[t]) # Waiting(u)
  BY <1>1, BucketsDiffer
<1>3. \A u \in Tasks \ {t} : ~(InBucket(u) /\ SameBucket(at[u], at[t]))
  BY <1>2 DEF IInv, SlotInv, SameBucket, Bucket
<1>4. PICK b \in Contents : b = Empty(Low(at[t].it + Cap(at[t].gen)))
  BY <1>1, Written
<1>5. pc' = [pc EXCEPT ![t] = "trying"] /\ Bucket(at[t]) # Tombstone
  BY <1>2
<1>6. /\ Put(at[t], b) /\ pc[t] \in {"placing", "pending"}
      /\ UNCHANGED <<atom, waits, notifies, growing, calls, at, target, back>>
  BY <1>4
<1>7. PICK n \in Steps \ {"held", "panicked", "burying", "installing"} : n = "trying"
  BY DEF Steps
<1>8. /\ pc' = [pc EXCEPT ![t] = n] /\ pc[t] \notin {"held", "burying", "installing"}
      /\ n \in {"checking", "pending"} => at[t] = at[t] /\ b = Waiting(t)
      /\ \A u \in Tasks \ {t} : InBucket(u) /\ SameBucket(at[u], at[t]) =>
           b = Waking /\ n \notin {"checking", "pending"}
  BY <1>3, <1>5, <1>6, <1>7
<1>9. Put(at[t], b) /\ Bucket(at[t]) # Tombstone
      /\ UNCHANGED <<atom, waits, notifies, growing, calls, at, target, back>>
  BY <1>5, <1>6
<1> HIDE DEF PlaceWoken, Goto, word, local
<1> QED BY <1>1, <1>8, <1>9, PutKeeps

(* The waiter was woken, and is the one in its bucket. *)
LEMMA ResumeKeeps ==
  ASSUME NEW t \in Tasks, IInv, Resume(t) PROVE IInv'
<1> USE DEF Resume, Goto, word, local
<1>1. at[t] \in [gen : 1..Current, it : Nat] /\ TypeOK
  BY DEF IInv, TypeOK
<1>2. Bucket(at[t]) = Waking
  BY DEF IInv, SlotInv, InBucket
<1>3. \A u \in Tasks \ {t} : ~(InBucket(u) /\ SameBucket(at[u], at[t]))
  BY DEF IInv, SlotInv, InBucket
<1>4. PICK b \in Contents : b = Empty(Low(at[t].it + Cap(at[t].gen)))
  BY <1>1, Written
<1>5. pc' = [pc EXCEPT ![t] = "trying"] /\ Bucket(at[t]) # Tombstone
  BY <1>2, BucketsDiffer
<1>6. /\ Put(at[t], b) /\ pc[t] \in {"placing", "pending"}
      /\ UNCHANGED <<atom, waits, notifies, growing, calls, at, target, back>>
  BY <1>4
<1>7. PICK n \in Steps \ {"held", "panicked", "burying", "installing"} : n = "trying"
  BY DEF Steps
<1>8. /\ pc' = [pc EXCEPT ![t] = n] /\ pc[t] \notin {"held", "burying", "installing"}
      /\ n \in {"checking", "pending"} => at[t] = at[t] /\ b = Waiting(t)
      /\ \A u \in Tasks \ {t} : InBucket(u) /\ SameBucket(at[u], at[t]) =>
           b = Waking /\ n \notin {"checking", "pending"}
  BY <1>3, <1>5, <1>6, <1>7
<1>9. Put(at[t], b) /\ Bucket(at[t]) # Tombstone
      /\ UNCHANGED <<atom, waits, notifies, growing, calls, at, target, back>>
  BY <1>5, <1>6
<1> HIDE DEF Resume, Goto, word, local
<1> QED BY <1>1, <1>8, <1>9, PutKeeps

(* Whoever waits in the bucket finds Waking there; no one waits in an empty one. *)
LEMMA SignalKeeps ==
  ASSUME NEW t \in Tasks, IInv, Signal(t) PROVE IInv'
<1> USE DEF Signal, Goto, word, local
<1>1. target[t] \in [gen : 1..Current, it : Nat] /\ TypeOK /\ back[t] \in {"idle", "trying"}
  BY DEF IInv, TypeOK
<1>2. Bucket(target[t]) # Tombstone
  BY <1>1, BucketsDiffer
<1>3. PICK b \in {Waking, Woken(target[t].it)} :
        /\ Put(target[t], b)
        /\ b # Waking => Bucket(target[t]) = Empty(target[t].it)
  OBVIOUS
<1>4. ASSUME NEW u \in Tasks \ {t}, InBucket(u), SameBucket(at[u], target[t]) PROVE b = Waking
  <2>1. Bucket(at[u]) = Bucket(target[t])
    BY <1>4 DEF SameBucket, Bucket
  <2> QED BY <1>1, <1>3, <1>4, <2>1, BucketsDiffer DEF IInv, SlotInv
<1>5. b \in Contents
  BY <1>1, Written
<1> QED BY <1>1, <1>2, <1>3, <1>4, <1>5, PutKeeps DEF Steps

-----------------------------------------------------------------------------
(* Burying a generation. *)

(* The lock of generations is free, or the generation is buried already. *)
LEMMA GrowKeeps ==
  ASSUME NEW t \in Tasks, IInv, Grow(t) PROVE IInv'
<1> USE DEF IInv
<1> USE NullIsNoTask DEF Grow, Goto, word
<1>1. CASE at[t].gen # Current
  <2>1. PICK n \in {"idle", "trying"} : pc' = [pc EXCEPT ![t] = n]
    BY <1>1 DEF TypeOK
  <2>2. n \in Steps \ {"burying", "installing"} /\ pc[t] \notin {"burying", "installing"}
    BY DEF Steps
  <2>3. TypeOK'
    BY <1>1, <2>1, <2>2, TypeFrame DEF TypeOK
  <2>4. LockInv'
    BY <2>1, LockFrame
  <2>5. SlotInv' /\ GrowInv'
    BY <1>1, <2>1, <2>2, Frame
  <2> QED BY <2>3, <2>4, <2>5
<1>2. CASE at[t].gen = Current
  <2>1. /\ growing' = t /\ pc' = [pc EXCEPT ![t] = "burying"] /\ at' = [at EXCEPT ![t].it = 0]
        /\ pc[t] = "expanding" /\ growing = Null
        /\ UNCHANGED <<atom, generations, word, calls, target, back>>
    BY <1>2
  <2> HIDE DEF Grow, Goto
  <2>2. /\ at' \in [Tasks -> [gen : 1..Current, it : Nat]]
        /\ at'[t] = [gen |-> Current, it |-> 0] /\ \A u \in Tasks \ {t} : at'[u] = at[u]
    BY <1>2, <2>1 DEF TypeOK
  <2>3. pc' \in [Tasks -> Steps] /\ pc'[t] = "burying" /\ \A u \in Tasks \ {t} : pc'[u] = pc[u]
    BY <2>1 DEF TypeOK, Steps
  <2>4. TypeOK'
    BY <2>1, <2>2, <2>3 DEF TypeOK, Current
  <2>5. LockInv'
    BY <2>1, LockFrame
  <2>6. SlotInv'
    BY <2>1, <2>2, <2>3 DEF SlotInv, InBucket, Bucket, SameBucket, Cap
  <2>7. GrowInv'
    <3>1. Current' = Current /\ \A g \in 1..Current : Cap(g)' = Cap(g)
      BY <2>1 DEF Current, Cap
    <3>2. \A u \in Tasks : pc[u] \notin {"burying", "installing"}
      BY <2>1 DEF GrowInv
    <3>3. Cap(Current) > 0 /\ Current \in 1..Current
      BY Latest
    <3>4. \A u \in Tasks : pc'[u] # "installing" /\ (pc'[u] = "burying" => u = t)
      BY <2>3, <3>2
    <3>5. Cap(Current)' = Cap(Current)
      BY <3>1, <3>3
    <3>6. \A g \in 1..Current - 1 : Cap(g)' = Cap(g)
      BY <3>1, <3>3
    <3>7. \A u \in Tasks : growing' = u <=> pc'[u] \in {"burying", "installing"}
      BY <2>1, <2>3, <3>4
    <3>8. \A u \in Tasks : growing' = u => at'[u].gen = Current'
      BY <2>1, <2>2, <3>1
    <3>9. \A u \in Tasks : pc'[u] = "burying" => at'[u].it = 0
      BY <2>2, <3>4
    <3> QED BY <2>1, <3>1, <3>3, <3>4, <3>5, <3>6, <3>7, <3>8, <3>9 DEF GrowInv
  <2> QED BY <2>4, <2>5, <2>6, <2>7
<1> QED BY <1>1, <1>2

(* One more bucket is a tombstone. *)
LEMMA BuryKeeps ==
  ASSUME NEW t \in Tasks, IInv, Bury(t) PROVE IInv'
<1> USE DEF IInv
<1> DEFINE c == Cap(Current)
           i == at[t].it
<1>1. /\ at[t] \in [gen : 1..Current, it : Nat] /\ Tombstone \in Contents
      /\ Current \in 1..Current /\ c \in Nat \ {0}
  <2>1. at[t] \in [gen : 1..Current, it : Nat]
    BY DEF TypeOK
  <2> QED BY <2>1, Written, Latest
<1>2. /\ pc[t] = "burying" /\ growing = t /\ at[t].gen = Current /\ i < c /\ i \in Nat
      /\ i % c = i
  BY <1>1, Remainder DEF Bury, GrowInv
<1>3. PICK n \in {"burying", "installing"} :
        /\ pc' = [pc EXCEPT ![t] = n]
        /\ n = "burying" => i + 1 < c
        /\ n = "installing" => i + 1 = c
        /\ at' = [at EXCEPT ![t].it = @ + 1]
        /\ Put(at[t], Tombstone)
        /\ UNCHANGED <<atom, waits, notifies, growing, calls, target, back>>
  <2>1. /\ pc' = [pc EXCEPT ![t] = IF i + 1 < c THEN "burying" ELSE "installing"]
        /\ at' = [at EXCEPT ![t].it = @ + 1] /\ Put(at[t], Tombstone)
        /\ UNCHANGED <<atom, waits, notifies, growing, calls, target, back>>
    BY <1>2 DEF Bury, Goto, word
  <2> HIDE DEF c, i
  <2>2. CASE i + 1 < c
    BY <2>1, <2>2
  <2>3. CASE ~(i + 1 < c)
    <3>1. i + 1 = c
      BY <1>1, <1>2, <2>3
    <3> QED BY <2>1, <2>3, <3>1
  <2> QED BY <2>2, <2>3
<1> HIDE DEF c, i
<1>4. /\ generations' \in Seq(Buckets) /\ Current' = Current
      /\ \A g \in 1..Current : Cap(g)' = Cap(g)
      /\ \A g \in 1..Current : \A k \in 0..Cap(g) - 1 :
           generations'[g][k] = IF g = Current /\ k = i THEN Tombstone ELSE generations[g][k]
  <2>1. at[t].gen = Current /\ at[t].it % Cap(at[t].gen) = i
    BY <1>2 DEF c, i
  <2> QED BY <1>1, <1>3, <2>1, PutEffect
<1>5. /\ at' \in [Tasks -> [gen : 1..Current, it : Nat]]
      /\ at'[t] = [gen |-> Current, it |-> i + 1] /\ \A u \in Tasks \ {t} : at'[u] = at[u]
  BY <1>2, <1>3 DEF TypeOK, i
<1>6. pc' \in [Tasks -> Steps] /\ pc'[t] = n /\ \A u \in Tasks \ {t} : pc'[u] = pc[u]
  BY <1>3 DEF TypeOK, Steps
<1>7. TypeOK'
  BY <1>3, <1>4, <1>5, <1>6 DEF TypeOK
<1>8. LockInv'
  BY <1>2, <1>3, LockFrame
<1>9. SlotInv'
  <2>1. \A u \in Tasks : at[u] \in [gen : 1..Current, it : Nat]
    BY DEF TypeOK
  <2>2. \A u \in Tasks : /\ Cap(at[u].gen) \in Nat \ {0} /\ Cap(at[u].gen)' = Cap(at[u].gen)
                         /\ at[u].it % Cap(at[u].gen) \in 0..Cap(at[u].gen) - 1
    <3>1. \A u \in Tasks : at[u].gen \in 1..Current
      BY <2>1
    <3>2. \A u \in Tasks : /\ Cap(at[u].gen) \in Nat \ {0}
                           /\ at[u].it % Cap(at[u].gen) \in 0..Cap(at[u].gen) - 1
      BY <2>1, Reading
    <3>3. \A u \in Tasks : at'[u].gen = at[u].gen
      BY <1>2, <1>5, <3>1 DEF i
    <3> QED BY <1>4, <3>1, <3>2, <3>3
  <2>3. \A u \in Tasks : generations'[at[u].gen][at[u].it % Cap(at[u].gen)]
                         \in {Tombstone, generations[at[u].gen][at[u].it % Cap(at[u].gen)]}
    BY <1>4, <2>1, <2>2
  <2>4. \A u \in Tasks : InBucket(u)' => InBucket(u) /\ at'[u] = at[u]
    BY <1>3, <1>5, <1>6 DEF InBucket
  <2>5. \A u \in Tasks : InBucket(u)' =>
          Bucket(at[u])' = generations'[at[u].gen][at[u].it % Cap(at[u].gen)]
    BY <2>2, <2>4 DEF Bucket
  <2>6. \A u, v \in Tasks : InBucket(u)' /\ InBucket(v)' =>
          (SameBucket(at[u], at[v])' <=> SameBucket(at[u], at[v]))
    BY <2>2, <2>4 DEF SameBucket
  <2> QED BY <2>3, <2>4, <2>5, <2>6 DEF SlotInv, Bucket
<1>10. GrowInv'
  <2>1. \A u \in Tasks : growing' = u <=> pc'[u] \in {"burying", "installing"}
    BY <1>2, <1>3, <1>6 DEF GrowInv
  <2>2. \A u \in Tasks : growing' = u => u = t
    BY <1>2, <1>3
  <2>3. Cap(Current)' = c /\ \A g \in 1..Current - 1 : Cap(g)' = Cap(g) /\ g \in 1..Current
    BY <1>1, <1>4 DEF c, TypeOK
  <2>4. pc'[t] = "burying" => at'[t].it < c
    BY <1>3, <1>5, <1>6
  <2>5. \A k \in 0..c - 1 : k < i => generations[Current][k] = Tombstone
    BY <1>2 DEF GrowInv, c, i
  <2>6. ASSUME NEW k \in 0..c - 1, pc'[t] = "installing" \/ (pc'[t] = "burying" /\ k < at'[t].it)
        PROVE  generations'[Current][k] = Tombstone
    <3>1. k <= i
      BY <1>1, <1>2, <1>3, <1>5, <1>6, <2>6
    <3> QED BY <1>1, <1>2, <1>4, <2>5, <3>1 DEF c
  <2>7. \A g \in 1..Current - 1 : \A k \in 0..Cap(g) - 1 : generations'[g][k] = Tombstone
    BY <1>1, <1>4, <2>3 DEF GrowInv
  <2>8. \A u \in Tasks : u # t => pc'[u] \notin {"burying", "installing"}
    BY <2>1, <2>2
  <2> QED BY <1>3, <1>4, <1>5, <2>1, <2>2, <2>3, <2>4, <2>6, <2>7, <2>8 DEF GrowInv
<1> QED BY <1>7, <1>8, <1>9, <1>10

(* The new generation is empty, and lies on top of the buried one. *)
LEMMA InstallKeeps ==
  ASSUME NEW t \in Tasks, IInv, Install(t) PROVE IInv'
<1> USE DEF IInv
<1> DEFINE c == Cap(Current)
           h == Generation(2 * c)
<1>1. /\ pc[t] = "installing" /\ growing = t /\ waits' = 0 /\ notifies' = 0 /\ growing' = Null
      /\ generations' = Append(generations, h)
      /\ UNCHANGED <<atom, calls, at, target, back>>
  BY DEF Install, GrowInv, local
<1>2. PICK n \in {"idle", "trying"} : pc' = [pc EXCEPT ![t] = n]
  BY DEF Install, Goto, TypeOK
<1>3. c \in Nat \ {0} /\ 2 * c \in Nat \ {0} /\ Current \in Nat \ {0}
  BY Latest
<1> HIDE DEF c
<1>4. h \in Buckets
  <2>1. h \in [0..2 * c - 1 -> Contents]
    <3>1. \A i \in 0..2 * c - 1 : i \in Nat /\ Empty(i) \in Contents
      BY <1>3 DEF Contents
    <3> QED BY <3>1 DEF Generation
  <2> QED BY <1>3, <2>1 DEF Buckets
<1> HIDE DEF h
<1>5. /\ generations' \in Seq(Buckets) /\ Current' = Current + 1
      /\ \A g \in 1..Current : generations'[g] = generations[g]
  BY <1>1, <1>3, <1>4 DEF TypeOK, Current
<1>6. \A g \in 1..Current : Cap(g)' = Cap(g)
  BY <1>5 DEF Cap
<1>7. pc' \in [Tasks -> Steps] /\ pc'[t] = n /\ \A u \in Tasks \ {t} : pc'[u] = pc[u]
  BY <1>2 DEF TypeOK, Steps
<1>8. TypeOK'
  <2>1. 0 \in 0..Half - 1
    BY HalfAssumption
  <2>2. \A u \in Tasks : /\ at[u] \in [gen : 1..Current', it : Nat]
                         /\ target[u] \in [gen : 1..Current', it : Nat]
    <3>1. 1..Current \subseteq 1..Current'
      BY <1>3, <1>5
    <3> QED BY <3>1 DEF TypeOK
  <2>3. /\ at \in [Tasks -> [gen : 1..Current', it : Nat]]
        /\ target \in [Tasks -> [gen : 1..Current', it : Nat]]
    BY <2>2 DEF TypeOK
  <2> QED BY <1>1, <1>3, <1>5, <1>7, <2>1, <2>3 DEF TypeOK
<1>9. LockInv'
  BY <1>1, <1>2, LockFrame
<1>10. SlotInv'
  <2>1. \A u \in Tasks : at[u].gen \in 1..Current
    BY DEF TypeOK
  <2>2. \A u \in Tasks : InBucket(u)' => InBucket(u)
    BY <1>1, <1>2, <1>7 DEF InBucket
  <2>3. \A u \in Tasks : at'[u] = at[u] /\ generations'[at[u].gen] = generations[at[u].gen]
                         /\ Cap(at[u].gen)' = Cap(at[u].gen)
    BY <1>1, <1>5, <1>6, <2>1
  <2>4. \A u \in Tasks : Bucket(at[u])' = Bucket(at[u])
    BY <2>3 DEF Bucket
  <2>5. \A u, v \in Tasks : SameBucket(at[u], at[v])' <=> SameBucket(at[u], at[v])
    BY <2>3 DEF SameBucket
  <2> QED BY <2>2, <2>4, <2>5 DEF SlotInv
<1>11. GrowInv'
  <2>1. \A u \in Tasks : pc'[u] \notin {"burying", "installing"} /\ growing' # u
    BY <1>1, <1>2, <1>7, NullIsNoTask DEF GrowInv
  <2>2. \A i \in 0..c - 1 : generations[Current][i] = Tombstone
    BY <1>1 DEF GrowInv, c
  <2>3. ASSUME NEW g \in 1..Current' - 1, NEW i \in 0..Cap(g)' - 1
        PROVE  generations'[g][i] = Tombstone
    <3>1. g \in 1..Current /\ i \in 0..Cap(g) - 1 /\ generations'[g] = generations[g]
      BY <1>3, <1>5, <1>6, <2>3
    <3>2. CASE g = Current
      BY <2>2, <3>1, <3>2 DEF c
    <3>3. CASE g # Current
      <4>1. g \in 1..Current - 1
        BY <1>3, <3>1, <3>3
      <4> QED BY <3>1, <4>1 DEF GrowInv
    <3> QED BY <3>2, <3>3
  <2> QED BY <2>1, <2>3 DEF GrowInv
<1> QED BY <1>8, <1>9, <1>10, <1>11

-----------------------------------------------------------------------------
(* One generation of one empty bucket, and nobody in it. *)
LEMMA InitKeeps == Init => IInv
<1> SUFFICES ASSUME Init PROVE IInv
  OBVIOUS
<1> DEFINE h == Generation(1)
<1>1. generations = <<h>> /\ h \in Buckets
  <2>1. h \in [0..0 -> Contents]
    <3>1. \A i \in 0..0 : Empty(i) \in Contents
      BY DEF Contents
    <3> QED BY <3>1 DEF Generation
  <2> HIDE DEF h
  <2>2. h \in [0..1 - 1 -> Contents] /\ 1 \in Nat \ {0}
    BY <2>1
  <2>3. h \in Buckets
    BY <2>2 DEF Buckets
  <2> QED BY <2>3 DEF Init, h
<1> HIDE DEF h
<1>2. generations \in Seq(Buckets) /\ Current = 1
  BY <1>1 DEF Current
<1>3. TypeOK
  BY <1>2, HalfAssumption, CallsAssumption DEF Init, TypeOK, Steps, Nowhere
<1>4. LockInv /\ SlotInv
  BY DEF Init, LockInv, SlotInv, InBucket
<1>5. GrowInv
  BY <1>2, NullIsNoTask DEF Init, GrowInv
<1> QED BY <1>3, <1>4, <1>5 DEF IInv

(* Together: every step of Next, and stuttering. *)
LEMMA NextKeeps == IInv /\ [Next]_vars => IInv'
<1> SUFFICES ASSUME IInv, [Next]_vars PROVE IInv'
  OBVIOUS
<1>1. CASE UNCHANGED vars
  BY <1>1 DEF vars, IInv, TypeOK, LockInv, SlotInv, GrowInv, InBucket, Bucket, SameBucket, Cap, Current
<1>2. ASSUME NEW t \in Tasks, Lock(t) \/ Step(t) \/ Grow(t) \/ Drop(t) PROVE IInv'
  BY <1>2, LockKeeps, RetryKeeps, UnlockKeeps, EnterKeeps, PlaceKeeps, PlaceWokenKeeps,
     PlaceTakenKeeps, CheckKeeps, ResumeKeeps, ResumeBuriedKeeps, DropKeeps, NotifyKeeps,
     SignalKeeps, SignalStrayKeeps, GrowKeeps, BuryKeeps, InstallKeeps DEF Step
<1> QED BY <1>1, <1>2 DEF Next

-----------------------------------------------------------------------------
(* Everything so far holds for every Spec behaviour, also when sums wrap. *)

(* The inductive invariant of the mutex and its buckets. *)
THEOREM Invariance == Spec => []IInv
<1>1. Init => IInv
  BY InitKeeps
<1>2. IInv /\ [Next]_vars => IInv'
  BY NextKeeps
<1> QED BY <1>1, <1>2, PTL DEF Spec

(* One task at most holds the mutex, no wait is put out of its bucket, and
   poll_waiting does not come to its unreachable!(). *)
THEOREM BucketsAreKept == Spec => []BucketsKept
<1>1. IInv => BucketsKept
  <2> SUFFICES ASSUME IInv PROVE BucketsKept
    OBVIOUS
  <2>1. \A t, u \in Tasks : pc[t] = "pending" /\ pc[u] = "pending" /\ at[t] = at[u] => t = u
    BY DEF IInv, SlotInv, InBucket, SameBucket
  <2>2. \A t \in Tasks : pc[t] = "pending" => Bucket(at[t]) \in {Waiting(t), Waking, Tombstone}
    BY DEF IInv, SlotInv, InBucket
  <2> QED BY <2>1, <2>2 DEF BucketsKept, IInv, LockInv
<1> QED BY <1>1, Invariance, PTL

-----------------------------------------------------------------------------
(* No wakeup is lost while the sums of the queue do not wrap.  A bucket serves
   one iteration after the other; who finds one out of turn buries the
   generation.  So while nobody buries it, the notifications a bucket has had
   are no more than the iterations it has served: one that was notified and
   not served has a notification on its way. *)

SumsFit == waits + Cap(Current) < Half

Burying == \E u \in Tasks :
  pc[u] \in {"expanding", "burying", "installing"} /\ at[u].gen = Current

InFlight(u, i) == pc[u] = "signalling" /\ target[u].gen = Current /\ target[u].it = i
Arriving(u, i) == pc[u] = "placing" /\ at[u].gen = Current /\ at[u].it = i
Inside(u, i)   == InBucket(u) /\ at[u].gen = Current /\ at[u].it = i

Slots   == 0..Cap(Current) - 1
Held(s) == generations[Current][s]

(* The iterations of bucket s whose notifications were delivered, and those
   before i. *)
Spent(s)   == {j \in 0..notifies - 1 : j % Cap(Current) = s /\ \A u \in Tasks : ~InFlight(u, j)}
Past(s, i) == {j \in 0..i - 1 : j % Cap(Current) = s}

(* Bucket s was notified at most once for each iteration before i, and the
   waits from i on have yet to arrive. *)
Settled(s, i)     == Cardinality(Spent(s)) <= Cardinality(Past(s, i))
AllArriving(s, i) == \A j \in Nat :
  i <= j /\ j < waits /\ j % Cap(Current) = s => \E u \in Tasks : Arriving(u, j)

CountInv ==
  /\ notifies <= waits
  /\ \A t \in Tasks : pc[t] \in {"placing", "checking", "pending"} /\ at[t].gen = Current =>
       at[t].it < waits
  /\ \A t \in Tasks : pc[t] = "signalling" /\ target[t].gen = Current =>
       target[t].it < notifies

EmptyInv(s) == \A i \in Nat : Held(s) = Empty(i) =>
  i % Cap(Current) = s /\ Settled(s, i) /\ AllArriving(s, i)
WokenInv(s) == \A i \in Nat : Held(s) = Woken(i) =>
  i % Cap(Current) = s /\ Settled(s, i + Cap(Current)) /\ AllArriving(s, i)
OwnerInv(s) == \A t \in Tasks : \A i \in Nat : Inside(t, i) /\ i % Cap(Current) = s =>
  /\ Held(s) = Waiting(t) => Settled(s, i)
  /\ Held(s) = Waking => Settled(s, i + Cap(Current))
  /\ AllArriving(s, i + Cap(Current))
BucketInv == Burying \/ \A s \in Slots : EmptyInv(s) /\ WokenInv(s) /\ OwnerInv(s)

(* Who will come to notify or to wait again, or to bury the current generation. *)
Active(u) ==
  \/ pc[u] \in {"trying", "entering", "placing", "checking", "notifying"}
  \/ pc[u] = "signalling" /\ (back[u] = "trying" \/ target[u].gen = Current)
  \/ pc[u] = "expanding" /\ (back[u] = "trying" \/ at[u].gen = Current)
  \/ pc[u] \in {"burying", "installing"}
  \/ pc[u] = "pending" /\ Bucket(at[u]) = Waking

ActiveInv ==
  atom # 2 /\ (\E t \in Tasks : Sleeping(t)) => (\E u \in Tasks : Active(u)) \/ GivenUp

WakeInv == CountInv /\ BucketInv /\ ActiveInv

-----------------------------------------------------------------------------
(* The counting argument. *)

(* Delivered notifications are counted by a number. *)
LEMMA SpentFinite ==
  ASSUME TypeOK, NEW s
  PROVE  IsFiniteSet(Spent(s)) /\ Cardinality(Spent(s)) \in Nat
<1>1. IsFiniteSet(0..notifies - 1)
  BY FS_Interval, HalfAssumption DEF TypeOK
<1>2. Spent(s) \subseteq 0..notifies - 1
  BY DEF Spent
<1> QED BY <1>1, <1>2, FS_Subset, FS_CardinalityType

(* So are the iterations before one. *)
LEMMA PastFinite ==
  ASSUME NEW s, NEW i \in Nat
  PROVE  IsFiniteSet(Past(s, i)) /\ Cardinality(Past(s, i)) \in Nat
<1>1. IsFiniteSet(0..i - 1)
  BY FS_Interval
<1>2. Past(s, i) \subseteq 0..i - 1
  BY DEF Past
<1> QED BY <1>1, <1>2, FS_Subset, FS_CardinalityType

(* Serving an iteration makes room for one more notification. *)
LEMMA PastGrows ==
  ASSUME TypeOK, NEW s, NEW i \in Nat, i % Cap(Current) = s, NEW k \in Nat, i < k
  PROVE  Cardinality(Past(s, i)) + 1 <= Cardinality(Past(s, k))
<1>1. i \in Past(s, k) /\ i \notin Past(s, i) /\ Past(s, i) \subseteq Past(s, k)
  BY DEF Past
<1>2. IsFiniteSet(Past(s, i)) /\ IsFiniteSet(Past(s, k))
  BY PastFinite
<1> DEFINE w == Past(s, i) \union {i}
<1>3. Cardinality(w) = Cardinality(Past(s, i)) + 1 /\ IsFiniteSet(w)
  BY <1>1, <1>2, FS_AddElement
<1>4. Cardinality(w) <= Cardinality(Past(s, k))
  BY <1>1, <1>2, <1>3, FS_Subset
<1> QED BY <1>3, <1>4

(* A notified iteration that the bucket has not served: a notification for the
   bucket is on its way. *)
LEMMA Overdue ==
  ASSUME TypeOK, NEW s, NEW i \in Nat, i % Cap(Current) = s, i < notifies, Settled(s, i)
  PROVE  \E u \in Tasks : \E j \in Nat : InFlight(u, j) /\ j % Cap(Current) = s
<1> SUFFICES ASSUME \A u \in Tasks : \A j \in Nat : ~(InFlight(u, j) /\ j % Cap(Current) = s)
             PROVE  FALSE
  OBVIOUS
<1>1. notifies \in Nat
  BY HalfAssumption DEF TypeOK
<1>2. Spent(s) = Past(s, notifies)
  BY <1>1 DEF Spent, Past
<1>3. Cardinality(Past(s, i)) + 1 <= Cardinality(Past(s, notifies))
  BY <1>1, PastGrows
<1>4. Cardinality(Past(s, i)) \in Nat /\ Cardinality(Past(s, notifies)) \in Nat
  BY <1>1, PastFinite
<1> QED BY <1>2, <1>3, <1>4 DEF Settled

(* Old generations are buried: there is nothing to find there but tombstones. *)
LEMMA OldIsBuried ==
  ASSUME IInv, NEW p \in [gen : 1..Current, it : Nat], Bucket(p) # Tombstone
  PROVE  p.gen = Current /\ Bucket(p) = Held(p.it % Cap(Current)) /\ p.it % Cap(Current) \in Slots
<1>1. TypeOK /\ GrowInv /\ Current \in Nat \ {0}
  BY DEF IInv, TypeOK
<1>2. p.it % Cap(p.gen) \in 0..Cap(p.gen) - 1
  BY <1>1, Reading
<1>3. p.gen = Current
  <2>1. SUFFICES ASSUME p.gen # Current PROVE FALSE
    OBVIOUS
  <2>2. p.gen \in 1..Current - 1
    BY <1>1, <2>1
  <2> QED BY <1>1, <1>2, <2>2 DEF GrowInv, Bucket
<1> QED BY <1>2, <1>3 DEF Bucket, Held, Slots

(* What was said of the buckets gives NotifiedIsWoken: a sleeper's bucket holds its
   waker, so it has not been served; if it was notified, it is overdue. *)
LEMMA Notified ==
  ASSUME IInv, BucketInv PROVE NotifiedIsWoken
<1> SUFFICES ASSUME NEW t \in Tasks, Sleeping(t)
             PROVE  /\ at[t].gen = Current
                    /\ at[t].it < notifies =>
                         Abandoning \/ \E u \in Tasks : pc[u] = "signalling" /\ SameBucket(target[u], at[t])
  BY DEF NotifiedIsWoken
<1>1. TypeOK /\ at[t] \in [gen : 1..Current, it : Nat] /\ InBucket(t) /\ Bucket(at[t]) = Waiting(t)
  BY DEF IInv, TypeOK, Sleeping, InBucket
<1>2. at[t].gen = Current /\ Held(at[t].it % Cap(Current)) = Waiting(t)
      /\ at[t].it % Cap(Current) \in Slots
  BY <1>1, OldIsBuried, BucketsDiffer
<1>3. ASSUME at[t].it < notifies, ~Abandoning
      PROVE  \E u \in Tasks : pc[u] = "signalling" /\ SameBucket(target[u], at[t])
  <2> DEFINE s == at[t].it % Cap(Current)
  <2>1. ~Burying
    <3>1. ASSUME NEW u \in Tasks, pc[u] = "installing" PROVE FALSE
      BY <1>1, <1>2, <3>1, BucketsDiffer DEF IInv, GrowInv, Slots, Held
    <3> QED BY <1>3, <3>1 DEF Burying, Abandoning
  <2>2. Settled(s, at[t].it)
    BY <1>1, <1>2, <2>1 DEF BucketInv, OwnerInv, Inside
  <2> HIDE DEF s
  <2>3. PICK u \in Tasks : \E j \in Nat : InFlight(u, j) /\ j % Cap(Current) = s
    BY <1>1, <1>3, <2>2, Overdue DEF s
  <2> QED BY <1>2, <2>3 DEF InFlight, SameBucket, s
<1> QED BY <1>2, <1>3

-----------------------------------------------------------------------------
(* The counters. *)

(* Both counters are numbers. *)
LEMMA Counters == TypeOK => waits \in Nat /\ notifies \in Nat
BY HalfAssumption DEF TypeOK

(* A step that takes no iteration keeps CountInv. *)
LEMMA CountFrame ==
  ASSUME TypeOK, CountInv, NEW t \in Tasks, NEW n, pc' = [pc EXCEPT ![t] = n],
         Current' = Current, UNCHANGED <<waits, notifies>>,
         \A u \in Tasks \ {t} : at'[u] = at[u] /\ target'[u] = target[u],
         n \in {"placing", "checking", "pending"} =>
           pc[t] \in {"placing", "checking", "pending"} /\ at'[t] = at[t],
         n # "signalling"
  PROVE  CountInv'
<1>1. \A u \in Tasks : pc'[u] = IF u = t THEN n ELSE pc[u]
  BY DEF TypeOK
<1>2. \A u \in Tasks : pc'[u] \in {"placing", "checking", "pending"} =>
        pc[u] \in {"placing", "checking", "pending"} /\ at'[u] = at[u]
  BY <1>1
<1>3. \A u \in Tasks : pc'[u] = "signalling" => pc[u] = "signalling" /\ target'[u] = target[u]
  BY <1>1
<1> QED BY <1>2, <1>3 DEF CountInv

(* While the sums fit, the new wait counts one up and has the last iteration. *)
LEMMA EnterCounts ==
  ASSUME IInv, CountInv, SumsFit, NEW t \in Tasks, Enter(t)
  PROVE  waits' = waits + 1 /\ CountInv'
<1>1. /\ pc' = [pc EXCEPT ![t] = "placing"] /\ at' = [at EXCEPT ![t] = [gen |-> Current, it |-> waits]]
      /\ waits' = Low(waits + 1) /\ UNCHANGED <<generations, notifies, target>>
  BY DEF Enter, Goto
<1>2. TypeOK /\ Cap(Current) \in Nat \ {0} /\ waits \in Nat /\ notifies \in Nat
  BY Latest, Counters DEF IInv
<1>3. waits' = waits + 1
  BY <1>1, <1>2, LowFits, HalfAssumption DEF SumsFit
<1>4. \A u \in Tasks : /\ pc'[u] = IF u = t THEN "placing" ELSE pc[u]
                       /\ at'[u] = IF u = t THEN [gen |-> Current, it |-> waits] ELSE at[u]
  BY <1>1, <1>2 DEF TypeOK
<1>5. Current' = Current /\ \A u \in Tasks : at[u].it \in Nat
  BY <1>1, <1>2 DEF Current, TypeOK
<1>6. \A u \in Tasks : pc'[u] \in {"placing", "checking", "pending"} /\ at'[u].gen = Current =>
        at'[u].it < waits + 1
  BY <1>2, <1>4, <1>5 DEF CountInv
<1>7. \A u \in Tasks : pc'[u] = "signalling" => pc[u] = "signalling"
  BY <1>4
<1> QED BY <1>1, <1>2, <1>3, <1>5, <1>6, <1>7 DEF CountInv

(* The notification takes the next iteration, if a wait has it. *)
LEMMA NotifyCounts ==
  ASSUME IInv, CountInv, SumsFit, NEW t \in Tasks, Notify(t)
  PROVE  /\ notifies' = IF notifies < waits THEN notifies + 1 ELSE notifies
         /\ pc' = [pc EXCEPT ![t] = IF notifies < waits THEN "signalling" ELSE back[t]]
         /\ target' = [target EXCEPT ![t] = [gen |-> Current, it |-> notifies]]
         /\ CountInv'
<1>1. /\ notifies' = Min({Low(notifies + 1), waits})
      /\ target' = [target EXCEPT ![t] = [gen |-> Current, it |-> notifies]]
      /\ pc' = [pc EXCEPT ![t] = IF notifies < notifies' THEN "signalling" ELSE back[t]]
      /\ UNCHANGED <<generations, waits, at>>
  BY DEF Notify, Goto
<1>2. /\ TypeOK /\ Cap(Current) \in Nat \ {0} /\ waits \in Nat /\ notifies \in Nat
      /\ notifies <= waits
  BY Latest, Counters DEF IInv, CountInv
<1>3. Low(notifies + 1) = notifies + 1
  BY <1>2, LowFits, HalfAssumption DEF SumsFit
<1>4. notifies' = IF notifies + 1 <= waits THEN notifies + 1 ELSE waits
  BY <1>1, <1>2, <1>3, MinOfTwo
<1>5. notifies' = IF notifies < waits THEN notifies + 1 ELSE notifies
  BY <1>2, <1>4
<1>6. notifies < notifies' <=> notifies < waits
  BY <1>2, <1>5
<1>7. PICK n \in {"signalling", "idle", "trying"} :
        pc' = [pc EXCEPT ![t] = n] /\ (n = "signalling" => notifies < waits)
  BY <1>1, <1>2, <1>6 DEF TypeOK
<1>8. \A u \in Tasks : /\ pc'[u] = IF u = t THEN n ELSE pc[u]
                       /\ target'[u] = IF u = t THEN [gen |-> Current, it |-> notifies] ELSE target[u]
                       /\ target[u].it \in Nat
  BY <1>1, <1>2, <1>7 DEF TypeOK
<1>9. Current' = Current
  BY <1>1 DEF Current
<1>10. \A u \in Tasks : pc'[u] = "signalling" /\ target'[u].gen = Current =>
         target'[u].it < notifies'
  <2>1. \A u \in Tasks \ {t} : pc'[u] = "signalling" /\ target'[u].gen = Current =>
          target[u].it < notifies /\ target'[u] = target[u]
    BY <1>8 DEF CountInv
  <2>2. pc'[t] = "signalling" => target'[t].it = notifies /\ notifies < notifies'
    BY <1>6, <1>7, <1>8
  <2>3. notifies <= notifies'
    BY <1>2, <1>5
  <2> QED BY <1>2, <1>5, <1>8, <2>1, <2>2, <2>3
<1>11. \A u \in Tasks : pc'[u] \in {"placing", "checking", "pending"} =>
         pc[u] \in {"placing", "checking", "pending"}
  BY <1>7, <1>8
<1>12. notifies' <= waits'
  BY <1>1, <1>2, <1>5
<1>13. CountInv'
  BY <1>1, <1>9, <1>10, <1>11, <1>12 DEF CountInv
<1>14. pc' = [pc EXCEPT ![t] = IF notifies < waits THEN "signalling" ELSE back[t]]
  BY <1>1, <1>6
<1> QED BY <1>1, <1>5, <1>13, <1>14

-----------------------------------------------------------------------------
(* The buckets. *)

SlotOK(s) == EmptyInv(s) /\ WokenInv(s) /\ OwnerInv(s)

(* A bucket is as good as it was if nobody wrote to it, no notification of it
   was delivered and nobody came to wait in it. *)
LEMMA SlotFrame ==
  ASSUME TypeOK, NEW s \in Slots, SlotOK(s),
         Current' = Current, Cap(Current)' = Cap(Current),
         Held(s)' = Held(s), Spent(s)' = Spent(s),
         \A i \in Nat : AllArriving(s, i) => AllArriving(s, i)',
         \A u \in Tasks : \A i \in Nat : Inside(u, i)' /\ i % Cap(Current) = s => Inside(u, i)
  PROVE  SlotOK(s)'
<1>1. \A i \in Nat : Settled(s, i) => Settled(s, i)'
  BY DEF Settled, Past
<1>2. PICK c \in Nat \ {0} : c = Cap(Current)
  BY Latest
<1>3. \A i \in Nat : i + c \in Nat
  BY <1>2
<1>4. EmptyInv(s)'
  BY <1>1 DEF SlotOK, EmptyInv
<1>5. WokenInv(s)'
  BY <1>1, <1>2, <1>3 DEF SlotOK, WokenInv
<1>6. OwnerInv(s)'
  BY <1>1, <1>2, <1>3 DEF SlotOK, OwnerInv
<1> QED BY <1>4, <1>5, <1>6 DEF SlotOK

(* A step that writes to no bucket and takes no iteration keeps what is said of
   the buckets, unless it ends what an iteration of the current generation waits for. *)
LEMMA BucketFrame ==
  ASSUME IInv, BucketInv, NEW t \in Tasks, NEW n, pc' = [pc EXCEPT ![t] = n],
         UNCHANGED <<generations, waits, notifies>>,
         \A u \in Tasks \ {t} : at'[u] = at[u] /\ target'[u] = target[u],
         pc[t] \in {"placing", "expanding", "burying", "installing"} => at[t].gen # Current,
         pc[t] = "signalling" => target[t].gen # Current,
         n \notin {"placing", "signalling"},
         n \in {"checking", "pending"} => InBucket(t) /\ at'[t] = at[t]
  PROVE  BucketInv'
<1>1. TypeOK /\ \A u \in Tasks : pc'[u] = IF u = t THEN n ELSE pc[u]
  BY DEF IInv, TypeOK
<1>2. Current' = Current /\ Cap(Current)' = Cap(Current) /\ \A s \in Slots : Held(s)' = Held(s)
  BY DEF Current, Cap, Held
<1>3. CASE Burying
  <2>1. PICK u \in Tasks : pc[u] \in {"expanding", "burying", "installing"} /\ at[u].gen = Current
    BY <1>3 DEF Burying
  <2>2. u # t
    BY <2>1
  <2> QED BY <1>1, <1>2, <2>1, <2>2 DEF BucketInv, Burying
<1>4. CASE ~Burying
  <2>1. \A u \in Tasks : \A i \in Nat : InFlight(u, i)' <=> InFlight(u, i)
    BY <1>1, <1>2 DEF InFlight
  <2>2. \A u \in Tasks : \A i \in Nat : Arriving(u, i)' <=> Arriving(u, i)
    BY <1>1, <1>2 DEF Arriving
  <2>3. \A u \in Tasks : \A i \in Nat : Inside(u, i)' => Inside(u, i)
    BY <1>1, <1>2 DEF Inside, InBucket
  <2>4. \A j \in 0..notifies - 1 : j \in Nat
    BY <1>1, Counters
  <2>5. \A s \in Slots : Spent(s)' = Spent(s)
    BY <1>2, <2>1, <2>4 DEF Spent
  <2>6. \A s \in Slots, i \in Nat : AllArriving(s, i) => AllArriving(s, i)'
    BY <1>2, <2>2 DEF AllArriving
  <2>7. \A s \in Slots : SlotOK(s)'
    BY <1>1, <1>2, <1>4, <2>3, <2>5, <2>6, SlotFrame DEF BucketInv, SlotOK
  <2>8. Slots' = Slots
    BY <1>2 DEF Slots
  <2> QED BY <2>7, <2>8 DEF BucketInv, SlotOK
<1> QED BY <1>3, <1>4

(* A new wait is the last to arrive. *)
LEMMA EnterBuckets ==
  ASSUME IInv, BucketInv, CountInv, SumsFit, NEW t \in Tasks, Enter(t)
  PROVE  BucketInv'
<1>1. /\ TypeOK /\ waits \in Nat /\ waits' = waits + 1
      /\ pc[t] = "entering" /\ UNCHANGED <<generations, notifies, target>>
      /\ \A u \in Tasks : /\ pc'[u] = IF u = t THEN "placing" ELSE pc[u]
                          /\ at'[u] = IF u = t THEN [gen |-> Current, it |-> waits] ELSE at[u]
  BY EnterCounts, Counters DEF Enter, Goto, IInv, TypeOK
<1>2. Current' = Current /\ Cap(Current)' = Cap(Current) /\ \A s \in Slots : Held(s)' = Held(s)
  BY <1>1 DEF Current, Cap, Held
<1>3. CASE Burying
  BY <1>1, <1>2, <1>3 DEF BucketInv, Burying
<1>4. CASE ~Burying
  <2>1. \A u \in Tasks : \A i \in Nat : InFlight(u, i)' <=> InFlight(u, i)
    BY <1>1, <1>2 DEF InFlight
  <2>2. \A u \in Tasks : \A i \in Nat : Arriving(u, i) => Arriving(u, i)'
    BY <1>1, <1>2 DEF Arriving
  <2>3. \A u \in Tasks : \A i \in Nat : Inside(u, i)' => Inside(u, i)
    BY <1>1, <1>2 DEF Inside, InBucket
  <2>4. \A j \in 0..notifies - 1 : j \in Nat
    BY <1>1, Counters
  <2>5. \A s \in Slots : Spent(s)' = Spent(s)
    BY <1>1, <1>2, <2>1, <2>4 DEF Spent
  <2>6. ASSUME NEW s \in Slots, NEW i \in Nat, AllArriving(s, i) PROVE AllArriving(s, i)'
    <3>1. ASSUME NEW j \in Nat, i <= j, j < waits + 1, j % Cap(Current) = s
          PROVE  \E u \in Tasks : Arriving(u, j)'
      <4>1. CASE j = waits
        <5>1. pc'[t] = "placing" /\ at'[t].gen = Current' /\ at'[t].it = j
          BY <1>1, <1>2, <4>1
        <5> QED BY <5>1 DEF Arriving
      <4>2. CASE j # waits
        BY <1>1, <2>2, <2>6, <3>1, <4>2 DEF AllArriving
      <4> QED BY <4>1, <4>2
    <3> QED BY <1>1, <1>2, <3>1 DEF AllArriving
  <2>7. \A s \in Slots : SlotOK(s)'
    BY <1>1, <1>2, <1>4, <2>3, <2>5, <2>6, SlotFrame DEF BucketInv, SlotOK
  <2>8. Slots' = Slots
    BY <1>2 DEF Slots
  <2> QED BY <2>7, <2>8 DEF BucketInv, SlotOK
<1> QED BY <1>3, <1>4

(* The new notification is on its way. *)
LEMMA NotifyBuckets ==
  ASSUME IInv, BucketInv, CountInv, SumsFit, NEW t \in Tasks, Notify(t)
  PROVE  BucketInv'
<1>1. /\ TypeOK /\ notifies \in Nat
      /\ notifies' = IF notifies < waits THEN notifies + 1 ELSE notifies
      /\ pc[t] = "notifying" /\ UNCHANGED <<generations, waits, at>>
      /\ \A u \in Tasks \ {t} : pc'[u] = pc[u] /\ target'[u] = target[u]
      /\ target'[t] = [gen |-> Current, it |-> notifies]
      /\ pc'[t] = IF notifies < waits THEN "signalling" ELSE back[t]
  <2>1. TypeOK /\ notifies \in Nat
    BY Counters DEF IInv
  <2>2. pc[t] = "notifying" /\ UNCHANGED <<generations, waits, at>>
    BY DEF Notify
  <2>3. /\ notifies' = IF notifies < waits THEN notifies + 1 ELSE notifies
        /\ pc' = [pc EXCEPT ![t] = IF notifies < waits THEN "signalling" ELSE back[t]]
        /\ target' = [target EXCEPT ![t] = [gen |-> Current, it |-> notifies]]
    BY NotifyCounts
  <2>4. \A u \in Tasks \ {t} : pc'[u] = pc[u] /\ target'[u] = target[u]
    BY <2>1, <2>3 DEF TypeOK
  <2>5. /\ target'[t] = [gen |-> Current, it |-> notifies]
        /\ pc'[t] = IF notifies < waits THEN "signalling" ELSE back[t]
    BY <2>1, <2>3 DEF TypeOK
  <2> QED BY <2>1, <2>2, <2>3, <2>4, <2>5
<1>2. back[t] \in {"idle", "trying"}
  BY DEF IInv, TypeOK
<1>3. Current' = Current /\ Cap(Current)' = Cap(Current) /\ \A s \in Slots : Held(s)' = Held(s)
  BY <1>1 DEF Current, Cap, Held
<1>4. CASE Burying
  <2>1. PICK u \in Tasks : pc[u] \in {"expanding", "burying", "installing"} /\ at[u].gen = Current
    BY <1>4 DEF Burying
  <2> QED BY <1>1, <1>3, <2>1 DEF BucketInv, Burying
<1>5. CASE ~Burying
  <2>1. \A u \in Tasks : \A i \in Nat : i < notifies => (InFlight(u, i)' <=> InFlight(u, i))
    BY <1>1, <1>2, <1>3 DEF InFlight
  <2>2. \A u \in Tasks : \A i \in Nat : Arriving(u, i)' <=> Arriving(u, i)
    BY <1>1, <1>2, <1>3 DEF Arriving
  <2>3. \A u \in Tasks : \A i \in Nat : Inside(u, i)' => Inside(u, i)
    BY <1>1, <1>2, <1>3 DEF Inside, InBucket
  <2>4. ASSUME NEW s \in Slots PROVE Spent(s)' = Spent(s)
    <3>1. ASSUME NEW j \in Nat, j < notifies', ~(j < notifies)
          PROVE  \E u \in Tasks : InFlight(u, j)'
      <4>1. j = notifies /\ notifies < waits
        BY <1>1, <3>1
      <4> QED BY <1>1, <1>3, <4>1 DEF InFlight
    <3>2. \A j \in Nat : j < notifies => j < notifies'
      BY <1>1
    <3>3. \A j : (j \in 0..notifies - 1 <=> j \in Nat /\ j < notifies)
                 /\ (j \in 0..notifies' - 1 <=> j \in Nat /\ j < notifies')
      BY <1>1
    <3>4. Spent(s) = {j \in 0..notifies - 1 : j % Cap(Current) = s /\ \A u \in Tasks : ~InFlight(u, j)}
      BY DEF Spent
    <3>5. Spent(s)' = {j \in 0..notifies' - 1 : j % Cap(Current) = s /\ \A u \in Tasks : ~InFlight(u, j)'}
      BY <1>3 DEF Spent
    <3> QED BY <2>1, <3>1, <3>2, <3>3, <3>4, <3>5
  <2>5. \A s \in Slots, i \in Nat : AllArriving(s, i) => AllArriving(s, i)'
    BY <1>1, <1>3, <2>2 DEF AllArriving
  <2>6. \A s \in Slots : SlotOK(s)'
    BY <1>1, <1>3, <1>5, <2>3, <2>4, <2>5, SlotFrame DEF BucketInv, SlotOK
  <2>7. Slots' = Slots
    BY <1>3 DEF Slots
  <2> QED BY <2>6, <2>7 DEF BucketInv, SlotOK
<1> QED BY <1>4, <1>5

(* A write changes one bucket, and serves one iteration there. *)
LEMMA PutSlots ==
  ASSUME TypeOK, NEW p \in [gen : 1..Current, it : Nat], p.gen = Current,
         NEW b \in Contents, Put(p, b)
  PROVE  /\ Current' = Current /\ Cap(Current)' = Cap(Current) /\ Slots' = Slots
         /\ \A s \in Slots : Held(s)' = IF s = p.it % Cap(Current) THEN b ELSE Held(s)
<1>1. /\ Current' = Current /\ Current \in 1..Current
      /\ \A g \in 1..Current : Cap(g)' = Cap(g)
      /\ \A g \in 1..Current : \A i \in 0..Cap(g) - 1 :
           generations'[g][i] =
             IF g = p.gen /\ i = p.it % Cap(p.gen) THEN b ELSE generations[g][i]
  BY PutEffect, Latest
<1>2. Cap(Current)' = Cap(Current)
  BY <1>1
<1> QED BY <1>1, <1>2 DEF Slots, Held

(* A write to bucket r of the current generation keeps what is said of the
   others; what is said of r is left to each action. *)
LEMMA PutBuckets ==
  ASSUME IInv, BucketInv, NEW t \in Tasks, NEW n, pc' = [pc EXCEPT ![t] = n],
         pc[t] \in {"placing", "pending", "signalling"}, n \notin {"placing", "signalling"},
         NEW p \in [gen : 1..Current, it : Nat], p.gen = Current,
         NEW b \in Contents, Put(p, b), UNCHANGED <<waits, notifies, at, target>>,
         pc[t] = "placing" => at[t] = p,
         pc[t] = "signalling" => target[t] = p,
         n \in {"checking", "pending"} => at[t] = p,
         NEW r \in Slots, r = p.it % Cap(Current), ~Burying => SlotOK(r)'
  PROVE  BucketInv'
<1>1. TypeOK /\ \A u \in Tasks : pc'[u] = IF u = t THEN n ELSE pc[u]
  BY DEF IInv, TypeOK
<1>2. /\ Current' = Current /\ Cap(Current)' = Cap(Current) /\ Slots' = Slots
      /\ \A s \in Slots : Held(s)' = IF s = p.it % Cap(Current) THEN b ELSE Held(s)
  BY <1>1, PutSlots
<1>3. CASE Burying
  <2>1. PICK u \in Tasks : pc[u] \in {"expanding", "burying", "installing"} /\ at[u].gen = Current
    BY <1>3 DEF Burying
  <2>2. u # t
    BY <2>1
  <2> QED BY <1>1, <1>2, <2>1, <2>2 DEF BucketInv, Burying
<1>4. CASE ~Burying
  <2>1. r = p.it % Cap(Current)
    OBVIOUS
  <2>2. ASSUME NEW s \in Slots, s # r PROVE SlotOK(s)'
    <3>1. Spent(s)' = Spent(s)
      <4>1. \A j \in 0..notifies - 1 : j % Cap(Current) = s => j # p.it
        BY <2>1, <2>2
      <4>2. \A j \in 0..notifies - 1 : j % Cap(Current) = s =>
              \A u \in Tasks : InFlight(u, j)' <=> InFlight(u, j)
        BY <1>1, <1>2, <4>1 DEF InFlight
      <4> QED BY <1>2, <4>2 DEF Spent
    <3>2. ASSUME NEW i \in Nat, AllArriving(s, i) PROVE AllArriving(s, i)'
      <4>1. \A j \in Nat : j % Cap(Current) = s => j # p.it
        BY <2>1, <2>2
      <4>2. \A j \in Nat : j % Cap(Current) = s =>
              \A u \in Tasks : Arriving(u, j) => Arriving(u, j)'
        BY <1>1, <1>2, <4>1 DEF Arriving
      <4> QED BY <1>2, <3>2, <4>2 DEF AllArriving
    <3>3. \A u \in Tasks : \A i \in Nat : Inside(u, i)' /\ i % Cap(Current) = s => Inside(u, i)
      <4>1. \A i \in Nat : i % Cap(Current) = s => i # p.it
        BY <2>1, <2>2
      <4> QED BY <1>1, <1>2, <4>1 DEF Inside, InBucket
    <3> QED BY <1>1, <1>2, <1>4, <2>1, <2>2, <3>1, <3>2, <3>3, SlotFrame DEF BucketInv, SlotOK
  <2>3. SlotOK(r)'
    BY <1>2, <1>4, <2>1
  <2> QED BY <1>2, <2>2, <2>3 DEF BucketInv, SlotOK
<1> QED BY <1>3, <1>4

(* The bucket that a task finds its iteration in, before it writes to it. *)
LEMMA Found ==
  ASSUME IInv, NEW p \in [gen : 1..Current, it : Nat], Bucket(p) # Tombstone
  PROVE  /\ TypeOK /\ p.gen = Current /\ Cap(Current) \in Nat \ {0}
         /\ \E i \in Nat : \E s \in Slots :
              /\ p.it = i /\ i % Cap(Current) = s /\ Held(s) = Bucket(p)
              /\ \A u \in Tasks : \A j \in Nat : Inside(u, j) /\ j % Cap(Current) = s =>
                   Held(s) \in {Waiting(u), Waking}
<1>1. /\ TypeOK /\ p.gen = Current /\ Cap(Current) \in Nat \ {0}
      /\ Bucket(p) = Held(p.it % Cap(Current)) /\ p.it % Cap(Current) \in Slots
  BY OldIsBuried, Latest DEF IInv
<1>2. ASSUME NEW u \in Tasks, NEW j \in Nat, Inside(u, j), j % Cap(Current) = p.it % Cap(Current)
      PROVE  Bucket(p) \in {Waiting(u), Waking}
  <2>1. Bucket(at[u]) = Bucket(p)
    BY <1>1, <1>2 DEF Inside, Bucket
  <2> QED BY <1>2, <2>1 DEF Inside, IInv, SlotInv
<1> QED BY <1>1, <1>2

(* The wait has come to its bucket, and those before it were served. *)
LEMMA PlaceBuckets ==
  ASSUME IInv, BucketInv, NEW t \in Tasks, Place(t)
  PROVE  BucketInv'
<1>1. PICK p \in [gen : 1..Current, it : Nat] : p = at[t]
  BY DEF IInv, TypeOK
<1>2. PICK b \in Contents : b = Waiting(t)
  BY DEF Contents
<1>3. /\ pc[t] = "placing" /\ pc' = [pc EXCEPT ![t] = "checking"]
      /\ Bucket(p) = Empty(p.it) /\ Put(p, b)
      /\ UNCHANGED <<waits, notifies, at, target>>
  BY <1>1, <1>2 DEF Place, Goto, word, local
<1>4. Bucket(p) # Tombstone
  BY <1>3, BucketsDiffer
<1>5. /\ TypeOK /\ p.gen = Current /\ Cap(Current) \in Nat \ {0}
      /\ \E i \in Nat : \E s \in Slots :
           /\ p.it = i /\ i % Cap(Current) = s /\ Held(s) = Bucket(p)
           /\ \A u \in Tasks : \A j \in Nat : Inside(u, j) /\ j % Cap(Current) = s =>
                Held(s) \in {Waiting(u), Waking}
  BY <1>4, Found
<1>6. PICK i \in Nat, s \in Slots :
        /\ p.it = i /\ i % Cap(Current) = s /\ Held(s) = Empty(i)
        /\ \A u \in Tasks : \A j \in Nat : Inside(u, j) /\ j % Cap(Current) = s =>
             Held(s) \in {Waiting(u), Waking}
  BY <1>3, <1>5
<1>7. \A u \in Tasks : \A j \in Nat : ~(Inside(u, j) /\ j % Cap(Current) = s)
  BY <1>6, BucketsDiffer
<1>8. /\ Current' = Current /\ Cap(Current)' = Cap(Current) /\ Held(s)' = b
      /\ \A u \in Tasks : pc'[u] = IF u = t THEN "checking" ELSE pc[u]
  BY <1>3, <1>5, <1>6, PutSlots DEF TypeOK
<1>9. ASSUME ~Burying PROVE SlotOK(s)'
  <2>1. Settled(s, i) /\ AllArriving(s, i)
    BY <1>6, <1>9 DEF BucketInv, EmptyInv
  <2>2. Spent(s)' = Spent(s)
    <3>1. \A u \in Tasks : \A j \in 0..notifies - 1 : InFlight(u, j)' <=> InFlight(u, j)
      BY <1>3, <1>8 DEF InFlight
    <3> QED BY <1>3, <1>8, <3>1 DEF Spent
  <2>3. Settled(s, i)'
    BY <1>8, <2>1, <2>2 DEF Settled, Past
  <2>4. AllArriving(s, i + Cap(Current))'
    <3>1. \A j \in Nat : i + Cap(Current) <= j => i <= j /\ i # j
      BY <1>5
    <3>2. \A u \in Tasks : \A j \in Nat : j # i /\ Arriving(u, j) => Arriving(u, j)'
      BY <1>1, <1>3, <1>6, <1>8 DEF Arriving
    <3> QED BY <1>3, <1>8, <2>1, <3>1, <3>2 DEF AllArriving
  <2>5. \A u \in Tasks : \A j \in Nat : Inside(u, j)' /\ j % Cap(Current) = s => u = t /\ j = i
    BY <1>1, <1>3, <1>6, <1>7, <1>8 DEF Inside, InBucket
  <2>6. OwnerInv(s)'
    BY <1>2, <1>8, <2>3, <2>4, <2>5, BucketsDiffer DEF OwnerInv
  <2>7. EmptyInv(s)' /\ WokenInv(s)'
    BY <1>2, <1>8, BucketsDiffer DEF EmptyInv, WokenInv
  <2> QED BY <2>6, <2>7 DEF SlotOK
<1>10. PICK n : n = "checking"
  OBVIOUS
<1>11. /\ pc' = [pc EXCEPT ![t] = n] /\ pc[t] \in {"placing", "pending", "signalling"}
       /\ n \notin {"placing", "signalling"} /\ at[t] = p /\ pc[t] # "signalling"
  BY <1>1, <1>3, <1>10
<1>12. s = p.it % Cap(Current)
  BY <1>6
<1> QED BY <1>3, <1>5, <1>9, <1>11, <1>12, PutBuckets

(* A wait that ends leaves its bucket to the next iteration of the bucket. *)
LEMMA LeaveBuckets ==
  ASSUME IInv, BucketInv, CountInv, SumsFit, NEW t \in Tasks, PlaceWoken(t) \/ Resume(t)
  PROVE  BucketInv'
<1>1. PICK p \in [gen : 1..Current, it : Nat] : p = at[t]
  BY DEF IInv, TypeOK
<1>2. /\ \/ pc[t] = "placing" /\ Bucket(p) = Woken(p.it)
         \/ pc[t] = "pending" /\ Bucket(p) = Waking
      /\ pc' = [pc EXCEPT ![t] = "trying"]
      /\ Put(p, Empty(Low(p.it + Cap(p.gen))))
      /\ UNCHANGED <<waits, notifies, at, target>>
  <2>1. CASE PlaceWoken(t)
    <3>1. pc[t] = "placing" /\ Bucket(at[t]) = Woken(at[t].it)
      BY <2>1 DEF PlaceWoken
    <3>2. /\ pc' = [pc EXCEPT ![t] = "trying"] /\ UNCHANGED <<waits, notifies, at, target>>
          /\ Put(at[t], Empty(Low(at[t].it + Cap(at[t].gen))))
      BY <2>1 DEF PlaceWoken, Goto, word, local
    <3>3. Bucket(p) = Woken(p.it) /\ Put(p, Empty(Low(p.it + Cap(p.gen))))
      BY <1>1, <3>1, <3>2
    <3> QED BY <3>1, <3>2, <3>3
  <2>2. CASE Resume(t)
    <3>1. Bucket(p) = Waking
      BY <1>1, <2>2 DEF Resume, IInv, SlotInv, InBucket
    <3> QED BY <1>1, <2>2, <3>1 DEF Resume, Goto, word, local
  <2> QED BY <2>1, <2>2
<1>3. Bucket(p) # Tombstone
  BY <1>2, BucketsDiffer
<1>4. /\ TypeOK /\ p.gen = Current /\ Cap(Current) \in Nat \ {0}
      /\ \E i \in Nat : \E s \in Slots :
           /\ p.it = i /\ i % Cap(Current) = s /\ Held(s) = Bucket(p)
           /\ \A u \in Tasks : \A j \in Nat : Inside(u, j) /\ j % Cap(Current) = s =>
                Held(s) \in {Waiting(u), Waking}
  BY <1>3, Found
<1>5. PICK i \in Nat, s \in Slots :
        p.it = i /\ i % Cap(Current) = s /\ Held(s) = Bucket(p)
  BY <1>4
<1>6. PICK k \in Nat : k = i + Cap(Current)
  BY <1>4
<1>7. k % Cap(Current) = s /\ Low(p.it + Cap(p.gen)) = k
  <2>1. k % Cap(Current) = s
    BY <1>4, <1>5, <1>6, RemainderAdds
  <2>2. i < waits
    BY <1>1, <1>2, <1>4, <1>5 DEF CountInv
  <2>3. k < Half
    BY <1>4, <1>6, <2>2, Counters, HalfAssumption DEF SumsFit
  <2> QED BY <1>4, <1>5, <1>6, <2>1, <2>3, LowFits
<1>8. PICK b \in Contents : b = Empty(k)
  BY DEF Contents
<1>9. Put(p, b)
  BY <1>2, <1>7, <1>8
<1>10. /\ Current' = Current /\ Cap(Current)' = Cap(Current) /\ Held(s)' = b
       /\ \A u \in Tasks : pc'[u] = IF u = t THEN "trying" ELSE pc[u]
  BY <1>2, <1>4, <1>5, <1>9, PutSlots DEF TypeOK
<1>11. \A u \in Tasks : \A j \in Nat : ~(Inside(u, j)' /\ j % Cap(Current) = s)
  <2> SUFFICES ASSUME NEW u \in Tasks, NEW j \in Nat, Inside(u, j)', j % Cap(Current) = s
               PROVE  FALSE
    OBVIOUS
  <2>1. u # t /\ InBucket(u) /\ at[u].gen = Current /\ at[u].it = j
    BY <1>2, <1>10 DEF Inside, InBucket
  <2>2. SameBucket(at[u], at[t]) /\ Bucket(at[u]) = Bucket(at[t])
    BY <1>1, <1>4, <1>5, <2>1 DEF SameBucket, Bucket
  <2>3. pc[t] # "pending"
    BY <2>1, <2>2 DEF IInv, SlotInv, InBucket
  <2>4. Bucket(at[u]) = Woken(p.it)
    BY <1>1, <1>2, <2>2, <2>3
  <2> QED BY <1>5, <2>1, <2>4, BucketsDiffer DEF IInv, SlotInv
<1>12. ASSUME ~Burying PROVE SlotOK(s)'
  <2>1. Settled(s, k) /\ AllArriving(s, k)
    <3>1. CASE pc[t] = "placing"
      <4>1. Held(s) = Woken(i)
        BY <1>2, <1>5, <3>1
      <4>2. Settled(s, k) /\ AllArriving(s, i)
        BY <1>5, <1>6, <1>12, <4>1 DEF BucketInv, WokenInv
      <4>3. \A j \in Nat : k <= j => i <= j
        BY <1>4, <1>6
      <4> QED BY <4>2, <4>3 DEF AllArriving
    <3>2. CASE pc[t] = "pending"
      <4>1. Inside(t, i) /\ Held(s) = Waking
        BY <1>1, <1>2, <1>4, <1>5, <3>2 DEF Inside, InBucket
      <4> QED BY <1>5, <1>6, <1>12, <4>1 DEF BucketInv, OwnerInv
    <3> QED BY <1>2, <3>1, <3>2
  <2>2. Spent(s)' = Spent(s)
    <3>1. \A u \in Tasks : \A j \in 0..notifies - 1 : InFlight(u, j)' <=> InFlight(u, j)
      BY <1>2, <1>10 DEF InFlight
    <3> QED BY <1>2, <1>10, <3>1 DEF Spent
  <2>3. Settled(s, k)'
    BY <1>10, <2>1, <2>2 DEF Settled, Past
  <2>4. AllArriving(s, k)'
    <3>1. \A j \in Nat : k <= j => i # j
      BY <1>4, <1>6
    <3>2. \A u \in Tasks : \A j \in Nat : j # i /\ Arriving(u, j) => Arriving(u, j)'
      BY <1>1, <1>2, <1>5, <1>10 DEF Arriving
    <3> QED BY <1>2, <1>10, <2>1, <3>1, <3>2 DEF AllArriving
  <2>5. EmptyInv(s)'
    BY <1>7, <1>8, <1>10, <2>3, <2>4, BucketsDiffer DEF EmptyInv
  <2>6. WokenInv(s)' /\ OwnerInv(s)'
    BY <1>8, <1>10, <1>11, BucketsDiffer DEF WokenInv, OwnerInv
  <2> QED BY <2>5, <2>6 DEF SlotOK
<1>13. PICK n : n = "trying"
  OBVIOUS
<1>14. /\ pc' = [pc EXCEPT ![t] = n] /\ pc[t] \in {"placing", "pending", "signalling"}
       /\ n \notin {"placing", "signalling"} /\ at[t] = p /\ pc[t] # "signalling"
  BY <1>1, <1>2, <1>13
<1>15. s = p.it % Cap(Current) /\ UNCHANGED <<waits, notifies, at, target>>
  BY <1>2, <1>5
<1> QED BY <1>4, <1>9, <1>12, <1>14, <1>15, PutBuckets

(* A delivered notification serves the wait that it finds in its bucket, or the
   one that is to come. *)
LEMMA SignalBuckets ==
  ASSUME IInv, BucketInv, CountInv, NEW t \in Tasks, Signal(t)
  PROVE  BucketInv'
<1>1. PICK p \in [gen : 1..Current, it : Nat] : p = target[t]
  BY DEF IInv, TypeOK
<1>2. PICK b \in {Waking, Woken(p.it)} :
        /\ pc[t] = "signalling" /\ pc' = [pc EXCEPT ![t] = back[t]] /\ Put(p, b)
        /\ b = Waking => \E u \in Tasks : Bucket(p) = Waiting(u)
        /\ b # Waking => Bucket(p) = Empty(p.it)
        /\ UNCHANGED <<waits, notifies, at, target>>
  <2>1. /\ pc[t] = "signalling" /\ pc' = [pc EXCEPT ![t] = back[t]]
        /\ UNCHANGED <<waits, notifies, at, target>>
    BY DEF Signal, Goto, word, local
  <2>2. CASE (\E u \in Tasks : Bucket(target[t]) = Waiting(u)) /\ Put(target[t], Waking)
    BY <1>1, <2>1, <2>2
  <2>3. CASE Bucket(target[t]) = Empty(target[t].it) /\ Put(target[t], Woken(target[t].it))
    <3>1. Bucket(p) = Empty(p.it) /\ Put(p, Woken(p.it))
      BY <1>1, <2>3
    <3>2. Woken(p.it) # Waking
      BY BucketsDiffer
    <3> QED BY <2>1, <3>1, <3>2
  <2> QED BY <2>2, <2>3 DEF Signal
<1>3. Bucket(p) # Tombstone /\ b \in Contents
  <2>1. Bucket(p) # Tombstone
    BY <1>2, BucketsDiffer
  <2> QED BY <1>1, <2>1, Written DEF IInv
<1>4. /\ TypeOK /\ p.gen = Current /\ Cap(Current) \in Nat \ {0}
      /\ \E i \in Nat : \E s \in Slots :
           /\ p.it = i /\ i % Cap(Current) = s /\ Held(s) = Bucket(p)
           /\ \A u \in Tasks : \A j \in Nat : Inside(u, j) /\ j % Cap(Current) = s =>
                Held(s) \in {Waiting(u), Waking}
  BY <1>3, Found
<1>5. PICK i \in Nat, s \in Slots :
        /\ p.it = i /\ i % Cap(Current) = s /\ Held(s) = Bucket(p)
        /\ \A u \in Tasks : \A j \in Nat : Inside(u, j) /\ j % Cap(Current) = s =>
             Held(s) \in {Waiting(u), Waking}
  BY <1>4
<1>6. PICK n \in {"idle", "trying"} : n = back[t]
  BY <1>4 DEF TypeOK
<1>7. /\ Current' = Current /\ Cap(Current)' = Cap(Current) /\ Held(s)' = b
      /\ \A u \in Tasks : pc'[u] = IF u = t THEN n ELSE pc[u]
  BY <1>2, <1>3, <1>4, <1>5, <1>6, PutSlots DEF TypeOK
<1>8. \A u \in Tasks : \A j \in Nat : Inside(u, j)' => Inside(u, j)
  BY <1>2, <1>7 DEF Inside, InBucket
<1>9. \A j \in Nat : AllArriving(s, j) => AllArriving(s, j)'
  <2>1. \A u \in Tasks : \A j \in Nat : Arriving(u, j) => Arriving(u, j)'
    BY <1>2, <1>7 DEF Arriving
  <2> QED BY <1>2, <1>7, <2>1 DEF AllArriving
<1>10. ASSUME NEW j \in Nat, j % Cap(Current) = s, Settled(s, j)
       PROVE  Settled(s, j + Cap(Current))'
  <2>1. PICK k \in Nat : k = j + Cap(Current) /\ j < k
    BY <1>4
  <2>2. Cardinality(Past(s, j)) + 1 <= Cardinality(Past(s, k)) /\ Past(s, k)' = Past(s, k)
    <3>1. Past(s, k)' = Past(s, k)
      BY <1>7 DEF Past
    <3> QED BY <1>4, <1>10, <2>1, <3>1, PastGrows
  <2>3. Spent(s)' \subseteq Spent(s) \union {i}
    <3>1. \A u \in Tasks : \A m \in 0..notifies - 1 : m # i /\ InFlight(u, m) => InFlight(u, m)'
      BY <1>1, <1>2, <1>5, <1>7 DEF InFlight
    <3> QED BY <1>2, <1>7, <3>1 DEF Spent
  <2>4. /\ IsFiniteSet(Spent(s)) /\ Cardinality(Spent(s)) \in Nat
        /\ Cardinality(Past(s, j)) \in Nat /\ Cardinality(Past(s, k)) \in Nat
    BY <1>4, SpentFinite, PastFinite
  <2>5. Cardinality(Spent(s)') <= Cardinality(Spent(s)) + 1 /\ Cardinality(Spent(s)') \in Nat
    <3> DEFINE w == Spent(s) \union {i}
    <3>1. IsFiniteSet(w) /\ Cardinality(w) <= Cardinality(Spent(s)) + 1 /\ Cardinality(w) \in Nat
      <4>1. /\ IsFiniteSet(w)
            /\ Cardinality(w) = IF i \in Spent(s) THEN Cardinality(Spent(s)) ELSE Cardinality(Spent(s)) + 1
        BY <2>4, FS_AddElement
      <4> HIDE DEF w
      <4> QED BY <2>4, <4>1
    <3>2. Cardinality(Spent(s)') <= Cardinality(w) /\ IsFiniteSet(Spent(s)')
      BY <2>3, <3>1, FS_Subset
    <3>3. Cardinality(Spent(s)') \in Nat
      BY <3>2, FS_CardinalityType
    <3> HIDE DEF w
    <3> QED BY <2>4, <3>1, <3>2, <3>3
  <2>6. Cardinality(Spent(s)') <= Cardinality(Past(s, k))
    BY <1>10, <2>2, <2>4, <2>5 DEF Settled
  <2>7. Settled(s, k)'
    BY <2>2, <2>6 DEF Settled
  <2> QED BY <1>7, <2>1, <2>7
<1>11. ASSUME ~Burying PROVE SlotOK(s)'
  <2>1. CASE b = Waking
    <3>1. PICK v \in Tasks : Held(s) = Waiting(v)
      BY <1>2, <1>5, <2>1
    <3>2. \A u \in Tasks : \A j \in Nat : Inside(u, j)' /\ j % Cap(Current) = s =>
            Settled(s, j) /\ AllArriving(s, j + Cap(Current))
      BY <1>5, <1>8, <1>11, <3>1, BucketsDiffer DEF BucketInv, OwnerInv
    <3>3. \A j \in Nat : j + Cap(Current) \in Nat
      BY <1>4
    <3>4. OwnerInv(s)'
      BY <1>7, <1>9, <1>10, <2>1, <3>2, <3>3, BucketsDiffer DEF OwnerInv
    <3>5. EmptyInv(s)' /\ WokenInv(s)'
      BY <1>7, <2>1, BucketsDiffer DEF EmptyInv, WokenInv
    <3> QED BY <3>4, <3>5 DEF SlotOK
  <2>2. CASE b # Waking
    <3>1. b = Woken(i) /\ Held(s) = Empty(i)
      BY <1>2, <1>5, <2>2
    <3>2. Settled(s, i) /\ AllArriving(s, i)
      BY <1>5, <1>11, <3>1 DEF BucketInv, EmptyInv
    <3>3. WokenInv(s)'
      BY <1>5, <1>7, <1>9, <1>10, <3>1, <3>2, BucketsDiffer DEF WokenInv
    <3>4. \A u \in Tasks : \A j \in Nat : ~(Inside(u, j)' /\ j % Cap(Current) = s)
      BY <1>5, <1>8, <3>1, BucketsDiffer
    <3>5. EmptyInv(s)' /\ OwnerInv(s)'
      BY <1>7, <3>1, <3>4, BucketsDiffer DEF EmptyInv, OwnerInv
    <3> QED BY <3>3, <3>5 DEF SlotOK
  <2> QED BY <2>1, <2>2
<1>12. /\ pc' = [pc EXCEPT ![t] = n] /\ pc[t] \in {"placing", "pending", "signalling"}
       /\ n \notin {"placing", "signalling", "checking", "pending"}
       /\ target[t] = p /\ pc[t] # "placing"
  BY <1>1, <1>2, <1>6
<1>13. s = p.it % Cap(Current) /\ UNCHANGED <<waits, notifies, at, target>>
  BY <1>2, <1>5
<1> QED BY <1>2, <1>3, <1>4, <1>11, <1>12, <1>13, PutBuckets

(* The new generation serves the first iteration of each bucket. *)
LEMMA InstallBuckets ==
  ASSUME IInv, CountInv, NEW t \in Tasks, Install(t)
  PROVE  CountInv' /\ BucketInv'
<1>1. /\ TypeOK /\ Current \in Nat \ {0} /\ Cap(Current) \in Nat \ {0}
      /\ \A u \in Tasks : at[u].gen \in 1..Current /\ target[u].gen \in 1..Current
  BY Latest DEF IInv, TypeOK
<1>2. PICK c \in Nat \ {0} : c = 2 * Cap(Current)
  BY <1>1
<1>3. /\ waits' = 0 /\ notifies' = 0 /\ at' = at /\ target' = target
      /\ generations' = Append(generations, Generation(c))
  BY <1>2 DEF Install, local
<1>4. /\ Current' = Current + 1 /\ Generation(c) = [i \in 0..c - 1 |-> Empty(i)]
      /\ generations'[Current + 1] = Generation(c)
  BY <1>1, <1>3 DEF Current, TypeOK, Generation
<1>5. \A u \in Tasks : at'[u].gen # Current' /\ target'[u].gen # Current'
  BY <1>1, <1>3, <1>4
<1>6. CountInv'
  BY <1>3, <1>5 DEF CountInv
<1>7. Cap(Current)' = c
  <2>1. DOMAIN generations'[Current'] = 0..c - 1
    BY <1>4
  <2>2. Cardinality(0..c - 1) = c
    BY FS_Interval
  <2> QED BY <2>1, <2>2 DEF Cap
<1>8. Slots' = 0..c - 1 /\ \A s \in 0..c - 1 : Held(s)' = Empty(s) /\ s \in Nat /\ s % c = s
  <2>1. \A s \in 0..c - 1 : s \in Nat /\ s < c
    OBVIOUS
  <2>2. \A s \in 0..c - 1 : s % c = s
    BY <2>1, Remainder
  <2> QED BY <1>4, <1>7, <2>1, <2>2 DEF Slots, Held
<1>9. ASSUME NEW s \in 0..c - 1 PROVE SlotOK(s)'
  <2>1. \A i \in Nat : AllArriving(s, i)'
    BY <1>3 DEF AllArriving
  <2>2. \A i \in Nat : Settled(s, i)'
    <3>1. Spent(s)' = {}
      BY <1>3 DEF Spent
    <3>2. Cardinality({}) = 0
      BY FS_EmptySet
    <3>3. \A i \in Nat : Cardinality({j \in 0..i - 1 : j % c = s}) >= 0
      <4> TAKE i \in Nat
      <4>1. IsFiniteSet(0..i - 1) /\ {j \in 0..i - 1 : j % c = s} \subseteq 0..i - 1
        BY FS_Interval
      <4>2. Cardinality({j \in 0..i - 1 : j % c = s}) \in Nat
        BY <4>1, FS_Subset, FS_CardinalityType
      <4> QED BY <4>2
    <3> QED BY <1>7, <3>1, <3>2, <3>3 DEF Settled, Past
  <2>3. \A u \in Tasks : \A i \in Nat : ~Inside(u, i)'
    BY <1>5 DEF Inside
  <2>4. EmptyInv(s)'
    BY <1>7, <1>8, <2>1, <2>2, BucketsDiffer DEF EmptyInv
  <2>5. WokenInv(s)' /\ OwnerInv(s)'
    BY <1>8, <2>3, BucketsDiffer DEF WokenInv, OwnerInv
  <2> QED BY <2>4, <2>5 DEF SlotOK
<1>10. BucketInv'
  BY <1>8, <1>9 DEF BucketInv, SlotOK
<1> QED BY <1>6, <1>10

(* The steps of the mutex, and those of a wait that leave its bucket alone. *)
LEMMA QuietBuckets ==
  ASSUME IInv, CountInv, BucketInv, NEW t \in Tasks,
         Lock(t) \/ Retry(t) \/ Unlock(t) \/ Check(t) \/ ResumeBuried(t) \/ Drop(t)
  PROVE  CountInv' /\ BucketInv'
<1>1. TypeOK
  BY DEF IInv
<1>2. PICK n \in Steps :
        /\ pc' = [pc EXCEPT ![t] = n]
        /\ n \notin {"placing", "signalling", "checking"} /\ (n = "pending" => pc[t] = "checking")
  <2>1. CASE Lock(t)
    <3>1. PICK n \in {"held", "trying", "entering"} : pc' = [pc EXCEPT ![t] = n]
      <4>1. atom = 0 \/ atom = 1 \/ atom = 2
        BY <1>1 DEF TypeOK
      <4>2. CASE atom = 0
        BY <2>1, <4>2 DEF Lock, Goto
      <4>3. CASE atom = 1
        BY <2>1, <4>3 DEF Lock, Goto
      <4>4. CASE atom = 2
        BY <2>1, <4>4 DEF Lock, Goto
      <4> QED BY <4>1, <4>2, <4>3, <4>4
    <3> QED BY <3>1 DEF Steps
  <2>2. CASE Retry(t)
    <3>1. PICK n \in {"held", "entering"} : pc' = [pc EXCEPT ![t] = n]
      BY <2>2 DEF Retry, Goto
    <3> QED BY <3>1 DEF Steps
  <2>3. CASE Unlock(t)
    <3>1. PICK n \in {"notifying", "idle"} : pc' = [pc EXCEPT ![t] = n]
      BY <2>3 DEF Unlock, Goto, CallThen
    <3> QED BY <3>1 DEF Steps
  <2>4. CASE Check(t)
    <3>1. pc[t] = "checking" /\ \E n \in {"pending", "notifying"} : pc' = [pc EXCEPT ![t] = n]
      BY <2>4 DEF Check, Goto, CallThen
    <3> QED BY <3>1 DEF Steps
  <2>5. CASE ResumeBuried(t)
    BY <2>5 DEF ResumeBuried, Goto, CallThen, Steps
  <2>6. CASE Drop(t)
    BY <2>6 DEF Drop, Goto, Steps
  <2> QED BY <2>1, <2>2, <2>3, <2>4, <2>5, <2>6
<1>3. UNCHANGED <<generations, waits, notifies, at, target>>
  BY DEF Lock, Retry, Unlock, Check, ResumeBuried, Drop, word, local
<1>4. pc[t] \notin {"placing", "expanding", "burying", "installing", "signalling"}
  BY DEF Lock, Retry, Unlock, Check, ResumeBuried, Drop
<1>5. Current' = Current
  BY <1>3 DEF Current
<1>6. CountInv'
  BY <1>1, <1>2, <1>3, <1>5, CountFrame
<1>7. BucketInv'
  BY <1>2, <1>3, <1>4, BucketFrame DEF InBucket
<1> QED BY <1>6, <1>7

(* Whoever finds another iteration in its bucket goes to bury the generation. *)
LEMMA ExpandBuckets ==
  ASSUME IInv, CountInv, BucketInv, NEW t \in Tasks,
         PlaceTaken(t) \/ SignalStray(t) \/ Grow(t)
  PROVE  CountInv' /\ BucketInv'
<1>1. /\ TypeOK /\ back[t] \in {"idle", "trying"}
      /\ at[t] \in [gen : 1..Current, it : Nat]
  BY DEF IInv, TypeOK
<1>2. UNCHANGED <<generations, waits, notifies, target>>
  BY DEF PlaceTaken, SignalStray, Grow, word
<1>3. Current' = Current
  BY <1>2 DEF Current
<1>4. \E n \in {"expanding", "burying", "idle", "trying"} :
        /\ pc' = [pc EXCEPT ![t] = n] /\ \A u \in Tasks \ {t} : at'[u] = at[u]
        /\ \/ n \in {"expanding", "burying"} /\ at'[t].gen = Current
           \/ /\ pc[t] \in {"placing", "expanding", "burying", "installing"} => at[t].gen # Current
              /\ pc[t] = "signalling" => target[t].gen # Current
  <2>1. CASE PlaceTaken(t)
    BY <2>1 DEF PlaceTaken, CallThen, Goto
  <2>2. CASE SignalStray(t)
    <3>1. /\ pc[t] = "signalling" /\ pc' = [pc EXCEPT ![t] = "expanding"]
          /\ at' = [at EXCEPT ![t] = target[t]]
      BY <2>2 DEF SignalStray, Goto
    <3>2. at'[t].gen = target[t].gen /\ \A u \in Tasks \ {t} : at'[u] = at[u]
      BY <1>1, <3>1 DEF TypeOK
    <3> QED BY <3>1, <3>2
  <2>3. CASE Grow(t) /\ at[t].gen = Current
    <3>1. pc' = [pc EXCEPT ![t] = "burying"] /\ at' = [at EXCEPT ![t].it = 0]
      BY <2>3 DEF Grow, Goto
    <3>2. at'[t].gen = Current /\ \A u \in Tasks \ {t} : at'[u] = at[u]
      BY <1>1, <2>3, <3>1 DEF TypeOK
    <3> QED BY <3>1, <3>2
  <2>4. CASE Grow(t) /\ at[t].gen # Current
    BY <1>1, <2>4 DEF Grow, Goto
  <2> QED BY <2>1, <2>2, <2>3, <2>4
<1>5. PICK n \in {"expanding", "burying", "idle", "trying"} :
        /\ pc' = [pc EXCEPT ![t] = n] /\ \A u \in Tasks \ {t} : at'[u] = at[u]
        /\ \/ n \in {"expanding", "burying"} /\ at'[t].gen = Current
           \/ /\ pc[t] \in {"placing", "expanding", "burying", "installing"} => at[t].gen # Current
              /\ pc[t] = "signalling" => target[t].gen # Current
  BY <1>4
<1>6. CountInv'
  BY <1>1, <1>2, <1>3, <1>5, CountFrame
<1>7. CASE n \in {"expanding", "burying"} /\ at'[t].gen = Current
  <2>1. pc'[t] = n
    BY <1>1, <1>5 DEF TypeOK
  <2> QED BY <1>3, <1>6, <1>7, <2>1 DEF BucketInv, Burying
<1>8. CASE /\ pc[t] \in {"placing", "expanding", "burying", "installing"} => at[t].gen # Current
           /\ pc[t] = "signalling" => target[t].gen # Current
  BY <1>2, <1>5, <1>6, <1>8, BucketFrame
<1> QED BY <1>5, <1>7, <1>8

(* While a generation is being buried nothing is said of its buckets. *)
LEMMA BuryBuckets ==
  ASSUME IInv, CountInv, NEW t \in Tasks, Bury(t)
  PROVE  CountInv' /\ BucketInv'
<1>1. TypeOK /\ at[t] \in [gen : 1..Current, it : Nat] /\ at[t].gen = Current
  BY DEF IInv, TypeOK, GrowInv, Bury
<1>2. PICK n \in {"burying", "installing"} : pc' = [pc EXCEPT ![t] = n]
  BY DEF Bury, Goto
<1>3. at' = [at EXCEPT ![t].it = @ + 1] /\ Put(at[t], Tombstone) /\ UNCHANGED <<waits, notifies, target>>
  BY DEF Bury, word
<1>4. Current' = Current
  BY <1>1, <1>3, PutSlots, Written
<1>5. pc'[t] = n /\ at'[t].gen = Current /\ \A u \in Tasks \ {t} : at'[u] = at[u]
  BY <1>1, <1>2, <1>3 DEF TypeOK
<1>6. CountInv'
  BY <1>1, <1>2, <1>3, <1>4, <1>5, CountFrame
<1>7. BucketInv'
  BY <1>4, <1>5 DEF BucketInv, Burying
<1> QED BY <1>6, <1>7

(* The writes keep the counters. *)
LEMMA PutCounts ==
  ASSUME IInv, CountInv, NEW t \in Tasks,
         Place(t) \/ PlaceWoken(t) \/ Resume(t) \/ Signal(t)
  PROVE  CountInv'
<1>1. TypeOK /\ Current' = Current
  BY PlaceKeeps, PlaceWokenKeeps, ResumeKeeps, SignalKeeps DEF IInv, Current, Place, PlaceWoken, Resume, Signal, Put
<1>2. \E n \in {"checking", "trying", "panicked", "idle"} :
        pc' = [pc EXCEPT ![t] = n] /\ (n = "checking" => pc[t] = "placing")
  <2>1. back[t] \in {"idle", "trying"}
    BY <1>1 DEF TypeOK
  <2> QED BY <2>1 DEF Place, PlaceWoken, Resume, Signal, Goto
<1>3. UNCHANGED <<waits, notifies, at, target>>
  BY DEF Place, PlaceWoken, Resume, Signal, word, local
<1>4. PICK n \in {"checking", "trying", "panicked", "idle"} :
        pc' = [pc EXCEPT ![t] = n] /\ (n = "checking" => pc[t] = "placing")
  BY <1>2
<1> QED BY <1>1, <1>3, <1>4, CountFrame

(* While the sums fit, the queue neither loses nor invents a notification. *)
LEMMA BucketsNext ==
  ASSUME IInv, CountInv, BucketInv, SumsFit, [Next]_vars
  PROVE  CountInv' /\ BucketInv'
<1>1. CASE UNCHANGED vars
  <2>1. CountInv'
    BY <1>1 DEF vars, CountInv, Current
  <2>2. BucketInv'
    <3>1. /\ Current' = Current /\ Cap(Current)' = Cap(Current) /\ Slots' = Slots
          /\ \A s \in Slots : Held(s)' = Held(s)
      BY <1>1 DEF vars, Current, Cap, Slots, Held
    <3>2. Burying => Burying'
      BY <1>1, <3>1 DEF vars, Burying
    <3>3. /\ \A s \in Slots : Spent(s)' = Spent(s)
          /\ \A s \in Slots, i \in Nat : AllArriving(s, i) => AllArriving(s, i)'
          /\ \A u \in Tasks, i \in Nat : Inside(u, i)' => Inside(u, i)
      BY <1>1, <3>1 DEF vars, Spent, AllArriving, Inside, InBucket, InFlight, Arriving
    <3>4. ~Burying => \A s \in Slots : SlotOK(s)'
      BY <3>1, <3>3, SlotFrame DEF BucketInv, SlotOK, IInv
    <3> QED BY <3>1, <3>2, <3>4 DEF BucketInv, SlotOK
  <2> QED BY <2>1, <2>2
<1>2. ASSUME NEW t \in Tasks, Lock(t) \/ Step(t) \/ Grow(t) \/ Drop(t)
      PROVE  CountInv' /\ BucketInv'
  BY <1>2, QuietBuckets, ExpandBuckets, BuryBuckets, PutCounts, EnterCounts, EnterBuckets,
     NotifyCounts, NotifyBuckets, PlaceBuckets, LeaveBuckets, SignalBuckets, InstallBuckets DEF Step
<1> QED BY <1>1, <1>2 DEF Next

-----------------------------------------------------------------------------
(* Who sleeps while the mutex is not marked can count on somebody. *)

(* It is enough to name one who acts. *)
LEMMA ActiveNow == ASSUME NEW u \in Tasks, Active(u)' PROVE ActiveInv'
BY DEF ActiveInv

(* A step that neither lets somebody sleep nor ends what somebody was to do. *)
LEMMA ActiveFrame ==
  ASSUME TypeOK, ActiveInv, NEW t \in Tasks, NEW n, pc' = [pc EXCEPT ![t] = n],
         UNCHANGED generations,
         \A u \in Tasks \ {t} : at'[u] = at[u] /\ target'[u] = target[u] /\ back'[u] = back[u],
         n \notin {"checking", "pending"}, ~Active(t), atom # 2
  PROVE  ActiveInv'
<1>1. \A u \in Tasks : pc'[u] = IF u = t THEN n ELSE pc[u]
  BY DEF TypeOK
<1>2. Current' = Current
  BY DEF Current
<1>3. \A u \in Tasks \ {t} : Bucket(at[u])' = Bucket(at[u])
  BY DEF Bucket, Cap
<1>4. \A u \in Tasks : Sleeping(u)' => Sleeping(u)
  BY <1>1, <1>3 DEF Sleeping
<1>5. \A u \in Tasks : Active(u) => Active(u)'
  <2> SUFFICES ASSUME NEW u \in Tasks, Active(u) PROVE Active(u)'
    OBVIOUS
  <2>1. u # t
    OBVIOUS
  <2> QED BY <1>1, <1>2, <1>3, <2>1 DEF Active
<1>6. GivenUp => GivenUp'
  <2> SUFFICES ASSUME GivenUp PROVE GivenUp'
    OBVIOUS
  <2>1. PICK g \in 1..Current : \E i \in 0..Cap(g) - 1 :
          LET b == [gen |-> g, it |-> i] IN
            /\ Bucket(b) = Waking \/ \E u \in Tasks : Bucket(b) = Waiting(u)
            /\ \A u \in Tasks : pc[u] \in {"checking", "pending"} =>
                 ~(at[u].gen = g /\ at[u].it % Cap(g) = i)
    BY DEF GivenUp
  <2>2. PICK i \in 0..Cap(g) - 1 :
          LET b == [gen |-> g, it |-> i] IN
            /\ Bucket(b) = Waking \/ \E u \in Tasks : Bucket(b) = Waiting(u)
            /\ \A u \in Tasks : pc[u] \in {"checking", "pending"} =>
                 ~(at[u].gen = g /\ at[u].it % Cap(g) = i)
    BY <2>1
  <2> DEFINE b == [gen |-> g, it |-> i]
  <2>3. Cap(g)' = Cap(g) /\ Bucket(b)' = Bucket(b)
    BY DEF Cap, Bucket
  <2>4. \A u \in Tasks : pc'[u] \in {"checking", "pending"} =>
          pc[u] \in {"checking", "pending"} /\ at'[u] = at[u]
    BY <1>1
  <2> HIDE DEF b
  <2>5. Bucket(b)' = Waking \/ \E u \in Tasks : Bucket(b)' = Waiting(u)
    BY <2>2, <2>3 DEF b
  <2>6. \A u \in Tasks : pc'[u] \in {"checking", "pending"} =>
          ~(at'[u].gen = g /\ at'[u].it % Cap(g)' = i)
    BY <2>2, <2>3, <2>4
  <2>7. g \in 1..Current' /\ i \in 0..Cap(g)' - 1
    BY <1>2, <2>3
  <2> QED BY <2>5, <2>6, <2>7 DEF GivenUp, b
<1> QED BY <1>4, <1>5, <1>6 DEF ActiveInv

(* Who locks goes on or finds the mutex free; who unlocks a marked mutex notifies. *)
LEMMA LockActive ==
  ASSUME IInv, ActiveInv, NEW t \in Tasks, Lock(t) \/ Retry(t) \/ Unlock(t)
  PROVE  ActiveInv'
<1>1. TypeOK /\ atom \in 0..2
  BY DEF IInv, TypeOK
<1>2. CASE Retry(t)
  BY <1>2 DEF Retry, ActiveInv
<1>3. CASE Lock(t)
  <2>1. CASE atom = 0
    <3>1. PICK n : n = "held"
      OBVIOUS
    <3>2. pc' = [pc EXCEPT ![t] = n] /\ UNCHANGED <<generations, at, target, back>>
      BY <1>3, <2>1, <3>1 DEF Lock, Goto, local
    <3>3. ~Active(t)
      BY <1>3 DEF Lock, Active
    <3>4. UNCHANGED generations /\ n \notin {"checking", "pending"}
          /\ \A u \in Tasks \ {t} : at'[u] = at[u] /\ target'[u] = target[u] /\ back'[u] = back[u]
      BY <3>1, <3>2
    <3>5. atom # 2
      BY <2>1
    <3> QED BY <1>1, <3>2, <3>3, <3>4, <3>5, ActiveFrame
  <2>2. CASE atom = 1
    <3>1. pc'[t] = "trying"
      BY <1>1, <1>3, <2>2 DEF Lock, Goto, TypeOK
    <3> QED BY <3>1, ActiveNow DEF Active
  <2>3. CASE atom = 2
    <3>1. pc'[t] = "entering"
      BY <1>1, <1>3, <2>3 DEF Lock, Goto, TypeOK
    <3> QED BY <3>1, ActiveNow DEF Active
  <2> QED BY <1>1, <2>1, <2>2, <2>3
<1>4. CASE Unlock(t)
  <2>1. CASE atom = 2
    <3>1. pc'[t] = "notifying"
      BY <1>1, <1>4, <2>1 DEF Unlock, Goto, CallThen, TypeOK
    <3> QED BY <3>1, ActiveNow DEF Active
  <2>2. CASE atom # 2
    <3>1. PICK n : n = "idle"
      OBVIOUS
    <3>2. pc' = [pc EXCEPT ![t] = n] /\ UNCHANGED <<generations, at, target, back>>
      BY <1>4, <2>2, <3>1 DEF Unlock, Goto
    <3>3. ~Active(t)
      BY <1>4 DEF Unlock, Active
    <3>4. UNCHANGED generations /\ n \notin {"checking", "pending"}
          /\ \A u \in Tasks \ {t} : at'[u] = at[u] /\ target'[u] = target[u] /\ back'[u] = back[u]
      BY <3>1, <3>2
    <3> QED BY <1>1, <2>2, <3>2, <3>3, <3>4, ActiveFrame
  <2> QED BY <2>1, <2>2
<1> QED BY <1>2, <1>3, <1>4

(* Who waits and has not fallen asleep goes on, or notifies. *)
LEMMA WaitActive ==
  ASSUME IInv, ActiveInv, NEW t \in Tasks,
         \/ Enter(t) \/ Place(t) \/ PlaceWoken(t) \/ PlaceTaken(t) \/ Check(t)
         \/ Resume(t) \/ ResumeBuried(t) \/ Bury(t)
  PROVE  ActiveInv'
<1>1. TypeOK
  BY DEF IInv
<1>2. CASE Check(t) /\ atom = 2
  BY <1>2 DEF Check, ActiveInv
<1>3. CASE ~(Check(t) /\ atom = 2)
  <2>1. \/ \E n \in {"placing", "checking", "trying", "notifying", "burying", "installing"} :
              pc' = [pc EXCEPT ![t] = n]
        \/ pc' = [pc EXCEPT ![t] = "expanding"] /\ back' = [back EXCEPT ![t] = "trying"]
    <3>1. CASE Enter(t) \/ Place(t) \/ PlaceWoken(t) \/ Bury(t)
      BY <3>1 DEF Enter, Place, PlaceWoken, Bury, Goto
    <3>2. CASE PlaceTaken(t) \/ ResumeBuried(t)
      BY <3>2 DEF PlaceTaken, ResumeBuried, CallThen, Goto
    <3>3. CASE Check(t)
      BY <1>3, <3>3 DEF Check, CallThen, Goto
    <3>4. CASE Resume(t)
      <4>1. Bucket(at[t]) = Waking
        BY <3>4 DEF Resume, IInv, SlotInv, InBucket
      <4> QED BY <3>4, <4>1 DEF Resume, Goto
    <3> QED BY <3>1, <3>2, <3>3, <3>4
  <2>2. \/ pc'[t] \in {"placing", "checking", "trying", "notifying", "burying", "installing"}
        \/ pc'[t] = "expanding" /\ back'[t] = "trying"
    BY <1>1, <2>1 DEF TypeOK
  <2> QED BY <2>2, ActiveNow DEF Active
<1> QED BY <1>2, <1>3

(* A dropped wait leaves a waker behind, or the wake that was spent on it. *)
LEMMA DropActive ==
  ASSUME IInv, ActiveInv, NEW t \in Tasks, Drop(t)
  PROVE  ActiveInv'
<1>1. /\ TypeOK /\ pc[t] = "pending" /\ pc' = [pc EXCEPT ![t] = "dropped"]
      /\ UNCHANGED <<atom, generations, at, target, back>>
  BY DEF Drop, Goto, local, IInv
<1>2. Bucket(at[t]) \in {Waiting(t), Waking, Tombstone}
  BY <1>1 DEF IInv, SlotInv, InBucket
<1>3. CASE Bucket(at[t]) = Tombstone
  <2>1. CASE atom = 2
    BY <1>1, <2>1 DEF ActiveInv
  <2>2. CASE atom # 2
    <3>1. ~Active(t)
      BY <1>1, <1>3, BucketsDiffer DEF Active
    <3>2. PICK n : n = "dropped"
      OBVIOUS
    <3>3. UNCHANGED generations /\ n \notin {"checking", "pending"}
          /\ \A u \in Tasks \ {t} : at'[u] = at[u] /\ target'[u] = target[u] /\ back'[u] = back[u]
      BY <1>1, <3>2
    <3>4. pc' = [pc EXCEPT ![t] = n]
      BY <1>1, <3>2
    <3> QED BY <1>1, <2>2, <3>1, <3>3, <3>4, ActiveFrame
  <2> QED BY <2>1, <2>2
<1>4. CASE Bucket(at[t]) # Tombstone
  <2>1. PICK g \in 1..Current, i \in Nat : g = at[t].gen /\ i = at[t].it
    BY <1>1 DEF TypeOK
  <2>2. PICK k \in 0..Cap(g) - 1 : k = i % Cap(g) /\ k % Cap(g) = k
    <3>1. PICK c \in Nat \ {0} : c = Cap(g)
      BY <1>1, Caps
    <3>2. PICK k \in 0..c - 1 : k = i % c
      BY Remainder
    <3>3. k \in Nat /\ k < c
      OBVIOUS
    <3>4. k % c = k
      BY <3>3, Remainder
    <3> QED BY <3>1, <3>2, <3>4
  <2>3. generations[g][k] = Waking \/ \E u \in Tasks : generations[g][k] = Waiting(u)
    BY <1>2, <1>4, <2>1, <2>2 DEF Bucket
  <2>4. \A u \in Tasks : pc'[u] \in {"checking", "pending"} => ~(at[u].gen = g /\ at[u].it % Cap(g) = k)
    BY <1>1, <2>1, <2>2 DEF IInv, SlotInv, InBucket, SameBucket, TypeOK
  <2>5. Current' = Current /\ Cap(g)' = Cap(g)
    BY <1>1 DEF Current, Cap
  <2>6. Bucket([gen |-> g, it |-> k])' = generations[g][k]
    BY <1>1, <2>2, <2>5 DEF Bucket
  <2>7. GivenUp'
    BY <1>1, <2>3, <2>4, <2>5, <2>6 DEF GivenUp
  <2> QED BY <2>7 DEF ActiveInv
<1> QED BY <1>3, <1>4

(* If nobody is left to notify, there are no more notifications than waits only
   if all who wait were notified. *)
LEMMA NotifyActive ==
  ASSUME IInv, CountInv, BucketInv, ActiveInv, SumsFit, NEW t \in Tasks, Notify(t)
  PROVE  ActiveInv'
<1>1. TypeOK /\ waits \in Nat /\ notifies \in Nat /\ notifies <= waits
      /\ back[t] \in {"idle", "trying"} /\ pc[t] = "notifying"
      /\ UNCHANGED <<generations, at, back>>
  BY Counters DEF IInv, TypeOK, CountInv, Notify
<1>2. /\ pc' = [pc EXCEPT ![t] = IF notifies < waits THEN "signalling" ELSE back[t]]
      /\ target' = [target EXCEPT ![t] = [gen |-> Current, it |-> notifies]]
  BY NotifyCounts
<1>3. Current' = Current
  BY <1>1 DEF Current
<1>4. CASE notifies < waits
  <2>1. pc'[t] = "signalling" /\ target'[t].gen = Current
    BY <1>1, <1>2, <1>4 DEF TypeOK
  <2> QED BY <1>3, <2>1, ActiveNow DEF Active
<1>5. CASE ~(notifies < waits)
  <2>1. /\ \A u \in Tasks : pc'[u] = IF u = t THEN back[t] ELSE pc[u]
        /\ \A u \in Tasks \ {t} : target'[u] = target[u]
    BY <1>1, <1>2, <1>5 DEF TypeOK
  <2>2. ASSUME NEW v \in Tasks, Sleeping(v)' PROVE \E u \in Tasks : Active(u)'
    <3>1. v # t /\ pc[v] = "pending"
      BY <1>1, <2>1, <2>2 DEF Sleeping
    <3>2. Bucket(at[v])' = Bucket(at[v])
      BY <1>1 DEF Bucket, Cap
    <3>3. Sleeping(v)
      BY <2>2, <3>1, <3>2 DEF Sleeping
    <3>4. at[v].gen = Current /\ at[v].it < notifies
      <4>1. at[v].gen = Current
        BY <3>3, Notified DEF NotifiedIsWoken
      <4>2. at[v].it < waits /\ at[v].it \in Nat
        BY <1>1, <3>1, <4>1 DEF CountInv, TypeOK
      <4> QED BY <1>1, <1>5, <4>1, <4>2
    <3>5. Abandoning \/ \E u \in Tasks : pc[u] = "signalling" /\ SameBucket(target[u], at[v])
      BY <3>3, <3>4, Notified DEF NotifiedIsWoken
    <3>6. PICK u \in Tasks : \/ pc[u] \in {"expanding", "burying"} /\ at[u].gen = Current
                             \/ pc[u] = "signalling" /\ target[u].gen = Current
      BY <3>4, <3>5 DEF Abandoning, SameBucket
    <3>7. u # t
      BY <1>1, <3>6
    <3> QED BY <1>1, <1>3, <2>1, <3>6, <3>7 DEF Active
  <2> QED BY <2>2 DEF ActiveInv
<1> QED BY <1>4, <1>5

(* A delivered notification has a wait that goes on, a wait that comes, or
   reached a wait that was given up. *)
LEMMA SignalActive ==
  ASSUME IInv, CountInv, BucketInv, ActiveInv, NEW t \in Tasks, Signal(t)
  PROVE  ActiveInv'
<1>1. PICK p \in [gen : 1..Current, it : Nat] : p = target[t]
  BY DEF IInv, TypeOK
<1>2. /\ pc[t] = "signalling" /\ pc' = [pc EXCEPT ![t] = back[t]]
      /\ UNCHANGED <<waits, notifies, at, target, back>>
  BY DEF Signal, Goto, word, local
<1>3. \/ (\E u \in Tasks : Bucket(p) = Waiting(u)) /\ Put(p, Waking)
      \/ Bucket(p) = Empty(p.it) /\ Put(p, Woken(p.it))
  BY <1>1 DEF Signal
<1>4. Bucket(p) # Tombstone
  BY <1>3, BucketsDiffer
<1>5. /\ TypeOK /\ p.gen = Current /\ Cap(Current) \in Nat \ {0}
      /\ \E i \in Nat : \E s \in Slots :
           /\ p.it = i /\ i % Cap(Current) = s /\ Held(s) = Bucket(p)
           /\ \A u \in Tasks : \A j \in Nat : Inside(u, j) /\ j % Cap(Current) = s =>
                Held(s) \in {Waiting(u), Waking}
  BY <1>4, Found
<1>6. PICK i \in Nat, s \in Slots :
        p.it = i /\ i % Cap(Current) = s /\ Held(s) = Bucket(p)
  BY <1>5
<1>7. /\ \A u \in Tasks : pc'[u] = IF u = t THEN back[t] ELSE pc[u]
      /\ back[t] \in {"idle", "trying"}
  BY <1>2, <1>5 DEF TypeOK
<1>8. CASE back[t] = "trying"
  BY <1>7, <1>8, ActiveNow DEF Active
<1>9. CASE back[t] = "idle" /\ Bucket(p) = Empty(p.it) /\ Put(p, Woken(p.it))
  <2>1. Current' = Current
    BY <1>1, <1>5, <1>9, PutSlots, Written
  <2>2. CASE Burying
    <3>1. PICK u \in Tasks : pc[u] \in {"expanding", "burying", "installing"} /\ at[u].gen = Current
      BY <2>2 DEF Burying
    <3> QED BY <1>2, <1>7, <2>1, <3>1, ActiveNow DEF Active
  <2>3. CASE ~Burying
    <3>1. AllArriving(s, i)
      BY <1>6, <1>9, <2>3 DEF BucketInv, EmptyInv
    <3>2. i < waits
      <4>1. i < notifies
        BY <1>1, <1>2, <1>5, <1>6 DEF CountInv
      <4> QED BY <1>5, <4>1, Counters DEF CountInv
    <3>3. PICK u \in Tasks : Arriving(u, i)
      BY <1>6, <3>1, <3>2 DEF AllArriving
    <3>4. u # t /\ pc'[u] = "placing"
      BY <1>2, <1>7, <3>3 DEF Arriving
    <3> QED BY <3>4, ActiveNow DEF Active
  <2> QED BY <2>2, <2>3
<1>10. CASE back[t] = "idle" /\ Put(p, Waking)
  <2>1. PICK b \in Contents : b = Waking
    BY DEF Contents
  <2>2. PICK g \in 1..Current, c \in Nat \ {0} : g = Current /\ c = Cap(g) /\ s = i % c /\ s \in 0..c - 1
    BY <1>5, <1>6, Latest DEF Slots
  <2>3. /\ Current' = Current /\ Cap(g)' = c /\ DOMAIN generations'[g] = DOMAIN generations[g]
        /\ generations'[g][s] = Waking
    <3>1. Put(p, b)
      BY <1>10, <2>1
    <3> QED BY <1>5, <1>6, <2>1, <2>2, <3>1, PutEffect
  <2>4. s % c = s
    <3>1. s \in Nat /\ s < c
      BY <2>2
    <3> QED BY <2>2, <3>1, Remainder
  <2>5. CASE \E u \in Tasks : pc'[u] \in {"checking", "pending"} /\ at[u].gen = g /\ at[u].it % c = s
    <3>1. PICK u \in Tasks : pc'[u] \in {"checking", "pending"} /\ at[u].gen = g /\ at[u].it % c = s
      BY <2>5
    <3>2. Bucket(at[u])' = Waking
      <4>1. at'[u].gen = g /\ at'[u].it % c = s
        BY <1>2, <3>1
      <4> QED BY <2>3, <4>1 DEF Bucket
    <3> QED BY <3>1, <3>2, ActiveNow DEF Active
  <2>6. CASE ~\E u \in Tasks : pc'[u] \in {"checking", "pending"} /\ at[u].gen = g /\ at[u].it % c = s
    <3>1. Bucket([gen |-> g, it |-> s])' = Waking
      BY <2>3, <2>4 DEF Bucket
    <3>2. GivenUp'
      <4>1. g \in 1..Current' /\ s \in 0..Cap(g)' - 1
        BY <2>2, <2>3
      <4>2. \A u \in Tasks : pc'[u] \in {"checking", "pending"} =>
              ~(at'[u].gen = g /\ at'[u].it % Cap(g)' = s)
        BY <1>2, <2>3, <2>6
      <4> QED BY <3>1, <4>1, <4>2 DEF GivenUp
    <3> QED BY <3>2 DEF ActiveInv
  <2> QED BY <2>5, <2>6
<1> QED BY <1>3, <1>7, <1>8, <1>9, <1>10

(* A task that found its generation buried already has nothing to do for it. *)
LEMMA ExpandActive ==
  ASSUME IInv, ActiveInv, NEW t \in Tasks, SignalStray(t) \/ Grow(t)
  PROVE  ActiveInv'
<1>1. /\ TypeOK /\ back[t] \in {"idle", "trying"} /\ target[t].gen \in 1..Current
      /\ UNCHANGED <<atom, generations, target, back>>
  BY DEF IInv, TypeOK, SignalStray, Grow
<1>2. Current' = Current
  BY <1>1 DEF Current
<1>3. CASE atom = 2
  BY <1>1, <1>3 DEF ActiveInv
<1>4. CASE SignalStray(t) /\ atom # 2
  <2>1. pc[t] = "signalling" /\ pc' = [pc EXCEPT ![t] = "expanding"] /\ at' = [at EXCEPT ![t] = target[t]]
    BY <1>4 DEF SignalStray, Goto
  <2>2. pc'[t] = "expanding" /\ at'[t] = target[t] /\ back'[t] = back[t]
    BY <1>1, <2>1 DEF TypeOK
  <2>3. CASE back[t] = "trying" \/ target[t].gen = Current
    BY <1>2, <2>2, <2>3, ActiveNow DEF Active
  <2>4. CASE ~(back[t] = "trying" \/ target[t].gen = Current)
    <3>1. ~Active(t)
      BY <2>1, <2>4 DEF Active
    <3>2. PICK n : n = "expanding"
      OBVIOUS
    <3>3. /\ pc' = [pc EXCEPT ![t] = n] /\ UNCHANGED generations /\ n \notin {"checking", "pending"}
          /\ \A u \in Tasks \ {t} : at'[u] = at[u] /\ target'[u] = target[u] /\ back'[u] = back[u]
      BY <1>1, <2>1, <3>2 DEF TypeOK
    <3> QED BY <1>1, <1>4, <3>1, <3>3, ActiveFrame
  <2> QED BY <2>3, <2>4
<1>5. CASE Grow(t) /\ at[t].gen = Current
  <2>1. pc'[t] = "burying"
    BY <1>1, <1>5 DEF Grow, Goto, TypeOK
  <2> QED BY <2>1, ActiveNow DEF Active
<1>6. CASE Grow(t) /\ at[t].gen # Current /\ atom # 2
  <2>1. pc[t] = "expanding" /\ pc' = [pc EXCEPT ![t] = back[t]] /\ at' = at
    BY <1>6 DEF Grow, Goto
  <2>2. CASE back[t] = "trying"
    <3>1. pc'[t] = "trying"
      BY <1>1, <2>1, <2>2 DEF TypeOK
    <3> QED BY <3>1, ActiveNow DEF Active
  <2>3. CASE back[t] # "trying"
    <3>1. ~Active(t)
      BY <1>6, <2>1, <2>3 DEF Active
    <3>2. PICK n : n = back[t]
      OBVIOUS
    <3>3. /\ pc' = [pc EXCEPT ![t] = n] /\ UNCHANGED generations /\ n \notin {"checking", "pending"}
          /\ \A u \in Tasks \ {t} : at'[u] = at[u] /\ target'[u] = target[u] /\ back'[u] = back[u]
      BY <1>1, <2>1, <3>2
    <3> QED BY <1>1, <1>6, <3>1, <3>3, ActiveFrame
  <2> QED BY <2>2, <2>3
<1> QED BY <1>3, <1>4, <1>5, <1>6

(* Nobody sleeps when a generation was buried. *)
LEMMA InstallActive ==
  ASSUME IInv, NEW t \in Tasks, Install(t)
  PROVE  ActiveInv'
<1>1. /\ TypeOK /\ Current \in Nat \ {0} /\ at' = at
      /\ \A u \in Tasks : at[u] \in [gen : 1..Current, it : Nat]
      /\ generations' = Append(generations, Generation(2 * Cap(Current)))
  BY DEF IInv, TypeOK, Install, local
<1>2. \A g \in 1..Current : generations'[g] = generations[g] /\ Cap(g)' = Cap(g)
  BY <1>1 DEF Current, TypeOK, Cap
<1>3. pc[t] = "installing"
  BY DEF Install
<1>4. \A g \in 1..Current : \A i \in 0..Cap(g) - 1 : generations[g][i] = Tombstone
  <2>1. \A g \in 1..Current : g = Current \/ g \in 1..Current - 1
    BY <1>1
  <2> QED BY <1>3, <2>1 DEF IInv, GrowInv
<1>5. ASSUME NEW u \in Tasks PROVE ~Sleeping(u)'
  <2>1. at[u].gen \in 1..Current /\ at[u].it % Cap(at[u].gen) \in 0..Cap(at[u].gen) - 1
    BY <1>1, Reading
  <2>2. Cap(at[u].gen)' = Cap(at[u].gen)
    BY <1>1, <1>2, <2>1
  <2>3. Bucket(at[u])' = Tombstone
    BY <1>1, <1>2, <1>4, <2>1, <2>2 DEF Bucket
  <2> QED BY <2>3, BucketsDiffer DEF Sleeping
<1> QED BY <1>5 DEF ActiveInv

(* Together: every step of Next, and stuttering. *)
LEMMA ActiveNext ==
  ASSUME IInv, CountInv, BucketInv, ActiveInv, SumsFit, [Next]_vars
  PROVE  ActiveInv'
<1>1. CASE UNCHANGED vars
  BY <1>1 DEF vars, ActiveInv, Active, GivenUp, Sleeping, Bucket, Cap, Current
<1>2. ASSUME NEW t \in Tasks, Lock(t) \/ Step(t) \/ Grow(t) \/ Drop(t)
      PROVE  ActiveInv'
  BY <1>2, LockActive, WaitActive, DropActive, NotifyActive, SignalActive, ExpandActive,
     InstallActive DEF Step
<1> QED BY <1>1, <1>2 DEF Next

-----------------------------------------------------------------------------
(* At first nobody waits, and the bucket is for iteration 0. *)
LEMMA InitWakes == Init => WakeInv
<1> SUFFICES ASSUME Init PROVE WakeInv
  OBVIOUS
<1>1. IInv
  BY InitKeeps
<1>2. /\ waits = 0 /\ notifies = 0 /\ generations = <<Generation(1)>>
      /\ \A t \in Tasks : pc[t] = "idle"
  BY DEF Init
<1>3. Current = 1 /\ Generation(1) = [i \in 0..0 |-> Empty(i)]
  BY <1>2 DEF Current, Generation
<1>4. Cap(Current) = 1
  <2>1. DOMAIN generations[1] = 0..0
    BY <1>2, <1>3
  <2>2. 0..0 = {0} /\ Cardinality({0}) = 1
    BY FS_Singleton
  <2> QED BY <1>3, <2>1, <2>2 DEF Cap
<1>5. Slots = {0} /\ Held(0) = Empty(0)
  BY <1>2, <1>3, <1>4 DEF Slots, Held
<1>6. CountInv
  BY <1>2 DEF CountInv
<1>7. SlotOK(0)
  <2>1. \A i \in Nat : AllArriving(0, i)
    BY <1>2 DEF AllArriving
  <2>2. Settled(0, 0)
    <3>1. Spent(0) = {} /\ Past(0, 0) = {}
      BY <1>2 DEF Spent, Past
    <3> QED BY <3>1, FS_EmptySet DEF Settled
  <2>3. EmptyInv(0)
    BY <1>4, <1>5, <2>1, <2>2, BucketsDiffer DEF EmptyInv
  <2>4. WokenInv(0) /\ OwnerInv(0)
    BY <1>2, <1>5, BucketsDiffer DEF WokenInv, OwnerInv, Inside, InBucket
  <2> QED BY <2>3, <2>4 DEF SlotOK
<1>8. ActiveInv
  BY <1>2 DEF ActiveInv, Sleeping
<1> QED BY <1>5, <1>6, <1>7, <1>8 DEF WakeInv, BucketInv, SlotOK

(* If all are idle, dropped or asleep then nobody acts, and the mutex is free: by
   ActiveInv nobody sleeps, or a wakeup went to a wait that was given up. *)
LEMMA Reached == IInv /\ WakeInv => WakeupsReach
<1> SUFFICES ASSUME IInv, WakeInv PROVE WakeupsReach
  OBVIOUS
<1>1. ASSUME \A t \in Tasks : pc[t] \in {"idle", "dropped"} \/ Sleeping(t),
             NEW t \in Tasks, Sleeping(t)
      PROVE  GivenUp
  <2>1. \A u \in Tasks : pc[u] # "held"
    BY <1>1 DEF Sleeping
  <2>2. atom = 0
    BY <2>1 DEF IInv, LockInv
  <2>3. ASSUME NEW u \in Tasks PROVE ~Active(u)
    <3>1. CASE pc[u] \in {"idle", "dropped"}
      BY <3>1 DEF Active
    <3>2. CASE Sleeping(u)
      BY <3>2, BucketsDiffer DEF Active, Sleeping
    <3> QED BY <1>1, <3>1, <3>2
  <2> QED BY <1>1, <2>2, <2>3 DEF WakeInv, ActiveInv
<1>2. NotifiedIsWoken
  BY Notified DEF WakeInv
<1> QED BY <1>1, <1>2 DEF WakeupsReach

(* As long as the sums of the queue fit in half a word, no wakeup is lost but
   those spent on waits that were given up. *)
THEOREM NoWakeupIsLost == Spec /\ []SumsFit => []WakeupsReach
<1>1. Init => WakeInv
  BY InitWakes
<1>2. IInv /\ SumsFit /\ WakeInv /\ [Next]_vars => WakeInv'
  BY BucketsNext, ActiveNext DEF WakeInv
<1>3. IInv /\ WakeInv => WakeupsReach
  BY Reached
<1> QED BY <1>1, <1>2, <1>3, Invariance, PTL DEF Spec

=============================================================================
