--------------------------- MODULE FutexOpsProofs ---------------------------
(* Facts about waiter sequences, for the proofs about the modules that use
   them: what pushing, popping and removing do to the waiters linked. *)
EXTENDS FutexOps, SequenceTheorems, TLAPS

(* A null inbox pointer means an empty inbox, in has_new_waiters and flip. *)
LEMMA TopNull ==
  ASSUME NEW S, Null \notin S, NEW s \in Seq(S)
  PROVE  /\ Top(s) \in S \union {Null}
         /\ Top(s) = Null <=> s = <<>>
BY DEF Top

(* Pushing on the inbox appends to the whole line. *)
LEMMA AppendLine ==
  ASSUME NEW S, NEW q \in Seq(S), NEW i \in Seq(S), NEW t \in S
  PROVE  q \o Append(i, t) = Append(q \o i, t)
OBVIOUS

(* Popping from the queue pops from the whole line. *)
LEMMA TailLine ==
  ASSUME NEW S, NEW q \in Seq(S), NEW i \in Seq(S), q # <<>>
  PROVE  /\ q \o i # <<>>
         /\ Head(q \o i) = Head(q)
         /\ Tail(q \o i) = Tail(q) \o i
OBVIOUS

(* poll_enter links one more waiter. *)
LEMMA AppendLinks ==
  ASSUME NEW S, NEW s \in Seq(S), NEW t \in S
  PROVE  /\ Append(s, t) \in Seq(S)
         /\ ToSet(Append(s, t)) = ToSet(s) \union {t}
         /\ NoRepeats(s) /\ t \notin ToSet(s) => NoRepeats(Append(s, t))
<1> DEFINE a == Append(s, t)
<1>1. /\ a \in Seq(S)
      /\ Len(a) = Len(s) + 1
      /\ \A i \in 1..Len(s) : a[i] = s[i]
      /\ a[Len(s) + 1] = t
  OBVIOUS
<1>2. /\ Len(s) \in Nat /\ DOMAIN s = 1..Len(s) /\ DOMAIN a = 1..(Len(s) + 1)
  BY <1>1
<1> HIDE DEF a
<1>3. ToSet(a) = ToSet(s) \union {t}
  BY <1>1, <1>2 DEF ToSet
<1>4. ASSUME NoRepeats(s), t \notin ToSet(s)
      PROVE  NoRepeats(a)
  BY <1>1, <1>2, <1>4 DEF ToSet, NoRepeats, IsInjective
<1> QED BY <1>1, <1>3, <1>4 DEF a

(* pop_front unlinks the oldest waiter and no other. *)
LEMMA TailLinks ==
  ASSUME NEW S, NEW s \in Seq(S), s # <<>>, NoRepeats(s)
  PROVE  /\ Tail(s) \in Seq(S)
         /\ Head(s) \in S
         /\ Head(s) \in ToSet(s)
         /\ ToSet(Tail(s)) = ToSet(s) \ {Head(s)}
         /\ NoRepeats(Tail(s))
<1> DEFINE r == Tail(s)
<1>1. /\ r \in Seq(S)
      /\ Len(s) \in Nat \ {0}
      /\ Len(r) = Len(s) - 1
      /\ \A i \in 1..Len(r) : r[i] = s[i + 1]
      /\ Head(s) = s[1]
      /\ s[1] \in S
  OBVIOUS
<1>2. DOMAIN s = 1..Len(s) /\ DOMAIN r = 1..(Len(s) - 1)
  BY <1>1
<1> HIDE DEF r
<1>3. \A a, b \in 1..Len(s) : s[a] = s[b] => a = b
  BY <1>2 DEF NoRepeats, IsInjective
<1>4. NoRepeats(r)
  BY <1>1, <1>2, <1>3 DEF NoRepeats, IsInjective
<1>5. Head(s) \in ToSet(s)
  BY <1>1, <1>2 DEF ToSet
<1>6. ASSUME NEW x \in ToSet(r) PROVE x \in ToSet(s) \ {Head(s)}
  <2>1. PICK i \in 1..(Len(s) - 1) : x = r[i]
    BY <1>2, <1>6 DEF ToSet
  <2>2. x = s[i + 1] /\ i + 1 \in 1..Len(s) /\ i + 1 # 1
    BY <1>1, <2>1
  <2> QED BY <1>1, <1>2, <1>3, <2>2 DEF ToSet
<1>7. ASSUME NEW x \in ToSet(s) \ {Head(s)} PROVE x \in ToSet(r)
  <2>1. PICK j \in 1..Len(s) : x = s[j]
    BY <1>2, <1>7 DEF ToSet
  <2>2. j - 1 \in 1..(Len(s) - 1) /\ x = r[j - 1]
    BY <1>1, <1>7, <2>1
  <2> QED BY <1>2, <2>2 DEF ToSet
<1> QED BY <1>1, <1>4, <1>5, <1>6, <1>7 DEF r

(* remove leaves a list of waiters, and an empty one as it is. *)
LEMMA WithoutSeq ==
  ASSUME NEW S, NEW s \in Seq(S), NEW w
  PROVE  /\ Without(s, w) \in Seq(S)
         /\ s = <<>> => Without(s, w) = <<>>
<1>1. CASE w \notin ToSet(s)
  BY <1>1 DEF Without
<1>2. CASE w \in ToSet(s)
  <2> DEFINE p == Position(s, w)
  <2>1. Len(s) \in Nat /\ DOMAIN s = 1..Len(s)
    OBVIOUS
  <2>2. p \in 1..Len(s)
    <3>1. \E i \in 1..Len(s) : s[i] = w
      BY <1>2, <2>1 DEF ToSet
    <3> QED BY <3>1 DEF Position
  <2>3. Without(s, w) = SubSeq(s, 1, p - 1) \o SubSeq(s, p + 1, Len(s))
    BY <1>2 DEF Without, RemoveAt
  <2> HIDE DEF p
  <2>4. SubSeq(s, 1, p - 1) \in Seq(S) /\ SubSeq(s, p + 1, Len(s)) \in Seq(S)
    <3>1. \A i \in 1..Len(s) : s[i] \in S
      BY <2>1
    <3> QED BY <2>1, <2>2, <3>1, SubSeqProperties
  <2> QED BY <2>1, <2>2, <2>3, <2>4
<1> QED BY <1>1, <1>2

(* Where the waiters are that a cancelled one leaves behind. *)
LEMMA WithoutPlaces ==
  ASSUME NEW S, NEW s \in Seq(S), NEW w \in ToSet(s)
  PROVE  \E p \in 1..Len(s) :
           /\ s[p] = w
           /\ Without(s, w) \in Seq(S)
           /\ Len(Without(s, w)) = Len(s) - 1
           /\ \A i \in 1..(Len(s) - 1) : Without(s, w)[i] = IF i < p THEN s[i] ELSE s[i + 1]
<1> DEFINE p == Position(s, w)
           r == Without(s, w)
<1>1. Len(s) \in Nat /\ DOMAIN s = 1..Len(s)
  OBVIOUS
<1>2. p \in 1..Len(s) /\ s[p] = w
  <2>1. \E i \in 1..Len(s) : s[i] = w
    BY <1>1 DEF ToSet
  <2> QED BY <2>1 DEF Position
<1> DEFINE front == SubSeq(s, 1, p - 1)
           back  == SubSeq(s, p + 1, Len(s))
<1>3. r = front \o back
  BY DEF Without, RemoveAt
<1> HIDE DEF p, r
<1>4. /\ front \in Seq(S)
      /\ Len(front) = p - 1
      /\ \A i \in 1..(p - 1) : front[i] = s[i]
  BY <1>1, <1>2
<1>5. /\ back \in Seq(S)
      /\ Len(back) = Len(s) - p
      /\ \A i \in 1..(Len(s) - p) : back[i] = s[p + i]
  <2>1. \A i \in (p + 1)..Len(s) : s[i] \in S
    BY <1>1, <1>2
  <2>2. /\ back \in Seq(S)
        /\ Len(back) = IF p + 1 <= Len(s) THEN Len(s) - (p + 1) + 1 ELSE 0
        /\ \A i \in 1..(Len(s) - (p + 1) + 1) : back[i] = s[p + 1 + i - 1]
    BY <1>1, <1>2, <2>1, SubSeqProperties
  <2> HIDE DEF back
  <2>3. Len(s) - (p + 1) + 1 = Len(s) - p
    BY <1>1, <1>2
  <2>4. ASSUME NEW i \in 1..(Len(s) - p)
        PROVE  back[i] = s[p + i]
    <3>1. p + 1 + i - 1 = p + i
      BY <1>1, <1>2
    <3> QED BY <2>2, <2>3, <3>1
  <2>5. Len(back) = Len(s) - p
    <3>1. Len(s) \in Int /\ p \in Int /\ p <= Len(s)
      BY <1>1, <1>2
    <3>2. Len(back) = IF p + 1 <= Len(s) THEN Len(s) - (p + 1) + 1 ELSE 0
      BY <2>2
    <3> QED BY ONLY <3>1, <3>2
  <2> QED BY <2>2, <2>4, <2>5
<1> HIDE DEF front, back
<1>6. /\ r \in Seq(S)
      /\ Len(r) = Len(s) - 1
      /\ DOMAIN r = 1..(Len(s) - 1)
  <2>1. r \in Seq(S) /\ Len(r) = Len(front) + Len(back)
    BY <1>3, <1>4, <1>5, ConcatProperties
  <2> QED BY <1>1, <1>2, <1>4, <1>5, <2>1
<1>7. \A i \in 1..(Len(s) - 1) : r[i] = IF i < p THEN s[i] ELSE s[i + 1]
  <2> SUFFICES ASSUME NEW i \in 1..(Len(s) - 1)
               PROVE  r[i] = IF i < p THEN s[i] ELSE s[i + 1]
    OBVIOUS
  <2>1. r[i] = IF i <= Len(front) THEN front[i] ELSE back[i - Len(front)]
    <3>1. i \in 1..(Len(front) + Len(back))
      BY <1>1, <1>2, <1>4, <1>5
    <3> QED BY <1>3, <1>4, <1>5, <3>1, ConcatProperties
  <2>2. CASE i < p
    BY <1>1, <1>2, <1>4, <2>1, <2>2
  <2>3. CASE ~(i < p)
    <3>1. i - (p - 1) \in 1..(Len(s) - p) /\ p + (i - (p - 1)) = i + 1
      BY <1>1, <1>2, <2>3
    <3>2. r[i] = back[i - (p - 1)]
      BY <1>1, <1>2, <1>4, <2>1, <2>3
    <3> QED BY <1>5, <2>3, <3>1, <3>2
  <2> QED BY <2>2, <2>3
<1> QED BY <1>2, <1>6, <1>7 DEF r

(* remove unlinks the waiter it is given and no other. *)
LEMMA WithoutLinks ==
  ASSUME NEW S, NEW s \in Seq(S), NEW w, NoRepeats(s)
  PROVE  /\ Without(s, w) \in Seq(S)
         /\ ToSet(Without(s, w)) = ToSet(s) \ {w}
         /\ NoRepeats(Without(s, w))
<1>1. CASE w \notin ToSet(s)
  BY <1>1 DEF Without
<1>2. CASE w \in ToSet(s)
  <2> DEFINE r == Without(s, w)
  <2>1. Len(s) \in Nat /\ DOMAIN s = 1..Len(s)
    OBVIOUS
  <2>2. PICK p \in 1..Len(s) :
          /\ s[p] = w
          /\ r \in Seq(S)
          /\ Len(r) = Len(s) - 1
          /\ \A i \in 1..(Len(s) - 1) : r[i] = IF i < p THEN s[i] ELSE s[i + 1]
    BY <1>2, WithoutPlaces
  <2> HIDE DEF r
  <2>3. r \in Seq(S) /\ Len(r) = Len(s) - 1 /\ DOMAIN r = 1..(Len(s) - 1)
    BY <2>1, <2>2
  <2>4. \A i \in 1..(Len(s) - 1) : r[i] = IF i < p THEN s[i] ELSE s[i + 1]
    BY <2>2
  <2>5. \A a, b \in 1..Len(s) : s[a] = s[b] => a = b
    BY <2>1 DEF NoRepeats, IsInjective
  <2>6. NoRepeats(r)
    BY <2>1, <2>2, <2>3, <2>4, <2>5 DEF NoRepeats, IsInjective
  <2>7. ASSUME NEW x \in ToSet(r) PROVE x \in ToSet(s) \ {w}
    <3>1. PICK i \in 1..(Len(s) - 1) : x = r[i]
      BY <2>3, <2>7 DEF ToSet
    <3>2. \E j \in 1..Len(s) : j # p /\ x = s[j]
      <4>1. CASE i < p
        BY <2>1, <2>4, <3>1, <4>1
      <4>2. CASE ~(i < p)
        <5>1. i + 1 \in 1..Len(s) /\ i + 1 # p /\ x = s[i + 1]
          BY <2>1, <2>4, <3>1, <4>2
        <5> QED BY <5>1
      <4> QED BY <4>1, <4>2
    <3> QED BY <2>1, <2>2, <2>5, <3>2 DEF ToSet
  <2>8. ASSUME NEW x \in ToSet(s) \ {w} PROVE x \in ToSet(r)
    <3>1. PICK j \in 1..Len(s) : x = s[j]
      BY <2>1, <2>8 DEF ToSet
    <3>2. j # p
      BY <2>2, <2>8, <3>1
    <3>3. \E i \in 1..(Len(s) - 1) : x = r[i]
      <4>1. CASE j < p
        BY <2>1, <2>2, <2>4, <3>1, <4>1
      <4>2. CASE p < j
        <5>1. j - 1 \in 1..(Len(s) - 1) /\ ~(j - 1 < p) /\ (j - 1) + 1 = j
          BY <2>1, <2>2, <3>1, <4>2
        <5> QED BY <2>4, <3>1, <5>1
      <4> QED BY <2>2, <3>1, <3>2, <4>1, <4>2
    <3> QED BY <2>3, <3>3 DEF ToSet
  <2> QED BY <2>3, <2>6, <2>7, <2>8 DEF r
<1> QED BY <1>1, <1>2

(* A list of waiters links waiters. *)
LEMMA ToSetMembers ==
  ASSUME NEW S, NEW s \in Seq(S) PROVE ToSet(s) \subseteq S
BY DEF ToSet

(* An empty list links nobody. *)
LEMMA EmptyLinks == ToSet(<<>>) = {} /\ NoRepeats(<<>>)
BY DEF ToSet, NoRepeats, IsInjective

(* Two lists put one behind the other link the waiters of both. *)
LEMMA ConcatLinks ==
  ASSUME NEW S, NEW s \in Seq(S), NEW t \in Seq(S)
  PROVE  /\ s \o t \in Seq(S)
         /\ ToSet(s \o t) = ToSet(s) \union ToSet(t)
         /\ NoRepeats(s \o t) <=>
              NoRepeats(s) /\ NoRepeats(t) /\ ToSet(s) \intersect ToSet(t) = {}
<1> DEFINE c == s \o t
<1>1. /\ c \in Seq(S)
      /\ Len(c) = Len(s) + Len(t)
      /\ \A i \in 1..Len(s) : c[i] = s[i]
      /\ \A j \in 1..Len(t) : c[Len(s) + j] = t[j]
  <2>1. /\ c \in Seq(S)
        /\ Len(c) = Len(s) + Len(t)
        /\ \A i \in 1..(Len(s) + Len(t)) : c[i] = IF i <= Len(s) THEN s[i] ELSE t[i - Len(s)]
    BY ConcatProperties
  <2> HIDE DEF c
  <2>2. Len(s) \in Nat /\ Len(t) \in Nat
    OBVIOUS
  <2>3. ASSUME NEW j \in 1..Len(t) PROVE c[Len(s) + j] = t[j]
    <3>1. /\ Len(s) + j \in 1..(Len(s) + Len(t))
          /\ ~(Len(s) + j <= Len(s)) /\ Len(s) + j - Len(s) = j
      BY <2>2
    <3> QED BY <2>1, <3>1
  <2>4. ASSUME NEW i \in 1..Len(s) PROVE c[i] = s[i]
    BY <2>1, <2>2
  <2> QED BY <2>1, <2>3, <2>4
<1>2. /\ Len(s) \in Nat /\ Len(t) \in Nat
      /\ DOMAIN s = 1..Len(s) /\ DOMAIN t = 1..Len(t) /\ DOMAIN c = 1..(Len(s) + Len(t))
  BY <1>1
<1> HIDE DEF c
<1>3. ASSUME NEW k \in 1..(Len(s) + Len(t))
      PROVE  \/ k \in 1..Len(s) /\ c[k] = s[k]
             \/ k - Len(s) \in 1..Len(t) /\ c[k] = t[k - Len(s)]
  <2>1. CASE k <= Len(s)
    BY <1>1, <1>2, <2>1
  <2>2. CASE k > Len(s)
    <3>1. k - Len(s) \in 1..Len(t) /\ Len(s) + (k - Len(s)) = k
      BY <1>2, <2>2
    <3>2. c[Len(s) + (k - Len(s))] = t[k - Len(s)]
      BY <1>1, <3>1
    <3> QED BY <3>1, <3>2
  <2> QED BY <1>2, <2>1, <2>2
<1>4. ToSet(c) = ToSet(s) \union ToSet(t)
  <2>1. ASSUME NEW x \in ToSet(c) PROVE x \in ToSet(s) \union ToSet(t)
    <3>1. PICK k \in 1..(Len(s) + Len(t)) : x = c[k]
      BY <1>2, <2>1 DEF ToSet
    <3> QED BY <1>2, <1>3, <3>1 DEF ToSet
  <2>2. ASSUME NEW x \in ToSet(s) PROVE x \in ToSet(c)
    <3>1. PICK i \in 1..Len(s) : x = s[i]
      BY <1>2, <2>2 DEF ToSet
    <3>2. i \in DOMAIN c /\ x = c[i]
      BY <1>1, <1>2, <3>1
    <3> QED BY <3>2 DEF ToSet
  <2>3. ASSUME NEW x \in ToSet(t) PROVE x \in ToSet(c)
    <3>1. PICK j \in 1..Len(t) : x = t[j]
      BY <1>2, <2>3 DEF ToSet
    <3>2. Len(s) + j \in DOMAIN c /\ x = c[Len(s) + j]
      BY <1>1, <1>2, <3>1
    <3> QED BY <3>2 DEF ToSet
  <2> QED BY <2>1, <2>2, <2>3
<1>5. ASSUME NoRepeats(c)
      PROVE  NoRepeats(s) /\ NoRepeats(t) /\ ToSet(s) \intersect ToSet(t) = {}
  <2>1. \A i, j \in 1..(Len(s) + Len(t)) : c[i] = c[j] => i = j
    BY <1>2, <1>5 DEF NoRepeats, IsInjective
  <2>2. NoRepeats(s)
    <3>1. ASSUME NEW i \in 1..Len(s), NEW j \in 1..Len(s), s[i] = s[j] PROVE i = j
      BY <1>1, <1>2, <2>1, <3>1
    <3> QED BY <1>2, <3>1 DEF NoRepeats, IsInjective
  <2>3. NoRepeats(t)
    <3>1. ASSUME NEW i \in 1..Len(t), NEW j \in 1..Len(t), t[i] = t[j] PROVE i = j
      <4>1. Len(s) + i \in 1..(Len(s) + Len(t)) /\ Len(s) + j \in 1..(Len(s) + Len(t))
        BY <1>2
      <4>2. Len(s) + i = Len(s) + j
        BY <1>1, <2>1, <3>1, <4>1
      <4> QED BY <1>2, <4>2
    <3> QED BY <1>2, <3>1 DEF NoRepeats, IsInjective
  <2>4. ASSUME NEW x \in ToSet(s), x \in ToSet(t) PROVE FALSE
    <3>1. PICK i \in 1..Len(s) : x = s[i]
      BY <1>2, <2>4 DEF ToSet
    <3>2. PICK j \in 1..Len(t) : x = t[j]
      BY <1>2, <2>4 DEF ToSet
    <3>3. /\ i \in 1..(Len(s) + Len(t)) /\ Len(s) + j \in 1..(Len(s) + Len(t))
          /\ i # Len(s) + j
      BY <1>2
    <3> QED BY <1>1, <2>1, <3>1, <3>2, <3>3
  <2> QED BY <2>2, <2>3, <2>4
<1>6. ASSUME NoRepeats(s), NoRepeats(t), ToSet(s) \intersect ToSet(t) = {}
      PROVE  NoRepeats(c)
  <2>1. /\ \A i, j \in 1..Len(s) : s[i] = s[j] => i = j
        /\ \A i, j \in 1..Len(t) : t[i] = t[j] => i = j
        /\ \A i \in 1..Len(s), j \in 1..Len(t) : s[i] # t[j]
    <3>1. \A i \in 1..Len(s) : s[i] \in ToSet(s)
      BY <1>2 DEF ToSet
    <3>2. \A j \in 1..Len(t) : t[j] \in ToSet(t)
      BY <1>2 DEF ToSet
    <3> QED BY <1>2, <1>6, <3>1, <3>2 DEF NoRepeats, IsInjective
  <2>2. ASSUME NEW i \in 1..(Len(s) + Len(t)), NEW j \in 1..(Len(s) + Len(t)), c[i] = c[j]
        PROVE  i = j
    <3>1. \/ i \in 1..Len(s) /\ c[i] = s[i]
          \/ i - Len(s) \in 1..Len(t) /\ c[i] = t[i - Len(s)]
      BY <1>3
    <3>2. \/ j \in 1..Len(s) /\ c[j] = s[j]
          \/ j - Len(s) \in 1..Len(t) /\ c[j] = t[j - Len(s)]
      BY <1>3
    <3>3. CASE i - Len(s) = j - Len(s)
      BY <1>2, <3>3
    <3> QED BY <2>1, <2>2, <3>1, <3>2, <3>3
  <2> QED BY <1>2, <2>2 DEF NoRepeats, IsInjective
<1> QED BY <1>1, <1>4, <1>5, <1>6 DEF c

(* pop_many cuts a list in two. *)
LEMMA SplitLinks ==
  ASSUME NEW S, NEW s \in Seq(S), NEW k \in 0..Len(s)
  PROVE  /\ SubSeq(s, 1, k) \in Seq(S)
         /\ SubSeq(s, k + 1, Len(s)) \in Seq(S)
         /\ SubSeq(s, 1, k) \o SubSeq(s, k + 1, Len(s)) = s
<1>1. Len(s) \in Nat /\ \A i \in 1..Len(s) : s[i] \in S
  OBVIOUS
<1>2. SubSeq(s, 1, k) \in Seq(S) /\ SubSeq(s, k + 1, Len(s)) \in Seq(S)
  <2>1. \A i \in 1..k : s[i] \in S
    BY <1>1
  <2>2. \A i \in (k + 1)..Len(s) : s[i] \in S
    BY <1>1
  <2> QED BY <1>1, <2>1, <2>2, SubSeqProperties
<1>3. SubSeq(s, 1, k) \o SubSeq(s, k + 1, Len(s)) = SubSeq(s, 1, Len(s))
  <2>1. 1 \in 1..Len(s) + 1 /\ k \in 1 - 1..Len(s) /\ Len(s) \in k..Len(s)
    BY <1>1
  <2> QED BY <2>1, ConcatAdjacentSubSeq
<1> QED BY <1>2, <1>3, SubSeqFull
-----------------------------------------------------------------------------
(* Lists of waiters are first in, first out. *)

(* Those in front keep their order when others line up behind them. *)
LEMMA BeforeAppend ==
  ASSUME NEW S, NEW s \in Seq(S), NEW t \in S, NEW a, NEW b, Before(s, a, b)
  PROVE  Before(Append(s, t), a, b)
<1>1. PICK i, j \in 1..Len(s) : i < j /\ s[i] = a /\ s[j] = b
  BY DEF Before
<1> DEFINE r == Append(s, t)
<1>2. /\ i \in 1..Len(r) /\ j \in 1..Len(r)
      /\ r[i] = a /\ r[j] = b
  BY <1>1
<1> HIDE DEF r
<1> QED BY <1>1, <1>2 DEF Before, r

LEMMA BeforeConcat ==
  ASSUME NEW S, NEW s \in Seq(S), NEW t \in Seq(S), NEW a, NEW b
  PROVE  Before(s, a, b) \/ Before(t, a, b) => Before(s \o t, a, b)
<1> DEFINE r == s \o t
<1>1. /\ Len(r) = Len(s) + Len(t) /\ Len(s) \in Nat /\ Len(t) \in Nat
      /\ \A i \in 1..(Len(s) + Len(t)) : r[i] = IF i <= Len(s) THEN s[i] ELSE t[i - Len(s)]
  BY ConcatProperties
<1> HIDE DEF r
<1>2. ASSUME NEW i \in 1..Len(s), NEW j \in 1..Len(s), i < j, s[i] = a, s[j] = b
      PROVE  Before(r, a, b)
  <2>1. /\ i \in 1..Len(r) /\ j \in 1..Len(r)
        /\ r[i] = a /\ r[j] = b
    BY <1>1, <1>2
  <2> QED BY <1>2, <2>1 DEF Before
<1>3. ASSUME NEW i \in 1..Len(t), NEW j \in 1..Len(t), i < j, t[i] = a, t[j] = b
      PROVE  Before(r, a, b)
  <2> DEFINE k == Len(s) + i
             l == Len(s) + j
  <2>1. /\ k \in 1..Len(r) /\ l \in 1..Len(r) /\ k < l
        /\ ~(k <= Len(s)) /\ ~(l <= Len(s)) /\ k - Len(s) = i /\ l - Len(s) = j
    BY <1>1, <1>3
  <2>2. r[k] = a /\ r[l] = b
    BY <1>1, <1>3, <2>1
  <2> HIDE DEF k, l
  <2> QED BY <2>1, <2>2 DEF Before
<1> QED BY <1>2, <1>3 DEF Before, r

(* A part of a line has the order of the line. *)
LEMMA BeforePrefix ==
  ASSUME NEW S, NEW s \in Seq(S), NEW t \in Seq(S), NoRepeats(s \o t),
         NEW a \in ToSet(s), NEW b \in ToSet(s), Before(s \o t, a, b)
  PROVE  Before(s, a, b)
<1> DEFINE r == s \o t
<1>1. /\ Len(r) = Len(s) + Len(t) /\ Len(s) \in Nat /\ Len(t) \in Nat /\ DOMAIN r = 1..Len(r)
      /\ \A i \in 1..(Len(s) + Len(t)) : r[i] = IF i <= Len(s) THEN s[i] ELSE t[i - Len(s)]
  BY ConcatProperties, ConcatLinks
<1>2. Before(r, a, b) /\ NoRepeats(r)
  OBVIOUS
<1> HIDE DEF r
<1>3. PICK i, j \in 1..Len(r) : i < j /\ r[i] = a /\ r[j] = b
  BY <1>2 DEF Before
<1>4. PICK k, l \in 1..Len(s) : s[k] = a /\ s[l] = b
  BY <1>1 DEF ToSet
<1>5. k \in 1..Len(r) /\ l \in 1..Len(r) /\ r[k] = a /\ r[l] = b
  BY <1>1, <1>4
<1>6. k = i /\ l = j
  BY <1>1, <1>2, <1>3, <1>5 DEF NoRepeats, IsInjective
<1> QED BY <1>3, <1>4, <1>6 DEF Before

LEMMA BeforeSuffix ==
  ASSUME NEW S, NEW s \in Seq(S), NEW t \in Seq(S), NoRepeats(s \o t),
         NEW a \in ToSet(t), NEW b \in ToSet(t), Before(s \o t, a, b)
  PROVE  Before(t, a, b)
<1> DEFINE r == s \o t
<1>1. /\ Len(r) = Len(s) + Len(t) /\ Len(s) \in Nat /\ Len(t) \in Nat /\ DOMAIN r = 1..Len(r)
      /\ \A i \in 1..(Len(s) + Len(t)) : r[i] = IF i <= Len(s) THEN s[i] ELSE t[i - Len(s)]
  BY ConcatProperties, ConcatLinks
<1>2. Before(r, a, b) /\ NoRepeats(r)
  OBVIOUS
<1> HIDE DEF r
<1>3. PICK i, j \in 1..Len(r) : i < j /\ r[i] = a /\ r[j] = b
  BY <1>2 DEF Before
<1>4. PICK k, l \in 1..Len(t) : t[k] = a /\ t[l] = b
  BY <1>1 DEF ToSet
<1> DEFINE m == Len(s) + k
           n == Len(s) + l
<1>5. /\ m \in 1..Len(r) /\ n \in 1..Len(r) /\ ~(m <= Len(s)) /\ ~(n <= Len(s))
      /\ m - Len(s) = k /\ n - Len(s) = l
  BY <1>1, <1>4
<1>6. r[m] = a /\ r[n] = b
  BY <1>1, <1>4, <1>5
<1>7. m = i /\ n = j
  <2> HIDE DEF m, n
  <2> QED BY <1>1, <1>2, <1>3, <1>5, <1>6 DEF NoRepeats, IsInjective
<1>8. k < l
  BY <1>1, <1>3, <1>4, <1>7
<1> QED BY <1>4, <1>8 DEF Before

(* Whoever is first leaves the others in their order. *)
LEMMA BeforeTail ==
  ASSUME NEW S, NEW s \in Seq(S), s # <<>>, NoRepeats(s), NEW a, NEW b,
         a # Head(s), Before(s, a, b)
  PROVE  Before(Tail(s), a, b)
<1> DEFINE r == Tail(s)
<1>1. /\ Len(s) \in Nat /\ Len(r) = Len(s) - 1 /\ Head(s) = s[1]
      /\ \A i \in 1..(Len(s) - 1) : r[i] = s[i + 1]
  OBVIOUS
<1> HIDE DEF r
<1>2. PICK i, j \in 1..Len(s) : i < j /\ s[i] = a /\ s[j] = b
  BY DEF Before
<1>3. i # 1
  BY <1>1, <1>2
<1> DEFINE k == i - 1
           l == j - 1
<1>4. k \in 1..Len(r) /\ l \in 1..Len(r) /\ k < l /\ k + 1 = i /\ l + 1 = j
  BY <1>1, <1>2, <1>3
<1>5. r[k] = a /\ r[l] = b
  BY <1>1, <1>2, <1>4
<1> HIDE DEF k, l
<1> QED BY <1>4, <1>5 DEF Before, r

(* So does whoever is cancelled. *)
LEMMA BeforeWithout ==
  ASSUME NEW S, NEW s \in Seq(S), NEW w, NEW a, NEW b,
         a # w, b # w, Before(s, a, b)
  PROVE  Before(Without(s, w), a, b)
<1>1. CASE w \notin ToSet(s)
  BY <1>1 DEF Without
<1>2. CASE w \in ToSet(s)
  <2> DEFINE r == Without(s, w)
  <2>1. PICK p \in 1..Len(s) :
          /\ s[p] = w
          /\ Len(r) = Len(s) - 1
          /\ \A n \in 1..(Len(s) - 1) : r[n] = IF n < p THEN s[n] ELSE s[n + 1]
    BY <1>2, WithoutPlaces
  <2>2. PICK i, j \in 1..Len(s) : i < j /\ s[i] = a /\ s[j] = b
    BY DEF Before
  <2>3. i # p /\ j # p /\ Len(s) \in Nat
    BY <2>1, <2>2
  <2> HIDE DEF r
  <2> DEFINE Moved(n) == IF n < p THEN n ELSE n - 1
  <2>4. ASSUME NEW n \in 1..Len(s), n # p
        PROVE  Moved(n) \in 1..Len(r) /\ r[Moved(n)] = s[n]
    <3>1. CASE n < p
      BY <2>1, <2>3, <3>1
    <3>2. CASE ~(n < p)
      <4>1. n - 1 \in 1..(Len(s) - 1) /\ ~(n - 1 < p) /\ n - 1 + 1 = n
        BY <2>3, <2>4, <3>2
      <4> QED BY <2>1, <3>2, <4>1
    <3> QED BY <3>1, <3>2
  <2>5. Moved(i) < Moved(j)
    BY <2>2, <2>3
  <2>6. /\ Moved(i) \in 1..Len(r) /\ r[Moved(i)] = a
        /\ Moved(j) \in 1..Len(r) /\ r[Moved(j)] = b
    BY <2>2, <2>3, <2>4
  <2> HIDE DEF Moved
  <2> QED BY <2>5, <2>6 DEF Before, r
<1> QED BY <1>1, <1>2

=============================================================================
