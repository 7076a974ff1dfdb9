---------------------------- MODULE RwLockProofs ----------------------------
(***************************************************************************)
(* What the waiter lists guarantee (WaiterList), and what the              *)
(* readers-writer lock does on top of them (RwLock); it is the one user    *)
(* that keeps several lists in a futex.                                    *)
(***************************************************************************)
EXTENDS RwLock, WaiterList, FutexOpsProofs, FiniteSetTheorems, WellFoundedInduction

(***************************************************************************)
(* Part 1: the lists, for any finite set of waiters, each of them waited   *)
(* on once.  The inductive invariant ListIInv says that every pointer a    *)
(* futex or a notifier holds leads along a sound line, that a waiter       *)
(* stands in at most one of the lines, the one its own state says, and     *)
(* that whoever stands in none has no links.  Each action keeps it, and    *)
(* does to the lines what FutexQueues does (the lemmas ...Keeps).          *)
(***************************************************************************)

(* A set with 0 that has n + 1 whenever it has n has every number. *)
LEMMA SetInduction ==
  ASSUME NEW S, 0 \in S, \A n \in Nat : n \in S => n + 1 \in S
  PROVE  Nat \subseteq S
<1> DEFINE R == OpToRel(<, Nat)
           T == Nat \ S
<1>1. IsWellFoundedOn(R, Nat)
  BY NatLessThanWellFounded
<1>2. SUFFICES ASSUME T # {} PROVE FALSE
  OBVIOUS
<1>3. PICK x \in T : \A y \in T : ~(<<y, x>> \in R)
  <2> T \subseteq Nat
    OBVIOUS
  <2> HIDE DEF R, T
  <2> QED BY <1>1, <1>2, WFMin
<1>4. x \in Nat /\ x # 0 /\ x - 1 \in Nat /\ x - 1 \notin S
  OBVIOUS
<1>5. <<x - 1, x>> \in R
  BY <1>4 DEF OpToRel
<1> QED BY <1>3, <1>4, <1>5

(* The waiter at place i of s, null beyond either end. *)
At(s, i) == IF i \in 1..Len(s) THEN s[i] ELSE Null

(* Following f from its first waiter, one meets s. *)
Follows(f, s) ==
  /\ s \in Seq(Waiters) /\ NoRepeats(s)
  /\ \A i \in 1..Len(s) : f[s[i]] = At(s, i + 1)

(* The list l has the waiters s, linked both ways. *)
ListOf(nx, pv, l, s) ==
  /\ s \in Seq(Waiters) /\ NoRepeats(s)
  /\ l = [head |-> At(s, 1), tail |-> At(s, Len(s))]
  /\ \A i \in 1..Len(s) : nx[s[i]] = At(s, i + 1) /\ pv[s[i]] = At(s, i - 1)

(* The inbox with top w has the waiters s, oldest first; they are linked by
   prev, and the newest has no next. *)
StackOf(nx, pv, w, s) ==
  /\ s \in Seq(Waiters) /\ NoRepeats(s)
  /\ w = At(s, Len(s))
  /\ \A i \in 1..Len(s) : pv[s[i]] = At(s, i - 1)
  /\ s # <<>> => nx[s[Len(s)]] = Null

-----------------------------------------------------------------------------
(* Walks. *)

(* A line without repetitions is no longer than there are waiters. *)
LEMMA LineFits ==
  ASSUME NEW s \in Seq(Waiters), NoRepeats(s)
  PROVE  Cardinality(Waiters) \in Nat /\ Len(s) <= Cardinality(Waiters)
<1>1. Cardinality(Waiters) \in Nat
  BY FinitelyMany, FS_CardinalityType
<1>2. IsFiniteSet(1..Len(s)) /\ Cardinality(1..Len(s)) = Len(s)
  <2> DEFINE n == Len(s)
  <2>1. n \in Nat
    OBVIOUS
  <2> HIDE DEF n
  <2>2. IsFiniteSet(1..n) /\ Cardinality(1..n) = n
    BY <2>1, FS_Interval
  <2> QED BY <2>2 DEF n
<1>3. s \in Injection(1..Len(s), Waiters)
  BY DEF NoRepeats, IsInjective, Injection
<1> QED BY <1>1, <1>2, <1>3, FinitelyMany, FS_Injection

(* Following f from w, a step at a time. *)
Met(f, w, g) == g = [i \in 1..Cardinality(Waiters) |->
  IF i = 1 THEN w ELSE LET v == g[i-1] IN IF v = Null THEN Null ELSE f[v]]

(* What one meets is the line, and then nobody. *)
LEMMA MeetsLine ==
  ASSUME NEW f \in [Waiters -> Pointers], NEW s, Follows(f, s),
         NEW g, Met(f, At(s, 1), g)
  PROVE  \A i \in 1..Cardinality(Waiters) : g[i] = At(s, i)
<1> DEFINE N == Cardinality(Waiters)
           S == {i \in Nat : i + 1 \in 1..N => g[i + 1] = At(s, i + 1)}
<1>1. s \in Seq(Waiters) /\ N \in Nat
  BY LineFits DEF Follows
<1>2. 0 \in S
  BY DEF Met
<1>3. ASSUME NEW n \in Nat, n \in S PROVE n + 1 \in S
  <2>1. SUFFICES ASSUME n + 2 \in 1..N PROVE g[n + 2] = At(s, n + 2)
    OBVIOUS
  <2>2. g[n + 1] = At(s, n + 1)
    BY <1>1, <1>3, <2>1
  <2>3. g[n + 2] = IF g[n + 1] = Null THEN Null ELSE f[g[n + 1]]
    BY <1>1, <2>1 DEF Met
  <2>4. CASE n + 1 \in 1..Len(s)
    BY <1>1, <2>2, <2>3, <2>4, NullIsNobody DEF At, Follows
  <2>5. CASE n + 1 \notin 1..Len(s)
    BY <1>1, <2>2, <2>3, <2>5 DEF At
  <2> QED BY <2>4, <2>5
<1> HIDE DEF S
<1>4. Nat \subseteq S
  BY <1>2, <1>3, SetInduction
<1>5. ASSUME NEW i \in 1..N PROVE g[i] = At(s, i)
  <2>1. i - 1 \in Nat /\ i - 1 \in S /\ (i - 1) + 1 = i
    BY <1>1, <1>4
  <2> QED BY <2>1 DEF S
<1> QED BY <1>5

(* Walk finds the line that f links, from its first waiter on. *)
LEMMA Walked ==
  ASSUME NEW f \in [Waiters -> Pointers], NEW s, Follows(f, s)
  PROVE  Walk(f, At(s, 1)) = s
<1> DEFINE N == Cardinality(Waiters)
           w == At(s, 1)
           g == CHOOSE h : Met(f, w, h)
           met[i \in 1..N] == IF i = 1 THEN w ELSE LET v == met[i-1] IN IF v = Null THEN Null ELSE f[v]
           found == {i \in 1..N : met[i] # Null}
<1>1. s \in Seq(Waiters) /\ N \in Nat /\ Len(s) <= N /\ Len(s) \in Nat
  BY LineFits DEF Follows
<1>2. met = g
  BY DEF Met
<1>3. \A i \in 1..N : met[i] = At(s, i)
  <2> DEFINE h == [i \in 1..N |-> At(s, i)]
  <2>1. Met(f, w, h)
    <3>1. ASSUME NEW i \in 1..N
          PROVE  At(s, i) = IF i = 1 THEN w ELSE LET v == h[i-1] IN IF v = Null THEN Null ELSE f[v]
      <4>1. CASE i = 1
        BY <4>1
      <4>2. CASE i # 1
        <5>1. i - 1 \in 1..N /\ h[i - 1] = At(s, i - 1)
          BY <1>1, <4>2
        <5>2. CASE i - 1 \in 1..Len(s)
          <6>1. h[i - 1] = s[i - 1] /\ s[i - 1] # Null /\ f[s[i - 1]] = At(s, i)
            BY <1>1, <5>1, <5>2, NullIsNobody DEF At, Follows
          <6> QED BY <4>2, <6>1
        <5>3. CASE i - 1 \notin 1..Len(s)
          BY <1>1, <4>2, <5>1, <5>3 DEF At
        <5> QED BY <5>2, <5>3
      <4> QED BY <4>1, <4>2
    <3> HIDE DEF w
    <3> QED BY <3>1 DEF Met
  <2>2. Met(f, w, g)
    BY <2>1
  <2> HIDE DEF g, met
  <2> QED BY <1>2, <2>2, MeetsLine
<1> HIDE DEF met
<1>4. found = 1..Len(s)
  BY <1>1, <1>3, NullIsNobody DEF At
<1>5. Cardinality(found) = Len(s)
  <2> DEFINE n == Len(s)
  <2>1. n \in Nat
    BY <1>1
  <2> HIDE DEF n, found
  <2>2. Cardinality(1..n) = n
    BY <2>1, FS_Interval
  <2> QED BY <1>4, <2>2 DEF n
<1>6. Walk(f, w) = [i \in 1..Cardinality(found) |-> met[i]]
  BY DEF Walk, met
<1> HIDE DEF found, w
<1>7. Walk(f, w) = [i \in 1..Len(s) |-> s[i]]
  <2>1. \A i \in 1..Len(s) : met[i] = s[i]
    BY <1>1, <1>3 DEF At
  <2> QED BY <1>5, <1>6, <2>1
<1>8. s = [i \in 1..Len(s) |-> s[i]]
  BY <1>1
<1> QED BY <1>7, <1>8 DEF w

-----------------------------------------------------------------------------
(* What a pointer list or stack says of its waiters. *)

(* Turning a line round turns the places round. *)
LEMMA Turned ==
  ASSUME NEW s \in Seq(Waiters)
  PROVE  /\ Reverse(s) \in Seq(Waiters) /\ Len(Reverse(s)) = Len(s)
         /\ \A i \in 1..Len(s) : Reverse(s)[i] = s[Len(s) - i + 1]
         /\ Reverse(Reverse(s)) = s /\ ToSet(Reverse(s)) = ToSet(s)
         /\ NoRepeats(s) => NoRepeats(Reverse(s))
<1>1. ASSUME NEW u \in Seq(Waiters)
      PROVE  /\ Reverse(u) \in Seq(Waiters) /\ Len(Reverse(u)) = Len(u)
             /\ \A i \in 1..Len(u) : Reverse(u)[i] = u[Len(u) - i + 1]
  BY DEF Reverse
<1> DEFINE r == Reverse(s)
<1>2. r \in Seq(Waiters) /\ Len(r) = Len(s) /\ \A i \in 1..Len(s) : r[i] = s[Len(s) - i + 1]
  BY <1>1
<1> HIDE DEF r
<1>3. Reverse(r) = s
  <2> DEFINE t == Reverse(r)
  <2>1. t \in Seq(Waiters) /\ Len(t) = Len(r) /\ \A i \in 1..Len(r) : t[i] = r[Len(r) - i + 1]
    BY <1>1, <1>2
  <2> HIDE DEF t
  <2>2. \A i \in 1..Len(s) : t[i] = s[i]
    BY <1>2, <2>1
  <2>3. t = s
    BY <1>2, <2>1, <2>2
  <2> QED BY <2>3 DEF t
<1>4. ToSet(r) = ToSet(s)
  <2>1. ASSUME NEW i \in 1..Len(s)
        PROVE  Len(s) - i + 1 \in 1..Len(s) /\ s[i] = r[Len(s) - i + 1]
    <3>1. Len(s) - i + 1 \in 1..Len(s) /\ Len(s) - (Len(s) - i + 1) + 1 = i
      OBVIOUS
    <3> QED BY <1>2, <3>1
  <2>2. ToSet(r) = {r[i] : i \in 1..Len(s)} /\ ToSet(s) = {s[i] : i \in 1..Len(s)}
    <3>1. DOMAIN r = 1..Len(s) /\ DOMAIN s = 1..Len(s)
      BY <1>2
    <3> QED BY <3>1 DEF ToSet
  <2>3. ToSet(r) \subseteq ToSet(s)
    <3>1. \A i \in 1..Len(s) : r[i] = s[Len(s) - i + 1]
      BY <1>2
    <3> QED BY <2>1, <2>2, <3>1
  <2>4. ToSet(s) \subseteq ToSet(r)
    BY <2>1, <2>2
  <2> QED BY <2>3, <2>4
<1>5. NoRepeats(s) => NoRepeats(r)
  <2> SUFFICES ASSUME NoRepeats(s), NEW i \in 1..Len(s), NEW k \in 1..Len(s), r[i] = r[k]
               PROVE  i = k
    BY <1>2 DEF NoRepeats, IsInjective
  <2>1. Len(s) - i + 1 \in DOMAIN s /\ Len(s) - k + 1 \in DOMAIN s /\ s[Len(s) - i + 1] = s[Len(s) - k + 1]
    BY <1>2
  <2>2. Len(s) - i + 1 = Len(s) - k + 1
    BY <2>1 DEF NoRepeats, IsInjective
  <2> QED BY <2>2
<1> QED BY <1>2, <1>3, <1>4, <1>5 DEF r

(* A list is walked from its head along next, an inbox from its top along prev. *)
LEMMA ListWalked ==
  ASSUME NEW nx \in [Waiters -> Pointers], NEW pv, NEW l, NEW s, ListOf(nx, pv, l, s)
  PROVE  Walk(nx, l.head) = s
<1>1. Follows(nx, s) /\ l.head = At(s, 1)
  BY DEF ListOf, Follows
<1> QED BY <1>1, Walked

(* Walking an inbox along prev meets the newest waiter first. *)
LEMMA StackWalked ==
  ASSUME NEW nx, NEW pv \in [Waiters -> Pointers], NEW w, NEW s, StackOf(nx, pv, w, s)
  PROVE  Walk(pv, w) = Reverse(s) /\ Reverse(Walk(pv, w)) = s
<1> DEFINE r == Reverse(s)
<1>1. /\ s \in Seq(Waiters) /\ r \in Seq(Waiters) /\ Len(r) = Len(s) /\ Len(s) \in Nat
      /\ \A i \in 1..Len(s) : r[i] = s[Len(s) - i + 1]
      /\ NoRepeats(r) /\ Reverse(r) = s
  BY Turned DEF StackOf
<1> HIDE DEF r
<1>2. w = At(r, 1)
  BY <1>1 DEF StackOf, At
<1>3. ASSUME NEW i \in 1..Len(r) PROVE pv[r[i]] = At(r, i + 1)
  <2>1. Len(s) - i + 1 \in 1..Len(s) /\ r[i] = s[Len(s) - i + 1]
    BY <1>1, <1>3
  <2>2. pv[r[i]] = At(s, (Len(s) - i + 1) - 1)
    BY <2>1 DEF StackOf
  <2>3. At(s, (Len(s) - i + 1) - 1) = At(r, i + 1)
    BY <1>1, <1>3 DEF At
  <2> QED BY <2>2, <2>3
<1>4. Walk(pv, w) = r
  BY <1>1, <1>2, <1>3, Walked DEF Follows
<1> QED BY <1>1, <1>4 DEF r

(* Whoever leaves the links of the waiters of a list alone keeps the list. *)
LEMMA ListFrame ==
  ASSUME NEW nx, NEW pv, NEW nx2, NEW pv2, NEW l, NEW s, ListOf(nx, pv, l, s),
         \A w \in ToSet(s) : nx2[w] = nx[w] /\ pv2[w] = pv[w]
  PROVE  ListOf(nx2, pv2, l, s)
<1>1. \A i \in 1..Len(s) : s[i] \in ToSet(s)
  BY DEF ListOf, ToSet
<1> QED BY <1>1 DEF ListOf

(* The same of an inbox. *)
LEMMA StackFrame ==
  ASSUME NEW nx, NEW pv, NEW nx2, NEW pv2, NEW l, NEW s, StackOf(nx, pv, l, s),
         \A w \in ToSet(s) : nx2[w] = nx[w] /\ pv2[w] = pv[w]
  PROVE  StackOf(nx2, pv2, l, s)
<1>1. \A i \in 1..Len(s) : s[i] \in ToSet(s)
  BY DEF StackOf, ToSet
<1>2. s # <<>> => Len(s) \in 1..Len(s)
  BY DEF StackOf
<1> QED BY <1>1, <1>2 DEF StackOf

(* An empty list carries nobody, and only it does. *)
LEMMA NobodyListed ==
  ASSUME NEW nx, NEW pv
  PROVE  ListOf(nx, pv, Empty, <<>>) /\ StackOf(nx, pv, Null, <<>>)
<1>1. <<>> \in Seq(Waiters) /\ Len(<<>>) = 0 /\ NoRepeats(<<>>)
  BY EmptyLinks
<1> QED BY <1>1 DEF ListOf, StackOf, Empty, At

(* Its head is null, and so is its tail. *)
LEMMA ListNull ==
  ASSUME NEW nx, NEW pv, NEW l, NEW s, ListOf(nx, pv, l, s)
  PROVE  (l.head = Null <=> s = <<>>) /\ (l = Empty <=> s = <<>>)
<1>1. s \in Seq(Waiters) /\ (s # <<>> => 1 \in 1..Len(s) /\ s[1] \in Waiters)
  BY DEF ListOf
<1>2. l.head = At(s, 1) /\ l = [head |-> At(s, 1), tail |-> At(s, Len(s))]
  BY DEF ListOf
<1>3. s = <<>> => At(s, 1) = Null /\ At(s, Len(s)) = Null
  BY DEF At
<1>4. s # <<>> => At(s, 1) # Null
  BY <1>1, NullIsNobody DEF At
<1> QED BY <1>2, <1>3, <1>4 DEF Empty

(* A null inbox has nobody, as RawFutex::enqueue's first test has it. *)
LEMMA StackNull ==
  ASSUME NEW nx, NEW pv, NEW w, NEW s, StackOf(nx, pv, w, s)
  PROVE  w = Null <=> s = <<>>
<1>1. s \in Seq(Waiters) /\ (s # <<>> => Len(s) \in 1..Len(s) /\ s[Len(s)] \in Waiters)
  BY DEF StackOf
<1> QED BY <1>1, NullIsNobody DEF StackOf, At

-----------------------------------------------------------------------------
(* The list operations. *)

(* The waiters of a line stand at one place each. *)
LEMMA Places ==
  ASSUME NEW s \in Seq(Waiters), NoRepeats(s)
  PROVE  /\ \A i, k \in 1..Len(s) : s[i] = s[k] => i = k
         /\ \A i \in 1..Len(s) : s[i] \in Waiters /\ s[i] # Null /\ s[i] \in ToSet(s)
         /\ \A w \in ToSet(s) : \E i \in 1..Len(s) : w = s[i]
         /\ \A i \in Int : At(s, i) \in Pointers
         /\ \A i \in 1..Len(s) : At(s, i) = s[i]
BY NullIsNobody DEF NoRepeats, IsInjective, ToSet, At, Pointers

(* pop_front takes the head off, and leaves it without links. *)
LEMMA PopFrontList ==
  ASSUME NEW nx \in [Waiters -> Pointers], NEW pv \in [Waiters -> Pointers],
         NEW l, NEW s, ListOf(nx, pv, l, s), s # <<>>,
         NEW m, m = PopFront([next |-> nx, prev |-> pv, list |-> l])
  PROVE  /\ m = [next |-> m.next, prev |-> m.prev, list |-> m.list]
         /\ m.next \in [Waiters -> Pointers] /\ m.prev \in [Waiters -> Pointers]
         /\ ListOf(m.next, m.prev, m.list, Tail(s))
         /\ m.next[s[1]] = Null /\ m.prev[s[1]] = Null
         /\ \A w \in Waiters \ ToSet(s) : m.next[w] = nx[w] /\ m.prev[w] = pv[w]
         /\ l.head = s[1] /\ s[1] = Head(s)
<1> DEFINE first == s[1]
           second == At(s, 2)
           t == Tail(s)
<1>1. /\ s \in Seq(Waiters) /\ NoRepeats(s) /\ Len(s) \in Nat \ {0} /\ 1 \in 1..Len(s)
      /\ first \in Waiters /\ first # Null /\ At(s, 1) = first
  BY Places, NullIsNobody DEF ListOf
<1>2. /\ l.head = first /\ nx[first] = second /\ pv[first] = Null
      /\ l.tail = s[Len(s)] /\ second \in Pointers
  BY <1>1, Places DEF ListOf, At
<1>3. /\ m.next = [nx EXCEPT ![first] = Null] /\ m.prev = Put(pv, second, Null)
      /\ m.list = [head |-> second, tail |-> IF s[Len(s)] = first THEN Null ELSE s[Len(s)]]
      /\ m = [next |-> m.next, prev |-> m.prev, list |-> m.list]
  BY <1>2 DEF PopFront
<1>4. /\ t \in Seq(Waiters) /\ NoRepeats(t) /\ Len(t) = Len(s) - 1
      /\ \A i \in 1..Len(s) - 1 : t[i] = s[i + 1]
  BY <1>1, TailLinks
<1> HIDE DEF t
<1>5. \A i \in 0..Len(s) : At(t, i) = IF i = 0 THEN Null ELSE At(s, i + 1)
  BY <1>1, <1>4 DEF At
<1>6. /\ m.next \in [Waiters -> Pointers] /\ m.prev \in [Waiters -> Pointers]
      /\ \A w \in Waiters : m.next[w] = IF w = first THEN Null ELSE nx[w]
      /\ \A w \in Waiters : m.prev[w] = IF w = second THEN Null ELSE pv[w]
  <2>1. Null \in Pointers
    BY DEF Pointers
  <2> HIDE DEF first, second
  <2>2. /\ Put(pv, second, Null) \in [Waiters -> Pointers]
        /\ \A w \in Waiters : Put(pv, second, Null)[w] = IF w = second THEN Null ELSE pv[w]
    BY <1>2, NullIsNobody DEF Put, Pointers
  <2> QED BY <1>1, <1>3, <2>1, <2>2
<1>7. m.list = [head |-> At(t, 1), tail |-> At(t, Len(t))]
  <2>1. At(t, 1) = second
    BY <1>1, <1>5
  <2>2. At(t, Len(t)) = IF s[Len(s)] = first THEN Null ELSE s[Len(s)]
    <3>1. CASE Len(s) = 1
      BY <1>1, <1>4, <3>1 DEF At
    <3>2. CASE Len(s) # 1
      <4>1. s[Len(s)] # first
        <5>1. Len(s) \in 1..Len(s) /\ 1 \in 1..Len(s)
          BY <1>1
        <5> QED BY <1>1, <3>2, <5>1, Places
      <4> QED BY <1>1, <1>4, <3>2, <4>1 DEF At
    <3> QED BY <3>1, <3>2
  <2> QED BY <1>3, <2>1, <2>2
<1>8. ASSUME NEW i \in 1..Len(t)
      PROVE  m.next[t[i]] = At(t, i + 1) /\ m.prev[t[i]] = At(t, i - 1)
  <2>1. /\ i + 1 \in 1..Len(s) /\ t[i] = s[i + 1] /\ t[i] \in Waiters /\ t[i] # first
        /\ nx[t[i]] = At(s, i + 2) /\ pv[t[i]] = At(s, i)
    <3>1. i + 1 \in 1..Len(s) /\ i + 1 # 1 /\ t[i] = s[i + 1]
      BY <1>1, <1>4
    <3>2. nx[s[i + 1]] = At(s, (i + 1) + 1) /\ pv[s[i + 1]] = At(s, (i + 1) - 1)
      BY <3>1 DEF ListOf
    <3>3. (i + 1) + 1 = i + 2 /\ (i + 1) - 1 = i
      BY <1>1, <1>4
    <3>4. s[i + 1] \in Waiters /\ s[i + 1] # first
      BY <1>1, <3>1, Places
    <3> QED BY <3>1, <3>2, <3>3, <3>4
  <2>2. m.next[t[i]] = At(t, i + 1)
    BY <1>1, <1>4, <1>5, <1>6, <2>1
  <2>3. m.prev[t[i]] = At(t, i - 1)
    <3>1. CASE i = 1
      BY <1>1, <1>5, <1>6, <2>1, <3>1 DEF At
    <3>2. CASE i # 1
      <4>1. t[i] # second
        BY <1>1, <2>1, <3>2, Places DEF At
      <4> QED BY <1>1, <1>4, <1>5, <1>6, <2>1, <3>2, <4>1
    <3> QED BY <3>1, <3>2
  <2> QED BY <2>2, <2>3
<1>9. m.prev[first] = Null
  BY <1>1, <1>2, <1>6
<1>10. \A w \in Waiters \ ToSet(s) : m.next[w] = nx[w] /\ m.prev[w] = pv[w]
  <2>1. first \in ToSet(s) /\ (second = Null \/ second \in ToSet(s))
    BY <1>1, Places DEF At
  <2> QED BY <1>6, <2>1, NullIsNobody
<1>11. ListOf(m.next, m.prev, m.list, t)
  BY <1>4, <1>7, <1>8 DEF ListOf
<1> QED BY <1>1, <1>2, <1>3, <1>6, <1>9, <1>10, <1>11 DEF t

(* push_back appends a waiter that has no links. *)
LEMMA PushBackList ==
  ASSUME NEW nx \in [Waiters -> Pointers], NEW pv \in [Waiters -> Pointers],
         NEW l, NEW s, ListOf(nx, pv, l, s),
         NEW v \in Waiters \ ToSet(s), nx[v] = Null, pv[v] = Null,
         NEW m, m = PushBack([next |-> nx, prev |-> pv, list |-> l], v)
  PROVE  /\ m = [next |-> m.next, prev |-> m.prev, list |-> m.list]
         /\ m.next \in [Waiters -> Pointers] /\ m.prev \in [Waiters -> Pointers]
         /\ ListOf(m.next, m.prev, m.list, Append(s, v))
         /\ \A w \in Waiters \ (ToSet(s) \union {v}) : m.next[w] = nx[w] /\ m.prev[w] = pv[w]
<1> DEFINE n == Len(s)
           t == Append(s, v)
<1>1. s \in Seq(Waiters) /\ NoRepeats(s) /\ n \in Nat /\ v \in Waiters /\ v # Null
  BY NullIsNobody DEF ListOf
<1>2. /\ t \in Seq(Waiters) /\ NoRepeats(t) /\ Len(t) = n + 1 /\ t[n + 1] = v
      /\ \A i \in 1..n : t[i] = s[i]
  BY <1>1, AppendLinks
<1> HIDE DEF t
<1>3. CASE s = <<>>
  <2>1. m = [next |-> nx, prev |-> pv, list |-> [head |-> v, tail |-> v]] /\ n = 0
    BY <1>3, ListNull DEF PushBack
  <2>2. \A i \in 1..Len(t) : i = 1 /\ t[i] = v
    BY <1>2, <2>1
  <2>3. At(t, 0) = Null /\ At(t, 1) = v /\ At(t, 2) = Null
    BY <1>2, <2>1 DEF At
  <2>4. ListOf(nx, pv, [head |-> v, tail |-> v], t)
    BY <1>2, <2>1, <2>2, <2>3 DEF ListOf
  <2> QED BY <2>1, <2>4 DEF t
<1>4. CASE s # <<>>
  <2> DEFINE z == s[n]
  <2>1. /\ n \in 1..n /\ z \in Waiters /\ z # Null /\ z \in ToSet(s) /\ z # v
        /\ l.tail = z /\ nx[z] = Null /\ At(s, n) = z
    <3>1. n \in 1..n
      BY <1>1, <1>4
    <3>2. z \in Waiters /\ z # Null /\ z \in ToSet(s) /\ At(s, n) = z
      BY <1>1, <3>1, Places
    <3>3. nx[z] = At(s, n + 1) /\ l.tail = At(s, n)
      BY <3>1 DEF ListOf
    <3> QED BY <1>1, <3>1, <3>2, <3>3 DEF At
  <2>2. /\ m.next = [nx EXCEPT ![z] = v] /\ m.prev = [pv EXCEPT ![v] = z]
        /\ m.list = [head |-> l.head, tail |-> v]
        /\ m = [next |-> m.next, prev |-> m.prev, list |-> m.list]
    <3>1. l # Empty /\ l = [head |-> l.head, tail |-> l.tail]
      <4>1. l # Empty
        BY <1>4, ListNull
      <4>2. l = [head |-> At(s, 1), tail |-> At(s, Len(s))]
        BY DEF ListOf
      <4> QED BY <4>1, <4>2
    <3>2. m = [next |-> Put(nx, z, v), prev |-> [pv EXCEPT ![v] = z], list |-> [l EXCEPT !.tail = v]]
      BY <2>1, <3>1 DEF PushBack
    <3>3. Put(nx, z, v) = [nx EXCEPT ![z] = v]
      BY <2>1 DEF Put
    <3>4. [l EXCEPT !.tail = v] = [head |-> l.head, tail |-> v]
      <4> DEFINE a == l.head
                 b == l.tail
      <4>1. l = [head |-> a, tail |-> b]
        BY <3>1
      <4> HIDE DEF a, b
      <4>2. [l EXCEPT !.tail = v] = [head |-> a, tail |-> v]
        BY <4>1
      <4> QED BY <4>2 DEF a
    <3>5. m = [next |-> [nx EXCEPT ![z] = v], prev |-> [pv EXCEPT ![v] = z],
               list |-> [head |-> l.head, tail |-> v]]
      BY <3>2, <3>3, <3>4
    <3> DEFINE a == [nx EXCEPT ![z] = v]
               b == [pv EXCEPT ![v] = z]
               c == [head |-> l.head, tail |-> v]
    <3>6. m = [next |-> a, prev |-> b, list |-> c]
      BY <3>5
    <3> HIDE DEF a, b, c, z
    <3>7. m.next = a /\ m.prev = b /\ m.list = c /\ m = [next |-> m.next, prev |-> m.prev, list |-> m.list]
      BY <3>6
    <3> QED BY <3>7 DEF a, b, c
  <2> HIDE DEF z
  <2>3. /\ m.next \in [Waiters -> Pointers] /\ m.prev \in [Waiters -> Pointers]
        /\ \A w \in Waiters : m.next[w] = IF w = z THEN v ELSE nx[w]
        /\ \A w \in Waiters : m.prev[w] = IF w = v THEN z ELSE pv[w]
    BY <1>1, <2>1, <2>2 DEF Pointers
  <2>4. /\ At(t, n + 1) = v /\ At(t, n + 2) = Null /\ At(t, 0) = Null
        /\ \A i \in 1..n : At(t, i) = s[i] /\ At(s, i) = s[i]
    BY <1>1, <1>2 DEF At
  <2>5. m.list = [head |-> At(t, 1), tail |-> At(t, Len(t))]
    <3>1. l.head = At(s, 1)
      BY DEF ListOf
    <3>2. 1 \in 1..n
      BY <1>1, <2>1
    <3> QED BY <1>2, <2>2, <2>4, <3>1, <3>2
  <2>6. ASSUME NEW i \in 1..n PROVE m.next[t[i]] = At(t, i + 1) /\ m.prev[t[i]] = At(t, i - 1)
    <3>1. t[i] = s[i] /\ s[i] \in Waiters /\ s[i] # v /\ (s[i] = z <=> i = n)
      <4>1. t[i] = s[i]
        BY <1>2
      <4>2. s[i] \in Waiters /\ s[i] \in ToSet(s)
        BY <1>1, Places
      <4>3. s[i] = s[n] <=> i = n
        BY <1>1, <2>1, Places
      <4> QED BY <1>1, <4>1, <4>2, <4>3 DEF z
    <3>2. nx[s[i]] = At(s, i + 1) /\ pv[s[i]] = At(s, i - 1)
      BY DEF ListOf
    <3>3. m.next[t[i]] = At(t, i + 1)
      BY <1>1, <2>3, <2>4, <3>1, <3>2
    <3>4. m.prev[t[i]] = At(t, i - 1)
      <4>1. At(s, i - 1) = At(t, i - 1)
        BY <1>1, <1>2 DEF At
      <4> QED BY <2>3, <3>1, <3>2, <4>1
    <3> QED BY <3>3, <3>4
  <2>7. m.next[v] = At(t, n + 2) /\ m.prev[v] = At(t, n)
    BY <1>1, <2>1, <2>3, <2>4 DEF z
  <2>8. ListOf(m.next, m.prev, m.list, t)
    <3>1. \A i \in 1..Len(t) : m.next[t[i]] = At(t, i + 1) /\ m.prev[t[i]] = At(t, i - 1)
      <4> SUFFICES ASSUME NEW i \in 1..Len(t)
                   PROVE  m.next[t[i]] = At(t, i + 1) /\ m.prev[t[i]] = At(t, i - 1)
        OBVIOUS
      <4>1. CASE i \in 1..n
        BY <2>6, <4>1
      <4>2. CASE i = n + 1
        BY <1>1, <1>2, <2>7, <4>2
      <4> QED BY <1>1, <1>2, <4>1, <4>2
    <3> QED BY <1>2, <2>5, <3>1 DEF ListOf
  <2> QED BY <2>1, <2>2, <2>3, <2>8 DEF t
<1> QED BY <1>3, <1>4

(* remove joins the neighbours of a waiter, and the ends of the list. *)
LEMMA UnlinkList ==
  ASSUME NEW nx \in [Waiters -> Pointers], NEW pv \in [Waiters -> Pointers],
         NEW l, NEW s, ListOf(nx, pv, l, s), NEW v \in ToSet(s),
         NEW m, m = Unlink([next |-> nx, prev |-> pv, list |-> l], v)
  PROVE  /\ m.next \in [Waiters -> Pointers] /\ m.prev \in [Waiters -> Pointers]
         /\ ListOf(m.next, m.prev, m.list, Without(s, v))
         /\ \A w \in Waiters \ ToSet(s) : m.next[w] = nx[w] /\ m.prev[w] = pv[w]
<1> DEFINE n == Len(s)
           u == Without(s, v)
<1>1. s \in Seq(Waiters) /\ NoRepeats(s) /\ n \in Nat
  BY DEF ListOf
<1>2. u \in Seq(Waiters) /\ NoRepeats(u)
  BY <1>1, WithoutLinks
<1>3. PICK p \in 1..n : /\ s[p] = v /\ Len(u) = n - 1
                        /\ \A i \in 1..n - 1 : u[i] = IF i < p THEN s[i] ELSE s[i + 1]
  BY <1>1, WithoutPlaces
<1> HIDE DEF u
<1> DEFINE a == At(s, p - 1)
           b == At(s, p + 1)
<1>4. \A i \in 0..n : At(u, i) = IF i < p THEN At(s, i) ELSE At(s, i + 1)
  BY <1>1, <1>2, <1>3 DEF At
<1>5. /\ a \in Pointers /\ b \in Pointers /\ v \in Waiters /\ v # Null
      /\ nx[v] = b /\ pv[v] = a /\ l.head = At(s, 1) /\ l.tail = At(s, n)
  <2>1. a \in Pointers /\ b \in Pointers
    BY <1>1, <1>3, Places
  <2>2. v \in Waiters /\ v # Null
    BY <1>1, <1>3, Places
  <2> QED BY <1>3, <2>1, <2>2 DEF ListOf
<1>6. /\ \A i \in 1..n : s[i] = a <=> i = p - 1
      /\ \A i \in 1..n : s[i] = b <=> i = p + 1
      /\ a = Null <=> p = 1
      /\ b = Null <=> p = n
  BY <1>1, <1>3, Places DEF At
<1>7. /\ m.next = Put(nx, a, b) /\ m.prev = Put(pv, b, a)
      /\ m.list = [head |-> IF a = Null /\ l.head = v THEN b ELSE l.head,
                   tail |-> IF b = Null /\ l.tail = v THEN a ELSE l.tail]
  BY <1>5 DEF Unlink
<1> HIDE DEF a, b
<1>8. /\ m.next \in [Waiters -> Pointers] /\ m.prev \in [Waiters -> Pointers]
      /\ \A w \in Waiters : m.next[w] = IF w = a THEN b ELSE nx[w]
      /\ \A w \in Waiters : m.prev[w] = IF w = b THEN a ELSE pv[w]
  BY <1>5, <1>7, NullIsNobody DEF Put, Pointers
<1>9. m.list = [head |-> At(u, 1), tail |-> At(u, Len(u))]
  <2>1. At(s, 1) = s[1] /\ At(s, n) = s[n]
    BY <1>1, <1>3 DEF At
  <2>2. (IF a = Null /\ l.head = v THEN b ELSE l.head) = At(u, 1)
    BY <1>1, <1>3, <1>4, <1>5, <1>6, <2>1 DEF b
  <2>3. (IF b = Null /\ l.tail = v THEN a ELSE l.tail) = At(u, n - 1)
    BY <1>1, <1>3, <1>4, <1>5, <1>6, <2>1 DEF a
  <2> QED BY <1>3, <1>7, <2>2, <2>3
<1>10. ASSUME NEW i \in 1..Len(u)
       PROVE  m.next[u[i]] = At(u, i + 1) /\ m.prev[u[i]] = At(u, i - 1)
  <2>1. i \in 1..n - 1 /\ i + 1 \in 0..n /\ i - 1 \in 0..n
    BY <1>1, <1>3, <1>10
  <2>2. CASE i < p
    <3>1. u[i] = s[i] /\ s[i] \in Waiters /\ i \in 1..n
      BY <1>1, <1>3, <2>1, <2>2, Places
    <3>2. nx[s[i]] = At(s, i + 1) /\ pv[s[i]] = At(s, i - 1)
      BY <3>1 DEF ListOf
    <3> QED BY <1>1, <1>3, <1>4, <1>6, <1>8, <2>1, <2>2, <3>1, <3>2 DEF b
  <2>3. CASE i >= p
    <3>1. u[i] = s[i + 1] /\ s[i + 1] \in Waiters /\ i + 1 \in 1..n
      BY <1>1, <1>3, <2>1, <2>3, Places
    <3>2. nx[s[i + 1]] = At(s, (i + 1) + 1) /\ pv[s[i + 1]] = At(s, (i + 1) - 1)
      BY <3>1 DEF ListOf
    <3>3. m.next[s[i + 1]] = At(u, i + 1)
      BY <1>1, <1>3, <1>4, <1>6, <1>8, <2>1, <2>3, <3>1, <3>2
    <3>4. m.prev[s[i + 1]] = At(u, i - 1)
      BY <1>1, <1>3, <1>4, <1>6, <1>8, <2>1, <2>3, <3>1, <3>2 DEF a
    <3> QED BY <3>1, <3>3, <3>4
  <2> QED BY <1>3, <2>1, <2>2, <2>3
<1>11. \A w \in Waiters \ ToSet(s) : m.next[w] = nx[w] /\ m.prev[w] = pv[w]
  <2>1. a \in ToSet(s) \union {Null} /\ b \in ToSet(s) \union {Null}
    BY <1>1, <1>3, Places DEF a, b, At
  <2> QED BY <1>8, <2>1, NullIsNobody
<1>12. ListOf(m.next, m.prev, m.list, u)
  BY <1>2, <1>9, <1>10 DEF ListOf
<1> QED BY <1>8, <1>11, <1>12 DEF u

(* A waiter without links that is not in the list is not missed. *)
LEMMA UnlinkStranger ==
  ASSUME NEW nx, NEW pv, NEW l, NEW s, ListOf(nx, pv, l, s),
         NEW v \in Waiters \ ToSet(s), nx[v] = Null, pv[v] = Null,
         NEW m, m = Unlink([next |-> nx, prev |-> pv, list |-> l], v)
  PROVE  m.next = nx /\ m.prev = pv /\ m.list = l
<1>1. s \in Seq(Waiters) /\ l = [head |-> At(s, 1), tail |-> At(s, Len(s))]
  BY DEF ListOf
<1>2. l.head # v /\ l.tail # v
  BY <1>1, Places, NullIsNobody DEF ListOf, At
<1>3. m = [next |-> nx, prev |-> pv, list |-> [head |-> l.head, tail |-> l.tail]]
  BY <1>2 DEF Unlink, Put
<1> QED BY <1>1, <1>3

(* from_stack fills in next, so that the stack is a list, oldest first. *)
LEMMA FromStackList ==
  ASSUME next \in [Waiters -> Pointers], prev \in [Waiters -> Pointers],
         NEW top, NEW s, StackOf(next, prev, top, s), NEW m, m = FromStack(top)
  PROVE  /\ m = [next |-> m.next, prev |-> m.prev, list |-> m.list]
         /\ m.next \in [Waiters -> Pointers] /\ m.prev = prev
         /\ ListOf(m.next, m.prev, m.list, s)
         /\ \A w \in Waiters \ ToSet(s) : m.next[w] = next[w]
<1> DEFINE n == Len(s)
           chain == Walk(prev, top)
           below(w) == {i \in 1..Len(chain) - 1 : chain[i + 1] = w}
           up == [w \in Waiters |-> IF below(w) = {} THEN next[w]
                                    ELSE chain[CHOOSE i \in below(w) : TRUE]]
           list == [head |-> IF chain = <<>> THEN Null ELSE Last(chain), tail |-> top]
<1>1. s \in Seq(Waiters) /\ NoRepeats(s) /\ n \in Nat
  BY DEF StackOf
<1>2. /\ chain \in Seq(Waiters) /\ Len(chain) = n
      /\ \A i \in 1..n : chain[i] = s[n - i + 1]
  BY <1>1, StackWalked, Turned
<1>3. m = [next |-> up, prev |-> prev, list |-> list]
  BY DEF FromStack
<1>4. \A w \in Waiters : up[w] = IF below(w) = {} THEN next[w] ELSE chain[CHOOSE i \in below(w) : TRUE]
  OBVIOUS
<1> HIDE DEF up, list, chain
<1>5. ASSUME NEW i \in 1..n - 1
      PROVE  below(s[i]) = {n - i} /\ up[s[i]] = s[i + 1]
  <2>1. \A k \in 1..n - 1 : chain[k + 1] = s[n - k] /\ n - k \in 1..n
    BY <1>1, <1>2
  <2>2. \A k \in 1..n - 1 : chain[k + 1] = s[i] <=> k = n - i
    BY <1>1, <2>1, Places
  <2>3. below(s[i]) = {n - i}
    <3>1. n - i \in 1..n - 1
      BY <1>1
    <3>2. below(s[i]) = {k \in 1..n - 1 : chain[k + 1] = s[i]}
      BY <1>2
    <3>3. {k \in 1..n - 1 : chain[k + 1] = s[i]} = {k \in 1..n - 1 : k = n - i}
      BY <2>2
    <3> QED BY <3>1, <3>2, <3>3
  <2>4. s[i] \in Waiters
    BY <1>1
  <2>5. up[s[i]] = chain[n - i]
    BY <1>4, <2>3, <2>4
  <2>6. chain[n - i] = s[i + 1]
    BY <1>1, <1>2
  <2> QED BY <2>3, <2>5, <2>6
<1>6. ASSUME NEW w \in Waiters, w \notin ToSet(s) \/ (n > 0 /\ w = s[n])
      PROVE  up[w] = next[w]
  <2>1. ASSUME NEW k \in 1..n - 1, chain[k + 1] = w PROVE FALSE
    <3>1. n - k \in 1..n /\ n - k # n /\ k + 1 \in 1..n /\ n - (k + 1) + 1 = n - k
      BY <1>1, <2>1
    <3>2. w = s[n - k] /\ s[n - k] \in ToSet(s)
      BY <1>1, <1>2, <2>1, <3>1, Places
    <3>3. n \in Nat /\ \A i, j \in 1..n : s[i] = s[j] => i = j
      BY <1>1, Places
    <3> HIDE DEF n
    <3>4. n \in 1..n
      BY <3>1, <3>3
    <3> QED BY <1>6, <3>1, <3>2, <3>3, <3>4
  <2>2. below(w) = {}
    BY <1>2, <2>1
  <2> QED BY <1>4, <2>2
<1>7. up \in [Waiters -> Pointers]
  <2>1. ASSUME NEW w \in Waiters PROVE up[w] \in Pointers
    <3>1. CASE w \notin ToSet(s)
      BY <1>6, <3>1
    <3>2. CASE w \in ToSet(s)
      <4>1. PICK i \in 1..n : w = s[i]
        BY <1>1, <3>2, Places
      <4>2. CASE i = n
        BY <1>1, <1>6, <4>1, <4>2
      <4>3. CASE i # n
        <5>1. i \in 1..n - 1 /\ i + 1 \in 1..n
          BY <1>1, <4>3
        <5> QED BY <1>1, <1>5, <4>1, <5>1 DEF Pointers
      <4> QED BY <4>2, <4>3
    <3> QED BY <3>1, <3>2
  <2>2. up = [w \in Waiters |-> up[w]]
    BY DEF up
  <2> QED BY <2>1, <2>2
<1>8. ASSUME NEW i \in 1..n PROVE up[s[i]] = At(s, i + 1) /\ prev[s[i]] = At(s, i - 1)
  <2>1. CASE i = n
    <3>1. s[n] \in Waiters /\ n > 0 /\ s # <<>>
      BY <1>1, <2>1
    <3>2. up[s[n]] = Null
      BY <1>6, <3>1 DEF StackOf
    <3> QED BY <1>1, <2>1, <3>2 DEF StackOf, At
  <2>2. CASE i # n
    <3>1. i \in 1..n - 1 /\ i + 1 \in 1..n
      BY <1>1, <2>2
    <3>2. up[s[i]] = At(s, i + 1)
      BY <1>5, <3>1 DEF At
    <3> QED BY <3>2 DEF StackOf
  <2> QED BY <2>1, <2>2
<1>9. list = [head |-> At(s, 1), tail |-> At(s, n)]
  <2>1. top = At(s, n)
    BY DEF StackOf
  <2>2. (IF chain = <<>> THEN Null ELSE Last(chain)) = At(s, 1)
    <3>1. CASE n = 0
      <4>1. chain = <<>>
        BY <1>2, <3>1
      <4> QED BY <3>1, <4>1 DEF At
    <3>2. CASE n # 0
      <4>1. chain # <<>> /\ n \in 1..n /\ 1 \in 1..n /\ chain[n] = s[1]
        BY <1>1, <1>2, <3>2
      <4> QED BY <1>2, <4>1 DEF At, Last
    <3> QED BY <3>1, <3>2
  <2> QED BY <2>1, <2>2 DEF list
<1>10. ListOf(up, prev, list, s)
  BY <1>1, <1>8, <1>9 DEF ListOf
<1> QED BY <1>3, <1>6, <1>7, <1>10

(* pop_front_many cuts a list in two, or takes it whole. *)
LEMMA PopFrontManyList ==
  ASSUME next \in [Waiters -> Pointers], prev \in [Waiters -> Pointers],
         NEW l, NEW s, ListOf(next, prev, l, s), NEW n \in Nat \ {0},
         NEW m, m = PopFrontMany(l, n), NEW k, k = IF n < Len(s) THEN n ELSE Len(s)
  PROVE  /\ m.next \in [Waiters -> Pointers] /\ m.prev \in [Waiters -> Pointers]
         /\ ListOf(m.next, m.prev, m.taken, SubSeq(s, 1, k))
         /\ ListOf(m.next, m.prev, m.list, SubSeq(s, k + 1, Len(s)))
         /\ \A w \in Waiters \ ToSet(s) : m.next[w] = next[w] /\ m.prev[w] = prev[w]
<1> DEFINE c == Len(s)
           keep == KeepHead(l, n)
           a == SubSeq(s, 1, k)
           b == SubSeq(s, k + 1, c)
<1>1. s \in Seq(Waiters) /\ NoRepeats(s) /\ c \in Nat /\ k \in 0..c
  BY DEF ListOf
<1>2. Walk(next, l.head) = s
  BY ListWalked
<1>3. keep = IF n < c THEN s[n + 1] ELSE Null
  BY <1>2 DEF KeepHead
<1>4. CASE n >= c
  <2>1. k = c /\ keep = Null
    BY <1>1, <1>3, <1>4
  <2>2. m = [next |-> next, prev |-> prev, list |-> Empty, taken |-> l]
    BY <2>1 DEF PopFrontMany
  <2>3. a = s /\ b = <<>>
    <3>1. k = Len(s) /\ s \in Seq(Waiters) /\ Len(s) \in Nat
      BY <1>1, <2>1
    <3>2. SubSeq(s, 1, Len(s)) = s
      BY <3>1
    <3>3. SubSeq(s, Len(s) + 1, Len(s)) = <<>>
      BY <3>1
    <3> QED BY <3>1, <3>2, <3>3
  <2>4. m.next = next /\ m.prev = prev /\ m.list = Empty /\ m.taken = l
    BY <2>2
  <2>5. ListOf(next, prev, l, s) /\ ListOf(next, prev, Empty, <<>>)
    BY NobodyListed
  <2> HIDE DEF a, b
  <2> QED BY <2>3, <2>4, <2>5 DEF a, b
<1>5. CASE n < c
  <2>1. k = n /\ n + 1 \in 1..c /\ n \in 1..c /\ keep = s[n + 1]
    BY <1>1, <1>3, <1>5
  <2> DEFINE x == s[n]
             y == s[n + 1]
  <2>2. /\ x \in Waiters /\ y \in Waiters /\ y # Null /\ x # Null /\ x # y
        /\ x \in ToSet(s) /\ y \in ToSet(s)
    BY <1>1, <2>1, Places
  <2>3. prev[y] = x
    <3>1. prev[y] = At(s, (n + 1) - 1) /\ (n + 1) - 1 = n
      BY <2>1 DEF ListOf
    <3> QED BY <2>1, <3>1 DEF At
  <2>4. m = [next |-> Put(next, x, Null), prev |-> [prev EXCEPT ![y] = Null],
             list |-> [head |-> y, tail |-> l.tail], taken |-> [head |-> l.head, tail |-> x]]
    BY <2>1, <2>2, <2>3 DEF PopFrontMany
  <2>5. Put(next, x, Null) = [next EXCEPT ![x] = Null]
    BY <2>2 DEF Put
  <2>6. /\ m.next = [next EXCEPT ![x] = Null] /\ m.prev = [prev EXCEPT ![y] = Null]
        /\ m.list = [head |-> y, tail |-> l.tail] /\ m.taken = [head |-> l.head, tail |-> x]
    BY <2>4, <2>5
  <2>7. /\ m.next \in [Waiters -> Pointers] /\ m.prev \in [Waiters -> Pointers]
        /\ \A w \in Waiters : m.next[w] = IF w = x THEN Null ELSE next[w]
        /\ \A w \in Waiters : m.prev[w] = IF w = y THEN Null ELSE prev[w]
    BY <2>6 DEF Pointers
  <2>8. /\ a \in Seq(Waiters) /\ Len(a) = n /\ \A i \in 1..n : a[i] = s[i]
        /\ b \in Seq(Waiters) /\ Len(b) = c - n /\ \A i \in 1..c - n : b[i] = s[i + n]
    <3>1. a = SubSeq(s, 1, n) /\ b = SubSeq(s, n + 1, c)
      BY <2>1
    <3>2. /\ SubSeq(s, 1, n) \in Seq(Waiters) /\ Len(SubSeq(s, 1, n)) = n
          /\ \A i \in 1..n : SubSeq(s, 1, n)[i] = s[i]
      BY <1>1, <2>1
    <3>3. /\ SubSeq(s, n + 1, c) \in Seq(Waiters) /\ Len(SubSeq(s, n + 1, c)) = c - n
          /\ \A i \in 1..c - n : SubSeq(s, n + 1, c)[i] = s[i + n]
      BY <1>1, <2>1
    <3> HIDE DEF a, b
    <3> QED BY <3>1, <3>2, <3>3
  <2> HIDE DEF a, b
  <2>9. NoRepeats(a) /\ NoRepeats(b)
    <3>1. ASSUME NEW i \in 1..n, NEW j \in 1..n, a[i] = a[j] PROVE i = j
      <4>1. i \in 1..c /\ j \in 1..c /\ s[i] = s[j]
        BY <1>1, <2>1, <2>8, <3>1
      <4> QED BY <1>1, <4>1, Places
    <3>2. ASSUME NEW i \in 1..c - n, NEW j \in 1..c - n, b[i] = b[j] PROVE i = j
      <4>1. i + n \in 1..c /\ j + n \in 1..c /\ s[i + n] = s[j + n]
        BY <1>1, <2>1, <2>8, <3>2
      <4>2. i + n = j + n
        BY <1>1, <4>1, Places
      <4> QED BY <4>2
    <3>3. DOMAIN a = 1..n /\ DOMAIN b = 1..c - n
      BY <2>8
    <3> QED BY <3>1, <3>2, <3>3 DEF NoRepeats, IsInjective
  <2>10. l.head = s[1] /\ l.tail = s[c] /\ 1 \in 1..c /\ c \in 1..c
    BY <1>1, <2>1 DEF ListOf, At
  <2>11. ListOf(m.next, m.prev, m.taken, a)
    <3>1. ASSUME NEW i \in 1..n PROVE m.next[a[i]] = At(a, i + 1) /\ m.prev[a[i]] = At(a, i - 1)
      <4>1. /\ a[i] = s[i] /\ s[i] \in Waiters /\ i \in 1..c /\ s[i] # y /\ (s[i] = x <=> i = n)
            /\ next[s[i]] = At(s, i + 1) /\ prev[s[i]] = At(s, i - 1)
        <5>1. a[i] = s[i] /\ i \in 1..c /\ i # n + 1
          BY <1>1, <2>1, <2>8
        <5>2. s[i] \in Waiters /\ s[i] # y /\ (s[i] = x <=> i = n)
          BY <1>1, <2>1, <5>1, Places
        <5> QED BY <5>1, <5>2 DEF ListOf
      <4>2. At(s, i - 1) = At(a, i - 1) /\ (i # n => At(s, i + 1) = At(a, i + 1)) /\ At(a, n + 1) = Null
        BY <1>1, <2>1, <2>8 DEF At
      <4> QED BY <2>7, <4>1, <4>2
    <3>2. m.taken = [head |-> At(a, 1), tail |-> At(a, Len(a))]
      BY <2>1, <2>6, <2>8, <2>10 DEF At
    <3> QED BY <2>8, <2>9, <3>1, <3>2 DEF ListOf
  <2>12. ListOf(m.next, m.prev, m.list, b)
    <3>1. ASSUME NEW i \in 1..c - n PROVE m.next[b[i]] = At(b, i + 1) /\ m.prev[b[i]] = At(b, i - 1)
      <4>1. /\ b[i] = s[i + n] /\ s[i + n] \in Waiters /\ i + n \in 1..c
            /\ s[i + n] # x /\ (s[i + n] = y <=> i = 1)
            /\ next[s[i + n]] = At(s, (i + n) + 1) /\ prev[s[i + n]] = At(s, (i + n) - 1)
        <5>1. b[i] = s[i + n] /\ i + n \in 1..c /\ i + n # n /\ (i + n = n + 1 <=> i = 1)
          BY <1>1, <2>1, <2>8
        <5>2. s[i + n] \in Waiters /\ s[i + n] # x /\ (s[i + n] = y <=> i = 1)
          BY <1>1, <2>1, <5>1, Places
        <5> QED BY <5>1, <5>2 DEF ListOf
      <4>2. At(s, (i + n) + 1) = At(b, i + 1) /\ (i # 1 => At(s, (i + n) - 1) = At(b, i - 1))
            /\ At(b, 0) = Null
        <5>1. At(b, 0) = Null
          BY <2>8 DEF At
        <5>2. At(s, (i + n) + 1) = At(b, i + 1)
          <6>1. CASE i + 1 \in 1..c - n
            <7>1. b[i + 1] = s[(i + 1) + n] /\ (i + 1) + n = (i + n) + 1 /\ (i + n) + 1 \in 1..c
              BY <1>1, <2>1, <2>8, <6>1
            <7> QED BY <2>8, <6>1, <7>1 DEF At
          <6>2. CASE i + 1 \notin 1..c - n
            <7>1. (i + n) + 1 \notin 1..c
              BY <1>1, <2>1, <6>2
            <7> QED BY <2>8, <6>2, <7>1 DEF At
          <6> QED BY <6>1, <6>2
        <5>3. ASSUME i # 1 PROVE At(s, (i + n) - 1) = At(b, i - 1)
          <6>1. i - 1 \in 1..c - n /\ (i - 1) + n = (i + n) - 1 /\ (i + n) - 1 \in 1..c
            BY <1>1, <2>1, <5>3
          <6>2. b[i - 1] = s[(i - 1) + n]
            BY <2>8, <6>1
          <6> QED BY <2>8, <6>1, <6>2 DEF At
        <5> QED BY <5>1, <5>2, <5>3
      <4> QED BY <2>7, <4>1, <4>2
    <3>2. m.list = [head |-> At(b, 1), tail |-> At(b, Len(b))]
      <4>1. b[1] = y /\ b[c - n] = s[c] /\ 1 \in 1..c - n /\ c - n \in 1..c - n
        <5>1. 1 \in 1..c - n /\ c - n \in 1..c - n /\ 1 + n = n + 1 /\ (c - n) + n = c
          BY <1>1, <2>1
        <5> QED BY <2>8, <5>1
      <4>2. At(b, 1) = y /\ At(b, Len(b)) = l.tail
        BY <2>8, <2>10, <4>1 DEF At
      <4> QED BY <2>6, <4>2
    <3> QED BY <2>8, <2>9, <3>1, <3>2 DEF ListOf
  <2> QED BY <2>1, <2>2, <2>7, <2>11, <2>12 DEF a, b
<1> QED BY <1>1, <1>4, <1>5

-----------------------------------------------------------------------------
(* Sorting the inbox into the queues. *)

(* The turns of enqueue's loop, and of its counterpart in FutexQueues. *)
Draining(m, queues, n, g) == g = [i \in 0..n |->
  IF i = 0 THEN [next |-> m.next, prev |-> m.prev, list |-> m.list, queues |-> queues]
  ELSE LET d == g[i-1] IN IF d.list.head = Null THEN d ELSE Turn(d)]

Added(qs, w) == [qs EXCEPT ![QueueOf[w]] = Append(@, w)]

Sorting(qs, c, n, g) == g = [i \in 0..n |-> IF i = 0 THEN qs ELSE Added(g[i-1], c[i])]

(* The loop is never cut short on sound lists. *)
LEMMA FuelType == Fuel \in Nat /\ Cardinality(Waiters) <= Fuel
<1>1. Cardinality(Waiters) \in Nat
  BY FinitelyMany, FS_CardinalityType
<1> QED BY <1>1 DEF Fuel

(* Drain takes the turns one after the other, *)
LEMMA DrainRuns ==
  ASSUME NEW m, NEW queues, NEW N \in Nat
  PROVE  \E g : Draining(m, queues, N, g)
<1> DEFINE S == {n \in Nat : \E g : Draining(m, queues, n, g)}
<1>1. 0 \in S
  <2> DEFINE d == [next |-> m.next, prev |-> m.prev, list |-> m.list, queues |-> queues]
             g == [i \in 0..0 |-> d]
  <2>1. Draining(m, queues, 0, g)
    <3>1. \A i \in 0..0 : i = 0
      OBVIOUS
    <3> HIDE DEF d
    <3>2. g = [i \in 0..0 |-> IF i = 0 THEN d ELSE LET e == g[i-1] IN IF e.list.head = Null THEN e ELSE Turn(e)]
      BY <3>1
    <3> QED BY <3>2 DEF Draining, d
  <2> QED BY <2>1
<1>2. ASSUME NEW n \in Nat, n \in S PROVE n + 1 \in S
  <2>1. PICK g : Draining(m, queues, n, g)
    BY <1>2
  <2> DEFINE d == g[n]
             last == IF d.list.head = Null THEN d ELSE Turn(d)
             h == [i \in 0..n + 1 |-> IF i = n + 1 THEN last ELSE g[i]]
             first == [next |-> m.next, prev |-> m.prev, list |-> m.list, queues |-> queues]
             turned(e) == IF e.list.head = Null THEN e ELSE Turn(e)
  <2>2. g = [i \in 0..n |-> IF i = 0 THEN first ELSE turned(g[i-1])]
    BY <2>1 DEF Draining
  <2>3. last = turned(g[n])
    OBVIOUS
  <2> HIDE DEF first, turned, last, d
  <2>4. \A i \in 0..n : h[i] = g[i]
    OBVIOUS
  <2>5. h[n + 1] = turned(h[n])
    BY <2>3, <2>4
  <2>6. ASSUME NEW i \in 0..n + 1 PROVE h[i] = IF i = 0 THEN first ELSE turned(h[i-1])
    <3>1. CASE i = n + 1
      BY <2>5, <3>1
    <3>2. CASE i # n + 1
      <4>1. i \in 0..n /\ (i # 0 => i - 1 \in 0..n)
        BY <3>2
      <4>2. g[i] = IF i = 0 THEN first ELSE turned(g[i-1])
        BY <2>2, <4>1
      <4> QED BY <2>4, <4>1, <4>2
    <3> QED BY <3>1, <3>2
  <2>7. h = [i \in 0..n + 1 |-> h[i]]
    OBVIOUS
  <2> HIDE DEF h
  <2>8. h = [i \in 0..n + 1 |-> IF i = 0 THEN first ELSE turned(h[i-1])]
    BY <2>6, <2>7
  <2>9. Draining(m, queues, n + 1, h)
    BY <2>8 DEF Draining, first, turned
  <2> QED BY <2>9
<1> HIDE DEF S
<1>3. N \in S
  BY <1>1, <1>2, SetInduction
<1> QED BY <1>3 DEF S

(* and Sorted adds the waiters of the inbox one after the other. *)
LEMMA SortRuns ==
  ASSUME NEW qs, NEW c, NEW N \in Nat
  PROVE  \E g : Sorting(qs, c, N, g)
<1> DEFINE S == {n \in Nat : \E g : Sorting(qs, c, n, g)}
<1>1. 0 \in S
  <2> DEFINE g == [i \in 0..0 |-> qs]
  <2>1. \A i \in 0..0 : i = 0
    OBVIOUS
  <2>2. Sorting(qs, c, 0, g)
    BY <2>1 DEF Sorting
  <2> QED BY <2>2
<1>2. ASSUME NEW n \in Nat, n \in S PROVE n + 1 \in S
  <2>1. PICK g : Sorting(qs, c, n, g)
    BY <1>2
  <2> DEFINE added(e, i) == Added(e, c[i])
             last == added(g[n], n + 1)
             h == [i \in 0..n + 1 |-> IF i = n + 1 THEN last ELSE g[i]]
  <2>2. g = [i \in 0..n |-> IF i = 0 THEN qs ELSE added(g[i-1], i)]
    BY <2>1 DEF Sorting
  <2>3. last = added(g[n], n + 1)
    OBVIOUS
  <2> HIDE DEF added, last
  <2>4. \A i \in 0..n : h[i] = g[i]
    OBVIOUS
  <2>5. h[n + 1] = added(h[n], n + 1)
    BY <2>3, <2>4
  <2>6. ASSUME NEW i \in 0..n + 1 PROVE h[i] = IF i = 0 THEN qs ELSE added(h[i-1], i)
    <3>1. CASE i = n + 1
      <4>1. (n + 1) - 1 = n /\ n + 1 # 0
        OBVIOUS
      <4> QED BY <2>5, <3>1, <4>1
    <3>2. CASE i # n + 1
      <4>1. i \in 0..n /\ (i # 0 => i - 1 \in 0..n)
        BY <3>2
      <4>2. g[i] = IF i = 0 THEN qs ELSE added(g[i-1], i)
        BY <2>2, <4>1
      <4> QED BY <2>4, <4>1, <4>2
    <3> QED BY <3>1, <3>2
  <2>7. h = [i \in 0..n + 1 |-> h[i]]
    OBVIOUS
  <2> HIDE DEF h
  <2>8. h = [i \in 0..n + 1 |-> IF i = 0 THEN qs ELSE added(h[i-1], i)]
    BY <2>6, <2>7
  <2>9. Sorting(qs, c, n + 1, h)
    BY <2>8 DEF Sorting, added
  <2> QED BY <2>9
<1> HIDE DEF S
<1>3. N \in S
  BY <1>1, <1>2, SetInduction
<1> QED BY <1>3 DEF S

(* The list of a stack with the waiters rest, and queues with the lines qs:
   the state of enqueue between two turns. *)
Carrying(d, rest, qs) ==
  /\ d.next \in [Waiters -> Pointers] /\ d.prev \in [Waiters -> Pointers]
  /\ ListOf(d.next, d.prev, d.list, rest)
  /\ DOMAIN d.queues = Queues /\ d.queues = [q \in Queues |-> d.queues[q]]
  /\ qs \in [Queues -> Seq(Waiters)]
  /\ \A q \in Queues : ListOf(d.next, d.prev, d.queues[q], qs[q])
  /\ \A q \in Queues : \A w \in ToSet(qs[q]) : QueueOf[w] = q /\ w \notin ToSet(rest)

(* The waiters it has. *)
Among(rest, qs, w) == w \in ToSet(rest) \/ \E q \in Queues : w \in ToSet(qs[q])

(* A turn takes the oldest waiter of the stack to the end of its queue. *)
LEMMA TurnList ==
  ASSUME NEW d, NEW rest, NEW qs, Carrying(d, rest, qs), rest # <<>>,
         NEW e, e = Turn(d), NEW rs, rs = Added(qs, rest[1])
  PROVE  /\ Carrying(e, Tail(rest), rs)
         /\ \A w \in Waiters : ~Among(rest, qs, w) => e.next[w] = d.next[w] /\ e.prev[w] = d.prev[w]
         /\ \A w \in Waiters : Among(Tail(rest), rs, w) <=> Among(rest, qs, w)
<1> DEFINE w == rest[1]
           k == QueueOf[w]
           t == Tail(rest)
           taken == PopFront([next |-> d.next, prev |-> d.prev, list |-> d.list])
           base == [next |-> taken.next, prev |-> taken.prev, list |-> d.queues[k]]
           pushed == PushBack(base, w)
<1>1. /\ d.next \in [Waiters -> Pointers] /\ d.prev \in [Waiters -> Pointers]
      /\ ListOf(d.next, d.prev, d.list, rest)
      /\ \A q \in Queues : ListOf(d.next, d.prev, d.queues[q], qs[q])
      /\ \A q \in Queues : \A v \in ToSet(qs[q]) : QueueOf[v] = q /\ v \notin ToSet(rest)
      /\ qs \in [Queues -> Seq(Waiters)] /\ d.queues = [q \in Queues |-> d.queues[q]]
      /\ rest \in Seq(Waiters) /\ NoRepeats(rest)
  BY DEF Carrying, ListOf
<1>0. /\ taken = [next |-> taken.next, prev |-> taken.prev, list |-> taken.list]
      /\ taken.next \in [Waiters -> Pointers] /\ taken.prev \in [Waiters -> Pointers]
      /\ ListOf(taken.next, taken.prev, taken.list, t)
      /\ taken.next[w] = Null /\ taken.prev[w] = Null
      /\ \A v \in Waiters \ ToSet(rest) : taken.next[v] = d.next[v] /\ taken.prev[v] = d.prev[v]
      /\ d.list.head = w /\ w = Head(rest)
  <2> DEFINE a == d.next
             b == d.prev
             l == d.list
  <2>1. taken = PopFront([next |-> a, prev |-> b, list |-> l])
    OBVIOUS
  <2>2. /\ a \in [Waiters -> Pointers] /\ b \in [Waiters -> Pointers]
        /\ ListOf(a, b, l, rest) /\ rest # <<>>
    BY <1>1
  <2> HIDE DEF a, b, l, taken
  <2>3. /\ taken = [next |-> taken.next, prev |-> taken.prev, list |-> taken.list]
        /\ taken.next \in [Waiters -> Pointers] /\ taken.prev \in [Waiters -> Pointers]
        /\ ListOf(taken.next, taken.prev, taken.list, t)
        /\ taken.next[w] = Null /\ taken.prev[w] = Null
        /\ \A v \in Waiters \ ToSet(rest) : taken.next[v] = a[v] /\ taken.prev[v] = b[v]
        /\ l.head = w /\ w = Head(rest)
    BY <2>1, <2>2, PopFrontList
  <2> QED BY <2>3 DEF a, b, l
<1>2. w \in Waiters /\ w \in ToSet(rest) /\ k \in Queues /\ d.list.head = w
  <2>1. w = Head(rest) /\ d.list.head = w
    BY <1>0
  <2>2. w \in Waiters /\ w \in ToSet(rest)
    BY <1>1, <2>1, TailLinks
  <2> QED BY <2>1, <2>2, QueueOfAssumption
<1>3. /\ taken = [next |-> taken.next, prev |-> taken.prev, list |-> taken.list]
      /\ taken.next \in [Waiters -> Pointers] /\ taken.prev \in [Waiters -> Pointers]
      /\ ListOf(taken.next, taken.prev, taken.list, t)
      /\ taken.next[w] = Null /\ taken.prev[w] = Null
      /\ \A v \in Waiters \ ToSet(rest) : taken.next[v] = d.next[v] /\ taken.prev[v] = d.prev[v]
  BY <1>0
<1>4. /\ t \in Seq(Waiters) /\ ToSet(t) = ToSet(rest) \ {w}
  BY <1>1, PopFrontList, TailLinks
<1>5. e = [next |-> pushed.next, prev |-> pushed.prev, list |-> taken.list,
           queues |-> [d.queues EXCEPT ![k] = pushed.list]]
  <2> DEFINE a == taken.next
             b == taken.prev
             c == taken.list
             x == d.queues[k]
  <2> HIDE DEF a, b, c, x
  <2>1. [[next |-> a, prev |-> b, list |-> c] EXCEPT !.list = x] = [next |-> a, prev |-> b, list |-> x]
    OBVIOUS
  <2>2. taken = [next |-> a, prev |-> b, list |-> c]
    BY <1>3 DEF a, b, c
  <2>3. [taken EXCEPT !.list = d.queues[k]] = base
    BY <2>1, <2>2 DEF a, b, x
  <2> HIDE DEF taken, base
  <2>4. e = LET z == PushBack([taken EXCEPT !.list = d.queues[k]], w)
            IN [next |-> z.next, prev |-> z.prev, list |-> taken.list,
                queues |-> [d.queues EXCEPT ![k] = z.list]]
    BY <1>2 DEF Turn, taken
  <2> QED BY <2>3, <2>4
<1> HIDE DEF t, taken
<1>6. ASSUME NEW q \in Queues PROVE ListOf(taken.next, taken.prev, d.queues[q], qs[q])
  <2>1. \A v \in ToSet(qs[q]) : v \in Waiters \ ToSet(rest)
    BY <1>1, ToSetMembers
  <2>2. \A v \in ToSet(qs[q]) : taken.next[v] = d.next[v] /\ taken.prev[v] = d.prev[v]
    BY <1>3, <2>1
  <2> QED BY <1>1, <2>2, ListFrame
<1>7. /\ pushed.next \in [Waiters -> Pointers] /\ pushed.prev \in [Waiters -> Pointers]
      /\ ListOf(pushed.next, pushed.prev, pushed.list, Append(qs[k], w))
      /\ \A v \in Waiters \ (ToSet(qs[k]) \union {w}) :
            pushed.next[v] = taken.next[v] /\ pushed.prev[v] = taken.prev[v]
  <2>1. w \in Waiters \ ToSet(qs[k])
    BY <1>1, <1>2
  <2> HIDE DEF w
  <2> QED BY <1>2, <1>3, <1>6, <2>1, PushBackList
<1> DEFINE nx == pushed.next
           pv == pushed.prev
           lk == pushed.list
<1> HIDE DEF pushed, w, k
<1>8. /\ e.next = nx /\ e.prev = pv /\ e.list = taken.list
      /\ e.queues = [d.queues EXCEPT ![k] = lk]
  <2> DEFINE y == taken.list
             z == [d.queues EXCEPT ![k] = lk]
  <2> HIDE DEF nx, pv, lk, y, z
  <2>1. e = [next |-> nx, prev |-> pv, list |-> y, queues |-> z]
    BY <1>5 DEF nx, pv, lk, y, z
  <2>2. e.next = nx /\ e.prev = pv /\ e.list = y /\ e.queues = z
    BY <2>1
  <2> QED BY <2>2 DEF y, z
<1> HIDE DEF nx, pv, lk
<1>9. rs = [qs EXCEPT ![k] = Append(@, w)]
  BY DEF k, w, Added
<1>10. /\ rs \in [Queues -> Seq(Waiters)] /\ rs[k] = Append(qs[k], w)
       /\ \A q \in Queues \ {k} : rs[q] = qs[q]
       /\ ToSet(rs[k]) = ToSet(qs[k]) \union {w}
  <2>1. qs[k] \in Seq(Waiters)
    BY <1>1, <1>2
  <2>2. Append(qs[k], w) \in Seq(Waiters) /\ ToSet(Append(qs[k], w)) = ToSet(qs[k]) \union {w}
    BY <1>2, <2>1, AppendLinks
  <2> QED BY <1>1, <1>2, <1>9, <2>2
<1>11. /\ DOMAIN e.queues = Queues /\ e.queues = [q \in Queues |-> e.queues[q]]
       /\ e.queues[k] = lk /\ \A q \in Queues \ {k} : e.queues[q] = d.queues[q]
  BY <1>1, <1>2, <1>8
<1>12. ListOf(nx, pv, taken.list, t)
  <2>1. \A v \in ToSet(t) : v \in Waiters \ (ToSet(qs[k]) \union {w})
    BY <1>1, <1>2, <1>4, ToSetMembers
  <2>2. \A v \in ToSet(t) : nx[v] = taken.next[v] /\ pv[v] = taken.prev[v]
    BY <1>7, <2>1 DEF nx, pv
  <2> QED BY <1>3, <2>2, ListFrame
<1>13. ASSUME NEW q \in Queues PROVE ListOf(nx, pv, e.queues[q], rs[q])
  <2>1. CASE q = k
    BY <1>7, <1>10, <1>11, <2>1 DEF nx, pv, lk
  <2>2. CASE q # k
    <3>1. \A v \in ToSet(qs[q]) : v \in Waiters \ (ToSet(qs[k]) \union {w})
      <4>1. ToSet(qs[q]) \subseteq Waiters
        BY <1>1, ToSetMembers
      <4> QED BY <1>1, <1>2, <2>2, <4>1
    <3>2. \A v \in ToSet(qs[q]) : nx[v] = taken.next[v] /\ pv[v] = taken.prev[v]
      BY <1>7, <3>1 DEF nx, pv
    <3>3. ListOf(nx, pv, d.queues[q], qs[q])
      BY <1>6, <3>2, ListFrame
    <3> QED BY <1>10, <1>11, <2>2, <3>3
  <2> QED BY <2>1, <2>2
<1>14. \A q \in Queues : \A v \in ToSet(rs[q]) : QueueOf[v] = q /\ v \notin ToSet(t)
  <2> SUFFICES ASSUME NEW q \in Queues, NEW v \in ToSet(rs[q])
               PROVE  QueueOf[v] = q /\ v \notin ToSet(t)
    OBVIOUS
  <2>1. CASE v \in ToSet(qs[q])
    BY <1>1, <1>4, <2>1
  <2>2. CASE v \notin ToSet(qs[q])
    <3>1. q = k /\ v = w
      BY <1>10, <2>2
    <3> QED BY <1>4, <3>1 DEF k
  <2> QED BY <2>1, <2>2
<1>15. Carrying(e, t, rs)
  BY <1>7, <1>8, <1>10, <1>11, <1>12, <1>13, <1>14 DEF Carrying, nx, pv
<1>16. \A v \in Waiters : ~Among(rest, qs, v) => e.next[v] = d.next[v] /\ e.prev[v] = d.prev[v]
  <2> SUFFICES ASSUME NEW v \in Waiters, ~Among(rest, qs, v)
               PROVE  e.next[v] = d.next[v] /\ e.prev[v] = d.prev[v]
    OBVIOUS
  <2>1. v \notin ToSet(rest) /\ v \notin ToSet(qs[k]) /\ v # w
    BY <1>2 DEF Among
  <2> QED BY <1>3, <1>7, <1>8, <2>1 DEF nx, pv
<1>17. \A v \in Waiters : Among(t, rs, v) <=> Among(rest, qs, v)
  BY <1>2, <1>4, <1>10 DEF Among
<1> QED BY <1>15, <1>16, <1>17 DEF t

(* enqueue leaves an empty stack and the sorted queues. *)
LEMMA DrainLists ==
  ASSUME NEW m, NEW queues, NEW c, NEW qs, NEW d,
         d = [next |-> m.next, prev |-> m.prev, list |-> m.list, queues |-> queues],
         Carrying(d, c, qs),
         NEW e, e = Drain(m, queues), NEW h, Sorting(qs, c, Len(c), h)
  PROVE  /\ Carrying(e, <<>>, h[Len(c)])
         /\ \A w \in Waiters : ~Among(c, qs, w) => e.next[w] = d.next[w] /\ e.prev[w] = d.prev[w]
         /\ \A w \in Waiters : Among(<<>>, h[Len(c)], w) <=> Among(c, qs, w)
<1> DEFINE n == Len(c)
           rest(i) == SubSeq(c, i + 1, n)
           after[i \in 0..Fuel] ==
             IF i = 0 THEN [next |-> m.next, prev |-> m.prev, list |-> m.list, queues |-> queues]
             ELSE LET x == after[i-1] IN IF x.list.head = Null THEN x ELSE Turn(x)
           g == CHOOSE f : Draining(m, queues, Fuel, f)
<1>1. c \in Seq(Waiters) /\ NoRepeats(c) /\ n \in Nat /\ Fuel \in Nat /\ n <= Fuel
  <2>1. c \in Seq(Waiters) /\ NoRepeats(c)
    BY DEF Carrying, ListOf
  <2>2. Cardinality(Waiters) \in Nat /\ n <= Cardinality(Waiters)
    BY <2>1, LineFits
  <2> QED BY <2>1, <2>2, FuelType
<1>2. e = g[Fuel]
  <2>1. after = g
    BY DEF Draining
  <2>2. e = after[Fuel]
    BY DEF Drain
  <2> QED BY <2>1, <2>2
<1>3. Draining(m, queues, Fuel, g)
  BY <1>1, DrainRuns
<1> HIDE DEF after, g
<1>4. /\ g[0] = d
      /\ \A i \in 1..Fuel : g[i] = IF g[i-1].list.head = Null THEN g[i-1] ELSE Turn(g[i-1])
  BY <1>1, <1>3 DEF Draining
<1>5. /\ h[0] = qs
      /\ \A i \in 1..n : h[i] = Added(h[i-1], c[i])
  BY <1>1 DEF Sorting
<1>6. \A i \in 0..n : /\ rest(i) \in Seq(Waiters) /\ Len(rest(i)) = n - i
                      /\ i < n => rest(i) # <<>> /\ rest(i)[1] = c[i + 1] /\ Tail(rest(i)) = rest(i + 1)
  <2> SUFFICES ASSUME NEW i \in 0..n
               PROVE  /\ rest(i) \in Seq(Waiters) /\ Len(rest(i)) = n - i
                      /\ i < n => rest(i) # <<>> /\ rest(i)[1] = c[i + 1] /\ Tail(rest(i)) = rest(i + 1)
    OBVIOUS
  <2>1. rest(i) \in Seq(Waiters) /\ Len(rest(i)) = n - i
    BY <1>1
  <2>2. ASSUME i < n PROVE rest(i) # <<>> /\ rest(i)[1] = c[i + 1] /\ Tail(rest(i)) = rest(i + 1)
    <3>1. rest(i)[1] = c[i + 1]
      BY <1>1, <2>2
    <3>2. rest(i) # <<>>
      <4> HIDE DEF rest
      <4> QED BY <1>1, <2>1, <2>2
    <3>3. Tail(rest(i)) = rest(i + 1)
      <4> DEFINE u == Tail(rest(i))
                 v == rest(i + 1)
      <4>1. v \in Seq(Waiters) /\ Len(v) = n - i - 1 /\ \A j \in 1..n - i - 1 : v[j] = c[i + 1 + j]
        BY <1>1, <2>2
      <4>2. \A j \in 1..n - i : rest(i)[j] = c[i + j]
        BY <1>1
      <4>3. u \in Seq(Waiters) /\ Len(u) = n - i - 1 /\ \A j \in 1..n - i - 1 : u[j] = rest(i)[j + 1]
        <5> HIDE DEF rest
        <5> QED BY <1>1, <2>1, <2>2, <3>2
      <4> HIDE DEF u, v, rest
      <4>4. \A j \in 1..Len(u) : u[j] = v[j]
        <5> SUFFICES ASSUME NEW j \in 1..n - i - 1 PROVE u[j] = v[j]
          BY <4>3
        <5>1. j + 1 \in 1..n - i /\ i + (j + 1) = i + 1 + j
          BY <1>1
        <5> QED BY <4>1, <4>2, <4>3, <5>1
      <4>5. u = v
        <5>1. Len(u) = Len(v)
          BY <4>1, <4>3
        <5>2. u \in Seq(Waiters) /\ v \in Seq(Waiters)
          BY <4>1, <4>3
        <5> QED BY <4>4, <5>1, <5>2, SeqEqual
      <4> QED BY <4>5 DEF u, v
    <3> QED BY <3>1, <3>2, <3>3
  <2> QED BY <2>1, <2>2
<1>7. rest(0) = c
  BY <1>1
<1> HIDE DEF rest
<1> DEFINE P(i) ==
             /\ Carrying(g[i], rest(i), h[i])
             /\ \A w \in Waiters : ~Among(c, qs, w) => g[i].next[w] = d.next[w] /\ g[i].prev[w] = d.prev[w]
             /\ \A w \in Waiters : Among(rest(i), h[i], w) <=> Among(c, qs, w)
           S == {i \in Nat : i <= n => P(i)}
<1>8. 0 \in S
  BY <1>4, <1>5, <1>7
<1>9. ASSUME NEW i \in Nat, i \in S PROVE i + 1 \in S
  <2> SUFFICES ASSUME i + 1 <= n PROVE P(i + 1)
    OBVIOUS
  <2>1. P(i) /\ i \in 0..n /\ i < n /\ i + 1 \in 1..n /\ i + 1 \in 1..Fuel /\ (i + 1) - 1 = i
    BY <1>1, <1>9
  <2>2. /\ rest(i) # <<>> /\ rest(i)[1] = c[i + 1] /\ Tail(rest(i)) = rest(i + 1)
    BY <1>6, <2>1
  <2>3. g[i].list.head # Null
    <3>1. ListOf(g[i].next, g[i].prev, g[i].list, rest(i))
      BY <2>1 DEF Carrying
    <3> QED BY <2>2, <3>1, ListNull
  <2>4. g[i + 1] = Turn(g[i])
    BY <1>4, <2>1, <2>3
  <2>5. h[i + 1] = Added(h[i], rest(i)[1])
    BY <1>5, <2>1, <2>2
  <2> DEFINE x == g[i]
             y == g[i + 1]
             r == rest(i)
             k == h[i]
             l == h[i + 1]
  <2>6. y = Turn(x) /\ Carrying(x, r, k) /\ r # <<>> /\ l = Added(k, r[1])
    BY <2>1, <2>2, <2>4, <2>5
  <2> HIDE DEF x, y, r, k, l, P
  <2>7. /\ Carrying(y, Tail(r), l)
        /\ \A w \in Waiters : ~Among(r, k, w) => y.next[w] = x.next[w] /\ y.prev[w] = x.prev[w]
        /\ \A w \in Waiters : Among(Tail(r), l, w) <=> Among(r, k, w)
    BY <2>6, TurnList
  <2>8. Tail(r) = rest(i + 1)
    BY <2>2 DEF r
  <2>9. /\ \A w \in Waiters : ~Among(c, qs, w) => x.next[w] = d.next[w] /\ x.prev[w] = d.prev[w]
        /\ \A w \in Waiters : Among(r, k, w) <=> Among(c, qs, w)
    BY <2>1 DEF P, x, r, k
  <2>10. /\ Carrying(y, rest(i + 1), l)
         /\ \A w \in Waiters : ~Among(c, qs, w) => y.next[w] = d.next[w] /\ y.prev[w] = d.prev[w]
         /\ \A w \in Waiters : Among(rest(i + 1), l, w) <=> Among(c, qs, w)
    BY <2>7, <2>8, <2>9
  <2> QED BY <2>10 DEF P, y, l
<1> HIDE DEF S, P
<1>10. P(n) /\ rest(n) = <<>>
  <2>1. n \in S
    BY <1>1, <1>8, <1>9, SetInduction
  <2>2. rest(n) \in Seq(Waiters) /\ Len(rest(n)) = 0
    BY <1>1, <1>6
  <2> QED BY <1>1, <2>1, <2>2 DEF S
<1>11. g[n].list.head = Null
  <2>1. ListOf(g[n].next, g[n].prev, g[n].list, <<>>)
    BY <1>10 DEF Carrying, P
  <2> QED BY <2>1, ListNull
<1> DEFINE T == {j \in Nat : n + j <= Fuel => g[n + j] = g[n]}
<1>12. 0 \in T
  BY <1>1
<1>13. ASSUME NEW j \in Nat, j \in T PROVE j + 1 \in T
  <2> SUFFICES ASSUME n + (j + 1) <= Fuel PROVE g[n + (j + 1)] = g[n]
    OBVIOUS
  <2>1. g[n + j] = g[n] /\ n + (j + 1) \in 1..Fuel /\ (n + (j + 1)) - 1 = n + j
    BY <1>1, <1>13
  <2> QED BY <1>4, <1>11, <2>1
<1> HIDE DEF T
<1>14. g[Fuel] = g[n]
  <2>1. Fuel - n \in Nat /\ n + (Fuel - n) = Fuel
    BY <1>1
  <2>2. Fuel - n \in T
    BY <1>12, <1>13, <2>1, SetInduction
  <2>3. n + (Fuel - n) <= Fuel => g[n + (Fuel - n)] = g[n]
    BY <2>2 DEF T
  <2> QED BY <1>1, <2>1, <2>3
<1> QED BY <1>2, <1>10, <1>14 DEF P

(* A push puts a waiter without next on the stack, *)
LEMMA PushStack ==
  ASSUME NEW nx, NEW pv \in [Waiters -> Pointers], NEW w, NEW s, StackOf(nx, pv, w, s),
         NEW v \in Waiters \ ToSet(s), nx[v] = Null, NEW pv2, pv2 = [pv EXCEPT ![v] = w]
  PROVE  StackOf(nx, pv2, v, Append(s, v))
<1> DEFINE n == Len(s)
           t == Append(s, v)
<1>1. s \in Seq(Waiters) /\ NoRepeats(s) /\ n \in Nat /\ w = At(s, n)
  BY DEF StackOf
<1>2. /\ t \in Seq(Waiters) /\ NoRepeats(t) /\ Len(t) = n + 1 /\ t[n + 1] = v
      /\ \A i \in 1..n : t[i] = s[i]
  BY <1>1, AppendLinks
<1> HIDE DEF t
<1>3. \A i \in 0..n : At(t, i) = At(s, i)
  BY <1>1, <1>2 DEF At
<1>4. ASSUME NEW i \in 1..n + 1 PROVE pv2[t[i]] = At(t, i - 1)
  <2>1. CASE i = n + 1
    BY <1>1, <1>2, <1>3, <2>1
  <2>2. CASE i # n + 1
    <3>1. i \in 1..n /\ i - 1 \in 0..n /\ t[i] = s[i]
      BY <1>1, <1>2, <2>2
    <3>2. s[i] \in Waiters /\ s[i] # v
      BY <1>1, <3>1, Places
    <3>3. pv[s[i]] = At(s, i - 1)
      BY <3>1 DEF StackOf
    <3> QED BY <1>3, <3>1, <3>2, <3>3
  <2> QED BY <2>1, <2>2
<1>5. v = At(t, Len(t))
  BY <1>1, <1>2 DEF At
<1> QED BY <1>2, <1>4, <1>5 DEF StackOf, t

(* and a requeue puts a list on it. *)
LEMMA RequeueStack ==
  ASSUME NEW nx, NEW pv \in [Waiters -> Pointers], NEW w, NEW s, StackOf(nx, pv, w, s),
         NEW l, NEW t, ListOf(nx, pv, l, t), t # <<>>, ToSet(s) \intersect ToSet(t) = {},
         NEW pv2, pv2 = [pv EXCEPT ![l.head] = w]
  PROVE  StackOf(nx, pv2, l.tail, s \o t) /\ l.head \in ToSet(t)
<1> DEFINE n == Len(s)
           k == Len(t)
           u == s \o t
<1>1. /\ s \in Seq(Waiters) /\ NoRepeats(s) /\ n \in Nat /\ w = At(s, n)
      /\ t \in Seq(Waiters) /\ NoRepeats(t) /\ k \in Nat \ {0} /\ 1 \in 1..k /\ k \in 1..k
  BY DEF StackOf, ListOf
<1>2. /\ u \in Seq(Waiters) /\ NoRepeats(u)
      /\ Len(u) = n + k /\ \A i \in 1..n : u[i] = s[i]
      /\ \A i \in 1..k : u[n + i] = t[i]
  <2>1. u \in Seq(Waiters) /\ NoRepeats(u)
    BY <1>1, ConcatLinks
  <2>2. Len(u) = n + k /\ \A i \in 1..n + k : u[i] = IF i <= n THEN s[i] ELSE t[i - n]
    BY <1>1, ConcatProperties
  <2> HIDE DEF u
  <2>3. ASSUME NEW i \in 1..k PROVE u[n + i] = t[i]
    <3>1. n + i \in 1..n + k /\ ~(n + i <= n) /\ (n + i) - n = i
      BY <1>1
    <3> QED BY <2>2, <3>1
  <2> QED BY <1>1, <2>1, <2>2, <2>3
<1> HIDE DEF u
<1>3. l.head = t[1] /\ l.tail = t[k] /\ t[1] \in Waiters /\ t[1] \in ToSet(t)
  <2>1. l.head = At(t, 1) /\ l.tail = At(t, k)
    BY DEF ListOf
  <2> QED BY <1>1, <2>1, Places
<1>4. \A i \in 0..n : At(u, i) = At(s, i)
  BY <1>1, <1>2 DEF At
<1>5. \A i \in 1..k : At(u, n + i) = t[i]
  BY <1>1, <1>2 DEF At
<1>6. ASSUME NEW i \in 1..n PROVE pv2[u[i]] = At(u, i - 1)
  <2>1. u[i] = s[i] /\ i - 1 \in 0..n /\ pv[s[i]] = At(s, i - 1)
    BY <1>1, <1>2 DEF StackOf
  <2>2. s[i] \in Waiters /\ s[i] # t[1]
    BY <1>1, <1>3, Places
  <2> QED BY <1>3, <1>4, <2>1, <2>2
<1>7. ASSUME NEW j \in 1..k PROVE pv2[u[n + j]] = At(u, (n + j) - 1)
  <2>1. u[n + j] = t[j] /\ pv[t[j]] = At(t, j - 1) /\ t[j] \in Waiters
    BY <1>1, <1>2, Places DEF ListOf
  <2>2. CASE j = 1
    <3>1. (n + j) - 1 = n /\ n \in 0..n
      BY <1>1, <2>2
    <3> QED BY <1>1, <1>3, <1>4, <2>1, <2>2, <3>1
  <2>3. CASE j # 1
    <3>1. j - 1 \in 1..k /\ (n + j) - 1 = n + (j - 1)
      BY <1>1, <2>3
    <3>2. At(t, j - 1) = t[j - 1] /\ At(u, (n + j) - 1) = t[j - 1]
      BY <1>1, <1>5, <3>1, Places
    <3>3. t[j] # t[1]
      BY <1>1, <2>3, Places
    <3> QED BY <1>3, <2>1, <3>2, <3>3
  <2> QED BY <2>2, <2>3
<1>8. ASSUME NEW i \in 1..n + k PROVE pv2[u[i]] = At(u, i - 1)
  <2>1. CASE i <= n
    BY <1>1, <1>6, <2>1
  <2>2. CASE i > n
    <3>1. i - n \in 1..k /\ n + (i - n) = i
      BY <1>1, <2>2
    <3>2. pv2[u[n + (i - n)]] = At(u, (n + (i - n)) - 1)
      BY <1>7, <3>1
    <3> QED BY <3>1, <3>2
  <2> QED BY <1>1, <2>1, <2>2
<1>9. l.tail = At(u, Len(u)) /\ u[Len(u)] = t[k] /\ nx[t[k]] = Null
  <2>1. At(u, n + k) = t[k] /\ u[n + k] = t[k]
    BY <1>1, <1>2, <1>5
  <2>2. nx[t[k]] = At(t, k + 1)
    BY <1>1 DEF ListOf
  <2>3. At(t, k + 1) = Null
    BY <1>1 DEF At
  <2> QED BY <1>2, <1>3, <2>1, <2>2, <2>3
<1> QED BY <1>2, <1>3, <1>8, <1>9 DEF StackOf, u

-----------------------------------------------------------------------------
(* The invariant. *)

(* The lines of waiters that FutexQueues speaks of. *)
Arrived == [f \in Futexes |-> Reverse(Walk(prev, inbox[f]))]
Queued  == [f \in Futexes |-> [q \in Queues |-> Walk(next, queue[f][q].head)]]
Popped  == [f \in Futexes |-> Walk(next, handles[f].head)]

ListTypeOK ==
  /\ next \in [Waiters -> Pointers] /\ prev \in [Waiters -> Pointers]
  /\ inbox \in [Futexes -> Pointers]
  /\ queue \in [Futexes -> [Queues -> Lists]]
  /\ handles \in [Futexes -> Lists]
  /\ owner \in [Waiters -> Futexes \union {Null}]
  /\ place \in [Waiters -> {"out", "in", "woken"}]

(* Every pointer the futexes have leads along a sound line. *)
Carried(nx, pv, ib, qu, hs, I, Q, H) ==
  /\ I \in [Futexes -> Seq(Waiters)] /\ H \in [Futexes -> Seq(Waiters)]
  /\ Q \in [Futexes -> [Queues -> Seq(Waiters)]]
  /\ \A f \in Futexes : StackOf(nx, pv, ib[f], I[f])
  /\ \A f \in Futexes : ListOf(nx, pv, hs[f], H[f])
  /\ \A f \in Futexes : \A q \in Queues : ListOf(nx, pv, qu[f][q], Q[f][q])

(* A waiter stands in one line, of the futex it points to; in the queues, in
   the one it asks for. *)
Placed(I, Q, H, pl, ow) ==
  /\ \A f \in Futexes : \A w \in ToSet(I[f]) : pl[w] = "in" /\ ow[w] = f /\ w \notin ToSet(H[f])
  /\ \A f \in Futexes : \A w \in ToSet(H[f]) : pl[w] = "in" /\ ow[w] = f
  /\ \A f \in Futexes : \A q \in Queues : \A w \in ToSet(Q[f][q]) :
       /\ pl[w] = "in" /\ ow[w] = f /\ QueueOf[w] = q
       /\ w \notin ToSet(I[f]) /\ w \notin ToSet(H[f])
  /\ \A w \in Waiters : pl[w] = "in" =>
       \E f \in Futexes : \/ w \in ToSet(I[f]) \/ w \in ToSet(H[f])
                          \/ \E q \in Queues : w \in ToSet(Q[f][q])

(* A waiter in no line has no links; one that has been woken knows its futex. *)
Loose(nx, pv, pl, ow) ==
  \A w \in Waiters : /\ pl[w] # "in" => nx[w] = Null /\ pv[w] = Null
                     /\ pl[w] = "woken" => ow[w] \in Futexes

ListIInv ==
  /\ ListTypeOK
  /\ Carried(next, prev, inbox, queue, handles, Arrived, Queued, Popped)
  /\ Placed(Arrived, Queued, Popped, place, owner)
  /\ Loose(next, prev, place, owner)

(* The lines of the next state, once found, are what the pointers say. *)
LEMMA Moved ==
  ASSUME ListTypeOK', NEW I, NEW Q, NEW H,
         Carried(next', prev', inbox', queue', handles', I, Q, H),
         Placed(I, Q, H, place', owner'), Loose(next', prev', place', owner')
  PROVE  ListIInv' /\ Arrived' = I /\ Queued' = Q /\ Popped' = H
<1>1. next' \in [Waiters -> Pointers] /\ prev' \in [Waiters -> Pointers]
  BY DEF ListTypeOK
<1>2. /\ I \in [Futexes -> Seq(Waiters)] /\ H \in [Futexes -> Seq(Waiters)]
      /\ Q \in [Futexes -> [Queues -> Seq(Waiters)]]
  BY DEF Carried
<1>3. Arrived' = I
  <2>1. ASSUME NEW f \in Futexes PROVE Reverse(Walk(prev', inbox'[f])) = I[f]
    BY <1>1, StackWalked DEF Carried
  <2> QED BY <1>2, <2>1 DEF Arrived
<1>4. Queued' = Q
  <2>1. ASSUME NEW f \in Futexes, NEW q \in Queues PROVE Walk(next', queue'[f][q].head) = Q[f][q]
    BY <1>1, ListWalked DEF Carried
  <2>2. Q = [f \in Futexes |-> [q \in Queues |-> Q[f][q]]]
    BY <1>2
  <2> QED BY <2>1, <2>2 DEF Queued
<1>5. Popped' = H
  <2>1. ASSUME NEW f \in Futexes PROVE Walk(next', handles'[f].head) = H[f]
    BY <1>1, ListWalked DEF Carried
  <2> QED BY <1>2, <2>1 DEF Popped
<1> QED BY <1>3, <1>4, <1>5 DEF ListIInv

(* What the invariant says, a fact at a time. *)
LEMMA Facts ==
  ASSUME ListIInv
  PROVE  /\ ListTypeOK
         /\ Arrived \in [Futexes -> Seq(Waiters)] /\ Popped \in [Futexes -> Seq(Waiters)]
         /\ Queued \in [Futexes -> [Queues -> Seq(Waiters)]]
         /\ \A f \in Futexes : StackOf(next, prev, inbox[f], Arrived[f])
         /\ \A f \in Futexes : ListOf(next, prev, handles[f], Popped[f])
         /\ \A f \in Futexes : \A q \in Queues : ListOf(next, prev, queue[f][q], Queued[f][q])
BY DEF ListIInv, Carried

(* Lines whose waiters keep their links are still carried. *)
Touched(nx, pv, X) == \A w \in Waiters : w \notin X => nx[w] = next[w] /\ pv[w] = prev[w]
Apart(s, X) == ToSet(s) \intersect X = {}

(* A line that a step does not touch is carried on. *)
LEMMA Kept ==
  ASSUME ListIInv, NEW nx, NEW pv, NEW X, Touched(nx, pv, X), NEW f \in Futexes
  PROVE  /\ Apart(Arrived[f], X) => StackOf(nx, pv, inbox[f], Arrived[f])
         /\ Apart(Popped[f], X) => ListOf(nx, pv, handles[f], Popped[f])
         /\ \A q \in Queues : Apart(Queued[f][q], X) => ListOf(nx, pv, queue[f][q], Queued[f][q])
<1>1. /\ Arrived[f] \in Seq(Waiters) /\ Popped[f] \in Seq(Waiters)
      /\ \A q \in Queues : Queued[f][q] \in Seq(Waiters)
      /\ StackOf(next, prev, inbox[f], Arrived[f]) /\ ListOf(next, prev, handles[f], Popped[f])
      /\ \A q \in Queues : ListOf(next, prev, queue[f][q], Queued[f][q])
  BY Facts
<1>2. ASSUME Apart(Arrived[f], X) PROVE StackOf(nx, pv, inbox[f], Arrived[f])
  <2>1. \A w \in ToSet(Arrived[f]) : nx[w] = next[w] /\ pv[w] = prev[w]
    BY <1>1, <1>2, ToSetMembers DEF Touched, Apart
  <2> QED BY <1>1, <2>1, StackFrame
<1>3. ASSUME Apart(Popped[f], X) PROVE ListOf(nx, pv, handles[f], Popped[f])
  <2>1. \A w \in ToSet(Popped[f]) : nx[w] = next[w] /\ pv[w] = prev[w]
    BY <1>1, <1>3, ToSetMembers DEF Touched, Apart
  <2> QED BY <1>1, <2>1, ListFrame
<1>4. ASSUME NEW q \in Queues, Apart(Queued[f][q], X)
      PROVE  ListOf(nx, pv, queue[f][q], Queued[f][q])
  <2>1. \A w \in ToSet(Queued[f][q]) : nx[w] = next[w] /\ pv[w] = prev[w]
    <3>1. ToSet(Queued[f][q]) \subseteq Waiters
      BY <1>1, ToSetMembers
    <3> QED BY <1>4, <3>1 DEF Touched, Apart
  <2> QED BY <1>1, <2>1, ListFrame
<1> QED BY <1>2, <1>3, <1>4

(* No list has anybody at first. *)
LEMMA ListInitialised ==
  ASSUME ListInit
  PROVE  /\ ListIInv
         /\ Arrived = [f \in Futexes |-> <<>>] /\ Popped = [f \in Futexes |-> <<>>]
         /\ Queued = [f \in Futexes |-> [q \in Queues |-> <<>>]]
<1>1. ListTypeOK
  BY DEF ListInit, ListTypeOK, Pointers, Lists, Empty
<1>2. ASSUME NEW f \in Futexes
      PROVE  /\ StackOf(next, prev, inbox[f], <<>>) /\ ListOf(next, prev, handles[f], <<>>)
             /\ \A q \in Queues : ListOf(next, prev, queue[f][q], <<>>)
  BY NobodyListed DEF ListInit
<1>3. /\ Arrived = [f \in Futexes |-> <<>>] /\ Popped = [f \in Futexes |-> <<>>]
      /\ Queued = [f \in Futexes |-> [q \in Queues |-> <<>>]]
  <2>1. next \in [Waiters -> Pointers] /\ prev \in [Waiters -> Pointers]
    BY <1>1 DEF ListTypeOK
  <2>2. ASSUME NEW f \in Futexes PROVE Reverse(Walk(prev, inbox[f])) = <<>>
    BY <1>2, <2>1, StackWalked
  <2>3. ASSUME NEW f \in Futexes PROVE Walk(next, handles[f].head) = <<>>
    BY <1>2, <2>1, ListWalked
  <2>4. ASSUME NEW f \in Futexes, NEW q \in Queues PROVE Walk(next, queue[f][q].head) = <<>>
    BY <1>2, <2>1, ListWalked
  <2> QED BY <2>2, <2>3, <2>4 DEF Arrived, Popped, Queued
<1>4. Carried(next, prev, inbox, queue, handles, Arrived, Queued, Popped)
  <2>1. <<>> \in Seq(Waiters)
    OBVIOUS
  <2> QED BY <1>2, <1>3, <2>1 DEF Carried
<1>5. Placed(Arrived, Queued, Popped, place, owner)
  BY <1>3, EmptyLinks DEF Placed, ListInit
<1>6. Loose(next, prev, place, owner)
  BY DEF Loose, ListInit
<1> QED BY <1>1, <1>3, <1>4, <1>5, <1>6 DEF ListIInv

-----------------------------------------------------------------------------
(* The actions.  Each keeps the invariant and is a step of FutexQueues. *)

(* A waiter that is not in a list is in no line. *)
LEMMA NotInLine ==
  ASSUME ListIInv, NEW w, place[w] # "in", NEW f \in Futexes
  PROVE  /\ w \notin ToSet(Arrived[f]) /\ w \notin ToSet(Popped[f])
         /\ \A q \in Queues : w \notin ToSet(Queued[f][q])
BY DEF ListIInv, Placed

(* No waiter is in two lines. *)
LEMMA LinesApart ==
  ASSUME ListIInv, NEW f \in Futexes, NEW g \in Futexes
  PROVE  /\ Apart(Arrived[f], ToSet(Popped[g])) /\ Apart(Popped[f], ToSet(Arrived[g]))
         /\ f # g => Apart(Arrived[f], ToSet(Arrived[g])) /\ Apart(Popped[f], ToSet(Popped[g]))
         /\ \A q \in Queues :
              /\ Apart(Queued[f][q], ToSet(Arrived[g])) /\ Apart(Arrived[f], ToSet(Queued[g][q]))
              /\ Apart(Queued[f][q], ToSet(Popped[g])) /\ Apart(Popped[f], ToSet(Queued[g][q]))
         /\ \A q, r \in Queues : ~(f = g /\ q = r) => Apart(Queued[f][q], ToSet(Queued[g][r]))
<1>1. Placed(Arrived, Queued, Popped, place, owner)
  BY DEF ListIInv
<1>2. /\ \A h \in Futexes : \A w \in ToSet(Arrived[h]) : owner[w] = h /\ w \notin ToSet(Popped[h])
      /\ \A h \in Futexes : \A w \in ToSet(Popped[h]) : owner[w] = h
      /\ \A h \in Futexes : \A q \in Queues : \A w \in ToSet(Queued[h][q]) :
           owner[w] = h /\ QueueOf[w] = q /\ w \notin ToSet(Arrived[h]) /\ w \notin ToSet(Popped[h])
  BY <1>1 DEF Placed
<1>3. Apart(Arrived[f], ToSet(Popped[g])) /\ Apart(Popped[f], ToSet(Arrived[g]))
  BY <1>2 DEF Apart
<1>4. f # g => Apart(Arrived[f], ToSet(Arrived[g])) /\ Apart(Popped[f], ToSet(Popped[g]))
  BY <1>2 DEF Apart
<1>5. ASSUME NEW q \in Queues
      PROVE  /\ Apart(Queued[f][q], ToSet(Arrived[g])) /\ Apart(Arrived[f], ToSet(Queued[g][q]))
             /\ Apart(Queued[f][q], ToSet(Popped[g])) /\ Apart(Popped[f], ToSet(Queued[g][q]))
  <2>1. ASSUME NEW w, w \in ToSet(Queued[f][q]), w \in ToSet(Arrived[g]) PROVE FALSE
    BY <1>2, <2>1
  <2>2. ASSUME NEW w, w \in ToSet(Queued[g][q]), w \in ToSet(Arrived[f]) PROVE FALSE
    BY <1>2, <2>2
  <2>3. ASSUME NEW w, w \in ToSet(Queued[f][q]), w \in ToSet(Popped[g]) PROVE FALSE
    BY <1>2, <2>3
  <2>4. ASSUME NEW w, w \in ToSet(Queued[g][q]), w \in ToSet(Popped[f]) PROVE FALSE
    BY <1>2, <2>4
  <2> QED BY <2>1, <2>2, <2>3, <2>4 DEF Apart
<1>6. ASSUME NEW q \in Queues, NEW r \in Queues, ~(f = g /\ q = r)
      PROVE  Apart(Queued[f][q], ToSet(Queued[g][r]))
  <2>1. ASSUME NEW w, w \in ToSet(Queued[f][q]), w \in ToSet(Queued[g][r]) PROVE FALSE
    <3>1. owner[w] = f /\ owner[w] = g /\ QueueOf[w] = q /\ QueueOf[w] = r
      BY <1>2, <2>1
    <3> QED BY <1>6, <3>1
  <2> QED BY <2>1 DEF Apart
<1> QED BY <1>3, <1>4, <1>5, <1>6

(* A waiter that begins to wait comes to stand last in the inbox. *)
LEMMA PushKeeps ==
  ASSUME ListIInv, NEW f \in Futexes, NEW w \in Waiters, Push(f, w)
  PROVE  ListIInv' /\ Abstract!Push(f, w)
<1> DEFINE I == [Arrived EXCEPT ![f] = Append(@, w)]
<1>1. /\ place[w] = "out" /\ prev' = [prev EXCEPT ![w] = inbox[f]]
      /\ inbox' = [inbox EXCEPT ![f] = w] /\ owner' = [owner EXCEPT ![w] = f]
      /\ place' = [place EXCEPT ![w] = "in"] /\ UNCHANGED <<next, queue, handles>>
  BY DEF Push
<1>2. /\ ListTypeOK /\ Placed(Arrived, Queued, Popped, place, owner) /\ Loose(next, prev, place, owner)
  BY DEF ListIInv
<1>3. \A g \in Futexes : /\ w \notin ToSet(Arrived[g]) /\ w \notin ToSet(Popped[g])
                         /\ \A q \in Queues : w \notin ToSet(Queued[g][q])
  BY <1>1, NotInLine
<1>4. ListTypeOK'
  BY <1>1, <1>2 DEF ListTypeOK, Pointers
<1>5. /\ Arrived[f] \in Seq(Waiters) /\ I \in [Futexes -> Seq(Waiters)]
      /\ I[f] = Append(Arrived[f], w) /\ \A g \in Futexes \ {f} : I[g] = Arrived[g]
      /\ ToSet(I[f]) = ToSet(Arrived[f]) \union {w}
  BY Facts, AppendLinks
<1> HIDE DEF I
<1>6. Touched(next', prev', {w})
  BY <1>1, <1>2 DEF ListTypeOK, Touched
<1>0. \A g \in Futexes : /\ Apart(Arrived[g], {w}) /\ Apart(Popped[g], {w})
                         /\ \A q \in Queues : Apart(Queued[g][q], {w})
  BY <1>3 DEF Apart
<1>7. Carried(next', prev', inbox', queue', handles', I, Queued, Popped)
  <2>1. StackOf(next', prev', w, I[f])
    <3>1. next[w] = Null /\ prev \in [Waiters -> Pointers]
      BY <1>1, <1>2 DEF Loose, ListTypeOK
    <3>2. StackOf(next, prev, inbox[f], Arrived[f]) /\ w \in Waiters \ ToSet(Arrived[f])
      BY <1>3, Facts
    <3>3. StackOf(next, prev', w, Append(Arrived[f], w))
      BY <1>1, <3>1, <3>2, PushStack
    <3> QED BY <1>1, <1>5, <3>3
  <2>2. ASSUME NEW g \in Futexes PROVE StackOf(next', prev', inbox'[g], I[g])
    <3>1. CASE g = f
      BY <1>1, <1>2, <2>1, <3>1 DEF ListTypeOK
    <3>2. CASE g # f
      <4>1. StackOf(next', prev', inbox[g], Arrived[g])
        BY <1>0, <1>6, Kept
      <4> QED BY <1>1, <1>2, <1>5, <3>2, <4>1 DEF ListTypeOK
    <3> QED BY <3>1, <3>2
  <2>3. ASSUME NEW g \in Futexes
        PROVE  /\ ListOf(next', prev', handles'[g], Popped[g])
               /\ \A q \in Queues : ListOf(next', prev', queue'[g][q], Queued[g][q])
    BY <1>1, <1>0, <1>6, Kept
  <2> QED BY <1>5, <2>2, <2>3, Facts DEF Carried
<1>8. Placed(I, Queued, Popped, place', owner')
  <2>1. \A v \in Waiters : /\ place'[v] = IF v = w THEN "in" ELSE place[v]
                           /\ owner'[v] = IF v = w THEN f ELSE owner[v]
    BY <1>1, <1>2 DEF ListTypeOK
  <2>2. \A g \in Futexes : /\ ToSet(Arrived[g]) \subseteq Waiters /\ ToSet(Popped[g]) \subseteq Waiters
                           /\ \A q \in Queues : ToSet(Queued[g][q]) \subseteq Waiters
    BY Facts, ToSetMembers
  <2>3. \A g \in Futexes : \A v : v \in ToSet(I[g]) <=> v \in ToSet(Arrived[g]) \/ (g = f /\ v = w)
    BY <1>5
  <2>4. ASSUME NEW g \in Futexes, NEW v \in ToSet(I[g])
        PROVE  place'[v] = "in" /\ owner'[v] = g /\ v \notin ToSet(Popped[g])
    BY <1>2, <1>3, <2>1, <2>2, <2>3, <2>4 DEF Placed
  <2>5. ASSUME NEW g \in Futexes, NEW v \in ToSet(Popped[g])
        PROVE  place'[v] = "in" /\ owner'[v] = g
    BY <1>2, <1>3, <2>1, <2>2 DEF Placed
  <2>6. ASSUME NEW g \in Futexes, NEW q \in Queues, NEW v \in ToSet(Queued[g][q])
        PROVE  /\ place'[v] = "in" /\ owner'[v] = g /\ QueueOf[v] = q
               /\ v \notin ToSet(I[g]) /\ v \notin ToSet(Popped[g])
    <3>1. v \in Waiters /\ v # w
      BY <1>3, <2>2
    <3> QED BY <1>2, <2>1, <2>3, <3>1 DEF Placed
  <2>7. ASSUME NEW v \in Waiters, place'[v] = "in"
        PROVE  \E g \in Futexes : \/ v \in ToSet(I[g]) \/ v \in ToSet(Popped[g])
                                  \/ \E q \in Queues : v \in ToSet(Queued[g][q])
    <3>1. CASE v = w
      BY <2>3, <3>1
    <3>2. CASE v # w
      BY <1>2, <2>1, <2>3, <2>7, <3>2 DEF Placed
    <3> QED BY <3>1, <3>2
  <2> QED BY <2>4, <2>5, <2>6, <2>7 DEF Placed
<1>9. Loose(next', prev', place', owner')
  BY <1>1, <1>2, <1>6 DEF Loose, ListTypeOK, Touched
<1>10. ListIInv' /\ Arrived' = I /\ Queued' = Queued /\ Popped' = Popped
  BY <1>4, <1>7, <1>8, <1>9, Moved
<1>11. Abstract!Push(f, w)
  <2>1. ASSUME NEW g \in Futexes PROVE w \notin Abstract!Everywhere(g)
    <3>1. Abstract!Everywhere(g) = ToSet(Arrived[g]) \union ToSet(Popped[g])
                                   \union UNION {ToSet(Queued[g][q]) : q \in Queues}
      BY DEF Abstract!Everywhere, Abstract!ToSet, ToSet, Arrived, Queued, Popped
    <3> QED BY <1>3, <3>1
  <2> QED BY <1>10, <2>1 DEF Abstract!Push, I, Arrived, Queued, Popped
<1> QED BY <1>10, <1>11

(* A waiter that has returned had no links. *)
LEMMA ReturnKeeps ==
  ASSUME ListIInv, NEW w \in Waiters, Return(w)
  PROVE  ListIInv' /\ UNCHANGED Abstract!vars
<1>1. /\ place[w] = "woken" /\ next' = [next EXCEPT ![w] = Null] /\ prev' = [prev EXCEPT ![w] = Null]
      /\ owner' = [owner EXCEPT ![w] = Null] /\ place' = [place EXCEPT ![w] = "out"]
      /\ UNCHANGED <<inbox, queue, handles>>
  BY DEF Return, Renew
<1>2. /\ ListTypeOK /\ Placed(Arrived, Queued, Popped, place, owner) /\ Loose(next, prev, place, owner)
      /\ Carried(next, prev, inbox, queue, handles, Arrived, Queued, Popped)
  BY DEF ListIInv
<1>3. next' = next /\ prev' = prev
  <2>1. next[w] = Null /\ prev[w] = Null
    BY <1>1, <1>2 DEF Loose
  <2> QED BY <1>1, <1>2, <2>1 DEF ListTypeOK
<1>4. ListTypeOK'
  BY <1>1, <1>2, <1>3 DEF ListTypeOK
<1>5. \A v \in Waiters : /\ place'[v] = IF v = w THEN "out" ELSE place[v]
                         /\ owner'[v] = IF v = w THEN Null ELSE owner[v]
  BY <1>1, <1>2 DEF ListTypeOK
<1>6. Loose(next', prev', place', owner')
  BY <1>1, <1>2, <1>3, <1>5 DEF Loose
<1>7. Placed(Arrived, Queued, Popped, place', owner')
  <2>1. \A g \in Futexes : /\ ToSet(Arrived[g]) \subseteq Waiters /\ ToSet(Popped[g]) \subseteq Waiters
                           /\ \A q \in Queues : ToSet(Queued[g][q]) \subseteq Waiters
    BY Facts, ToSetMembers
  <2>2. \A v \in Waiters : place[v] = "in" => place'[v] = "in" /\ owner'[v] = owner[v]
    BY <1>1, <1>5
  <2>3. \A v \in Waiters : place'[v] = "in" => place[v] = "in"
    BY <1>5
  <2> QED BY <1>2, <2>1, <2>2, <2>3 DEF Placed
<1>8. Carried(next', prev', inbox', queue', handles', Arrived, Queued, Popped)
  BY <1>1, <1>2, <1>3
<1>9. ListIInv' /\ Arrived' = Arrived /\ Queued' = Queued /\ Popped' = Popped
  BY <1>4, <1>6, <1>7, <1>8, Moved
<1> QED BY <1>9 DEF Abstract!vars, Arrived, Queued, Popped

(* A wake takes the first waiter off a queue, *)
LEMMA PopKeeps ==
  ASSUME ListIInv, NEW f \in Futexes, NEW q \in Queues, Pop(f, q)
  PROVE  ListIInv' /\ Abstract!Pop(f, q)
<1> DEFINE l == queue[f][q]
           s == Queued[f][q]
           w == l.head
           m == PopFront(Links(l))
           Q == [Queued EXCEPT ![f][q] = Tail(@)]
<1>1. /\ w # Null /\ next' = m.next /\ prev' = m.prev
      /\ queue' = [queue EXCEPT ![f][q] = m.list] /\ place' = [place EXCEPT ![w] = "woken"]
      /\ UNCHANGED <<inbox, handles, owner>>
  BY DEF Pop
<1>2. /\ ListTypeOK /\ Placed(Arrived, Queued, Popped, place, owner) /\ Loose(next, prev, place, owner)
      /\ next \in [Waiters -> Pointers] /\ prev \in [Waiters -> Pointers] /\ ListOf(next, prev, l, s)
      /\ s \in Seq(Waiters) /\ NoRepeats(s)
  BY Facts DEF ListIInv, ListTypeOK, ListOf
<1>3. s # <<>>
  BY <1>1, <1>2, ListNull
<1>4. m = PopFront([next |-> next, prev |-> prev, list |-> l])
  BY DEF Links
<1> HIDE DEF m, l, s
<1>5. /\ next' \in [Waiters -> Pointers] /\ prev' \in [Waiters -> Pointers]
      /\ ListOf(next', prev', m.list, Tail(s))
      /\ next'[w] = Null /\ prev'[w] = Null /\ w = Head(s)
      /\ \A v \in Waiters \ ToSet(s) : next'[v] = next[v] /\ prev'[v] = prev[v]
  BY <1>1, <1>2, <1>3, <1>4, PopFrontList
<1>6. /\ Tail(s) \in Seq(Waiters) /\ ToSet(Tail(s)) = ToSet(s) \ {w} /\ w \in ToSet(s) /\ w \in Waiters
  BY <1>2, <1>3, <1>5, TailLinks
<1> HIDE DEF w
<1>7. Touched(next', prev', ToSet(s))
  BY <1>5 DEF Touched
<1>8. /\ Q \in [Futexes -> [Queues -> Seq(Waiters)]] /\ Q[f][q] = Tail(s)
      /\ \A g \in Futexes, r \in Queues : ~(g = f /\ r = q) => Q[g][r] = Queued[g][r]
  BY <1>6, Facts DEF s
<1> HIDE DEF Q
<1>9. /\ m.list \in Lists
  <2>1. m.list = [head |-> At(Tail(s), 1), tail |-> At(Tail(s), Len(Tail(s)))]
    BY <1>5 DEF ListOf
  <2>2. \A i \in Int : At(Tail(s), i) \in Pointers
    BY <1>5, <1>6, Places DEF ListOf
  <2>3. 1 \in Int /\ Len(Tail(s)) \in Int
    BY <1>6
  <2> QED BY <2>1, <2>2, <2>3 DEF Lists
<1>10. /\ queue' \in [Futexes -> [Queues -> Lists]] /\ queue'[f][q] = m.list
       /\ \A g \in Futexes, r \in Queues : ~(g = f /\ r = q) => queue'[g][r] = queue[g][r]
  BY <1>1, <1>2, <1>9 DEF ListTypeOK
<1>11. ListTypeOK'
  BY <1>1, <1>2, <1>5, <1>10 DEF ListTypeOK
<1>12. \A g \in Futexes : /\ Apart(Arrived[g], ToSet(s)) /\ Apart(Popped[g], ToSet(s))
                          /\ \A r \in Queues : ~(g = f /\ r = q) => Apart(Queued[g][r], ToSet(s))
  BY LinesApart DEF s
<1>13. Carried(next', prev', inbox', queue', handles', Arrived, Q, Popped)
  <2>1. ASSUME NEW g \in Futexes
        PROVE  /\ StackOf(next', prev', inbox'[g], Arrived[g]) /\ ListOf(next', prev', handles'[g], Popped[g])
               /\ \A r \in Queues : ListOf(next', prev', queue'[g][r], Q[g][r])
    <3>1. StackOf(next', prev', inbox'[g], Arrived[g]) /\ ListOf(next', prev', handles'[g], Popped[g])
      BY <1>1, <1>7, <1>12, Kept
    <3>2. ASSUME NEW r \in Queues PROVE ListOf(next', prev', queue'[g][r], Q[g][r])
      <4>1. CASE g = f /\ r = q
        BY <1>5, <1>8, <1>10, <4>1
      <4>2. CASE ~(g = f /\ r = q)
        <5>1. ListOf(next', prev', queue[g][r], Queued[g][r])
          BY <1>7, <1>12, <4>2, Kept
        <5> QED BY <1>8, <1>10, <4>2, <5>1
      <4> QED BY <4>1, <4>2
    <3> QED BY <3>1, <3>2
  <2> QED BY <1>8, <2>1, Facts DEF Carried
<1>14. \A v \in Waiters : place'[v] = IF v = w THEN "woken" ELSE place[v]
  BY <1>1, <1>2 DEF ListTypeOK
<1>15. Placed(Arrived, Q, Popped, place', owner')
  <2>1. \A g \in Futexes : /\ ToSet(Arrived[g]) \subseteq Waiters /\ ToSet(Popped[g]) \subseteq Waiters
                           /\ \A r \in Queues : ToSet(Queued[g][r]) \subseteq Waiters
    BY Facts, ToSetMembers
  <2>2. \A g \in Futexes, r \in Queues : \A v : v \in ToSet(Q[g][r]) <=> v \in ToSet(Queued[g][r]) /\ ~(g = f /\ r = q /\ v = w)
    BY <1>6, <1>8 DEF s
  <2>3. ASSUME NEW g \in Futexes, NEW r \in Queues, w \in ToSet(Queued[g][r]) PROVE g = f /\ r = q
    BY <1>2, <1>6, <2>3 DEF Placed, s
  <2>4. \A g \in Futexes : w \notin ToSet(Arrived[g]) /\ w \notin ToSet(Popped[g])
    BY <1>6, <1>12 DEF Apart
  <2>5. ASSUME NEW g \in Futexes, NEW v \in ToSet(Arrived[g])
        PROVE  place'[v] = "in" /\ owner'[v] = g /\ v \notin ToSet(Popped[g])
    BY <1>1, <1>2, <1>14, <2>1, <2>4 DEF Placed
  <2>6. ASSUME NEW g \in Futexes, NEW v \in ToSet(Popped[g]) PROVE place'[v] = "in" /\ owner'[v] = g
    BY <1>1, <1>2, <1>14, <2>1, <2>4 DEF Placed
  <2>7. ASSUME NEW g \in Futexes, NEW r \in Queues, NEW v \in ToSet(Q[g][r])
        PROVE  /\ place'[v] = "in" /\ owner'[v] = g /\ QueueOf[v] = r
               /\ v \notin ToSet(Arrived[g]) /\ v \notin ToSet(Popped[g])
    <3>1. v \in ToSet(Queued[g][r]) /\ v \in Waiters /\ v # w
      BY <2>1, <2>2, <2>3
    <3> QED BY <1>1, <1>2, <1>14, <3>1 DEF Placed
  <2>8. ASSUME NEW v \in Waiters, place'[v] = "in"
        PROVE  \E g \in Futexes : \/ v \in ToSet(Arrived[g]) \/ v \in ToSet(Popped[g])
                                  \/ \E r \in Queues : v \in ToSet(Q[g][r])
    <3>1. v # w /\ place[v] = "in"
      BY <1>14, <2>8
    <3>2. PICK g \in Futexes : \/ v \in ToSet(Arrived[g]) \/ v \in ToSet(Popped[g])
                               \/ \E r \in Queues : v \in ToSet(Queued[g][r])
      BY <1>2, <3>1 DEF Placed
    <3>3. \A r \in Queues : v \in ToSet(Queued[g][r]) => v \in ToSet(Q[g][r])
      BY <2>2, <3>1
    <3> QED BY <3>2, <3>3
  <2> QED BY <2>5, <2>6, <2>7, <2>8 DEF Placed
<1>16. Loose(next', prev', place', owner')
  <2> SUFFICES ASSUME NEW v \in Waiters
               PROVE  /\ place'[v] # "in" => next'[v] = Null /\ prev'[v] = Null
                      /\ place'[v] = "woken" => owner'[v] \in Futexes
    BY DEF Loose
  <2>1. CASE v = w
    <3>1. owner[w] = f
      BY <1>2, <1>6 DEF Placed, s
    <3> QED BY <1>1, <1>5, <2>1, <3>1
  <2>2. CASE v # w
    <3>1. ASSUME place[v] # "in" PROVE v \notin ToSet(s)
      BY <3>1, NotInLine DEF s
    <3> QED BY <1>1, <1>2, <1>5, <1>14, <2>2, <3>1 DEF Loose
  <2> QED BY <2>1, <2>2
<1>17. ListIInv' /\ Arrived' = Arrived /\ Queued' = Q /\ Popped' = Popped
  BY <1>11, <1>13, <1>15, <1>16, Moved
<1>18. Abstract!Pop(f, q)
  <2>1. Queued[f][q] # <<>> /\ Queued' = [Queued EXCEPT ![f][q] = Tail(@)]
    BY <1>3, <1>17 DEF s, Q
  <2> QED BY <1>17, <2>1 DEF Abstract!Pop, Arrived, Queued, Popped
<1> QED BY <1>17, <1>18

(* or off the list of a notifier. *)
LEMMA WakeNextKeeps ==
  ASSUME ListIInv, NEW f \in Futexes, WakeNext(f)
  PROVE  ListIInv' /\ Abstract!WakeNext(f)
<1> DEFINE l == handles[f]
           s == Popped[f]
           w == l.head
           m == PopFront(Links(l))
           H == [Popped EXCEPT ![f] = Tail(@)]
<1>1. /\ w # Null /\ next' = m.next /\ prev' = m.prev
      /\ handles' = [handles EXCEPT ![f] = m.list] /\ place' = [place EXCEPT ![w] = "woken"]
      /\ UNCHANGED <<inbox, queue, owner>>
  BY DEF WakeNext
<1>2. /\ ListTypeOK /\ Placed(Arrived, Queued, Popped, place, owner) /\ Loose(next, prev, place, owner)
      /\ next \in [Waiters -> Pointers] /\ prev \in [Waiters -> Pointers] /\ ListOf(next, prev, l, s)
      /\ s \in Seq(Waiters) /\ NoRepeats(s)
  BY Facts DEF ListIInv, ListTypeOK, ListOf
<1>3. s # <<>>
  BY <1>1, <1>2, ListNull
<1>4. m = PopFront([next |-> next, prev |-> prev, list |-> l])
  BY DEF Links
<1> HIDE DEF m, l, s
<1>5. /\ next' \in [Waiters -> Pointers] /\ prev' \in [Waiters -> Pointers]
      /\ ListOf(next', prev', m.list, Tail(s))
      /\ next'[w] = Null /\ prev'[w] = Null /\ w = Head(s)
      /\ \A v \in Waiters \ ToSet(s) : next'[v] = next[v] /\ prev'[v] = prev[v]
  BY <1>1, <1>2, <1>3, <1>4, PopFrontList
<1>6. /\ Tail(s) \in Seq(Waiters) /\ ToSet(Tail(s)) = ToSet(s) \ {w} /\ w \in ToSet(s) /\ w \in Waiters
  BY <1>2, <1>3, <1>5, TailLinks
<1> HIDE DEF w
<1>7. Touched(next', prev', ToSet(s))
  BY <1>5 DEF Touched
<1>8. /\ H \in [Futexes -> Seq(Waiters)] /\ H[f] = Tail(s)
      /\ \A g \in Futexes \ {f} : H[g] = Popped[g]
  BY <1>6, Facts DEF s
<1> HIDE DEF H
<1>9. m.list \in Lists
  <2>1. m.list = [head |-> At(Tail(s), 1), tail |-> At(Tail(s), Len(Tail(s)))]
    BY <1>5 DEF ListOf
  <2>2. \A i \in Int : At(Tail(s), i) \in Pointers
    BY <1>5, <1>6, Places DEF ListOf
  <2>3. 1 \in Int /\ Len(Tail(s)) \in Int
    BY <1>6
  <2> QED BY <2>1, <2>2, <2>3 DEF Lists
<1>10. /\ handles' \in [Futexes -> Lists] /\ handles'[f] = m.list
       /\ \A g \in Futexes \ {f} : handles'[g] = handles[g]
  BY <1>1, <1>2, <1>9 DEF ListTypeOK
<1>11. ListTypeOK'
  BY <1>1, <1>2, <1>5, <1>10 DEF ListTypeOK
<1>12. \A g \in Futexes : /\ Apart(Arrived[g], ToSet(s)) /\ (g # f => Apart(Popped[g], ToSet(s)))
                          /\ \A r \in Queues : Apart(Queued[g][r], ToSet(s))
  BY LinesApart DEF s
<1>13. Carried(next', prev', inbox', queue', handles', Arrived, Queued, H)
  <2>1. ASSUME NEW g \in Futexes
        PROVE  /\ StackOf(next', prev', inbox'[g], Arrived[g]) /\ ListOf(next', prev', handles'[g], H[g])
               /\ \A r \in Queues : ListOf(next', prev', queue'[g][r], Queued[g][r])
    <3>1. /\ StackOf(next', prev', inbox'[g], Arrived[g])
          /\ \A r \in Queues : ListOf(next', prev', queue'[g][r], Queued[g][r])
      BY <1>1, <1>7, <1>12, Kept
    <3>2. ListOf(next', prev', handles'[g], H[g])
      <4>1. CASE g = f
        BY <1>5, <1>8, <1>10, <4>1
      <4>2. CASE g # f
        <5>1. ListOf(next', prev', handles[g], Popped[g])
          BY <1>7, <1>12, <4>2, Kept
        <5> QED BY <1>8, <1>10, <4>2, <5>1
      <4> QED BY <4>1, <4>2
    <3> QED BY <3>1, <3>2
  <2> QED BY <1>8, <2>1, Facts DEF Carried
<1>14. \A v \in Waiters : place'[v] = IF v = w THEN "woken" ELSE place[v]
  BY <1>1, <1>2 DEF ListTypeOK
<1>15. Placed(Arrived, Queued, H, place', owner')
  <2>1. \A g \in Futexes : /\ ToSet(Arrived[g]) \subseteq Waiters /\ ToSet(Popped[g]) \subseteq Waiters
                           /\ \A r \in Queues : ToSet(Queued[g][r]) \subseteq Waiters
    BY Facts, ToSetMembers
  <2>2. \A g \in Futexes : \A v : v \in ToSet(H[g]) <=> v \in ToSet(Popped[g]) /\ ~(g = f /\ v = w)
    BY <1>6, <1>8 DEF s
  <2>3. ASSUME NEW g \in Futexes, w \in ToSet(Popped[g]) PROVE g = f
    <3>1. owner[w] = g /\ owner[w] = f
      BY <1>2, <1>6, <2>3 DEF Placed, s
    <3> QED BY <3>1
  <2>4. \A g \in Futexes : /\ w \notin ToSet(Arrived[g])
                           /\ \A r \in Queues : w \notin ToSet(Queued[g][r])
    BY <1>6, <1>12 DEF Apart
  <2>5. ASSUME NEW g \in Futexes, NEW v \in ToSet(Arrived[g])
        PROVE  place'[v] = "in" /\ owner'[v] = g /\ v \notin ToSet(H[g])
    <3>1. v \in Waiters /\ v # w
      BY <2>1, <2>4
    <3>2. place[v] = "in" /\ owner[v] = g /\ v \notin ToSet(Popped[g])
      BY <1>2 DEF Placed
    <3> QED BY <1>1, <1>14, <2>2, <3>1, <3>2
  <2>6. ASSUME NEW g \in Futexes, NEW v \in ToSet(H[g]) PROVE place'[v] = "in" /\ owner'[v] = g
    <3>1. v \in ToSet(Popped[g]) /\ v \in Waiters /\ v # w
      BY <2>1, <2>2, <2>3
    <3> QED BY <1>1, <1>2, <1>14, <3>1 DEF Placed
  <2>7. ASSUME NEW g \in Futexes, NEW r \in Queues, NEW v \in ToSet(Queued[g][r])
        PROVE  /\ place'[v] = "in" /\ owner'[v] = g /\ QueueOf[v] = r
               /\ v \notin ToSet(Arrived[g]) /\ v \notin ToSet(H[g])
    <3>1. v \in Waiters /\ v # w
      BY <2>1, <2>4
    <3>2. /\ place[v] = "in" /\ owner[v] = g /\ QueueOf[v] = r
          /\ v \notin ToSet(Arrived[g]) /\ v \notin ToSet(Popped[g])
      BY <1>2 DEF Placed
    <3> QED BY <1>1, <1>14, <2>2, <3>1, <3>2
  <2>8. ASSUME NEW v \in Waiters, place'[v] = "in"
        PROVE  \E g \in Futexes : \/ v \in ToSet(Arrived[g]) \/ v \in ToSet(H[g])
                                  \/ \E r \in Queues : v \in ToSet(Queued[g][r])
    <3>1. v # w /\ place[v] = "in"
      BY <1>14, <2>8
    <3>2. PICK g \in Futexes : \/ v \in ToSet(Arrived[g]) \/ v \in ToSet(Popped[g])
                               \/ \E r \in Queues : v \in ToSet(Queued[g][r])
      BY <1>2, <3>1 DEF Placed
    <3> QED BY <2>2, <3>1, <3>2
  <2> QED BY <2>5, <2>6, <2>7, <2>8 DEF Placed
<1>16. Loose(next', prev', place', owner')
  <2> SUFFICES ASSUME NEW v \in Waiters
               PROVE  /\ place'[v] # "in" => next'[v] = Null /\ prev'[v] = Null
                      /\ place'[v] = "woken" => owner'[v] \in Futexes
    BY DEF Loose
  <2>1. CASE v = w
    <3>1. owner[w] = f
      BY <1>2, <1>6 DEF Placed, s
    <3> QED BY <1>1, <1>5, <2>1, <3>1
  <2>2. CASE v # w
    <3>1. ASSUME place[v] # "in" PROVE v \notin ToSet(s)
      BY <3>1, NotInLine DEF s
    <3> QED BY <1>1, <1>2, <1>5, <1>14, <2>2, <3>1 DEF Loose
  <2> QED BY <2>1, <2>2
<1>17. ListIInv' /\ Arrived' = Arrived /\ Queued' = Queued /\ Popped' = H
  BY <1>11, <1>13, <1>15, <1>16, Moved
<1>18. Abstract!WakeNext(f)
  <2>1. Popped[f] # <<>> /\ Popped' = [Popped EXCEPT ![f] = Tail(@)]
    BY <1>3, <1>17 DEF s, H
  <2> QED BY <1>17, <2>1 DEF Abstract!WakeNext, Arrived, Queued, Popped
<1> QED BY <1>17, <1>18

(* wake and requeue take the first waiters of a queue together. *)
LEMMA PopManyKeeps ==
  ASSUME ListIInv, NEW f \in Futexes, NEW q \in Queues, NEW n \in Nat \ {0}, PopMany(f, q, n),
         NEW k, k = IF n < Len(Queued[f][q]) THEN n ELSE Len(Queued[f][q])
  PROVE  ListIInv' /\ Abstract!PopMany(f, q, k) /\ k \in 1..Cardinality(Waiters)
<1> DEFINE l == queue[f][q]
           s == Queued[f][q]
           m == PopFrontMany(l, n)
           a == SubSeq(s, 1, k)
           b == SubSeq(s, k + 1, Len(s))
           Q == [Queued EXCEPT ![f][q] = b]
           H == [Popped EXCEPT ![f] = a]
<1>1. /\ handles[f] = Empty /\ l.head # Null /\ next' = m.next /\ prev' = m.prev
      /\ queue' = [queue EXCEPT ![f][q] = m.list] /\ handles' = [handles EXCEPT ![f] = m.taken]
      /\ UNCHANGED <<inbox, owner, place>>
  BY DEF PopMany
<1>2. /\ ListTypeOK /\ Placed(Arrived, Queued, Popped, place, owner) /\ Loose(next, prev, place, owner)
      /\ next \in [Waiters -> Pointers] /\ prev \in [Waiters -> Pointers] /\ ListOf(next, prev, l, s)
      /\ s \in Seq(Waiters) /\ NoRepeats(s)
  BY Facts DEF ListIInv, ListTypeOK, ListOf
<1>3. s # <<>> /\ Popped[f] = <<>>
  BY <1>1, <1>2, Facts, ListNull
<1>4. k \in 1..Cardinality(Waiters) /\ k \in 0..Len(s) /\ k <= Len(s)
  BY <1>2, <1>3, LineFits
<1>5. k = IF n < Len(s) THEN n ELSE Len(s)
  OBVIOUS
<1> HIDE DEF m, l, s
<1>6. m = PopFrontMany(l, n)
  BY DEF m
<1>7. /\ m.next \in [Waiters -> Pointers] /\ m.prev \in [Waiters -> Pointers]
      /\ ListOf(m.next, m.prev, m.taken, a) /\ ListOf(m.next, m.prev, m.list, b)
      /\ \A w \in Waiters \ ToSet(s) : m.next[w] = next[w] /\ m.prev[w] = prev[w]
  BY <1>2, <1>5, <1>6, PopFrontManyList
<1>8. /\ a \in Seq(Waiters) /\ b \in Seq(Waiters) /\ ToSet(s) = ToSet(a) \union ToSet(b)
      /\ ToSet(a) \intersect ToSet(b) = {}
  <2>1. a \in Seq(Waiters) /\ b \in Seq(Waiters) /\ a \o b = s
    BY <1>2, <1>4, SplitLinks
  <2> HIDE DEF a, b
  <2> QED BY <1>2, <2>1, ConcatLinks
<1> HIDE DEF a, b
<1>9. Touched(next', prev', ToSet(s))
  BY <1>1, <1>7 DEF Touched
<1>10. /\ Q \in [Futexes -> [Queues -> Seq(Waiters)]] /\ Q[f][q] = b
       /\ \A g \in Futexes, r \in Queues : ~(g = f /\ r = q) => Q[g][r] = Queued[g][r]
       /\ H \in [Futexes -> Seq(Waiters)] /\ H[f] = a
       /\ \A g \in Futexes \ {f} : H[g] = Popped[g]
  BY <1>8, Facts
<1> HIDE DEF Q, H
<1>11. ASSUME NEW j, NEW t, ListOf(m.next, m.prev, j, t) PROVE j \in Lists
  <2>1. j = [head |-> At(t, 1), tail |-> At(t, Len(t))] /\ t \in Seq(Waiters) /\ NoRepeats(t)
    BY <1>11 DEF ListOf
  <2>2. \A i \in Int : At(t, i) \in Pointers
    BY <2>1, Places
  <2>3. 1 \in Int /\ Len(t) \in Int
    BY <2>1
  <2> QED BY <2>1, <2>2, <2>3 DEF Lists
<1>12. m.list \in Lists /\ m.taken \in Lists
  BY <1>7, <1>11
<1>13. /\ queue' \in [Futexes -> [Queues -> Lists]] /\ queue'[f][q] = m.list
       /\ \A g \in Futexes, r \in Queues : ~(g = f /\ r = q) => queue'[g][r] = queue[g][r]
       /\ handles' \in [Futexes -> Lists] /\ handles'[f] = m.taken
       /\ \A g \in Futexes \ {f} : handles'[g] = handles[g]
  BY <1>1, <1>2, <1>12 DEF ListTypeOK
<1>14. ListTypeOK'
  BY <1>1, <1>2, <1>7, <1>13 DEF ListTypeOK
<1>15. \A g \in Futexes : /\ Apart(Arrived[g], ToSet(s)) /\ Apart(Popped[g], ToSet(s))
                          /\ \A r \in Queues : ~(g = f /\ r = q) => Apart(Queued[g][r], ToSet(s))
  BY LinesApart DEF s
<1>16. Carried(next', prev', inbox', queue', handles', Arrived, Q, H)
  <2>1. ASSUME NEW g \in Futexes
        PROVE  /\ StackOf(next', prev', inbox'[g], Arrived[g]) /\ ListOf(next', prev', handles'[g], H[g])
               /\ \A r \in Queues : ListOf(next', prev', queue'[g][r], Q[g][r])
    <3>1. StackOf(next', prev', inbox'[g], Arrived[g]) /\ ListOf(next', prev', handles[g], Popped[g])
      BY <1>1, <1>9, <1>15, Kept
    <3>2. ListOf(next', prev', handles'[g], H[g])
      BY <1>1, <1>7, <1>10, <1>13, <3>1
    <3>3. ASSUME NEW r \in Queues PROVE ListOf(next', prev', queue'[g][r], Q[g][r])
      <4>1. CASE g = f /\ r = q
        BY <1>1, <1>7, <1>10, <1>13, <4>1
      <4>2. CASE ~(g = f /\ r = q)
        <5>1. ListOf(next', prev', queue[g][r], Queued[g][r])
          BY <1>9, <1>15, <4>2, Kept
        <5> QED BY <1>10, <1>13, <4>2, <5>1
      <4> QED BY <4>1, <4>2
    <3> QED BY <3>1, <3>2, <3>3
  <2> QED BY <1>10, <2>1, Facts DEF Carried
<1>17. Placed(Arrived, Q, H, place', owner')
  <2>1. \A g \in Futexes, r \in Queues : \A v :
          v \in ToSet(Q[g][r]) => v \in ToSet(Queued[g][r]) /\ (g = f /\ r = q => v \in ToSet(b))
    BY <1>8, <1>10 DEF s
  <2>2. \A g \in Futexes : \A v : v \in ToSet(H[g]) <=> v \in ToSet(Popped[g]) \/ (g = f /\ v \in ToSet(a))
    BY <1>3, <1>10, EmptyLinks
  <2>3. ASSUME NEW v \in ToSet(a)
        PROVE  v \in ToSet(Queued[f][q]) /\ v \notin ToSet(b)
    BY <1>8 DEF s
  <2>4. ASSUME NEW g \in Futexes, NEW v \in ToSet(Arrived[g])
        PROVE  place'[v] = "in" /\ owner'[v] = g /\ v \notin ToSet(H[g])
    <3>1. v \notin ToSet(a)
      BY <1>15, <2>3 DEF Apart, s
    <3> QED BY <1>1, <1>2, <2>2, <3>1 DEF Placed
  <2>5. ASSUME NEW g \in Futexes, NEW v \in ToSet(H[g]) PROVE place'[v] = "in" /\ owner'[v] = g
    BY <1>1, <1>2, <2>2, <2>3 DEF Placed
  <2>6. ASSUME NEW g \in Futexes, NEW r \in Queues, NEW v \in ToSet(Q[g][r])
        PROVE  /\ place'[v] = "in" /\ owner'[v] = g /\ QueueOf[v] = r
               /\ v \notin ToSet(Arrived[g]) /\ v \notin ToSet(H[g])
    <3>1. /\ place[v] = "in" /\ owner[v] = g /\ QueueOf[v] = r
          /\ v \notin ToSet(Arrived[g]) /\ v \notin ToSet(Popped[g])
      BY <1>2, <2>1 DEF Placed
    <3>2. ASSUME g = f, v \in ToSet(a) PROVE FALSE
      <4>1. QueueOf[v] = q /\ v \notin ToSet(b)
        BY <1>2, <2>3, <3>2 DEF Placed
      <4> QED BY <2>1, <3>1, <3>2, <4>1
    <3> QED BY <1>1, <2>2, <3>1, <3>2
  <2>7. ASSUME NEW v \in Waiters, place'[v] = "in"
        PROVE  \E g \in Futexes : \/ v \in ToSet(Arrived[g]) \/ v \in ToSet(H[g])
                                  \/ \E r \in Queues : v \in ToSet(Q[g][r])
    <3>1. PICK g \in Futexes : \/ v \in ToSet(Arrived[g]) \/ v \in ToSet(Popped[g])
                               \/ \E r \in Queues : v \in ToSet(Queued[g][r])
      BY <1>1, <1>2, <2>7 DEF Placed
    <3>2. ASSUME NEW r \in Queues, v \in ToSet(Queued[g][r])
          PROVE  v \in ToSet(H[g]) \/ v \in ToSet(Q[g][r])
      <4>1. CASE g = f /\ r = q
        BY <1>8, <1>10, <3>2, <4>1 DEF s
      <4>2. CASE ~(g = f /\ r = q)
        BY <1>10, <3>2, <4>2
      <4> QED BY <4>1, <4>2
    <3> QED BY <2>2, <3>1, <3>2
  <2> QED BY <2>4, <2>5, <2>6, <2>7 DEF Placed
<1>18. Loose(next', prev', place', owner')
  <2> SUFFICES ASSUME NEW v \in Waiters
               PROVE  /\ place'[v] # "in" => next'[v] = Null /\ prev'[v] = Null
                      /\ place'[v] = "woken" => owner'[v] \in Futexes
    BY DEF Loose
  <2>1. ASSUME place[v] # "in" PROVE v \notin ToSet(s)
    BY <2>1, NotInLine DEF s
  <2> QED BY <1>1, <1>2, <1>7, <2>1 DEF Loose
<1>19. ListIInv' /\ Arrived' = Arrived /\ Queued' = Q /\ Popped' = H
  BY <1>14, <1>16, <1>17, <1>18, Moved
<1>20. Abstract!PopMany(f, q, k)
  <2>1. /\ Popped[f] = <<>> /\ k <= Len(Queued[f][q])
        /\ Popped' = [Popped EXCEPT ![f] = SubSeq(Queued[f][q], 1, k)]
        /\ Queued' = [Queued EXCEPT ![f][q] = SubSeq(@, k + 1, Len(@))]
    BY <1>3, <1>4, <1>19 DEF s, a, b, Q, H
  <2> QED BY <1>19, <2>1 DEF Abstract!PopMany, Arrived, Queued, Popped
<1> QED BY <1>4, <1>19, <1>20

(* A requeue moves a notifier's list to the inbox of another futex. *)
LEMMA RequeueKeeps ==
  ASSUME ListIInv, NEW f \in Futexes, NEW g \in Futexes \ {f}, Requeue(f, g)
  PROVE  ListIInv' /\ Abstract!Requeue(f, g)
<1> DEFINE l == handles[f]
           s == Popped[f]
           w == l.head
           I == [Arrived EXCEPT ![g] = @ \o s]
           H == [Popped EXCEPT ![f] = <<>>]
<1>1. /\ w # Null /\ prev' = [prev EXCEPT ![w] = inbox[g]] /\ inbox' = [inbox EXCEPT ![g] = l.tail]
      /\ handles' = [handles EXCEPT ![f] = Empty] /\ UNCHANGED <<next, queue, place>>
      /\ owner' = [v \in Waiters |-> IF v \in ToSet(Walk(next, w)) THEN g ELSE owner[v]]
  BY DEF Requeue
<1>2. /\ ListTypeOK /\ Placed(Arrived, Queued, Popped, place, owner) /\ Loose(next, prev, place, owner)
      /\ next \in [Waiters -> Pointers] /\ prev \in [Waiters -> Pointers] /\ ListOf(next, prev, l, s)
      /\ s \in Seq(Waiters) /\ NoRepeats(s)
      /\ Arrived[g] \in Seq(Waiters) /\ StackOf(next, prev, inbox[g], Arrived[g])
  BY Facts DEF ListIInv, ListTypeOK, ListOf
<1>3. s # <<>> /\ Walk(next, w) = s
  <2> HIDE DEF l, s
  <2> QED BY <1>1, <1>2, ListNull, ListWalked
<1>4. \A v \in Waiters : owner'[v] = IF v \in ToSet(s) THEN g ELSE owner[v]
  BY <1>1, <1>3
<1>5. \A h \in Futexes : /\ Apart(Arrived[h], ToSet(s)) /\ (h # f => Apart(Popped[h], ToSet(s)))
                         /\ \A q \in Queues : Apart(Queued[h][q], ToSet(s))
  BY LinesApart DEF s
<1>6. Apart(s, ToSet(Arrived[g]))
  BY LinesApart DEF s
<1> HIDE DEF s, l
<1>7. StackOf(next', prev', l.tail, Arrived[g] \o s) /\ w \in ToSet(s)
  <2>1. ToSet(Arrived[g]) \intersect ToSet(s) = {}
    BY <1>6 DEF Apart
  <2>2. StackOf(next, prev', l.tail, Arrived[g] \o s) /\ w \in ToSet(s)
    BY <1>1, <1>2, <1>3, <2>1, RequeueStack
  <2> QED BY <1>1, <2>2
<1>8. w \in Waiters /\ l.tail \in Pointers /\ inbox[g] \in Pointers
  <2>1. w \in Waiters
    BY <1>2, <1>7, ToSetMembers
  <2>2. l.tail \in Pointers /\ inbox[g] \in Pointers
    BY <1>2 DEF ListTypeOK, Lists, l
  <2> QED BY <2>1, <2>2
<1> HIDE DEF w
<1>9. Touched(next', prev', {w})
  BY <1>1, <1>2 DEF Touched
<1>10. /\ I \in [Futexes -> Seq(Waiters)] /\ I[g] = Arrived[g] \o s
       /\ \A h \in Futexes \ {g} : I[h] = Arrived[h]
       /\ ToSet(I[g]) = ToSet(Arrived[g]) \union ToSet(s)
       /\ H \in [Futexes -> Seq(Waiters)] /\ H[f] = <<>>
       /\ \A h \in Futexes \ {f} : H[h] = Popped[h]
  <2>1. Arrived[g] \o s \in Seq(Waiters) /\ ToSet(Arrived[g] \o s) = ToSet(Arrived[g]) \union ToSet(s)
    BY <1>2, ConcatLinks
  <2>2. <<>> \in Seq(Waiters)
    OBVIOUS
  <2> QED BY <2>1, <2>2, Facts
<1> HIDE DEF I, H
<1>11. ListTypeOK'
  <2>1. handles' \in [Futexes -> Lists]
    BY <1>1, <1>2 DEF ListTypeOK, Lists, Empty, Pointers
  <2>2. owner' \in [Waiters -> Futexes \union {Null}]
    BY <1>1, <1>2 DEF ListTypeOK
  <2> QED BY <1>1, <1>2, <1>8, <2>1, <2>2 DEF ListTypeOK
<1>12. \A h \in Futexes : /\ Apart(Arrived[h], {w}) /\ (h # f => Apart(Popped[h], {w}))
                          /\ \A q \in Queues : Apart(Queued[h][q], {w})
  BY <1>5, <1>7 DEF Apart
<1>13. Carried(next', prev', inbox', queue', handles', I, Queued, H)
  <2>1. ASSUME NEW h \in Futexes
        PROVE  /\ StackOf(next', prev', inbox'[h], I[h]) /\ ListOf(next', prev', handles'[h], H[h])
               /\ \A q \in Queues : ListOf(next', prev', queue'[h][q], Queued[h][q])
    <3>1. \A q \in Queues : ListOf(next', prev', queue'[h][q], Queued[h][q])
      BY <1>1, <1>9, <1>12, Kept
    <3>2. StackOf(next', prev', inbox'[h], I[h])
      <4>1. CASE h = g
        BY <1>1, <1>2, <1>7, <1>10, <4>1 DEF ListTypeOK
      <4>2. CASE h # g
        <5>1. StackOf(next', prev', inbox[h], Arrived[h])
          BY <1>9, <1>12, Kept
        <5> QED BY <1>1, <1>2, <1>10, <4>2, <5>1 DEF ListTypeOK
      <4> QED BY <4>1, <4>2
    <3>3. ListOf(next', prev', handles'[h], H[h])
      <4>1. CASE h = f
        BY <1>1, <1>2, <1>10, <4>1, NobodyListed DEF ListTypeOK
      <4>2. CASE h # f
        <5>1. ListOf(next', prev', handles[h], Popped[h])
          BY <1>9, <1>12, <4>2, Kept
        <5> QED BY <1>1, <1>2, <1>10, <4>2, <5>1 DEF ListTypeOK
      <4> QED BY <4>1, <4>2
    <3> QED BY <3>1, <3>2, <3>3
  <2> QED BY <1>10, <2>1, Facts DEF Carried
<1>14. Placed(I, Queued, H, place', owner')
  <2>1. \A h \in Futexes : /\ ToSet(Arrived[h]) \subseteq Waiters /\ ToSet(Popped[h]) \subseteq Waiters
                           /\ \A q \in Queues : ToSet(Queued[h][q]) \subseteq Waiters
    BY Facts, ToSetMembers
  <2>2. \A h \in Futexes : \A v : v \in ToSet(I[h]) <=> v \in ToSet(Arrived[h]) \/ (h = g /\ v \in ToSet(s))
    BY <1>10
  <2>3. \A h \in Futexes : \A v : v \in ToSet(H[h]) <=> v \in ToSet(Popped[h]) /\ h # f
    BY <1>10, EmptyLinks
  <2>4. \A v \in ToSet(s) : v \in Waiters /\ place'[v] = "in" /\ owner'[v] = g
    BY <1>1, <1>2, <1>4, <2>1 DEF Placed, s
  <2>5. \A v \in Waiters : v \notin ToSet(s) => place'[v] = place[v] /\ owner'[v] = owner[v]
    BY <1>1, <1>4
  <2>6. ASSUME NEW h \in Futexes, NEW v \in ToSet(I[h])
        PROVE  place'[v] = "in" /\ owner'[v] = h /\ v \notin ToSet(H[h])
    <3>1. CASE v \in ToSet(s)
      <4>1. h = g
        BY <1>5, <2>2, <2>6, <3>1 DEF Apart
      <4>2. v \notin ToSet(Popped[g])
        BY <1>5, <3>1 DEF Apart
      <4> QED BY <2>3, <2>4, <3>1, <4>1, <4>2
    <3>2. CASE v \notin ToSet(s)
      <4>1. v \in ToSet(Arrived[h]) /\ v \in Waiters
        BY <2>1, <2>2, <2>6, <3>2
      <4>2. place[v] = "in" /\ owner[v] = h /\ v \notin ToSet(Popped[h])
        BY <1>2, <4>1 DEF Placed
      <4> QED BY <2>3, <2>5, <3>2, <4>1, <4>2
    <3> QED BY <3>1, <3>2
  <2>7. ASSUME NEW h \in Futexes, NEW v \in ToSet(H[h]) PROVE place'[v] = "in" /\ owner'[v] = h
    <3>1. v \in ToSet(Popped[h]) /\ h # f /\ v \in Waiters
      BY <2>1, <2>3, <2>7
    <3>2. v \notin ToSet(s)
      BY <1>5, <3>1 DEF Apart
    <3>3. place[v] = "in" /\ owner[v] = h
      BY <1>2, <3>1 DEF Placed
    <3> QED BY <2>5, <3>1, <3>2, <3>3
  <2>8. ASSUME NEW h \in Futexes, NEW q \in Queues, NEW v \in ToSet(Queued[h][q])
        PROVE  /\ place'[v] = "in" /\ owner'[v] = h /\ QueueOf[v] = q
               /\ v \notin ToSet(I[h]) /\ v \notin ToSet(H[h])
    <3>1. v \in Waiters /\ v \notin ToSet(s)
      BY <1>5, <2>1 DEF Apart
    <3>2. /\ place[v] = "in" /\ owner[v] = h /\ QueueOf[v] = q
          /\ v \notin ToSet(Arrived[h]) /\ v \notin ToSet(Popped[h])
      BY <1>2 DEF Placed
    <3> QED BY <2>2, <2>3, <2>5, <3>1, <3>2
  <2>9. ASSUME NEW v \in Waiters, place'[v] = "in"
        PROVE  \E h \in Futexes : \/ v \in ToSet(I[h]) \/ v \in ToSet(H[h])
                                  \/ \E q \in Queues : v \in ToSet(Queued[h][q])
    <3>1. PICK h \in Futexes : \/ v \in ToSet(Arrived[h]) \/ v \in ToSet(Popped[h])
                               \/ \E q \in Queues : v \in ToSet(Queued[h][q])
      BY <1>1, <1>2, <2>9 DEF Placed
    <3>2. CASE h = f /\ v \in ToSet(Popped[h])
      <4>1. v \in ToSet(I[g])
        BY <2>2, <3>2 DEF s
      <4> QED BY <4>1
    <3>3. CASE ~(h = f /\ v \in ToSet(Popped[h]))
      BY <2>2, <2>3, <3>1, <3>3
    <3> QED BY <3>2, <3>3
  <2> QED BY <2>6, <2>7, <2>8, <2>9 DEF Placed
<1>15. Loose(next', prev', place', owner')
  <2> SUFFICES ASSUME NEW v \in Waiters
               PROVE  /\ place'[v] # "in" => next'[v] = Null /\ prev'[v] = Null
                      /\ place'[v] = "woken" => owner'[v] \in Futexes
    BY DEF Loose
  <2>1. ASSUME place[v] # "in" PROVE v \notin ToSet(s)
    BY <2>1, NotInLine DEF s
  <2>2. place[v] # "in" => v # w
    BY <1>7, <2>1
  <2> QED BY <1>1, <1>2, <1>4, <2>1, <2>2 DEF Loose
<1>16. ListIInv' /\ Arrived' = I /\ Queued' = Queued /\ Popped' = H
  BY <1>11, <1>13, <1>14, <1>15, Moved
<1>17. Abstract!Requeue(f, g)
  <2>1. /\ Popped[f] # <<>> /\ Arrived' = [Arrived EXCEPT ![g] = @ \o Popped[f]]
        /\ Popped' = [Popped EXCEPT ![f] = <<>>]
    BY <1>3, <1>16 DEF s, I, H
  <2> QED BY <1>16, <2>1 DEF Abstract!Requeue, Arrived, Queued, Popped
<1> QED BY <1>16, <1>17

(* What enqueue makes of the lists of f: the queues FutexQueues has sorted. *)
LEMMA EnqueuedLists ==
  ASSUME ListIInv, NEW f \in Futexes, NEW e, e = Enqueued(f), NEW qs, qs = Abstract!Sorted(f)
  PROVE  /\ e.next \in [Waiters -> Pointers] /\ e.prev \in [Waiters -> Pointers]
         /\ e.list.head = Null
         /\ e.queues \in [Queues -> Lists] /\ qs \in [Queues -> Seq(Waiters)]
         /\ \A q \in Queues : ListOf(e.next, e.prev, e.queues[q], qs[q])
         /\ \A q \in Queues : \A w \in ToSet(qs[q]) : QueueOf[w] = q
         /\ Touched(e.next, e.prev, {w \in Waiters : Among(Arrived[f], Queued[f], w)})
         /\ \A w \in Waiters : (\E q \in Queues : w \in ToSet(qs[q])) <=> Among(Arrived[f], Queued[f], w)
<1> DEFINE c == Arrived[f]
           ps == Queued[f]
           m == FromStack(inbox[f])
           d == [next |-> m.next, prev |-> m.prev, list |-> m.list, queues |-> queue[f]]
           n == Len(c)
           after[i \in 0..n] ==
             IF i = 0 THEN ps ELSE [after[i-1] EXCEPT ![QueueOf[c[i]]] = Append(@, c[i])]
           h == CHOOSE g : Sorting(ps, c, n, g)
<1>1. /\ next \in [Waiters -> Pointers] /\ prev \in [Waiters -> Pointers]
      /\ StackOf(next, prev, inbox[f], c) /\ c \in Seq(Waiters) /\ n \in Nat
      /\ ps \in [Queues -> Seq(Waiters)] /\ queue[f] \in [Queues -> Lists]
      /\ \A q \in Queues : ListOf(next, prev, queue[f][q], ps[q])
      /\ Placed(Arrived, Queued, Popped, place, owner)
  BY Facts DEF ListIInv, ListTypeOK
<1>2. qs = h[n] /\ Sorting(ps, c, n, h)
  <2>1. qs = after[n]
    BY DEF Abstract!Sorted, Arrived, Queued
  <2>2. after = h
    BY DEF Sorting, Added
  <2>3. Sorting(ps, c, n, h)
    BY <1>1, SortRuns
  <2> QED BY <2>1, <2>2, <2>3
<1> HIDE DEF after, h
<1>3. \A q \in Queues : Apart(ps[q], ToSet(c))
  BY LinesApart
<1>4. \A q \in Queues : \A w \in ToSet(ps[q]) : QueueOf[w] = q
  BY <1>1 DEF Placed
<1> HIDE DEF c, ps, m
<1>5. m = FromStack(inbox[f])
  BY DEF m
<1>6. /\ m.next \in [Waiters -> Pointers] /\ m.prev = prev /\ ListOf(m.next, m.prev, m.list, c)
      /\ \A w \in Waiters \ ToSet(c) : m.next[w] = next[w]
  BY <1>1, <1>5, FromStackList
<1>7. ASSUME NEW q \in Queues PROVE ListOf(m.next, m.prev, queue[f][q], ps[q])
  <2>1. \A w \in ToSet(ps[q]) : w \in Waiters \ ToSet(c)
    <3>1. ToSet(ps[q]) \subseteq Waiters
      BY <1>1, ToSetMembers
    <3> QED BY <1>3, <3>1 DEF Apart
  <2>2. \A w \in ToSet(ps[q]) : m.next[w] = next[w] /\ m.prev[w] = prev[w]
    BY <1>6, <2>1
  <2> DEFINE x == m.next
             y == m.prev
             l == queue[f][q]
             s == ps[q]
  <2>3. ListOf(next, prev, l, s) /\ \A w \in ToSet(s) : x[w] = next[w] /\ y[w] = prev[w]
    BY <1>1, <2>2
  <2> HIDE DEF x, y, l, s
  <2>4. ListOf(x, y, l, s)
    BY <2>3, ListFrame
  <2> QED BY <2>4 DEF x, y, l, s
<1>8. /\ d.next = m.next /\ d.prev = m.prev /\ d.list = m.list /\ d.queues = queue[f]
      /\ d = [next |-> m.next, prev |-> m.prev, list |-> m.list, queues |-> queue[f]]
  <2> DEFINE x == m.next
             y == m.prev
             z == m.list
             u == queue[f]
  <2> HIDE DEF x, y, z, u
  <2>1. d = [next |-> x, prev |-> y, list |-> z, queues |-> u]
    BY DEF x, y, z, u
  <2>2. d.next = x /\ d.prev = y /\ d.list = z /\ d.queues = u
    <3> HIDE DEF d
    <3> QED BY <2>1
  <2> QED BY <2>2 DEF x, y, z, u
<1> HIDE DEF d
<1>9. Carrying(d, c, ps)
  <2>1. DOMAIN queue[f] = Queues /\ queue[f] = [q \in Queues |-> queue[f][q]]
    BY <1>1
  <2>2. \A q \in Queues : \A w \in ToSet(ps[q]) : QueueOf[w] = q /\ w \notin ToSet(c)
    BY <1>3, <1>4 DEF Apart
  <2> QED BY <1>1, <1>6, <1>7, <1>8, <2>1, <2>2 DEF Carrying
<1>10. e = Drain(m, queue[f])
  BY DEF Enqueued, m
<1>11. /\ Carrying(e, <<>>, qs)
       /\ \A w \in Waiters : ~Among(c, ps, w) => e.next[w] = d.next[w] /\ e.prev[w] = d.prev[w]
       /\ \A w \in Waiters : Among(<<>>, qs, w) <=> Among(c, ps, w)
  <2> HIDE DEF n
  <2>1. Sorting(ps, c, Len(c), h) /\ qs = h[Len(c)]
    BY <1>2 DEF n
  <2> QED BY <1>8, <1>9, <1>10, <2>1, DrainLists
<1>12. Touched(e.next, e.prev, {w \in Waiters : Among(c, ps, w)})
  <2> SUFFICES ASSUME NEW w \in Waiters, ~Among(c, ps, w)
               PROVE  e.next[w] = next[w] /\ e.prev[w] = prev[w]
    BY DEF Touched
  <2>1. w \notin ToSet(c)
    BY DEF Among
  <2> QED BY <1>6, <1>8, <1>11, <2>1
<1>13. \A w \in Waiters : (\E q \in Queues : w \in ToSet(qs[q])) <=> Among(c, ps, w)
  BY <1>11, EmptyLinks DEF Among
<1>14. e.queues \in [Queues -> Lists]
  <2>1. ASSUME NEW q \in Queues PROVE e.queues[q] \in Lists
    <3>1. ListOf(e.next, e.prev, e.queues[q], qs[q])
      BY <1>11 DEF Carrying
    <3>2. /\ e.queues[q] = [head |-> At(qs[q], 1), tail |-> At(qs[q], Len(qs[q]))]
          /\ qs[q] \in Seq(Waiters) /\ NoRepeats(qs[q])
      BY <3>1 DEF ListOf
    <3>3. \A i \in Int : At(qs[q], i) \in Pointers
      BY <3>2, Places
    <3>4. 1 \in Int /\ Len(qs[q]) \in Int
      BY <3>2
    <3> QED BY <3>2, <3>3, <3>4 DEF Lists
  <2> QED BY <1>11, <2>1 DEF Carrying
<1>15. /\ e.next \in [Waiters -> Pointers] /\ e.prev \in [Waiters -> Pointers]
       /\ qs \in [Queues -> Seq(Waiters)]
       /\ \A q \in Queues : ListOf(e.next, e.prev, e.queues[q], qs[q])
       /\ \A q \in Queues : \A w \in ToSet(qs[q]) : QueueOf[w] = q
  BY <1>11 DEF Carrying
<1>16. e.list.head = Null
  <2> DEFINE x == e.next
             y == e.prev
             l == e.list
  <2>1. ListOf(x, y, l, <<>>)
    BY <1>11 DEF Carrying
  <2> HIDE DEF x, y, l
  <2>2. l.head = Null
    BY <2>1, ListNull
  <2> QED BY <2>2 DEF l
<1> QED BY <1>12, <1>13, <1>14, <1>15, <1>16 DEF c, ps

(* A notifier's first act: the inbox goes to the queues. *)
LEMMA EnqueueKeeps ==
  ASSUME ListIInv, NEW f \in Futexes, Enqueue(f)
  PROVE  ListIInv' /\ Abstract!Enqueue(f)
<1> DEFINE e == Enqueued(f)
           qs == Abstract!Sorted(f)
           X == {w \in Waiters : Among(Arrived[f], Queued[f], w)}
           I == [Arrived EXCEPT ![f] = <<>>]
           Q == [Queued EXCEPT ![f] = qs]
<1>1. /\ next' = e.next /\ prev' = e.prev /\ queue' = [queue EXCEPT ![f] = e.queues]
      /\ inbox' = [inbox EXCEPT ![f] = Null] /\ UNCHANGED <<handles, owner, place>>
  BY DEF Enqueue
<1>2. /\ ListTypeOK /\ Placed(Arrived, Queued, Popped, place, owner) /\ Loose(next, prev, place, owner)
  BY DEF ListIInv
<1>3. e = Enqueued(f) /\ qs = Abstract!Sorted(f)
  OBVIOUS
<1> HIDE DEF e, qs
<1>4. /\ e.next \in [Waiters -> Pointers] /\ e.prev \in [Waiters -> Pointers]
      /\ e.queues \in [Queues -> Lists] /\ qs \in [Queues -> Seq(Waiters)]
      /\ \A q \in Queues : ListOf(e.next, e.prev, e.queues[q], qs[q])
      /\ \A q \in Queues : \A w \in ToSet(qs[q]) : QueueOf[w] = q
      /\ Touched(e.next, e.prev, X)
      /\ \A w \in Waiters : (\E q \in Queues : w \in ToSet(qs[q])) <=> Among(Arrived[f], Queued[f], w)
  BY <1>3, EnqueuedLists
<1>5. Touched(next', prev', X)
  BY <1>1, <1>4
<1>6. \A g \in Futexes : /\ Apart(Popped[g], X)
                         /\ g # f => Apart(Arrived[g], X) /\ \A q \in Queues : Apart(Queued[g][q], X)
  BY LinesApart DEF Apart, Among
<1> HIDE DEF X
<1>7. /\ I \in [Futexes -> Seq(Waiters)] /\ I[f] = <<>> /\ \A g \in Futexes \ {f} : I[g] = Arrived[g]
      /\ Q \in [Futexes -> [Queues -> Seq(Waiters)]] /\ Q[f] = qs
      /\ \A g \in Futexes \ {f} : Q[g] = Queued[g]
  <2>1. <<>> \in Seq(Waiters)
    OBVIOUS
  <2> QED BY <1>4, <2>1, Facts
<1> HIDE DEF I, Q
<1>8. ListTypeOK'
  BY <1>1, <1>2, <1>4 DEF ListTypeOK, Pointers
<1>9. Carried(next', prev', inbox', queue', handles', I, Q, Popped)
  <2>1. ASSUME NEW g \in Futexes
        PROVE  /\ StackOf(next', prev', inbox'[g], I[g]) /\ ListOf(next', prev', handles'[g], Popped[g])
               /\ \A q \in Queues : ListOf(next', prev', queue'[g][q], Q[g][q])
    <3>1. ListOf(next', prev', handles'[g], Popped[g])
      BY <1>1, <1>5, <1>6, Kept
    <3>2. CASE g = f
      <4>1. StackOf(next', prev', inbox'[g], I[g])
        BY <1>1, <1>2, <1>7, <3>2, NobodyListed DEF ListTypeOK
      <4>2. \A q \in Queues : ListOf(next', prev', queue'[g][q], Q[g][q])
        BY <1>1, <1>2, <1>4, <1>7, <3>2 DEF ListTypeOK
      <4> QED BY <3>1, <4>1, <4>2
    <3>3. CASE g # f
      <4>1. /\ StackOf(next', prev', inbox[g], Arrived[g])
            /\ \A q \in Queues : ListOf(next', prev', queue[g][q], Queued[g][q])
        BY <1>5, <1>6, <3>3, Kept
      <4> QED BY <1>1, <1>2, <1>7, <3>1, <3>3, <4>1 DEF ListTypeOK
    <3> QED BY <3>2, <3>3
  <2> QED BY <1>7, <2>1, Facts DEF Carried
<1>10. Placed(I, Q, Popped, place', owner')
  <2>1. \A g \in Futexes : \A q \in Queues : ToSet(Queued[g][q]) \subseteq Waiters /\ ToSet(qs[q]) \subseteq Waiters
    BY <1>4, Facts, ToSetMembers
  <2>2. ASSUME NEW g \in Futexes, NEW v \in ToSet(I[g])
        PROVE  place'[v] = "in" /\ owner'[v] = g /\ v \notin ToSet(Popped[g])
    <3>1. g # f /\ v \in ToSet(Arrived[g])
      BY <1>7, <2>2, EmptyLinks
    <3> QED BY <1>1, <1>2, <3>1 DEF Placed
  <2>3. ASSUME NEW g \in Futexes, NEW v \in ToSet(Popped[g]) PROVE place'[v] = "in" /\ owner'[v] = g
    BY <1>1, <1>2, <2>3 DEF Placed
  <2>4. ASSUME NEW g \in Futexes, NEW q \in Queues, NEW v \in ToSet(Q[g][q])
        PROVE  /\ place'[v] = "in" /\ owner'[v] = g /\ QueueOf[v] = q
               /\ v \notin ToSet(I[g]) /\ v \notin ToSet(Popped[g])
    <3>1. CASE g # f
      <4>1. v \in ToSet(Queued[g][q]) /\ I[g] = Arrived[g]
        BY <1>7, <2>4, <3>1
      <4> QED BY <1>1, <1>2, <4>1 DEF Placed
    <3>2. CASE g = f
      <4>1. v \in ToSet(qs[q]) /\ v \in Waiters /\ I[g] = <<>>
        BY <1>7, <2>1, <2>4, <3>2
      <4>2. v \in ToSet(Arrived[f]) \/ \E r \in Queues : v \in ToSet(Queued[f][r])
        BY <1>4, <4>1 DEF Among
      <4>3. place[v] = "in" /\ owner[v] = f /\ v \notin ToSet(Popped[f])
        BY <1>2, <4>2 DEF Placed
      <4> QED BY <1>1, <1>4, <3>2, <4>1, <4>3, EmptyLinks
    <3> QED BY <3>1, <3>2
  <2>5. ASSUME NEW v \in Waiters, place'[v] = "in"
        PROVE  \E g \in Futexes : \/ v \in ToSet(I[g]) \/ v \in ToSet(Popped[g])
                                  \/ \E q \in Queues : v \in ToSet(Q[g][q])
    <3>1. PICK g \in Futexes : \/ v \in ToSet(Arrived[g]) \/ v \in ToSet(Popped[g])
                               \/ \E q \in Queues : v \in ToSet(Queued[g][q])
      BY <1>1, <1>2, <2>5 DEF Placed
    <3>2. CASE g = f /\ Among(Arrived[f], Queued[f], v)
      BY <1>4, <1>7, <3>2
    <3>3. CASE ~(g = f /\ Among(Arrived[f], Queued[f], v))
      BY <1>7, <3>1, <3>3 DEF Among
    <3> QED BY <3>2, <3>3
  <2> QED BY <2>2, <2>3, <2>4, <2>5 DEF Placed
<1>11. Loose(next', prev', place', owner')
  <2> SUFFICES ASSUME NEW v \in Waiters
               PROVE  /\ place'[v] # "in" => next'[v] = Null /\ prev'[v] = Null
                      /\ place'[v] = "woken" => owner'[v] \in Futexes
    BY DEF Loose
  <2>1. ASSUME place[v] # "in" PROVE v \notin X
    BY <2>1, NotInLine DEF X, Among
  <2> QED BY <1>1, <1>2, <1>5, <2>1 DEF Loose, Touched
<1>12. ListIInv' /\ Arrived' = I /\ Queued' = Q /\ Popped' = Popped
  BY <1>8, <1>9, <1>10, <1>11, Moved
<1>13. Abstract!Enqueue(f)
  <2>1. Arrived' = [Arrived EXCEPT ![f] = <<>>] /\ Queued' = [Queued EXCEPT ![f] = Abstract!Sorted(f)]
    BY <1>3, <1>12 DEF I, Q
  <2> QED BY <1>12, <2>1 DEF Abstract!Enqueue, Arrived, Queued, Popped
<1> QED BY <1>12, <1>13

(* Cancelling unlinks a waiter from a list it may be in, and clears its links. *)
LEMMA UnlinkAny ==
  ASSUME NEW x \in [Waiters -> Pointers], NEW y \in [Waiters -> Pointers],
         NEW l, NEW s, ListOf(x, y, l, s), NEW w \in Waiters,
         w \notin ToSet(s) => x[w] = Null /\ y[w] = Null,
         NEW m, m = Unlink([next |-> x, prev |-> y, list |-> l], w)
  PROVE  /\ Renew(m.next, w) \in [Waiters -> Pointers] /\ Renew(m.prev, w) \in [Waiters -> Pointers]
         /\ ListOf(Renew(m.next, w), Renew(m.prev, w), m.list, Without(s, w)) /\ m.list \in Lists
         /\ Renew(m.next, w)[w] = Null /\ Renew(m.prev, w)[w] = Null
         /\ \A v \in Waiters : v \notin ToSet(s) /\ v # w =>
              Renew(m.next, w)[v] = x[v] /\ Renew(m.prev, w)[v] = y[v]
<1> DEFINE a == m.next
           b == m.prev
           t == Without(s, w)
<1>1. s \in Seq(Waiters) /\ NoRepeats(s)
  BY DEF ListOf
<1>2. t \in Seq(Waiters) /\ NoRepeats(t) /\ ToSet(t) = ToSet(s) \ {w} /\ ToSet(s) \subseteq Waiters
  BY <1>1, WithoutLinks, ToSetMembers
<1>3. /\ a \in [Waiters -> Pointers] /\ b \in [Waiters -> Pointers]
      /\ ListOf(a, b, m.list, t)
      /\ \A v \in Waiters \ ToSet(s) : a[v] = x[v] /\ b[v] = y[v]
  <2>1. CASE w \in ToSet(s)
    BY <2>1, UnlinkList
  <2>2. CASE w \notin ToSet(s)
    <3>1. m.next = x /\ m.prev = y /\ m.list = l
      BY <2>2, UnlinkStranger
    <3>2. t = s
      BY <2>2 DEF Without
    <3> QED BY <3>1, <3>2
  <2> QED BY <2>1, <2>2
<1> HIDE DEF a, b, t
<1> DEFINE c == [a EXCEPT ![w] = Null]
           d == [b EXCEPT ![w] = Null]
<1>4. Renew(m.next, w) = c /\ Renew(m.prev, w) = d
  BY DEF Renew, a, b
<1>5. /\ c \in [Waiters -> Pointers] /\ d \in [Waiters -> Pointers] /\ c[w] = Null /\ d[w] = Null
      /\ \A v \in Waiters : v # w => c[v] = a[v] /\ d[v] = b[v]
  BY <1>3 DEF Pointers
<1> HIDE DEF c, d
<1>6. ListOf(c, d, m.list, t)
  <2>1. \A v \in ToSet(t) : c[v] = a[v] /\ d[v] = b[v]
    BY <1>2, <1>5
  <2>2. ListOf(a, b, m.list, t)
    BY <1>3
  <2> QED BY <2>1, <2>2, ListFrame
<1>7. m.list \in Lists
  <2>1. m.list = [head |-> At(t, 1), tail |-> At(t, Len(t))]
    BY <1>6 DEF ListOf
  <2>2. \A i \in Int : At(t, i) \in Pointers
    BY <1>2, Places
  <2>3. 1 \in Int /\ Len(t) \in Int
    BY <1>2
  <2> QED BY <2>1, <2>2, <2>3 DEF Lists
<1>8. \A v \in Waiters : v \notin ToSet(s) /\ v # w => c[v] = x[v] /\ d[v] = y[v]
  BY <1>3, <1>5
<1> QED BY <1>4, <1>5, <1>6, <1>7, <1>8 DEF t

(* A dropped future leaves no trace of its waiter. *)
LEMMA CancelKeeps ==
  ASSUME ListIInv, ~Reuse, NEW w \in Waiters, Cancel(w)
  PROVE  ListIInv' /\ owner[w] \in Futexes /\ Abstract!Cancel(owner[w], w)
<1> DEFINE f == owner[w]
           e == Enqueued(f)
           qs == Abstract!Sorted(f)
           k == QueueOf[w]
           m == Unlink([next |-> e.next, prev |-> e.prev, list |-> e.queues[k]], w)
           X == {v \in Waiters : Among(Arrived[f], Queued[f], v)} \union {w}
           I == [Arrived EXCEPT ![f] = <<>>]
           Q == [Queued EXCEPT ![f] = [q \in Queues |-> Without(qs[q], w)]]
<1>1. /\ place[w] \in {"in", "woken"} /\ handles[f] = Empty
      /\ next' = Renew(m.next, w) /\ prev' = Renew(m.prev, w)
      /\ queue' = [queue EXCEPT ![f] = [e.queues EXCEPT ![k] = m.list]]
      /\ inbox' = [inbox EXCEPT ![f] = Null] /\ owner' = [owner EXCEPT ![w] = Null]
      /\ place' = [place EXCEPT ![w] = "out"] /\ UNCHANGED handles
  BY DEF Cancel
<1>2. /\ ListTypeOK /\ Placed(Arrived, Queued, Popped, place, owner) /\ Loose(next, prev, place, owner)
  BY DEF ListIInv
<1>3. f \in Futexes
  <2>1. CASE place[w] = "in"
    BY <1>2, <2>1 DEF Placed
  <2>2. CASE place[w] = "woken"
    BY <1>2, <2>2 DEF Loose
  <2> QED BY <1>1, <2>1, <2>2
<1>4. /\ f = owner[w] /\ e = Enqueued(f) /\ qs = Abstract!Sorted(f) /\ k = QueueOf[w]
      /\ m = Unlink([next |-> e.next, prev |-> e.prev, list |-> e.queues[k]], w)
  OBVIOUS
<1> HIDE DEF f, e, qs, k, m
<1>5. /\ next' \in [Waiters -> Pointers] /\ prev' \in [Waiters -> Pointers]
      /\ e.queues \in [Queues -> Lists] /\ m.list \in Lists /\ k \in Queues
      /\ qs \in [Queues -> Seq(Waiters)]
      /\ ListOf(next', prev', m.list, Without(qs[k], w))
      /\ \A q \in Queues \ {k} : /\ ListOf(next', prev', e.queues[q], qs[q])
                                 /\ qs[q] = Without(qs[q], w)
      /\ \A q \in Queues : /\ Without(qs[q], w) \in Seq(Waiters)
                           /\ ToSet(Without(qs[q], w)) = ToSet(qs[q]) \ {w}
                           /\ \A v \in ToSet(qs[q]) : QueueOf[v] = q
      /\ Touched(next', prev', X)
      /\ next'[w] = Null /\ prev'[w] = Null /\ Popped[f] = <<>>
      /\ \A v \in Waiters : (\E q \in Queues : v \in ToSet(qs[q])) <=> Among(Arrived[f], Queued[f], v)
  <2> DEFINE x == e.next
             y == e.prev
             l == e.queues[k]
             s == qs[k]
             Z == {v \in Waiters : Among(Arrived[f], Queued[f], v)}
  <2>1. /\ x \in [Waiters -> Pointers] /\ y \in [Waiters -> Pointers]
        /\ e.queues \in [Queues -> Lists] /\ qs \in [Queues -> Seq(Waiters)]
        /\ \A q \in Queues : ListOf(x, y, e.queues[q], qs[q])
        /\ \A q \in Queues : \A v \in ToSet(qs[q]) : QueueOf[v] = q
        /\ Touched(x, y, Z)
        /\ \A v \in Waiters : (\E q \in Queues : v \in ToSet(qs[q])) <=> Among(Arrived[f], Queued[f], v)
    <3>1. /\ e.next \in [Waiters -> Pointers] /\ e.prev \in [Waiters -> Pointers]
          /\ e.queues \in [Queues -> Lists] /\ qs \in [Queues -> Seq(Waiters)]
          /\ \A q \in Queues : ListOf(e.next, e.prev, e.queues[q], qs[q])
          /\ \A q \in Queues : \A v \in ToSet(qs[q]) : QueueOf[v] = q
          /\ Touched(e.next, e.prev, {v \in Waiters : Among(Arrived[f], Queued[f], v)})
          /\ \A v \in Waiters : (\E q \in Queues : v \in ToSet(qs[q])) <=> Among(Arrived[f], Queued[f], v)
      <4> HIDE DEF x, y, l, s, X, Z
      <4>1. f \in Futexes /\ e = Enqueued(f) /\ qs = Abstract!Sorted(f)
        BY <1>3, <1>4
      <4> QED BY <4>1, EnqueuedLists
    <3> QED BY <3>1
  <2>2. k \in Queues /\ Popped[f] = <<>>
    <3>1. Popped[f] = <<>>
      BY <1>1, <1>3, Facts, ListNull
    <3> QED BY <1>4, <3>1, QueueOfAssumption
  <2>3. \A v \in Waiters : v \in Z <=> Among(Arrived[f], Queued[f], v)
    OBVIOUS
  <2>4. X = Z \union {w}
    OBVIOUS
  <2>5. /\ ListOf(x, y, l, s) /\ m = Unlink([next |-> x, prev |-> y, list |-> l], w)
    BY <1>4, <2>1, <2>2
  <2> HIDE DEF x, y, l, s, Z, X
  <2>6. \A q \in Queues \ {k} : w \notin ToSet(qs[q])
    BY <1>4, <2>1
  <2>7. ASSUME w \notin ToSet(s) PROVE x[w] = Null /\ y[w] = Null
    <3>1. ~Among(Arrived[f], Queued[f], w)
      BY <2>1, <2>6, <2>7 DEF s
    <3>2. ASSUME place[w] = "in" PROVE FALSE
      <4>1. PICK g \in Futexes : \/ w \in ToSet(Arrived[g]) \/ w \in ToSet(Popped[g])
                                 \/ \E q \in Queues : w \in ToSet(Queued[g][q])
        BY <1>2, <3>2 DEF Placed
      <4>2. g = f
        BY <1>2, <1>4, <4>1 DEF Placed
      <4> QED BY <2>2, <3>1, <4>1, <4>2, EmptyLinks DEF Among
    <3> QED BY <1>2, <2>1, <2>3, <3>1, <3>2 DEF Touched, Loose
  <2>8. /\ next' \in [Waiters -> Pointers] /\ prev' \in [Waiters -> Pointers]
        /\ ListOf(next', prev', m.list, Without(s, w)) /\ m.list \in Lists
        /\ next'[w] = Null /\ prev'[w] = Null
        /\ \A v \in Waiters : v \notin ToSet(s) /\ v # w => next'[v] = x[v] /\ prev'[v] = y[v]
    <3>1. /\ Renew(m.next, w) \in [Waiters -> Pointers] /\ Renew(m.prev, w) \in [Waiters -> Pointers]
          /\ ListOf(Renew(m.next, w), Renew(m.prev, w), m.list, Without(s, w)) /\ m.list \in Lists
          /\ Renew(m.next, w)[w] = Null /\ Renew(m.prev, w)[w] = Null
          /\ \A v \in Waiters : v \notin ToSet(s) /\ v # w =>
               Renew(m.next, w)[v] = x[v] /\ Renew(m.prev, w)[v] = y[v]
      <4>1. /\ x \in [Waiters -> Pointers] /\ y \in [Waiters -> Pointers]
            /\ ListOf(x, y, l, s) /\ m = Unlink([next |-> x, prev |-> y, list |-> l], w)
            /\ (w \notin ToSet(s) => x[w] = Null /\ y[w] = Null)
        BY <2>1, <2>5, <2>7
      <4> QED BY <4>1, UnlinkAny
    <3> QED BY <1>1, <3>1
  <2>9. ASSUME NEW q \in Queues \ {k} PROVE ListOf(next', prev', e.queues[q], qs[q])
    <3>1. ASSUME NEW v \in ToSet(qs[q]) PROVE next'[v] = x[v] /\ prev'[v] = y[v]
      <4>1. v \in Waiters
        <5>1. ToSet(qs[q]) \subseteq Waiters
          BY <2>1, ToSetMembers
        <5> QED BY <5>1
      <4>2. v \notin ToSet(s)
        <5>1. v \in ToSet(qs[k]) => QueueOf[v] = k
          BY <2>1, <2>2
        <5>2. QueueOf[v] = q
          BY <2>1
        <5> QED BY <5>1, <5>2 DEF s
      <4> QED BY <2>6, <2>8, <4>1, <4>2
    <3>2. ListOf(x, y, e.queues[q], qs[q])
      BY <2>1
    <3> QED BY <3>1, <3>2, ListFrame
  <2>10. \A q \in Queues \ {k} : qs[q] = Without(qs[q], w)
    BY <2>6 DEF Without
  <2>11. ASSUME NEW q \in Queues
         PROVE  Without(qs[q], w) \in Seq(Waiters) /\ ToSet(Without(qs[q], w)) = ToSet(qs[q]) \ {w}
    <3>1. ListOf(x, y, e.queues[q], qs[q])
      BY <2>1
    <3>2. qs[q] \in Seq(Waiters) /\ NoRepeats(qs[q])
      BY <3>1 DEF ListOf
    <3> QED BY <3>2, WithoutLinks
  <2>12. Touched(next', prev', X)
    <3> SUFFICES ASSUME NEW v \in Waiters, v \notin Z, v # w
                 PROVE  next'[v] = next[v] /\ prev'[v] = prev[v]
      BY <2>4 DEF Touched
    <3>1. v \notin ToSet(s)
      BY <2>1, <2>2, <2>3 DEF s
    <3>2. x[v] = next[v] /\ y[v] = prev[v]
      BY <2>1 DEF Touched
    <3> QED BY <2>8, <3>1, <3>2
  <2> QED BY <2>1, <2>2, <2>8, <2>9, <2>10, <2>11, <2>12 DEF s
<1>6. \A g \in Futexes : g # f => /\ w \notin ToSet(Arrived[g]) /\ w \notin ToSet(Popped[g])
                                  /\ \A q \in Queues : w \notin ToSet(Queued[g][q])
  BY <1>2, <1>4 DEF Placed
<1>7. \A g \in Futexes \ {f} : /\ Apart(Arrived[g], X) /\ Apart(Popped[g], X)
                               /\ \A q \in Queues : Apart(Queued[g][q], X)
  <2> SUFFICES ASSUME NEW g \in Futexes \ {f}
               PROVE  /\ Apart(Arrived[g], X) /\ Apart(Popped[g], X)
                      /\ \A q \in Queues : Apart(Queued[g][q], X)
    OBVIOUS
  <2>1. /\ Apart(Arrived[g], ToSet(Arrived[f])) /\ Apart(Popped[g], ToSet(Arrived[f]))
        /\ \A q \in Queues : Apart(Arrived[g], ToSet(Queued[f][q])) /\ Apart(Popped[g], ToSet(Queued[f][q]))
        /\ \A q \in Queues : Apart(Queued[g][q], ToSet(Arrived[f]))
        /\ \A q, r \in Queues : Apart(Queued[g][q], ToSet(Queued[f][r]))
    BY <1>3, LinesApart
  <2> QED BY <1>6, <2>1 DEF Apart, Among
<1>8. \A v \in Waiters : v \in X <=> v = w \/ Among(Arrived[f], Queued[f], v)
  OBVIOUS
<1> HIDE DEF X
<1>9. /\ I \in [Futexes -> Seq(Waiters)] /\ I[f] = <<>> /\ \A g \in Futexes \ {f} : I[g] = Arrived[g]
      /\ Q \in [Futexes -> [Queues -> Seq(Waiters)]]
      /\ \A q \in Queues : Q[f][q] = Without(qs[q], w)
      /\ \A g \in Futexes \ {f} : Q[g] = Queued[g]
  <2>1. <<>> \in Seq(Waiters)
    OBVIOUS
  <2> QED BY <1>3, <1>5, <2>1, Facts
<1> HIDE DEF I, Q
<1>10. /\ queue' \in [Futexes -> [Queues -> Lists]] /\ queue'[f][k] = m.list
       /\ \A q \in Queues \ {k} : queue'[f][q] = e.queues[q]
       /\ \A g \in Futexes \ {f} : queue'[g] = queue[g]
  BY <1>1, <1>2, <1>3, <1>5 DEF ListTypeOK
<1>11. ListTypeOK'
  BY <1>1, <1>2, <1>5, <1>10 DEF ListTypeOK, Pointers
<1>12. Carried(next', prev', inbox', queue', handles', I, Q, Popped)
  <2>1. ASSUME NEW g \in Futexes
        PROVE  /\ StackOf(next', prev', inbox'[g], I[g]) /\ ListOf(next', prev', handles'[g], Popped[g])
               /\ \A q \in Queues : ListOf(next', prev', queue'[g][q], Q[g][q])
    <3>1. CASE g = f
      <4>1. StackOf(next', prev', inbox'[g], I[g])
        BY <1>1, <1>2, <1>9, <3>1, NobodyListed DEF ListTypeOK
      <4>2. ListOf(next', prev', handles'[g], Popped[g])
        BY <1>1, <1>5, <3>1, NobodyListed
      <4>3. ASSUME NEW q \in Queues PROVE ListOf(next', prev', queue'[g][q], Q[g][q])
        <5>1. CASE q = k
          BY <1>5, <1>9, <1>10, <3>1, <5>1
        <5>2. CASE q # k
          BY <1>5, <1>9, <1>10, <3>1, <5>2
        <5> QED BY <5>1, <5>2
      <4> QED BY <4>1, <4>2, <4>3
    <3>2. CASE g # f
      <4>1. /\ StackOf(next', prev', inbox[g], Arrived[g]) /\ ListOf(next', prev', handles[g], Popped[g])
            /\ \A q \in Queues : ListOf(next', prev', queue[g][q], Queued[g][q])
        BY <1>5, <1>7, <3>2, Kept
      <4> QED BY <1>1, <1>2, <1>9, <1>10, <3>2, <4>1 DEF ListTypeOK
    <3> QED BY <3>1, <3>2
  <2> QED BY <1>9, <2>1, Facts DEF Carried
<1>13. \A v \in Waiters : /\ place'[v] = IF v = w THEN "out" ELSE place[v]
                          /\ owner'[v] = IF v = w THEN Null ELSE owner[v]
  BY <1>1, <1>2 DEF ListTypeOK
<1>14. Placed(I, Q, Popped, place', owner')
  <2>1. \A g \in Futexes : /\ ToSet(Arrived[g]) \subseteq Waiters /\ ToSet(Popped[g]) \subseteq Waiters
                           /\ \A q \in Queues : ToSet(Queued[g][q]) \subseteq Waiters
    BY Facts, ToSetMembers
  <2>2. ASSUME NEW g \in Futexes, NEW v \in ToSet(I[g])
        PROVE  place'[v] = "in" /\ owner'[v] = g /\ v \notin ToSet(Popped[g])
    <3>1. g # f /\ v \in ToSet(Arrived[g]) /\ v \in Waiters /\ v # w
      BY <1>6, <1>9, <2>1, <2>2, EmptyLinks
    <3> QED BY <1>2, <1>13, <3>1 DEF Placed
  <2>3. ASSUME NEW g \in Futexes, NEW v \in ToSet(Popped[g]) PROVE place'[v] = "in" /\ owner'[v] = g
    <3>1. g # f /\ v \in Waiters /\ v # w
      BY <1>5, <1>6, <2>1, <2>3, EmptyLinks
    <3> QED BY <1>2, <1>13, <3>1 DEF Placed
  <2>4. ASSUME NEW g \in Futexes, NEW q \in Queues, NEW v \in ToSet(Q[g][q])
        PROVE  /\ place'[v] = "in" /\ owner'[v] = g /\ QueueOf[v] = q
               /\ v \notin ToSet(I[g]) /\ v \notin ToSet(Popped[g])
    <3>1. CASE g # f
      <4>1. v \in ToSet(Queued[g][q]) /\ I[g] = Arrived[g] /\ v \in Waiters /\ v # w
        BY <1>6, <1>9, <2>1, <2>4, <3>1
      <4> QED BY <1>2, <1>13, <4>1 DEF Placed
    <3>2. CASE g = f
      <4>1. v \in ToSet(qs[q]) /\ v # w /\ I[g] = <<>> /\ Popped[g] = <<>>
        BY <1>5, <1>9, <2>4, <3>2
      <4>2. v \in Waiters
        <5>1. ToSet(qs[q]) \subseteq Waiters
          BY <1>5, ToSetMembers
        <5> QED BY <4>1, <5>1
      <4>3. v \in ToSet(Arrived[f]) \/ \E r \in Queues : v \in ToSet(Queued[f][r])
        BY <1>5, <4>1, <4>2 DEF Among
      <4>4. place[v] = "in" /\ owner[v] = f
        BY <1>2, <1>3, <4>3 DEF Placed
      <4> QED BY <1>5, <1>13, <3>2, <4>1, <4>2, <4>4, EmptyLinks
    <3> QED BY <3>1, <3>2
  <2>5. ASSUME NEW v \in Waiters, place'[v] = "in"
        PROVE  \E g \in Futexes : \/ v \in ToSet(I[g]) \/ v \in ToSet(Popped[g])
                                  \/ \E q \in Queues : v \in ToSet(Q[g][q])
    <3>1. v # w /\ place[v] = "in"
      BY <1>13, <2>5
    <3>2. PICK g \in Futexes : \/ v \in ToSet(Arrived[g]) \/ v \in ToSet(Popped[g])
                               \/ \E q \in Queues : v \in ToSet(Queued[g][q])
      BY <1>2, <3>1 DEF Placed
    <3>3. CASE g = f
      <4>1. Among(Arrived[f], Queued[f], v)
        BY <1>5, <3>2, <3>3, EmptyLinks DEF Among
      <4>2. \E q \in Queues : v \in ToSet(Q[f][q])
        BY <1>5, <1>9, <3>1, <4>1
      <4> QED BY <3>3, <4>2
    <3>4. CASE g # f
      BY <1>9, <3>2, <3>4
    <3> QED BY <3>3, <3>4
  <2> QED BY <2>2, <2>3, <2>4, <2>5 DEF Placed
<1>15. Loose(next', prev', place', owner')
  <2> SUFFICES ASSUME NEW v \in Waiters
               PROVE  /\ place'[v] # "in" => next'[v] = Null /\ prev'[v] = Null
                      /\ place'[v] = "woken" => owner'[v] \in Futexes
    BY DEF Loose
  <2>1. CASE v = w
    BY <1>5, <1>13, <2>1
  <2>2. CASE v # w
    <3>1. ASSUME place[v] # "in" PROVE v \notin X
      BY <1>3, <1>8, <2>2, <3>1, NotInLine DEF Among
    <3> QED BY <1>2, <1>5, <1>13, <2>2, <3>1 DEF Loose, Touched
  <2> QED BY <2>1, <2>2
<1>16. ListIInv' /\ Arrived' = I /\ Queued' = Q /\ Popped' = Popped
  BY <1>11, <1>12, <1>14, <1>15, Moved
<1>17. Abstract!Cancel(f, w)
  <2>1. ASSUME NEW s PROVE Abstract!Without(s, w) = Without(s, w)
    BY DEF Abstract!Without, Without, Abstract!ToSet, ToSet, Abstract!RemoveAt, RemoveAt,
           Abstract!Position, Position
  <2>2. \A q \in Queues : Abstract!Without(Abstract!Sorted(f)[q], w) = Without(qs[q], w)
    BY <1>4, <2>1
  <2>3. [q \in Queues |-> Abstract!Without(Abstract!Sorted(f)[q], w)] = [q \in Queues |-> Without(qs[q], w)]
    BY <2>2
  <2>4. Queued' = [Queued EXCEPT ![f] = [q \in Queues |-> Abstract!Without(Abstract!Sorted(f)[q], w)]]
    BY <1>16, <2>3 DEF Q
  <2>5. Arrived' = [Arrived EXCEPT ![f] = <<>>] /\ Popped[f] = <<>>
    BY <1>5, <1>16 DEF I
  <2> QED BY <1>16, <2>4, <2>5 DEF Abstract!Cancel, Arrived, Queued, Popped
<1> QED BY <1>3, <1>16, <1>17 DEF f

-----------------------------------------------------------------------------
(* What the invariant gives. *)

(* Every step keeps the invariant, and is a step of FutexQueues or none. *)
LEMMA ListNextKeeps ==
  ASSUME ListIInv, ~Reuse, [ListNext]_listVars
  PROVE  ListIInv' /\ [Abstract!Next]_(Abstract!vars)
<1>1. CASE UNCHANGED listVars
  <2>1. UNCHANGED <<Arrived, Queued, Popped>>
    BY <1>1 DEF listVars, Arrived, Queued, Popped
  <2>2. ListIInv'
    BY <1>1, <2>1 DEF listVars, ListIInv, ListTypeOK
  <2> QED BY <2>1, <2>2 DEF Abstract!vars, Arrived, Queued, Popped
<1>2. ASSUME NEW f \in Futexes, Enqueue(f) PROVE ListIInv' /\ Abstract!Next
  BY <1>2, EnqueueKeeps DEF Abstract!Next
<1>3. ASSUME NEW f \in Futexes, WakeNext(f) PROVE ListIInv' /\ Abstract!Next
  BY <1>3, WakeNextKeeps DEF Abstract!Next
<1>4. ASSUME NEW f \in Futexes, NEW w \in Waiters, Push(f, w) PROVE ListIInv' /\ Abstract!Next
  BY <1>4, PushKeeps DEF Abstract!Next
<1>5. ASSUME NEW f \in Futexes, NEW q \in Queues, Pop(f, q) PROVE ListIInv' /\ Abstract!Next
  BY <1>5, PopKeeps DEF Abstract!Next
<1>6. ASSUME NEW f \in Futexes, NEW q \in Queues, NEW n \in 1..Cardinality(Waiters), PopMany(f, q, n)
      PROVE  ListIInv' /\ Abstract!Next
  <2> DEFINE k == IF n < Len(Queued[f][q]) THEN n ELSE Len(Queued[f][q])
  <2>1. n \in Nat \ {0}
    BY FinitelyMany, FS_CardinalityType
  <2>2. ListIInv' /\ Abstract!PopMany(f, q, k) /\ k \in 1..Cardinality(Waiters)
    BY <1>6, <2>1, PopManyKeeps
  <2> HIDE DEF k
  <2>3. Abstract!Cardinality(Waiters) = Cardinality(Waiters)
    BY DEF Abstract!Cardinality, Cardinality
  <2>4. Abstract!Next
    BY <2>2, <2>3 DEF Abstract!Next
  <2> QED BY <2>2, <2>4
<1>7. ASSUME NEW f \in Futexes, NEW g \in Futexes \ {f}, Requeue(f, g) PROVE ListIInv' /\ Abstract!Next
  BY <1>7, RequeueKeeps DEF Abstract!Next
<1>8. ASSUME NEW w \in Waiters, Cancel(w) PROVE ListIInv' /\ Abstract!Next
  BY <1>8, CancelKeeps DEF Abstract!Next
<1>9. ASSUME NEW w \in Waiters, Return(w) PROVE ListIInv' /\ UNCHANGED Abstract!vars
  BY <1>9, ReturnKeeps
<1> QED BY <1>1, <1>2, <1>3, <1>4, <1>5, <1>6, <1>7, <1>8, <1>9 DEF ListNext

(* The invariant holds throughout if each Waiter is waited on once, as by every
   user in the crate: remove leaves the links of a waiter in place, and a second
   wait would take them into the lists (WaiterReuse.cfg has the run). *)
THEOREM ListInvariance ==
  ASSUME ~Reuse PROVE ListSpec => []ListIInv
<1>1. ListInit => ListIInv
  BY ListInitialised
<1>2. ListIInv /\ [ListNext]_listVars => ListIInv'
  BY ListNextKeeps
<1> QED BY <1>1, <1>2, PTL DEF ListSpec

(* A sound line passes the assertions with which the code prints a list. *)
LEMMA ListsAreWellLinked ==
  ASSUME ListIInv, NEW l, NEW s, ListOf(next, prev, l, s)
  PROVE  WellLinked(l)
<1>1. /\ next \in [Waiters -> Pointers] /\ prev \in [Waiters -> Pointers]
      /\ s \in Seq(Waiters) /\ NoRepeats(s) /\ Len(s) \in Nat
      /\ l.head = At(s, 1) /\ l.tail = At(s, Len(s))
  BY Facts DEF ListTypeOK, ListOf
<1>2. Walk(next, l.head) = s
  BY <1>1, ListWalked
<1>3. CASE s = <<>>
  <2>1. l.head = Null /\ l.tail = Null
    BY <1>1, <1>3 DEF At
  <2> QED BY <2>1 DEF WellLinked
<1>4. CASE s # <<>>
  <2>1. 1 \in 1..Len(s) /\ Len(s) \in 1..Len(s)
    BY <1>1, <1>4
  <2>2. \A i \in 1..Len(s) : next[s[i]] = At(s, i + 1) /\ prev[s[i]] = At(s, i - 1)
    BY DEF ListOf
  <2>3. l.head = s[1] /\ l.tail = s[Len(s)]
    BY <1>1, <2>1 DEF At
  <2>4. prev[l.head] = Null /\ next[l.tail] = Null
    BY <1>1, <2>1, <2>2, <2>3 DEF At
  <2>5. ASSUME NEW i \in 1..Len(s) - 1 PROVE prev[s[i + 1]] = s[i]
    <3>1. i + 1 \in 1..Len(s) /\ (i + 1) - 1 = i /\ i \in 1..Len(s)
      BY <1>1
    <3>2. prev[s[i + 1]] = At(s, (i + 1) - 1)
      BY <2>2, <3>1
    <3> QED BY <3>1, <3>2 DEF At
  <2>6. Last(s) = l.tail
    BY <2>3 DEF Last
  <2>7. l.head # Null
    BY <1>1, <2>1, <2>3, NullIsNobody
  <2> QED BY <1>2, <2>4, <2>5, <2>6, <2>7 DEF WellLinked
<1> QED BY <1>3, <1>4

(* So the lists pass the assertions of Debug for WaiterList in every state, in
   the queues of a futex and in the hands of a notifier. *)
THEOREM ListsAreSound ==
  ASSUME ~Reuse PROVE ListSpec => []DebugAssertions
<1>1. ListIInv => DebugAssertions
  BY Facts, ListsAreWellLinked DEF DebugAssertions
<1> QED BY <1>1, ListInvariance, PTL

(* No pointer leads to a waiter that has left, and every waiter that waits can
   be reached from the futex it points to. *)
THEOREM NobodyIsLeftBehind ==
  ASSUME ~Reuse PROVE ListSpec => []NothingLeftBehind
<1>1. ListIInv => NothingLeftBehind
  <2> SUFFICES ASSUME ListIInv PROVE NothingLeftBehind
    OBVIOUS
  <2>1. /\ next \in [Waiters -> Pointers] /\ prev \in [Waiters -> Pointers]
        /\ Placed(Arrived, Queued, Popped, place, owner)
    BY DEF ListIInv, ListTypeOK
  <2>2. ASSUME NEW f \in Futexes
        PROVE  \A w : w \in Reached(f) <=> \/ w \in ToSet(Arrived[f]) \/ w \in ToSet(Popped[f])
                                           \/ \E q \in Queues : w \in ToSet(Queued[f][q])
    <3>1. ToSet(Walk(prev, inbox[f])) = ToSet(Arrived[f])
      <4>1. StackOf(next, prev, inbox[f], Arrived[f]) /\ Arrived[f] \in Seq(Waiters)
        BY Facts
      <4> QED BY <2>1, <4>1, StackWalked, Turned
    <3>2. Walk(next, handles[f].head) = Popped[f]
      BY DEF Popped
    <3>3. \A q \in Queues : Walk(next, queue[f][q].head) = Queued[f][q]
      BY DEF Queued
    <3> QED BY <3>1, <3>2, <3>3 DEF Reached
  <2>3. ASSUME NEW f \in Futexes, NEW w \in Reached(f) PROVE place[w] = "in" /\ owner[w] = f
    BY <2>1, <2>2, <2>3 DEF Placed
  <2>4. ASSUME NEW w \in Waiters, place[w] = "in" PROVE w \in Reached(owner[w])
    <3>1. PICK f \in Futexes : \/ w \in ToSet(Arrived[f]) \/ w \in ToSet(Popped[f])
                               \/ \E q \in Queues : w \in ToSet(Queued[f][q])
      BY <2>1, <2>4 DEF Placed
    <3>2. owner[w] = f
      BY <2>1, <3>1 DEF Placed
    <3> QED BY <2>2, <3>1, <3>2
  <2> QED BY <2>3, <2>4 DEF NothingLeftBehind
<1> QED BY <1>1, ListInvariance, PTL

(* A Waiter that is waited on once is linked once, so the loop of enqueue comes
   to the end of what it took from the inbox, in a flip too. *)
THEOREM EnqueuesReturn ==
  ASSUME ~Reuse PROVE ListSpec => []EnqueueReturns
<1>1. ListInit => EnqueueReturns
  BY DEF ListInit, EnqueueReturns
<1>2. ListIInv /\ EnqueueReturns /\ [ListNext]_listVars => EnqueueReturns'
  <2> SUFFICES ASSUME ListIInv, EnqueueReturns, [ListNext]_listVars PROVE EnqueueReturns'
    OBVIOUS
  <2>1. ASSUME NEW f \in Futexes PROVE Ends(f)
    BY EnqueuedLists DEF Ends
  <2>2. ASSUME NEW f \in Futexes, Enqueue(f) PROVE ~looping'
    BY <2>1, <2>2 DEF Enqueue
  <2>3. ASSUME NEW w \in Waiters, Cancel(w) PROVE ~looping'
    <3>1. owner[w] \in Futexes
      BY <2>3, CancelKeeps
    <3> QED BY <2>1, <2>3, <3>1 DEF Cancel
  <2> QED BY <2>2, <2>3 DEF EnqueueReturns, ListNext, listVars, WakeNext, Push, Pop, PopMany, Requeue, Return
<1> QED BY <1>1, <1>2, ListInvariance, PTL DEF ListSpec

(* The pointers do to the lines of waiters what FutexQueues promises. *)
THEOREM ListsImplementQueues ==
  ASSUME ~Reuse PROVE ListSpec => ImplementsFutexQueues
<1>1. ListInit => Abstract!Init
  BY ListInitialised DEF Abstract!Init, Arrived, Queued, Popped
<1>2. ListIInv /\ [ListNext]_listVars => [Abstract!Next]_(Abstract!vars)
  BY ListNextKeeps
<1> QED BY <1>1, <1>2, ListInvariance, PTL DEF ListSpec, ImplementsFutexQueues, Abstract!Spec

(***************************************************************************)
(* Part 2: the readers-writer lock, for any finite set of tasks a half     *)
(* word can count.  The inductive invariant IInv ties the two counts of    *)
(* the word to the tasks that own the lock or wait for it; each action     *)
(* keeps it (the lemmas ...Keeps).                                         *)
(***************************************************************************)
USE TasksFinite, HalfAssumption

-----------------------------------------------------------------------------
(* Counting tasks. *)

LEMMA TasksCounted ==
  ASSUME NEW S \in SUBSET Tasks
  PROVE  IsFiniteSet(S) /\ Cardinality(S) \in Nat /\ Cardinality(S) < Half
<1>1. Cardinality(Tasks) \in Nat
  BY FS_CardinalityType
<1>2. IsFiniteSet(S) /\ Cardinality(S) <= Cardinality(Tasks)
  BY FS_Subset
<1>3. Cardinality(S) \in Nat
  BY <1>2, FS_CardinalityType
<1> QED BY <1>1, <1>2, <1>3

(* The half word holds the count of any tasks. *)
LEMMA LowCount ==
  ASSUME NEW S \in SUBSET Tasks PROVE Low(Cardinality(S)) = Cardinality(S)
<1> DEFINE n == Cardinality(S)
<1>1. n \in Nat /\ n < Half
  BY TasksCounted
<1> HIDE DEF n
<1>2. n % Half = n
  BY <1>1
<1> QED BY <1>2 DEF Low, n

LEMMA CountIn ==
  ASSUME NEW S \in SUBSET Tasks, NEW t \in Tasks \ S
  PROVE  Low(Cardinality(S) + 1) = Cardinality(S \union {t})
<1>1. Cardinality(S \union {t}) = Cardinality(S) + 1
  BY TasksCounted, FS_AddElement
<1>2. Low(Cardinality(S \union {t})) = Cardinality(S \union {t})
  BY LowCount
<1> QED BY <1>1, <1>2

LEMMA CountOut ==
  ASSUME NEW S \in SUBSET Tasks, NEW t \in S
  PROVE  /\ Low(Cardinality(S) - 1) = Cardinality(S \ {t})
         /\ Cardinality(S) - 1 = Cardinality(S \ {t})
         /\ Cardinality(S) >= 1
<1>1. Cardinality(S \ {t}) = Cardinality(S) - 1
  BY TasksCounted, FS_RemoveElement
<1>2. Low(Cardinality(S \ {t})) = Cardinality(S \ {t})
  BY LowCount
<1>3. Cardinality(S) \in Nat /\ Cardinality(S \ {t}) \in Nat
  BY TasksCounted
<1> QED BY <1>1, <1>2, <1>3

LEMMA CountNone ==
  ASSUME NEW S \in SUBSET Tasks
  PROVE  /\ Cardinality(S) = 0 <=> S = {}
         /\ Cardinality(S) > 0 <=> S # {}
BY TasksCounted, FS_EmptySet

(* The only one that is counted. *)
LEMMA CountAlone ==
  ASSUME NEW S \in SUBSET Tasks, NEW t \in S, Cardinality(S) = 1
  PROVE  S = {t}
<1>1. Cardinality(S \ {t}) = 0
  BY CountOut
<1> QED BY <1>1, CountNone

(* The sets of the invariant are sets of tasks. *)
LEMMA SetsOfTasks ==
  ASSUME TypeOK
  PROVE  /\ Readers \in SUBSET Tasks /\ Leaders \in SUBSET Tasks /\ Shared \in SUBSET Tasks
         /\ Writers \in SUBSET Tasks /\ Dropped \in SUBSET Tasks /\ Counted \in SUBSET Tasks
         /\ ToSet(rline) \subseteq Tasks /\ ToSet(wline) \subseteq Tasks
         /\ \A u \in Tasks : ToSet(popped[u]) \subseteq Tasks
BY ToSetMembers DEF TypeOK, Readers, Leaders, Writers, Dropped, Shared, Counted

(* Who is in the hands of an unlock waits. *)
LEMMA HandedWaits ==
  ASSUME TypeOK, PopInv, NEW t \in Tasks
  PROVE  /\ Handed(t) => pc[t] \in Waiting /\ t \notin woken
         /\ \A u \in Tasks : t \in ToSet(popped[u]) => pc[t] \in Waiting /\ t \notin woken
BY DEF PopInv, Handed

(* A step after which the same tasks own the lock, wait for it as writers, or
   were dropped. *)
LEMMA SetsFrame ==
  ASSUME IInv, Readers' = Readers, Leaders' = Leaders, Writers' = Writers, Dropped' = Dropped,
         UNCHANGED <<readers, writers, wline>>,
         rline' # <<>> => rline # <<>> \/ writers > 0,
         \A t \in Tasks : pc'[t] \in {"read_leading", "read_notifying"} =>
           \/ pc[t] \in {"read_leading", "read_notifying"}
           \/ readers = 1 /\ writers > 0
  PROVE  CountInv' /\ Exclusion' /\ WaitersHaveLeader'
<1>1. Shared' = Shared /\ Counted' = Counted
  BY DEF Shared, Counted
<1>2. CountInv'
  BY <1>1 DEF IInv, CountInv
<1>3. Exclusion' /\ WaitersHaveLeader'
  BY DEF IInv, Exclusion, WaitersHaveLeader
<1> QED BY <1>2, <1>3

-----------------------------------------------------------------------------
(* Steps that count nobody. *)

(* A guard is dropped: an owner still. *)
LEMMA DropGuardKeeps ==
  ASSUME NEW t \in Tasks, IInv, DropGuard(t) PROVE IInv'
<1> USE DEF IInv, DropGuard, Goto, word, lines, locks
<1>1. TypeOK'
  BY DEF TypeOK, Steps, Reading, Writing, Leading
<1>2. GuardInv'
  BY DEF GuardInv, TypeOK, Guarding, Borrowing
<1>3. \A v \in Tasks : Handed(v)' <=> Handed(v)
  BY DEF Handed, TypeOK
<1>4. LineInv'
  BY <1>3 DEF LineInv, TypeOK, Waiting
<1>5. PopInv'
  BY DEF PopInv, TypeOK, Waking, Leading, Waiting
<1>6. Readers' = Readers /\ Leaders' = Leaders /\ Writers' = Writers /\ Dropped' = Dropped
  BY <1>3 DEF Readers, Leaders, Writers, Dropped, Reading, Writing, Leading, TypeOK
<1>7. CountInv' /\ Exclusion' /\ WaitersHaveLeader'
  BY <1>6, SetsFrame DEF TypeOK
<1>8. NeverPanics'
  BY <1>6 DEF NeverPanics, TypeOK
<1> QED BY <1>1, <1>2, <1>4, <1>5, <1>7, <1>8

(* The last reader, for whom a writer waits. *)
LEMMA LastReaderKeeps ==
  ASSUME NEW t \in Tasks, IInv, LastReader(t) PROVE IInv'
<1> USE DEF IInv, LastReader, Goto, word, lines, locks
<1>1. TypeOK'
  BY DEF TypeOK, Steps, Reading, Writing, Leading
<1>2. GuardInv'
  BY DEF GuardInv, TypeOK, Guarding, Borrowing
<1>3. \A v \in Tasks : Handed(v)' <=> Handed(v)
  BY DEF Handed, TypeOK
<1>4. LineInv'
  BY <1>3 DEF LineInv, TypeOK, Waiting
<1>5. PopInv'
  BY DEF PopInv, TypeOK, Waking, Leading, Waiting
<1>6. Readers' = Readers /\ Leaders' = Leaders /\ Writers' = Writers /\ Dropped' = Dropped
  BY <1>3 DEF Readers, Leaders, Writers, Dropped, Reading, Writing, Leading, TypeOK
<1>7. CountInv' /\ Exclusion' /\ WaitersHaveLeader'
  BY <1>6, SetsFrame DEF TypeOK
<1>8. NeverPanics'
  BY <1>6 DEF NeverPanics, TypeOK
<1> QED BY <1>1, <1>2, <1>4, <1>5, <1>7, <1>8

(* The queues are given back by the writer that lets go. *)
LEMMA UnborrowKeeps ==
  ASSUME NEW t \in Tasks, IInv, Unborrow(t) PROVE IInv'
<1> USE DEF IInv, Unborrow, Goto, word, lines
<1>1. TypeOK'
  BY DEF TypeOK, Steps, Reading, Writing, Leading
<1>2. GuardInv'
  BY DEF GuardInv, TypeOK, Guarding, Borrowing
<1>3. \A v \in Tasks : Handed(v)' <=> Handed(v)
  BY DEF Handed, TypeOK
<1>4. LineInv'
  BY <1>3 DEF LineInv, TypeOK, Waiting
<1>5. PopInv'
  BY DEF PopInv, TypeOK, Waking, Leading, Waiting
<1>6. Readers' = Readers /\ Leaders' = Leaders /\ Writers' = Writers /\ Dropped' = Dropped
  BY <1>3 DEF Readers, Leaders, Writers, Dropped, Reading, Writing, Leading, TypeOK
<1>7. CountInv' /\ Exclusion' /\ WaitersHaveLeader'
  BY <1>6, SetsFrame DEF TypeOK
<1>8. NeverPanics'
  BY <1>6 DEF NeverPanics, TypeOK
<1> QED BY <1>1, <1>2, <1>4, <1>5, <1>7, <1>8

(* The queues are given back by the leader of the readers. *)
LEMMA GiveBackKeeps ==
  ASSUME NEW t \in Tasks, IInv, GiveBack(t) PROVE IInv'
<1> USE DEF IInv, GiveBack, Goto, word, lines
<1>1. TypeOK'
  BY DEF TypeOK, Steps, Reading, Writing, Leading
<1>2. GuardInv'
  BY DEF GuardInv, TypeOK, Guarding, Borrowing
<1>3. \A v \in Tasks : Handed(v)' <=> Handed(v)
  BY DEF Handed, TypeOK
<1>4. LineInv'
  BY <1>3 DEF LineInv, TypeOK, Waiting
<1>5. PopInv'
  BY DEF PopInv, TypeOK, Waking, Leading, Waiting
<1>6. Readers' = Readers /\ Leaders' = Leaders /\ Writers' = Writers /\ Dropped' = Dropped
  BY <1>3 DEF Readers, Leaders, Writers, Dropped, Reading, Writing, Leading, TypeOK
<1>7. CountInv' /\ Exclusion' /\ WaitersHaveLeader'
  BY <1>6, SetsFrame DEF TypeOK
<1>8. NeverPanics'
  BY <1>6 DEF NeverPanics, TypeOK
<1> QED BY <1>1, <1>2, <1>4, <1>5, <1>7, <1>8

(* The guard of the futex is dropped, with nothing in hand. *)
LEMMA LeaveKeeps ==
  ASSUME NEW t \in Tasks, IInv, Leave(t) PROVE IInv'
<1> USE DEF IInv, Leave, Goto, word, lines
<1>1. TypeOK'
  BY DEF TypeOK, Steps, Reading, Writing, Leading
<1>2. GuardInv'
  BY DEF GuardInv, TypeOK, Guarding, Borrowing
<1>3. \A v \in Tasks : Handed(v)' <=> Handed(v)
  BY DEF Handed, TypeOK
<1>4. LineInv'
  BY <1>3 DEF LineInv, TypeOK, Waiting
<1>5. PopInv'
  BY DEF PopInv, TypeOK, Waking, Leading, Waiting
<1>6. Readers' = Readers /\ Leaders' = Leaders /\ Writers' = Writers /\ Dropped' = Dropped
  BY <1>3 DEF Readers, Leaders, Writers, Dropped, Reading, Writing, Leading, TypeOK
<1>7. CountInv' /\ Exclusion' /\ WaitersHaveLeader'
  BY <1>6, SetsFrame DEF TypeOK
<1>8. NeverPanics'
  BY <1>6 DEF NeverPanics, TypeOK
<1> QED BY <1>1, <1>2, <1>4, <1>5, <1>7, <1>8

(* Who was woken owns the lock. *)
LEMMA ResumeKeeps ==
  ASSUME NEW t \in Tasks, IInv, Resume(t) PROVE IInv'
<1> USE DEF IInv, Resume, Goto, word, lines, locks
<1>1. t \in woken /\ pc[t] \in Waiting /\ ~Handed(t) /\ (\A u \in Tasks : t \notin ToSet(popped[u]))
  BY HandedWaits DEF LineInv
<1>2. TypeOK'
  BY DEF TypeOK, Steps, Reading, Writing
<1>3. GuardInv'
  BY <1>1 DEF GuardInv, TypeOK, Guarding, Borrowing, Waiting
<1>4. \A v \in Tasks : Handed(v)' <=> Handed(v)
  BY <1>1 DEF Handed, TypeOK, Waiting
<1>5. LineInv'
  BY <1>1, <1>4 DEF LineInv, TypeOK, Waiting
<1>6. PopInv'
  BY <1>1 DEF PopInv, TypeOK, Waking, Leading, Waiting
<1>7. Readers' = Readers /\ Leaders' = Leaders /\ Writers' = Writers /\ Dropped' = Dropped
  BY <1>1, <1>4 DEF Readers, Leaders, Writers, Dropped, Reading, Writing, Leading, Waiting, TypeOK
<1>8. CountInv' /\ Exclusion' /\ WaitersHaveLeader'
  BY <1>1, <1>7, SetsFrame DEF TypeOK, Waiting
<1>9. NeverPanics'
  BY <1>7 DEF NeverPanics, TypeOK
<1> QED BY <1>2, <1>3, <1>5, <1>6, <1>8, <1>9

(* A wake that came too late is taken. *)
LEMMA CancelWriteKeeps ==
  ASSUME NEW t \in Tasks, IInv, CancelWrite(t) PROVE IInv'
<1> USE DEF IInv, CancelWrite, Goto, word, lines, locks
<1>1. TypeOK'
  BY DEF TypeOK, Steps, Reading, Writing, Leading
<1>2. GuardInv'
  BY DEF GuardInv, TypeOK, Guarding, Borrowing
<1>3. \A v \in Tasks : Handed(v)' <=> Handed(v)
  BY DEF Handed, TypeOK
<1>4. LineInv'
  BY <1>3 DEF LineInv, TypeOK, Waiting
<1>5. PopInv'
  BY DEF PopInv, TypeOK, Waking, Leading, Waiting
<1>6. Readers' = Readers /\ Leaders' = Leaders /\ Writers' = Writers /\ Dropped' = Dropped
  BY <1>3 DEF Readers, Leaders, Writers, Dropped, Reading, Writing, Leading, TypeOK
<1>7. CountInv' /\ Exclusion' /\ WaitersHaveLeader'
  BY <1>6, SetsFrame DEF TypeOK
<1>8. NeverPanics'
  BY <1>6 DEF NeverPanics, TypeOK
<1> QED BY <1>1, <1>2, <1>4, <1>5, <1>7, <1>8

(* A reader gets in line behind a writer. *)
LEMMA ReadWaitKeeps ==
  ASSUME NEW t \in Tasks, IInv, ReadWait(t) PROVE IInv'
<1> USE DEF IInv, ReadWait, Goto, word, locks
<1>1. /\ t \notin woken /\ ~Handed(t) /\ (\A u \in Tasks : t \notin ToSet(popped[u]))
      /\ t \notin ToSet(rline) /\ t \notin ToSet(wline)
  BY HandedWaits DEF LineInv, Waiting
<1>2. /\ rline' \in Seq(Tasks) /\ NoRepeats(rline') /\ ToSet(rline') = ToSet(rline) \union {t}
  BY <1>1, AppendLinks DEF TypeOK, LineInv
<1>3. TypeOK'
  BY DEF TypeOK, Steps, Reading, Writing, Leading
<1>4. GuardInv'
  BY DEF GuardInv, TypeOK, Guarding, Borrowing
<1>5. \A v \in Tasks : Handed(v)' <=> Handed(v)
  BY DEF Handed, TypeOK
<1>6. LineInv'
  BY <1>1, <1>2, <1>5 DEF LineInv, TypeOK, Waiting
<1>7. PopInv'
  BY <1>1, <1>2 DEF PopInv, TypeOK, Waking, Leading
<1>8. Readers' = Readers /\ Leaders' = Leaders /\ Writers' = Writers /\ Dropped' = Dropped
  BY <1>1, <1>5 DEF Readers, Leaders, Writers, Dropped, Reading, Writing, Leading, TypeOK
<1>9. CountInv' /\ Exclusion' /\ WaitersHaveLeader'
  BY <1>8, SetsFrame DEF TypeOK
<1>10. NeverPanics'
  BY <1>8 DEF NeverPanics, TypeOK
<1> QED BY <1>3, <1>4, <1>6, <1>7, <1>9, <1>10

(* A reader leaves the line while nobody holds the futex. *)
LEMMA CancelReadKeeps ==
  ASSUME NEW t \in Tasks, IInv, CancelRead(t) PROVE IInv'
<1> USE DEF IInv, CancelRead, Goto, word, locks
<1>1. /\ \A u \in Tasks : popped[u] = <<>> /\ pc[u] \notin Waking
      /\ \A v \in Tasks : ~Handed(v)
  BY DEF GuardInv, PopInv, Guarding, Borrowing, Waking, Leading, Handed
<1>2. /\ rline' \in Seq(Tasks) /\ NoRepeats(rline') /\ ToSet(rline') = ToSet(rline) \ {t}
      /\ rline' # <<>> => rline # <<>>
  BY WithoutLinks, WithoutSeq DEF TypeOK, LineInv
<1> DEFINE step == IF t \in woken THEN "read_unlocking" ELSE "idle"
<1>3. /\ pc' = [pc EXCEPT ![t] = step] /\ step \in {"read_unlocking", "idle"}
      /\ pc[t] = "read_waiting" /\ woken' = woken \ {t}
      /\ UNCHANGED <<readers, writers, wline, guards, borrowed, popped>>
  OBVIOUS
<1> HIDE DEF CancelRead
<1>4. TypeOK'
  BY <1>2, <1>3 DEF TypeOK, Steps, Reading
<1>5. GuardInv'
  BY <1>3 DEF GuardInv, TypeOK, Guarding, Borrowing
<1>6. \A v \in Tasks : Handed(v)' <=> Handed(v)
  BY <1>1, <1>3 DEF Handed, TypeOK, Waking
<1>7. LineInv'
  BY <1>6, <1>2, <1>3 DEF LineInv, TypeOK, Waiting
<1>8. PopInv'
  BY <1>1, <1>2, <1>3, EmptyLinks DEF PopInv, TypeOK, Waking, Leading
<1>9. Readers' = Readers /\ Leaders' = Leaders /\ Writers' = Writers /\ Dropped' = Dropped
  BY <1>1, <1>6, <1>3 DEF Readers, Leaders, Writers, Dropped, Reading, Writing, Leading, TypeOK
<1>10. CountInv' /\ Exclusion' /\ WaitersHaveLeader'
  BY <1>9, <1>2, <1>3, SetsFrame DEF TypeOK
<1>11. NeverPanics'
  BY <1>9, <1>3 DEF NeverPanics, TypeOK
<1> QED BY <1>4, <1>5, <1>7, <1>8, <1>10, <1>11

-----------------------------------------------------------------------------
(* Steps that count an owner or a waiting writer. *)

(* A reader gets in while no writer owns the lock or waits. *)
LEMMA ReadKeeps ==
  ASSUME NEW t \in Tasks, IInv, Read(t) PROVE IInv'
<1> USE DEF IInv, Read, Goto, lines, locks
<1>1. /\ Counted = {} /\ Shared \in SUBSET Tasks /\ t \notin Shared
  BY SetsOfTasks, CountNone DEF CountInv, Shared, Readers, Leaders, Reading, Leading
<1>2. readers' = Cardinality(Shared \union {t})
  BY <1>1, CountIn DEF CountInv
<1>3. TypeOK'
  <2>1. readers' \in Nat
    BY <1>1, <1>2, TasksCounted
  <2> QED BY <2>1 DEF TypeOK, Steps, Reading
<1>4. GuardInv'
  BY DEF GuardInv, TypeOK, Guarding, Borrowing
<1>5. \A v \in Tasks : Handed(v)' <=> Handed(v)
  BY DEF Handed, TypeOK
<1>6. LineInv'
  BY <1>5 DEF LineInv, TypeOK, Waiting
<1>7. PopInv'
  BY DEF PopInv, TypeOK, Waking, Leading, Waiting
<1>8. /\ Readers' = Readers \union {t} /\ Leaders' = Leaders
      /\ Writers' = Writers /\ Dropped' = Dropped
  BY <1>5 DEF Readers, Leaders, Writers, Dropped, Reading, Writing, Leading, TypeOK
<1>9. Shared' = Shared \union {t} /\ Counted' = Counted
  BY <1>8 DEF Shared, Counted
<1>10. CountInv'
  <2>1. \A v \in Tasks : pc'[v] \notin {"read_leading", "read_notifying"}
    BY DEF CountInv, TypeOK
  <2> QED BY <1>2, <1>9, <2>1 DEF CountInv
<1>11. Exclusion' /\ WaitersHaveLeader'
  BY <1>1, <1>8, <1>9 DEF Exclusion, WaitersHaveLeader, Counted
<1>12. NeverPanics'
  BY <1>8 DEF NeverPanics, TypeOK
<1> QED BY <1>3, <1>4, <1>6, <1>7, <1>10, <1>11, <1>12

(* A writer gets in while nobody owns the lock or waits. *)
LEMMA WriteKeeps ==
  ASSUME NEW t \in Tasks, IInv, Write(t) PROVE IInv'
<1> USE DEF IInv, Write, Goto, lines, locks
<1>1. Counted = {} /\ Shared = {}
  BY SetsOfTasks, CountNone DEF CountInv
<1>2. TypeOK'
  BY DEF TypeOK, Steps, Writing
<1>3. GuardInv'
  BY DEF GuardInv, TypeOK, Guarding, Borrowing
<1>4. \A v \in Tasks : Handed(v)' <=> Handed(v)
  BY DEF Handed, TypeOK
<1>5. LineInv'
  BY <1>4 DEF LineInv, TypeOK, Waiting
<1>6. PopInv'
  BY DEF PopInv, TypeOK, Waking, Leading, Waiting
<1>7. /\ Readers' = Readers /\ Leaders' = Leaders
      /\ Writers' = Writers \union {t} /\ Dropped' = Dropped
  BY <1>4 DEF Readers, Leaders, Writers, Dropped, Reading, Writing, Leading, TypeOK
<1>8. Shared' = {} /\ Counted' = {t}
  BY <1>1, <1>7 DEF Shared, Counted
<1>9. CountInv'
  <2>1. Cardinality({t}) = 1 /\ Cardinality({}) = 0
    BY FS_Singleton, FS_EmptySet
  <2>2. \A v \in Tasks : pc'[v] \notin {"read_leading", "read_notifying"}
    BY DEF CountInv, TypeOK
  <2> QED BY <1>8, <2>1, <2>2 DEF CountInv
<1>10. Exclusion' /\ WaitersHaveLeader'
  BY <1>1, <1>7 DEF Exclusion, WaitersHaveLeader, Counted, Shared
<1>11. NeverPanics'
  BY <1>7 DEF NeverPanics, TypeOK
<1> QED BY <1>2, <1>3, <1>5, <1>6, <1>9, <1>10, <1>11

(* A writer gets in line, and is counted. *)
LEMMA WriteWaitKeeps ==
  ASSUME NEW t \in Tasks, IInv, WriteWait(t) PROVE IInv'
<1> USE DEF IInv, WriteWait, Goto, locks
<1>1. /\ t \notin woken /\ ~Handed(t) /\ (\A u \in Tasks : t \notin ToSet(popped[u]))
      /\ t \notin ToSet(rline) /\ t \notin ToSet(wline)
  BY HandedWaits DEF LineInv, Waiting
<1>2. /\ wline' \in Seq(Tasks) /\ NoRepeats(wline') /\ ToSet(wline') = ToSet(wline) \union {t}
  BY <1>1, AppendLinks DEF TypeOK, LineInv
<1>3. Counted \in SUBSET Tasks /\ t \notin Counted
  BY <1>1, SetsOfTasks DEF Counted, Writers, Dropped, Writing
<1>4. writers' = Cardinality(Counted \union {t}) /\ writers' > 0
  <2>1. Cardinality(Counted \union {t}) > 0
    <3> DEFINE S == Counted \union {t}
    <3>1. S \in SUBSET Tasks /\ S # {}
      BY <1>3
    <3> HIDE DEF S
    <3> QED BY <3>1, CountNone DEF S
  <2> QED BY <1>3, <2>1, CountIn DEF CountInv
<1>5. TypeOK'
  <2>1. writers' \in Nat
    BY <1>3, <1>4, TasksCounted
  <2> QED BY <1>2, <2>1 DEF TypeOK, Steps
<1>6. GuardInv'
  BY DEF GuardInv, TypeOK, Guarding, Borrowing
<1>7. \A v \in Tasks : Handed(v)' <=> Handed(v)
  BY DEF Handed, TypeOK
<1>8. LineInv'
  BY <1>1, <1>2, <1>7 DEF LineInv, TypeOK, Waiting
<1>9. PopInv'
  BY <1>1, <1>2 DEF PopInv, TypeOK, Waking, Leading
<1>10. Readers' = Readers /\ Leaders' = Leaders /\ Writers' = Writers /\ Dropped' = Dropped
  BY <1>1, <1>7 DEF Readers, Leaders, Writers, Dropped, Reading, Writing, Leading, TypeOK
<1>11. Shared' = Shared /\ Counted' = Counted \union {t}
  BY <1>2, <1>10 DEF Shared, Counted
<1>12. CountInv'
  BY <1>4, <1>11 DEF CountInv, TypeOK
<1>13. Shared # {} \/ Writers \union Dropped # {}
  <2>1. Shared # {} \/ Counted # {}
    BY SetsOfTasks, CountNone DEF CountInv, TypeOK
  <2>2. wline = <<>> => ToSet(wline) = {}
    BY EmptyLinks
  <2> QED BY <2>1, <2>2 DEF Counted, Shared, WaitersHaveLeader
<1>14. Exclusion' /\ WaitersHaveLeader'
  BY <1>4, <1>10, <1>13 DEF Exclusion, WaitersHaveLeader, Shared
<1>15. NeverPanics'
  BY <1>10 DEF NeverPanics, TypeOK
<1> QED BY <1>5, <1>6, <1>8, <1>9, <1>12, <1>14, <1>15

(* A dropped writer leaves the line, but not the count. *)
LEMMA DropWriteKeeps ==
  ASSUME NEW t \in Tasks, IInv, DropWrite(t) PROVE IInv'
<1> USE DEF IInv, DropWrite, Goto, word, locks
<1>1. /\ \A u \in Tasks : popped[u] = <<>> /\ pc[u] \notin Waking
      /\ \A v \in Tasks : ~Handed(v)
  BY DEF GuardInv, PopInv, Guarding, Borrowing, Waking, Leading, Handed
<1>2. t \in ToSet(wline)
  BY <1>1 DEF LineInv
<1>3. /\ wline' \in Seq(Tasks) /\ NoRepeats(wline') /\ ToSet(wline') = ToSet(wline) \ {t}
      /\ wline' # <<>> => wline # <<>>
  BY WithoutLinks, WithoutSeq DEF TypeOK, LineInv
<1>4. TypeOK'
  BY <1>3 DEF TypeOK, Steps
<1>5. GuardInv'
  BY DEF GuardInv, TypeOK, Guarding, Borrowing
<1>6. \A v \in Tasks : Handed(v)' <=> Handed(v)
  BY <1>1 DEF Handed, TypeOK, Waking
<1>7. LineInv'
  BY <1>3, <1>6 DEF LineInv, TypeOK, Waiting
<1>8. PopInv'
  BY <1>1, <1>3, EmptyLinks DEF PopInv, TypeOK, Waking, Leading
<1>9. /\ Readers' = Readers /\ Leaders' = Leaders
      /\ Writers' = Writers /\ Dropped' = Dropped \union {t}
  BY <1>1, <1>6 DEF Readers, Leaders, Writers, Dropped, Reading, Writing, Leading, TypeOK
<1>10. Shared' = Shared /\ Counted' = Counted
  BY <1>2, <1>3, <1>9 DEF Shared, Counted
<1>11. CountInv'
  BY <1>10 DEF CountInv, TypeOK
<1>12. Exclusion' /\ WaitersHaveLeader'
  BY <1>9 DEF Exclusion, WaitersHaveLeader
<1>13. NeverPanics'
  BY <1>9 DEF NeverPanics, TypeOK
<1> QED BY <1>4, <1>5, <1>7, <1>8, <1>11, <1>12, <1>13

(* A reader leaves that is not the last one a writer waits for. *)
LEMMA ReadUnlockKeeps ==
  ASSUME NEW t \in Tasks, IInv, ReadUnlock(t) PROVE IInv'
<1> USE DEF IInv, ReadUnlock, Goto, lines, locks
<1>1. Shared \in SUBSET Tasks /\ t \in Shared
  BY SetsOfTasks DEF Shared, Readers, Reading
<1>2. readers' = Cardinality(Shared \ {t}) /\ readers = Cardinality(Shared) /\ readers >= 1
      /\ readers' = readers - 1
  BY <1>1, CountOut DEF CountInv
<1>3. TypeOK'
  <2>1. readers' \in Nat
    BY <1>2 DEF TypeOK
  <2> QED BY <2>1 DEF TypeOK, Steps
<1>4. GuardInv'
  BY DEF GuardInv, TypeOK, Guarding, Borrowing
<1>5. \A v \in Tasks : Handed(v)' <=> Handed(v)
  BY DEF Handed, TypeOK
<1>6. LineInv'
  BY <1>5 DEF LineInv, TypeOK, Waiting
<1>7. PopInv'
  BY DEF PopInv, TypeOK, Waking, Leading, Waiting
<1>8. /\ Readers' = Readers \ {t} /\ Leaders' = Leaders
      /\ Writers' = Writers /\ Dropped' = Dropped
  BY <1>5 DEF Readers, Leaders, Writers, Dropped, Reading, Writing, Leading, TypeOK
<1>9. Shared' = Shared \ {t} /\ Counted' = Counted
  BY <1>8 DEF Shared, Counted, Leaders, Leading
<1>10. CountInv'
  BY <1>2, <1>9 DEF CountInv, TypeOK
<1>11. wline # <<>> => Shared \ {t} # {}
  <2>1. ASSUME wline # <<>> PROVE writers > 0
    <3>1. Head(wline) \in ToSet(wline)
      BY <2>1, TailLinks DEF TypeOK, LineInv
    <3>2. Counted # {}
      BY <3>1 DEF Counted
    <3> QED BY <3>2, SetsOfTasks, CountNone DEF CountInv
  <2>2. ASSUME wline # <<>> PROVE readers' > 0
    BY <1>2, <2>1, <2>2 DEF TypeOK
  <2> QED BY <1>1, <1>2, <2>2, CountNone
<1>12. Exclusion' /\ WaitersHaveLeader'
  BY <1>8, <1>9, <1>11 DEF Exclusion, WaitersHaveLeader, Shared
<1>13. NeverPanics'
  BY <1>8 DEF NeverPanics, TypeOK
<1> QED BY <1>3, <1>4, <1>6, <1>7, <1>10, <1>12, <1>13

-----------------------------------------------------------------------------
(* The unlocks. *)

(* A writer that owns the lock is alone with it, and nobody waits for it
   uncounted. *)
LEMMA WriterAlone ==
  ASSUME IInv, NEW t \in Tasks, pc[t] \in Writing
  PROVE  /\ Writers = {t} /\ Readers = {} /\ Leaders = {} /\ readers = 0
         /\ \A u \in Tasks : pc[u] \notin Reading \union Leading /\ (pc[u] \in Writing => u = t)
         /\ t \in Counted /\ Counted \in SUBSET Tasks
<1>1. t \in Writers
  BY DEF Writers
<1>2. Writers = {t} /\ Readers = {} /\ Leaders = {} /\ Shared = {}
  BY <1>1 DEF IInv, Exclusion, Shared
<1>3. readers = 0
  BY <1>2, FS_EmptySet DEF IInv, CountInv
<1>4. \A u \in Tasks : pc[u] \notin Reading \union Leading /\ (pc[u] \in Writing => u = t)
  BY <1>2 DEF Readers, Leaders, Writers
<1> QED BY <1>1, <1>2, <1>3, <1>4, SetsOfTasks DEF IInv, Counted

(* So is the last reader, when a writer waits for it. *)
LEMMA ReaderAlone ==
  ASSUME IInv, NEW t \in Tasks, pc[t] \in {"read_leading", "read_notifying"}
  PROVE  /\ Readers = {t} /\ Leaders = {} /\ Writers = {} /\ readers = 1 /\ writers > 0
         /\ \A u \in Tasks : pc[u] \notin Writing \union Leading /\ (pc[u] \in Reading => u = t)
<1>1. t \in Readers
  BY DEF Readers, Reading
<1>2. Shared = {t} /\ readers = 1 /\ writers > 0
  BY <1>1, CountAlone, SetsOfTasks DEF IInv, CountInv, Shared
<1>3. t \notin Leaders
  BY DEF Leaders, Leading
<1>4. Readers = {t} /\ Leaders = {} /\ Writers = {}
  BY <1>1, <1>2, <1>3 DEF IInv, Exclusion, Shared
<1>5. \A u \in Tasks : pc[u] \notin Writing \union Leading /\ (pc[u] \in Reading => u = t)
  BY <1>4 DEF Readers, Leaders, Writers
<1> QED BY <1>2, <1>4, <1>5

(* The unlocks never meet in the queues. *)
LEMMA BorrowKeeps ==
  ASSUME NEW t \in Tasks, IInv, Borrow(t) PROVE IInv'
<1> USE DEF IInv, Borrow, Goto, word, lines
<1>1. ~borrowed
  <2>1. CASE pc[t] = "write_unlocking"
    BY <2>1, WriterAlone DEF GuardInv, Borrowing, Reading, Writing, Leading
  <2>2. CASE pc[t] = "read_leading"
    BY <2>2, ReaderAlone DEF GuardInv, Borrowing, Reading, Writing, Leading
  <2> QED BY <2>1, <2>2
<1>2. \A u \in Tasks : pc[u] \notin Borrowing
  BY <1>1 DEF GuardInv
<1>3. TypeOK'
  BY <1>1 DEF TypeOK, Steps, Reading, Writing
<1>4. GuardInv'
  BY <1>1, <1>2 DEF GuardInv, TypeOK, Guarding, Borrowing
<1>5. \A v \in Tasks : Handed(v)' <=> Handed(v)
  BY <1>1 DEF Handed, TypeOK
<1>6. LineInv'
  BY <1>1, <1>5 DEF LineInv, TypeOK, Waiting
<1>7. PopInv'
  BY <1>1 DEF PopInv, TypeOK, Waking, Leading, Waiting
<1>8. Readers' = Readers /\ Leaders' = Leaders /\ Writers' = Writers /\ Dropped' = Dropped
  BY <1>1, <1>5 DEF Readers, Leaders, Writers, Dropped, Reading, Writing, Leading, TypeOK
<1>9. CountInv' /\ Exclusion' /\ WaitersHaveLeader'
  BY <1>1, <1>8, SetsFrame DEF TypeOK
<1>10. NeverPanics'
  BY <1>1, <1>8 DEF NeverPanics, TypeOK
<1> QED BY <1>3, <1>4, <1>6, <1>7, <1>9, <1>10

LEMMA ReborrowKeeps ==
  ASSUME NEW t \in Tasks, IInv, Reborrow(t) PROVE IInv'
<1> USE DEF IInv, Reborrow, Goto, word, lines
<1>1. ~borrowed
  BY WriterAlone DEF GuardInv, Borrowing, Reading, Writing, Leading
<1>2. \A u \in Tasks : pc[u] \notin Borrowing
  BY <1>1 DEF GuardInv
<1>3. TypeOK'
  BY <1>1 DEF TypeOK, Steps, Writing
<1>4. GuardInv'
  BY <1>1, <1>2 DEF GuardInv, TypeOK, Guarding, Borrowing
<1>5. \A v \in Tasks : Handed(v)' <=> Handed(v)
  BY <1>1 DEF Handed, TypeOK
<1>6. LineInv'
  BY <1>1, <1>5 DEF LineInv, TypeOK, Waiting
<1>7. PopInv'
  BY <1>1 DEF PopInv, TypeOK, Waking, Leading, Waiting
<1>8. Readers' = Readers /\ Leaders' = Leaders /\ Writers' = Writers /\ Dropped' = Dropped
  BY <1>1, <1>5 DEF Readers, Leaders, Writers, Dropped, Reading, Writing, Leading, TypeOK
<1>9. CountInv' /\ Exclusion' /\ WaitersHaveLeader'
  BY <1>1, <1>8, SetsFrame DEF TypeOK
<1>10. NeverPanics'
  BY <1>1, <1>8 DEF NeverPanics, TypeOK
<1> QED BY <1>3, <1>4, <1>6, <1>7, <1>9, <1>10

(* The word is cleared when the last owner leaves and nobody waits. *)
LEMMA ClearKeeps ==
  ASSUME NEW t \in Tasks, IInv, Clear(t) PROVE IInv'
<1> USE DEF IInv, Clear, Goto, lines, locks
<1>1. /\ Writers = {t} /\ Readers = {} /\ Leaders = {} /\ Counted = {t}
      /\ \A u \in Tasks : pc[u] \notin Reading
  BY WriterAlone, CountAlone DEF CountInv, Writing
<1>2. wline = <<>>
  <2>1. t \notin ToSet(wline)
    BY DEF LineInv
  <2>2. wline # <<>> => Head(wline) \in ToSet(wline)
    BY TailLinks DEF TypeOK, LineInv
  <2> QED BY <1>1, <2>1, <2>2 DEF Counted
<1>3. TypeOK'
  BY DEF TypeOK, Steps
<1>4. GuardInv'
  BY DEF GuardInv, TypeOK, Guarding, Borrowing
<1>5. \A v \in Tasks : Handed(v)' <=> Handed(v)
  BY DEF Handed, TypeOK
<1>6. LineInv'
  BY <1>5 DEF LineInv, TypeOK, Waiting
<1>7. PopInv'
  BY DEF PopInv, TypeOK, Waking, Leading, Waiting
<1>8. /\ Readers' = Readers /\ Leaders' = Leaders
      /\ Writers' = Writers \ {t} /\ Dropped' = Dropped
  BY <1>5 DEF Readers, Leaders, Writers, Dropped, Reading, Writing, Leading, TypeOK
<1>9. Shared' = Shared /\ Counted' = {}
  <2>1. Dropped \subseteq {t} /\ t \notin Dropped /\ ToSet(wline) = {}
    BY <1>1, <1>2, EmptyLinks DEF Counted, Dropped
  <2> QED BY <1>1, <1>8, <2>1 DEF Shared, Counted
<1>10. CountInv'
  <2>1. \A u \in Tasks : pc'[u] \notin {"read_leading", "read_notifying"}
    BY <1>1 DEF TypeOK, Reading
  <2> QED BY <1>9, <2>1, FS_EmptySet DEF CountInv
<1>11. Exclusion' /\ WaitersHaveLeader'
  BY <1>1, <1>2, <1>8 DEF Exclusion, WaitersHaveLeader
<1>12. NeverPanics'
  BY <1>8 DEF NeverPanics, TypeOK
<1> QED BY <1>3, <1>4, <1>6, <1>7, <1>10, <1>11, <1>12

(* The writer that lets go becomes the reader that leads the others in. *)
LEMMA DowngradeKeeps ==
  ASSUME NEW t \in Tasks, IInv, Downgrade(t) PROVE IInv'
<1> USE DEF IInv, Downgrade, Goto, locks
<1>1. /\ Writers = {t} /\ Readers = {} /\ Leaders = {} /\ Counted = {t} /\ readers = 0
      /\ \A u \in Tasks : pc[u] \notin Reading \union Leading
  BY WriterAlone, CountAlone DEF CountInv, Writing
<1>2. wline = <<>>
  <2>1. t \notin ToSet(wline)
    BY DEF LineInv
  <2>2. wline # <<>> => Head(wline) \in ToSet(wline)
    BY TailLinks DEF TypeOK, LineInv
  <2> QED BY <1>1, <2>1, <2>2 DEF Counted
<1>3. /\ pc' = [pc EXCEPT ![t] = "counting"] /\ pc[t] = "write_notifying"
      /\ readers' = 1 /\ writers' = 0 /\ rline # <<>> /\ rline' = <<>>
      /\ popped' = [popped EXCEPT ![t] = rline]
      /\ UNCHANGED <<wline, guards, borrowed, woken>>
  BY <1>1, <1>2
<1>4. /\ \A v \in Tasks : popped'[v] = IF v = t THEN rline ELSE popped[v]
      /\ \A v \in Tasks : pc'[v] = IF v = t THEN "counting" ELSE pc[v]
      /\ ToSet(rline') = {} /\ NoRepeats(rline')
  BY <1>3, EmptyLinks DEF TypeOK
<1> HIDE DEF Downgrade
<1>5. TypeOK'
  BY <1>3 DEF TypeOK, Steps, Leading
<1>6. GuardInv'
  BY <1>3, <1>4 DEF GuardInv, Guarding, Borrowing
<1>7. \A v \in Tasks : Handed(v)' <=> Handed(v)
  BY <1>3, <1>4 DEF Handed
<1>8. LineInv'
  BY <1>3, <1>4, <1>7 DEF LineInv, Waiting
<1>9. PopInv'
  <2>1. \A v \in Tasks : ToSet(rline) \intersect ToSet(popped[v]) = {}
    BY DEF PopInv
  <2> QED BY <1>2, <1>3, <1>4, <2>1, EmptyLinks DEF PopInv, LineInv, Waking, Leading, Waiting
<1>10. Readers' = {} /\ Leaders' = {t} /\ Writers' = {} /\ Dropped' = Dropped
  <2>1. /\ Readers' = Readers /\ Leaders' = Leaders \union {t}
        /\ Writers' = Writers \ {t} /\ Dropped' = Dropped
    BY <1>3, <1>4, <1>7 DEF Readers, Leaders, Writers, Dropped, Reading, Writing, Leading
  <2> QED BY <1>1, <2>1
<1>11. Shared' = {t} /\ Counted' = {}
  <2>1. Dropped \subseteq {t} /\ t \notin Dropped /\ ToSet(wline') = {}
    BY <1>1, <1>2, <1>3, EmptyLinks DEF Counted, Dropped
  <2> QED BY <1>10, <2>1 DEF Shared, Counted
<1>12. CountInv'
  <2>1. \A u \in Tasks : pc'[u] \notin {"read_leading", "read_notifying"}
    BY <1>1, <1>4 DEF Reading
  <2> QED BY <1>3, <1>11, <2>1, FS_EmptySet, FS_Singleton DEF CountInv
<1>13. Exclusion' /\ WaitersHaveLeader'
  BY <1>2, <1>3, <1>10 DEF Exclusion, WaitersHaveLeader
<1>14. NeverPanics'
  BY <1>4, <1>10 DEF NeverPanics
<1> QED BY <1>5, <1>6, <1>8, <1>9, <1>12, <1>13, <1>14

(* A list of tasks counts the tasks in it. *)
LEMMA ListCount ==
  ASSUME NEW s \in Seq(Tasks), NoRepeats(s)
  PROVE  Cardinality(ToSet(s)) = Len(s) /\ IsFiniteSet(ToSet(s))
<1>1. PICK n \in Nat : n = Len(s)
  OBVIOUS
<1>2. s \in Bijection(1..n, ToSet(s))
  BY <1>1 DEF NoRepeats, IsInjective, Injection, Surjection, Bijection, ToSet
<1>3. IsFiniteSet(1..n) /\ Cardinality(1..n) = n
  <2>1. 1 \in Int /\ n \in Int
    OBVIOUS
  <2> QED BY ONLY <2>1, FS_Interval, n \in Nat
<1>4. ExistsBijection(1..n, ToSet(s))
  BY <1>2 DEF ExistsBijection
<1>5. Cardinality(ToSet(s)) = Cardinality(1..n) /\ IsFiniteSet(ToSet(s))
  BY <1>3, <1>4, FS_Bijection
<1> QED BY <1>1, <1>3, <1>5

(* The leader counts those it takes in hand, and itself no longer. *)
LEMMA AddReadersKeeps ==
  ASSUME NEW t \in Tasks, IInv, AddReaders(t) PROVE IInv'
<1> USE DEF IInv, AddReaders, Goto, lines, locks
<1> DEFINE s == popped[t]
           P == ToSet(s)
<1>1. /\ s \in Seq(Tasks) /\ NoRepeats(s) /\ s # <<>>
      /\ \A p \in P : /\ pc[p] = "read_waiting" /\ p \notin woken
                      /\ \A v \in Tasks : p \in ToSet(popped[v]) => v = t
  BY DEF PopInv, TypeOK, Waking, Leading
<1>2. P \in SUBSET Tasks /\ P # {} /\ Cardinality(P) = Len(s)
  <2> HIDE DEF s
  <2>1. Head(s) \in P
    BY <1>1, TailLinks
  <2> QED BY <1>1, <2>1, ToSetMembers, ListCount
<1>3. P \intersect Shared = {} /\ t \in Shared /\ t \in Leaders /\ Shared \in SUBSET Tasks
  <2>1. \A p \in P : ~Handed(p)
    BY <1>1 DEF Handed
  <2> QED BY <1>1, <2>1, SetsOfTasks DEF Shared, Readers, Leaders, Reading, Leading
<1> DEFINE Q == Shared \ {t}
<1>4. readers' = Cardinality(Q \union P)
  <2> HIDE DEF s
  <2>1. Q \in SUBSET Tasks /\ P \in SUBSET Tasks /\ Q \intersect P = {} /\ Q \union P \in SUBSET Tasks
    BY <1>2, <1>3
  <2>2. readers = Cardinality(Shared) /\ readers - 1 = Cardinality(Q)
    BY <1>3, CountOut DEF CountInv
  <2> HIDE DEF P, Q
  <2>3. Cardinality(Q \union P) = Cardinality(Q) + Cardinality(P) - Cardinality(Q \intersect P)
    BY <2>1, TasksCounted, FS_Union
  <2>4. Cardinality(Q \intersect P) = 0 /\ Cardinality(Q) \in Nat /\ Cardinality(P) \in Nat
    BY <2>1, TasksCounted, FS_EmptySet
  <2>5. readers + Len(s) - 1 = Cardinality(Q \union P)
    BY <1>2, <2>2, <2>3, <2>4 DEF TypeOK
  <2>6. Low(Cardinality(Q \union P)) = Cardinality(Q \union P)
    BY <2>1, LowCount
  <2> QED BY <2>5, <2>6 DEF s
<1>5. Writers = {}
  BY <1>3 DEF Exclusion
<1>6. /\ pc' = [pc EXCEPT ![t] = "waking"] /\ pc[t] = "adding"
      /\ \A v \in Tasks : pc'[v] = IF v = t THEN "waking" ELSE pc[v]
      /\ UNCHANGED <<writers, rline, wline, guards, borrowed, popped, woken>>
  BY DEF TypeOK
<1> HIDE DEF AddReaders
<1>7. TypeOK'
  <2>1. readers' \in Nat
    BY <1>2, <1>3, <1>4, TasksCounted
  <2> QED BY <1>6, <2>1 DEF TypeOK, Steps
<1>8. GuardInv'
  BY <1>6 DEF GuardInv, Guarding, Borrowing
<1>9. \A v \in Tasks : Handed(v)' <=> Handed(v) \/ v \in P
  BY <1>6 DEF Handed
<1> HIDE DEF s, P, Q
<1>10. LineInv'
  BY <1>6, <1>9 DEF LineInv, Waiting
<1>11. PopInv'
  BY <1>6 DEF PopInv, Waking, Leading, Waiting
<1>12. /\ Readers' = Readers \union P /\ Leaders' = Leaders \ {t}
       /\ Writers' = Writers /\ Dropped' = Dropped
  BY <1>1, <1>2, <1>6, <1>9 DEF Readers, Leaders, Writers, Dropped, Reading, Writing, Leading
<1>13. Shared' = Q \union P /\ Counted' = Counted
  <2>1. t \notin Readers
    BY <1>6 DEF Readers, Reading
  <2> QED BY <1>6, <1>12, <2>1 DEF Shared, Counted, Q
<1>14. CountInv'
  <2>1. \A u \in Tasks : pc'[u] \notin {"read_leading", "read_notifying"}
    <3>1. \A u \in Tasks : pc[u] \notin {"read_leading", "read_notifying"}
      BY <1>3, ReaderAlone
    <3> QED BY <1>6, <3>1
  <2> QED BY <1>4, <1>6, <1>13, <2>1 DEF CountInv
<1>15. Exclusion' /\ WaitersHaveLeader'
  BY <1>2, <1>5, <1>6, <1>12 DEF Exclusion, WaitersHaveLeader
<1>16. NeverPanics'
  BY <1>6, <1>12 DEF NeverPanics
<1> QED BY <1>7, <1>8, <1>10, <1>11, <1>14, <1>15, <1>16

(* The task an unlock holds in hand is woken, and waits for it. *)
LEMMA WakeKeeps ==
  ASSUME NEW t \in Tasks, IInv, Wake(t) PROVE IInv'
<1> USE DEF IInv, Wake, Goto, word, lines, locks
<1> DEFINE s == popped[t]
<1>1. s \in Seq(Tasks) /\ NoRepeats(s) /\ s # <<>>
  BY DEF PopInv, TypeOK, Waking
<1>2. PICK w \in Tasks : w = Head(s)
  <2> HIDE DEF s
  <2> QED BY <1>1, TailLinks
<1>3. /\ Tail(s) \in Seq(Tasks) /\ ToSet(Tail(s)) = ToSet(s) \ {w} /\ NoRepeats(Tail(s))
      /\ w \in ToSet(s) /\ (Tail(s) = <<>> <=> Len(s) = 1)
  <2> HIDE DEF s
  <2>1. Tail(s) = <<>> <=> Len(s) = 1
    <3> DEFINE r == Tail(s)
    <3>1. r \in Seq(Tasks) /\ Len(r) = Len(s) - 1 /\ Len(s) \in Nat
      BY <1>1
    <3> HIDE DEF r
    <3>2. r = <<>> <=> Len(r) = 0
      BY <3>1, EmptySeq
    <3> QED BY <3>1, <3>2 DEF r
  <2> QED BY <1>1, <1>2, <2>1, TailLinks
<1>4. /\ pc[w] \in Waiting /\ w \notin woken /\ w \notin ToSet(rline) /\ w \notin ToSet(wline)
      /\ \A v \in Tasks : w \in ToSet(popped[v]) => v = t
  BY <1>3 DEF PopInv
<1> DEFINE r == Tail(s)
           step == IF r = <<>> THEN "leaving" ELSE "waking"
<1>5. /\ woken' = woken \union {w} /\ pc[t] = "waking"
      /\ popped' = [popped EXCEPT ![t] = r]
      /\ pc' = [pc EXCEPT ![t] = step]
      /\ UNCHANGED <<readers, writers, rline, wline, guards, borrowed>>
  BY <1>2, <1>3, <1>4 DEF Waiting
<1>6. /\ \A v \in Tasks : popped'[v] = IF v = t THEN r ELSE popped[v]
      /\ \A v \in Tasks : pc'[v] = IF v = t THEN step ELSE pc[v]
      /\ step \in {"leaving", "waking"} /\ (step = "leaving" <=> r = <<>>)
      /\ r \in Seq(Tasks) /\ ToSet(r) = ToSet(s) \ {w} /\ NoRepeats(r)
      /\ r = <<>> => ToSet(r) = {}
  BY <1>3, <1>5, EmptyLinks DEF TypeOK
<1> HIDE DEF Wake, r, step
<1>7. TypeOK'
  BY <1>5, <1>6 DEF TypeOK, Steps
<1>8. GuardInv'
  BY <1>5, <1>6 DEF GuardInv, Guarding, Borrowing
<1>9. \A v \in Tasks : Handed(v)' <=> Handed(v) /\ v # w
  <2>1. \A v \in Tasks : Handed(v)' <=> \E u \in Tasks : pc'[u] = "waking" /\ v \in ToSet(popped'[u])
    BY DEF Handed
  <2>2. \A u \in Tasks, v \in Tasks :
          pc'[u] = "waking" /\ v \in ToSet(popped'[u]) <=> pc[u] = "waking" /\ v \in ToSet(popped[u]) /\ v # w
    BY <1>3, <1>4, <1>5, <1>6
  <2> QED BY <2>1, <2>2 DEF Handed
<1>10. LineInv'
  BY <1>4, <1>5, <1>6, <1>9 DEF LineInv, Waiting
<1>11. PopInv'
  <2>1. \A v \in Tasks : /\ ToSet(popped'[v]) = ToSet(popped[v]) \ {w}
                         /\ NoRepeats(popped'[v]) /\ popped'[v] # <<>> <=> pc'[v] \in Waking
    BY <1>3, <1>4, <1>5, <1>6 DEF PopInv, Waking, Leading
  <2> QED BY <1>4, <1>5, <1>6, <2>1 DEF PopInv, Waking, Leading, Waiting
<1>12. Readers' = Readers /\ Leaders' = Leaders /\ Writers' = Writers /\ Dropped' = Dropped
  <2>1. Handed(w)
    BY <1>3, <1>5 DEF Handed
  <2> QED BY <1>5, <1>6, <1>9, <2>1 DEF Readers, Leaders, Writers, Dropped, Reading, Writing, Leading
<1>13. CountInv' /\ Exclusion' /\ WaitersHaveLeader'
  BY <1>5, <1>6, <1>12, SetsFrame
<1>14. NeverPanics'
  BY <1>6, <1>12 DEF NeverPanics
<1> QED BY <1>7, <1>8, <1>10, <1>11, <1>13, <1>14

(* The first writer in line is handed the lock: d leaves, w owns it. *)
LEMMA PopFirst ==
  ASSUME NEW t \in Tasks, IInv, wline # <<>>, pc[t] \in {"read_notifying", "write_notifying"},
         PopWriter(t), UNCHANGED <<rline, woken>>, readers' \in Nat, writers' \in Nat
  PROVE  /\ TypeOK' /\ GuardInv' /\ LineInv' /\ PopInv' /\ NeverPanics'
         /\ \E w \in Tasks :
              /\ w \in ToSet(wline) /\ ToSet(wline)' = ToSet(wline) \ {w}
              /\ Readers' = Readers \ {t} /\ Leaders' = Leaders
              /\ Writers' = (Writers \ {t}) \union {w} /\ Dropped' = Dropped
         /\ \A u \in Tasks : pc'[u] \in {"read_leading", "read_notifying"} =>
              u # t /\ pc[u] \in {"read_leading", "read_notifying"}
<1> USE DEF IInv, PopWriter, Goto
<1>1. PICK w \in Tasks : w = Head(wline)
  BY TailLinks DEF TypeOK, LineInv
<1> DEFINE l == Tail(wline)
           s == <<w>>
<1>2. /\ l \in Seq(Tasks) /\ NoRepeats(l) /\ ToSet(l) = ToSet(wline) \ {w} /\ w \in ToSet(wline)
  BY <1>1, TailLinks DEF TypeOK, LineInv
<1>3. /\ s \in Seq(Tasks) /\ NoRepeats(s) /\ ToSet(s) = {w} /\ s # <<>>
  BY <1>1 DEF ToSet, NoRepeats, IsInjective
<1>4. /\ pc[w] = "write_waiting" /\ w \notin woken /\ w \notin ToSet(rline) /\ w # t
      /\ \A v \in Tasks : w \notin ToSet(popped[v])
      /\ ~Handed(w)
  BY <1>2 DEF LineInv, PopInv, Handed, Waiting
<1>5. /\ wline' = l /\ popped' = [popped EXCEPT ![t] = s] /\ borrowed' = FALSE
      /\ pc' = [pc EXCEPT ![t] = "waking"] /\ UNCHANGED <<rline, woken, guards>>
  BY <1>1
<1>6. /\ \A v \in Tasks : pc'[v] = IF v = t THEN "waking" ELSE pc[v]
      /\ \A v \in Tasks : popped'[v] = IF v = t THEN s ELSE popped[v]
      /\ popped[t] = <<>> /\ ToSet(popped[t]) = {}
  <2> HIDE DEF s, l
  <2>1. popped[t] = <<>>
    BY DEF PopInv, Waking, Leading
  <2>2. pc \in [Tasks -> Steps] /\ popped \in [Tasks -> Seq(Tasks)]
    BY DEF TypeOK
  <2>3. /\ \A v \in Tasks : pc'[v] = IF v = t THEN "waking" ELSE pc[v]
        /\ \A v \in Tasks : popped'[v] = IF v = t THEN s ELSE popped[v]
    BY ONLY <1>5, <2>2
  <2> QED BY <2>1, <2>3, EmptyLinks
<1> HIDE DEF PopWriter, l, s
<1>7. TypeOK'
  BY <1>2, <1>3, <1>5 DEF TypeOK, Steps
<1>8. GuardInv'
  BY <1>5, <1>6 DEF GuardInv, Guarding, Borrowing
<1>9. \A v \in Tasks : Handed(v)' <=> Handed(v) \/ v = w
  <2>1. \A v \in Tasks : Handed(v)' <=> \E u \in Tasks : pc'[u] = "waking" /\ v \in ToSet(popped'[u])
    BY DEF Handed
  <2>2. \A u \in Tasks, v \in Tasks :
          pc'[u] = "waking" /\ v \in ToSet(popped'[u]) <=>
            \/ pc[u] = "waking" /\ v \in ToSet(popped[u])
            \/ u = t /\ v = w
    BY <1>3, <1>5, <1>6
  <2> QED BY <2>1, <2>2 DEF Handed
<1>10. LineInv'
  BY <1>2, <1>4, <1>5, <1>6, <1>9 DEF LineInv, Waiting
<1>11. PopInv'
  <2>1. \A v \in Tasks : /\ ToSet(popped'[v]) = IF v = t THEN {w} ELSE ToSet(popped[v])
                         /\ NoRepeats(popped'[v]) /\ popped'[v] # <<>> <=> pc'[v] \in Waking
    BY <1>3, <1>6 DEF PopInv, Waking, Leading
  <2> QED BY <1>2, <1>4, <1>5, <1>6, <2>1 DEF PopInv, Waking, Leading, Waiting
<1>12. /\ Readers' = Readers \ {t} /\ Leaders' = Leaders
       /\ Writers' = (Writers \ {t}) \union {w} /\ Dropped' = Dropped
  BY <1>4, <1>5, <1>6, <1>9 DEF Readers, Leaders, Writers, Dropped, Reading, Writing, Leading
<1>13. NeverPanics'
  BY <1>6, <1>12 DEF NeverPanics
<1> QED BY <1>2, <1>5, <1>6, <1>7, <1>8, <1>10, <1>11, <1>12, <1>13

(* Nobody is in line, but somebody was dropped there: the unlock panics. *)
LEMMA QuitStuck ==
  ASSUME NEW t \in Tasks, IInv, Dropped # {}, pc[t] \in {"read_notifying", "write_notifying"},
         Quit(t, "stuck"), UNCHANGED <<rline, woken>>, readers' \in Nat, writers' \in Nat
  PROVE  /\ TypeOK' /\ GuardInv' /\ LineInv' /\ PopInv' /\ NeverPanics'
         /\ Readers' = Readers \ {t} /\ Leaders' = Leaders
         /\ Writers' = Writers \ {t} /\ Dropped' = Dropped
         /\ \A u \in Tasks : pc'[u] \in {"read_leading", "read_notifying"} =>
              u # t /\ pc[u] \in {"read_leading", "read_notifying"}
<1> USE DEF IInv, Quit, Goto
<1>1. TypeOK'
  BY DEF TypeOK, Steps
<1>2. GuardInv'
  BY DEF GuardInv, TypeOK, Guarding, Borrowing
<1>3. \A v \in Tasks : Handed(v)' <=> Handed(v)
  BY DEF Handed, TypeOK
<1>4. LineInv'
  BY <1>3 DEF LineInv, TypeOK, Waiting
<1>5. PopInv'
  BY DEF PopInv, TypeOK, Waking, Leading, Waiting
<1>6. /\ Readers' = Readers \ {t} /\ Leaders' = Leaders
      /\ Writers' = Writers \ {t} /\ Dropped' = Dropped
  BY <1>3 DEF Readers, Leaders, Writers, Dropped, Reading, Writing, Leading, TypeOK
<1>7. NeverPanics'
  BY <1>6 DEF NeverPanics, TypeOK
<1>8. \A u \in Tasks : pc'[u] \in {"read_leading", "read_notifying"} =>
         u # t /\ pc[u] \in {"read_leading", "read_notifying"}
  BY DEF TypeOK
<1> QED BY <1>1, <1>2, <1>4, <1>5, <1>6, <1>7, <1>8

(* The last reader hands the lock to a writer. *)
LEMMA ReadToWriterKeeps ==
  ASSUME NEW t \in Tasks, IInv, ReadToWriter(t) PROVE IInv'
<1> USE DEF IInv
<1>1. /\ pc[t] = "read_notifying" /\ readers' = 0 /\ UNCHANGED <<writers, rline, woken>>
      /\ readers' \in Nat /\ writers' \in Nat
  BY DEF ReadToWriter, TypeOK
<1>2. /\ Readers = {t} /\ Leaders = {} /\ Writers = {} /\ writers > 0
      /\ \A u \in Tasks : pc[u] \in {"read_leading", "read_notifying"} => u = t
  BY <1>1, ReaderAlone DEF Reading
<1>3. CASE wline # <<>>
  <2>1. PopWriter(t)
    BY <1>2, <1>3 DEF ReadToWriter
  <2>2. PICK w \in Tasks :
          /\ w \in ToSet(wline) /\ ToSet(wline)' = ToSet(wline) \ {w}
          /\ Readers' = Readers \ {t} /\ Leaders' = Leaders
          /\ Writers' = (Writers \ {t}) \union {w} /\ Dropped' = Dropped
    BY <1>1, <1>3, <2>1, PopFirst
  <2>3. /\ TypeOK' /\ GuardInv' /\ LineInv' /\ PopInv' /\ NeverPanics'
        /\ \A u \in Tasks : pc'[u] \notin {"read_leading", "read_notifying"}
    BY <1>1, <1>2, <1>3, <2>1, PopFirst
  <2>4. Shared' = {} /\ Counted' = Counted /\ Writers' = {w}
    BY <1>2, <2>2 DEF Shared, Counted
  <2>5. CountInv'
    BY <1>1, <2>3, <2>4, FS_EmptySet DEF CountInv
  <2>6. Exclusion' /\ WaitersHaveLeader'
    BY <1>1, <1>2, <2>2, <2>4 DEF Exclusion, WaitersHaveLeader
  <2> QED BY <2>3, <2>5, <2>6
<1>4. CASE wline = <<>>
  <2>1. Quit(t, "stuck")
    BY <1>2, <1>4 DEF ReadToWriter
  <2>2. Dropped # {}
    <3>1. Counted # {}
      BY <1>2, SetsOfTasks, CountNone DEF CountInv
    <3> QED BY <1>2, <1>4, <3>1, EmptyLinks DEF Counted
  <2>3. /\ TypeOK' /\ GuardInv' /\ LineInv' /\ PopInv' /\ NeverPanics'
        /\ Readers' = Readers \ {t} /\ Leaders' = Leaders
        /\ Writers' = Writers \ {t} /\ Dropped' = Dropped
        /\ \A u \in Tasks : pc'[u] \notin {"read_leading", "read_notifying"}
    BY <1>1, <1>2, <2>1, <2>2, QuitStuck
  <2>4. Shared' = {} /\ Counted' = Counted /\ Writers' = {} /\ wline' = wline
    BY <1>2, <2>1, <2>3 DEF Shared, Counted, Quit
  <2>5. CountInv'
    BY <1>1, <2>3, <2>4, FS_EmptySet DEF CountInv
  <2>6. Exclusion' /\ WaitersHaveLeader'
    BY <1>1, <1>2, <1>4, <2>4 DEF Exclusion, WaitersHaveLeader
  <2> QED BY <2>3, <2>5, <2>6
<1> QED BY <1>3, <1>4

(* A writer hands the lock to the next. *)
LEMMA WriteToWriterKeeps ==
  ASSUME NEW t \in Tasks, IInv, WriteToWriter(t) PROVE IInv'
<1> USE DEF IInv
<1>1. /\ pc[t] = "write_notifying" /\ writers > 1 /\ writers' = Low(writers - 1)
      /\ UNCHANGED <<readers, rline, woken>> /\ readers \in Nat
  BY DEF WriteToWriter, TypeOK
<1>2. /\ Writers = {t} /\ Readers = {} /\ Leaders = {} /\ readers = 0
      /\ \A u \in Tasks : pc[u] \notin {"read_leading", "read_notifying"}
      /\ t \in Counted /\ Counted \in SUBSET Tasks
  BY <1>1, WriterAlone DEF Writing, Reading
<1>3. writers' = Cardinality(Counted \ {t}) /\ writers' = writers - 1 /\ writers' > 0 /\ writers' \in Nat
  <2>1. writers = Cardinality(Counted) /\ writers \in Nat
    BY DEF CountInv, TypeOK
  <2>2. /\ Low(Cardinality(Counted) - 1) = Cardinality(Counted \ {t})
        /\ Cardinality(Counted) - 1 = Cardinality(Counted \ {t})
    BY <1>2, CountOut
  <2>3. writers > 1 /\ writers' = Low(writers - 1)
    BY <1>1
  <2> QED BY ONLY <2>1, <2>2, <2>3
<1>4. t \notin ToSet(wline) /\ t \notin Dropped
  BY <1>1 DEF LineInv, Dropped
<1>5. CASE wline # <<>>
  <2>1. PopWriter(t)
    BY <1>2, <1>5 DEF WriteToWriter
  <2>2. PICK w \in Tasks :
          /\ w \in ToSet(wline) /\ ToSet(wline)' = ToSet(wline) \ {w}
          /\ Readers' = Readers \ {t} /\ Leaders' = Leaders
          /\ Writers' = (Writers \ {t}) \union {w} /\ Dropped' = Dropped
    BY <1>1, <1>3, <1>5, <2>1, PopFirst
  <2>3. /\ TypeOK' /\ GuardInv' /\ LineInv' /\ PopInv' /\ NeverPanics'
        /\ \A u \in Tasks : pc'[u] \notin {"read_leading", "read_notifying"}
    BY <1>1, <1>2, <1>3, <1>5, <2>1, PopFirst
  <2>4. Shared' = {} /\ Shared = {} /\ Counted' = Counted \ {t} /\ Writers' = {w}
    BY <1>2, <1>4, <2>2 DEF Shared, Counted
  <2>5. CountInv'
    BY <1>1, <1>3, <2>3, <2>4 DEF CountInv
  <2>6. Exclusion' /\ WaitersHaveLeader'
    BY <1>1, <1>2, <1>3, <2>2, <2>4 DEF Exclusion, WaitersHaveLeader
  <2> QED BY <2>3, <2>5, <2>6
<1>6. CASE wline = <<>>
  <2>1. Quit(t, "stuck")
    BY <1>2, <1>6 DEF WriteToWriter
  <2>2. Dropped # {}
    <3>1. Counted \ {t} # {}
      BY <1>2, <1>3, CountNone
    <3> QED BY <1>2, <1>6, <3>1, EmptyLinks DEF Counted
  <2>3. /\ TypeOK' /\ GuardInv' /\ LineInv' /\ PopInv' /\ NeverPanics'
        /\ Readers' = Readers \ {t} /\ Leaders' = Leaders
        /\ Writers' = Writers \ {t} /\ Dropped' = Dropped
        /\ \A u \in Tasks : pc'[u] \notin {"read_leading", "read_notifying"}
    BY <1>1, <1>2, <1>3, <2>1, <2>2, QuitStuck
  <2>4. Shared' = {} /\ Shared = {} /\ Counted' = Counted \ {t} /\ Writers' = {} /\ wline' = wline
    BY <1>2, <1>4, <2>1, <2>3 DEF Shared, Counted, Quit
  <2>5. CountInv'
    BY <1>1, <1>3, <2>3, <2>4 DEF CountInv
  <2>6. Exclusion' /\ WaitersHaveLeader'
    BY <1>1, <1>3, <1>6, <2>4 DEF Exclusion, WaitersHaveLeader
  <2> QED BY <2>3, <2>5, <2>6
<1> QED BY <1>5, <1>6

-----------------------------------------------------------------------------
(* The invariant holds of every behaviour. *)

LEMMA InitIInv ==
  ASSUME Init PROVE IInv
<1> USE DEF Init
<1>1. Readers = {} /\ Leaders = {} /\ Writers = {} /\ Dropped = {} /\ ToSet(rline) = {} /\ ToSet(wline) = {}
  BY EmptyLinks DEF Readers, Leaders, Writers, Dropped, Reading, Leading, Writing, Handed
<1>2. Shared = {} /\ Counted = {}
  BY <1>1 DEF Shared, Counted
<1>3. TypeOK
  <2>1. <<>> \in Seq(Tasks)
    BY EmptySeq
  <2>2. "idle" \in Steps
    BY DEF Steps
  <2> QED BY <2>1, <2>2 DEF TypeOK
<1>4. GuardInv /\ NeverPanics
  BY DEF GuardInv, NeverPanics, Guarding, Borrowing
<1>5. LineInv /\ PopInv
  BY <1>1, EmptyLinks DEF LineInv, PopInv, Waking, Leading
<1>6. CountInv
  BY <1>2, FS_EmptySet DEF CountInv
<1>7. Exclusion /\ WaitersHaveLeader
  BY <1>1 DEF Exclusion, WaitersHaveLeader
<1> QED BY <1>3, <1>4, <1>5, <1>6, <1>7 DEF IInv

LEMMA NextIInv ==
  ASSUME IInv, [Next]_vars PROVE IInv'
<1>1. CASE UNCHANGED vars
  <2> USE <1>1 DEF vars
  <2>1. \A v \in Tasks : Handed(v)' <=> Handed(v)
    BY DEF Handed
  <2>2. Readers' = Readers /\ Leaders' = Leaders /\ Writers' = Writers /\ Dropped' = Dropped
    BY <2>1 DEF Readers, Leaders, Writers, Dropped
  <2>3. CountInv' /\ Exclusion' /\ WaitersHaveLeader'
    BY <2>2, SetsFrame
  <2>4. TypeOK' /\ GuardInv'
    BY DEF IInv, TypeOK, GuardInv
  <2>5. LineInv' /\ PopInv' /\ NeverPanics'
    BY <2>1, <2>2 DEF IInv, LineInv, PopInv, NeverPanics
  <2> QED BY <2>3, <2>4, <2>5 DEF IInv
<1>2. ASSUME NEW t \in Tasks, \/ Read(t) \/ ReadWait(t) \/ Write(t) \/ WriteWait(t)
                              \/ Resume(t) \/ CancelRead(t) \/ CancelWrite(t) \/ DropWrite(t)
      PROVE  IInv'
  BY <1>2, ReadKeeps, ReadWaitKeeps, WriteKeeps, WriteWaitKeeps, ResumeKeeps, CancelReadKeeps,
     CancelWriteKeeps, DropWriteKeeps
<1>3. ASSUME NEW t \in Tasks, DropGuard(t) \/ UnlockStep(t) \/ Clear(t)
      PROVE  IInv'
  BY <1>3, DropGuardKeeps, ReadUnlockKeeps, LastReaderKeeps, BorrowKeeps, ReadToWriterKeeps,
     WriteToWriterKeeps, UnborrowKeeps, ReborrowKeeps, DowngradeKeeps, GiveBackKeeps,
     AddReadersKeeps, WakeKeeps, LeaveKeeps, ClearKeeps DEF UnlockStep
<1> QED BY <1>1, <1>2, <1>3 DEF Next

(* IInv is inductive: it holds in every state the lock can reach. *)
THEOREM Invariance == Spec => []IInv
<1>1. Init => IInv
  BY InitIInv
<1>2. IInv /\ [Next]_vars => IInv'
  BY NextIInv
<1> QED BY <1>1, <1>2, PTL DEF Spec

-----------------------------------------------------------------------------
(* What follows for the users of the lock. *)

(* A writer owns the lock alone, also while unlocks hand it over. *)
THEOREM WritersExclude == Spec => []Exclusion
<1>1. IInv => Exclusion
  BY DEF IInv
<1> QED BY <1>1, Invariance, PTL

(* The two halves of the word count the owners and the writers in line. *)
THEOREM WordCounts == Spec => []CountsMatch
<1>1. IInv => CountsMatch
  <2> SUFFICES ASSUME IInv PROVE CountsMatch
    OBVIOUS
  <2> DEFINE O == Writers \union Dropped
             P == ToSet(wline)
  <2>1. O \in SUBSET Tasks /\ P \in SUBSET Tasks /\ Counted = O \union P
    BY SetsOfTasks DEF IInv, Counted
  <2>2. O \intersect P = {}
    <3>1. \A t \in P : pc[t] = "write_waiting" /\ t \notin woken /\ ~Handed(t)
      BY <2>1 DEF IInv, LineInv, PopInv, Handed
    <3> QED BY <3>1 DEF Writers, Dropped, Writing
  <2>3. Cardinality(P) = Len(wline)
    BY ListCount DEF IInv, TypeOK, LineInv
  <2> HIDE DEF O, P
  <2>4. Cardinality(O \union P) = Cardinality(O) + Cardinality(P) - Cardinality(O \intersect P)
    BY <2>1, TasksCounted, FS_Union
  <2>5. Cardinality(O \intersect P) = 0 /\ Cardinality(O) \in Nat /\ Cardinality(P) \in Nat
    BY <2>1, <2>2, TasksCounted, FS_EmptySet
  <2>6. writers = Cardinality(O) + Len(wline)
    BY <2>1, <2>3, <2>4, <2>5 DEF IInv, CountInv
  <2> QED BY <2>6 DEF IInv, CountInv, CountsMatch, Shared, O
<1> QED BY <1>1, Invariance, PTL

(* The unlocks' assertions hold, and a counted writer is missing from the line
   only after it was dropped there. *)
THEOREM UnlocksNeverPanic == Spec => []NeverPanics
<1>1. IInv => NeverPanics
  BY DEF IInv
<1> QED BY <1>1, Invariance, PTL

(* Whoever waits has an owner of the lock before it that will wake it. *)
THEOREM WaitersAreLed == Spec => []WaitersHaveLeader
<1>1. IInv => WaitersHaveLeader
  BY DEF IInv
<1> QED BY <1>1, Invariance, PTL

=============================================================================
