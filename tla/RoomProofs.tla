----------------------------- MODULE RoomProofs -----------------------------
(***************************************************************************)
(* Theorems about a room, for any set of player ids and any bounds.        *)
(*                                                                         *)
(* They come in two tiers.  RoomCore holds of every room; from it follow   *)
(* the types, the ownership of connections, the clocks, the skips, the     *)
(* order of the turns and the way the badge moves, also when a set_order   *)
(* names a player twice and so drops another.  RoomInv adds what such an   *)
(* order destroys (the host, a seated holder, an undo with somebody to go  *)
(* back to) and holds of the clients that never send one                   *)
(* (~RepeatsInOrder); the run order_loses_player shows that it needs to.   *)
(***************************************************************************)
EXTENDS Room, FiniteSetTheorems, SequenceTheorems, WellFoundedInduction, TLAPS

-----------------------------------------------------------------------------
(* Rosters: sequences in which nobody sits twice.                          *)

\* A set of numbers that is not empty has a smallest one.
LEMMA HasSmallest ==
    ASSUME NEW S \in SUBSET Nat, S # {}
    PROVE  \E k \in S : Nearest(k, S)
<1>1. IsWellFoundedOn(OpToRel(<, Nat), Nat)
  BY NatLessThanWellFounded, Zenon
<1>2. PICK k \in S : \A j \in S : ~(<<j, k>> \in OpToRel(<, Nat))
  BY <1>1, WFMin, Zenon
<1>3. \A j \in S : ~(j < k)
  BY <1>2 DEF OpToRel
<1> QED
  BY <1>3 DEF Nearest

LEMMA SeatedFacts ==
    ASSUME NEW s \in Seq(Id)
    PROVE  /\ Len(s) \in Nat
           /\ DOMAIN s = 1..Len(s)
           /\ ToSet(s) \subseteq Id
           /\ \A i \in 1..Len(s) : s[i] \in ToSet(s)
           /\ \A p \in ToSet(s) : \E i \in 1..Len(s) : s[i] = p
           /\ s = << >> <=> Len(s) = 0
           /\ s = << >> <=> ToSet(s) = {}
<1>1. Len(s) \in Nat /\ DOMAIN s = 1..Len(s) /\ s \in [1..Len(s) -> Id]
  OBVIOUS
<1>2. s = << >> <=> Len(s) = 0
  OBVIOUS
<1>3. /\ ToSet(s) \subseteq Id
      /\ \A i \in 1..Len(s) : s[i] \in ToSet(s)
      /\ \A p \in ToSet(s) : \E i \in 1..Len(s) : s[i] = p
  BY <1>1 DEF ToSet
<1>4. Len(s) # 0 => 1 \in 1..Len(s)
  BY <1>1
<1>5. Len(s) = 0 => 1..Len(s) = {}
  OBVIOUS
<1> QED
  BY <1>1, <1>2, <1>3, <1>4, <1>5

LEMMA AppendFacts ==
    ASSUME NEW s \in Seq(Id), IsInjective(s), NEW p \in Id \ ToSet(s)
    PROVE  /\ Append(s, p) \in Seq(Id)
           /\ IsInjective(Append(s, p))
           /\ ToSet(Append(s, p)) = ToSet(s) \cup {p}
<1> DEFINE t == Append(s, p)
<1>1. /\ t \in Seq(Id) /\ Len(t) = Len(s) + 1 /\ Len(s) \in Nat
      /\ \A i \in 1..Len(s) : t[i] = s[i]
      /\ t[Len(s) + 1] = p
  OBVIOUS
<1>2. DOMAIN s = 1..Len(s) /\ DOMAIN t = 1..(Len(s) + 1)
  BY <1>1
<1>3. \A i \in 1..Len(s) : s[i] # p
  BY <1>2 DEF ToSet
<1> HIDE DEF t
<1>4. IsInjective(t)
  <2> SUFFICES ASSUME NEW a \in 1..(Len(s) + 1), NEW b \in 1..(Len(s) + 1),
                      t[a] = t[b]
               PROVE  a = b
    BY <1>2 DEF IsInjective
  <2>1. CASE a \in 1..Len(s) /\ b \in 1..Len(s)
    BY <2>1, <1>1, <1>2 DEF IsInjective
  <2>2. CASE a = Len(s) + 1 \/ b = Len(s) + 1
    BY <2>2, <1>1, <1>3
  <2> QED
    BY <2>1, <2>2, <1>1
<1>5. ToSet(t) = ToSet(s) \cup {p}
  BY <1>1, <1>2 DEF ToSet
<1> QED
  BY <1>1, <1>4, <1>5 DEF t

LEMMA RemoveAtSeats ==
    ASSUME NEW s \in Seq(Id), NEW i \in 1..Len(s)
    PROVE  /\ RemoveAt(s, i) \in Seq(Id)
           /\ Len(RemoveAt(s, i)) = Len(s) - 1
           /\ \A j \in 1..(Len(s) - 1) :
                 RemoveAt(s, i)[j] = IF j < i THEN s[j] ELSE s[j + 1]
<1> DEFINE t == RemoveAt(s, i)
           u == SubSeq(s, 1, i - 1)
           v == SubSeq(s, i + 1, Len(s))
<1>1. Len(s) \in Nat /\ DOMAIN s = 1..Len(s)
  OBVIOUS
<1>2. /\ u \in Seq(Id) /\ Len(u) = i - 1
      /\ \A j \in 1..(i - 1) : u[j] = s[j]
  BY <1>1
<1>3. /\ v \in Seq(Id) /\ Len(v) = Len(s) - i
      /\ \A j \in 1..(Len(s) - i) : v[j] = s[i + j]
  <2>1. i + 1 \in Int /\ Len(s) \in Int /\ \A j \in (i + 1)..Len(s) : s[j] \in Id
    BY <1>1
  <2>2. /\ v \in Seq(Id)
        /\ Len(v) = IF i + 1 <= Len(s) THEN Len(s) - (i + 1) + 1 ELSE 0
        /\ \A j \in 1..(Len(s) - (i + 1) + 1) : v[j] = s[(i + 1) + j - 1]
    BY <2>1, SubSeqProperties
  <2>3. Len(v) = Len(s) - i
    <3>1. i \in Nat /\ i <= Len(s) /\ Len(s) \in Nat
      BY <1>1
    <3>2. (IF i + 1 <= Len(s) THEN Len(s) - (i + 1) + 1 ELSE 0) = Len(s) - i
      BY <3>1
    <3> QED
      BY <2>2, <3>2
  <2>4. ASSUME NEW j \in 1..(Len(s) - i) PROVE v[j] = s[i + j]
    <3>1. j \in 1..(Len(s) - (i + 1) + 1) /\ (i + 1) + j - 1 = i + j
      BY <1>1
    <3> QED
      BY <3>1, <2>2
  <2> QED
    BY <2>2, <2>3, <2>4
<1>4. t = u \o v
  BY DEF RemoveAt
<1> HIDE DEF t, u, v
<1>5. /\ t \in Seq(Id) /\ Len(t) = Len(s) - 1
      /\ \A j \in 1..(Len(s) - 1) : t[j] = IF j < i THEN s[j] ELSE s[j + 1]
  <2>1. t \in Seq(Id) /\ Len(t) = Len(u) + Len(v)
    BY <1>2, <1>3, <1>4, ConcatProperties
  <2>2. ASSUME NEW j \in 1..(Len(s) - 1)
        PROVE  t[j] = IF j < i THEN s[j] ELSE s[j + 1]
    <3>1. t[j] = IF j <= Len(u) THEN u[j] ELSE v[j - Len(u)]
      BY <1>1, <1>2, <1>3, <1>4, ConcatProperties
    <3> QED
      BY <3>1, <1>1, <1>2, <1>3
  <2>3. Len(t) = Len(s) - 1
    BY <2>1, <1>1, <1>2, <1>3
  <2> QED
    BY <2>1, <2>2, <2>3
<1> QED
  BY <1>5 DEF t

LEMMA RemoveAtFacts ==
    ASSUME NEW s \in Seq(Id), IsInjective(s), NEW i \in 1..Len(s)
    PROVE  /\ RemoveAt(s, i) \in Seq(Id)
           /\ IsInjective(RemoveAt(s, i))
           /\ Len(RemoveAt(s, i)) = Len(s) - 1
           /\ ToSet(RemoveAt(s, i)) = ToSet(s) \ {s[i]}
<1> DEFINE t == RemoveAt(s, i)
<1>1. Len(s) \in Nat /\ DOMAIN s = 1..Len(s)
  OBVIOUS
<1>2. /\ t \in Seq(Id) /\ Len(t) = Len(s) - 1
      /\ \A j \in 1..(Len(s) - 1) : t[j] = IF j < i THEN s[j] ELSE s[j + 1]
  BY RemoveAtSeats
<1> HIDE DEF t
<1>3. DOMAIN t = 1..(Len(s) - 1)
  BY <1>2
<1>4. IsInjective(t)
  BY <1>1, <1>2, <1>3 DEF IsInjective
<1>5. ToSet(t) = ToSet(s) \ {s[i]}
  <2>1. ASSUME NEW p \in ToSet(t) PROVE p \in ToSet(s) \ {s[i]}
    BY <1>1, <1>2, <1>3 DEF ToSet, IsInjective
  <2>2. ASSUME NEW p \in ToSet(s), p # s[i] PROVE p \in ToSet(t)
    <3>1. PICK j \in 1..Len(s) : s[j] = p
      BY <1>1 DEF ToSet
    <3>2. CASE j < i
      BY <3>1, <3>2, <1>1, <1>2, <1>3 DEF ToSet
    <3>3. CASE j > i
      <4>1. j - 1 \in 1..(Len(s) - 1) /\ t[j - 1] = p
        BY <3>1, <3>3, <1>1, <1>2
      <4> QED
        BY <4>1, <1>3 DEF ToSet
    <3> QED
      BY <2>2, <3>1, <3>2, <3>3, <1>1
  <2> QED
    BY <2>1, <2>2
<1> QED
  BY <1>2, <1>4, <1>5 DEF t

\* An order as long as the roster that names players, each at most once, names
\* every player.
LEMMA OrderFacts ==
    ASSUME NEW s \in Seq(Id), IsInjective(s),
           NEW order \in [1..Len(s) -> ToSet(s)], IsInjective(order)
    PROVE  /\ order \in Seq(Id)
           /\ Len(order) = Len(s)
           /\ ToSet(order) = ToSet(s)
<1>1. /\ Len(s) \in Nat /\ DOMAIN s = 1..Len(s) /\ ToSet(s) \subseteq Id
      /\ DOMAIN order = 1..Len(s)
  BY SeatedFacts
<1>2. order \in Seq(Id) /\ Len(order) = Len(s)
  BY <1>1
<1>3. s \in Bijection(1..Len(s), ToSet(s))
  <2>1. s \in [1..Len(s) -> ToSet(s)]
    BY <1>1, SeatedFacts
  <2>2. \A t \in ToSet(s) : \E i \in 1..Len(s) : s[i] = t
    BY SeatedFacts
  <2> QED
    BY <2>1, <2>2, <1>1 DEF Bijection, Injection, Surjection, IsInjective
<1>4. Cardinality(ToSet(s)) = Len(s) /\ IsFiniteSet(ToSet(s))
  <2>1. ExistsBijection(1..Len(s), ToSet(s))
    BY <1>3 DEF ExistsBijection
  <2> QED
    BY <2>1, <1>1, FS_CountingElements, FS_NatBijection
<1>5. Cardinality(1..Len(s)) = Len(s)
  <2>1. 1 \in Int /\ Len(s) \in Int
    BY <1>1
  <2>2. Cardinality(1..Len(s)) = IF 1 > Len(s) THEN 0 ELSE Len(s) - 1 + 1
    BY <2>1, FS_Interval, Zenon
  <2> QED
    BY <2>2, <1>1
<1>6. order \in Injection(1..Len(s), ToSet(s))
  BY <1>1 DEF Injection, IsInjective
<1>7. order \in Surjection(1..Len(s), ToSet(s))
  BY <1>4, <1>5, <1>6, FS_Injection
<1>8. ToSet(order) = ToSet(s)
  BY <1>1, <1>7 DEF Surjection, ToSet
<1> QED
  BY <1>2, <1>8

\* A finite set of numbers is counted by how many of them come no later.
LEMMA Counting ==
    ASSUME NEW n \in Nat, NEW F \in SUBSET (1..n)
    PROVE  /\ Cardinality(F) \in Nat
           /\ \A i \in F : Cardinality({j \in F : j <= i}) \in 1..Cardinality(F)
           /\ \A i, j \in F : i < j => Cardinality({k \in F : k <= i})
                                         < Cardinality({k \in F : k <= j})
           /\ \A k \in 1..Cardinality(F) :
                 \E i \in F : Cardinality({j \in F : j <= i}) = k
<1> DEFINE Upto(i) == {j \in F : j <= i}
           c == Cardinality(F)
<1>1. IsFiniteSet(1..n)
  <2>1. 1 \in Int /\ n \in Int
    OBVIOUS
  <2> QED
    BY <2>1, FS_Interval
<1>2. IsFiniteSet(F) /\ c \in Nat
  BY <1>1, FS_Subset, FS_CardinalityType
<1>3. ASSUME NEW i \in F
      PROVE  /\ IsFiniteSet(Upto(i)) /\ Upto(i) # {} /\ Upto(i) \subseteq F
             /\ Cardinality(Upto(i)) \in 1..c
  <2>1. Upto(i) \subseteq F /\ Upto(i) # {}
    OBVIOUS
  <2>2. IsFiniteSet(Upto(i)) /\ Cardinality(Upto(i)) \in Nat /\ Cardinality(Upto(i)) <= c
    BY <1>2, <2>1, FS_Subset, FS_CardinalityType
  <2>3. Cardinality(Upto(i)) # 0
    BY <2>1, <2>2, FS_EmptySet
  <2> QED
    BY <1>2, <2>1, <2>2, <2>3
<1>4. ASSUME NEW i \in F, NEW j \in F, i < j
      PROVE  Cardinality(Upto(i)) < Cardinality(Upto(j))
  <2>1. Upto(i) \subseteq Upto(j) /\ j \in Upto(j) /\ j \notin Upto(i)
    <3>1. i \in Nat /\ j \in Nat /\ F \subseteq Nat /\ i < j
      BY <1>4
    <3>2. \A k \in F : k <= i => k <= j
      BY <3>1
    <3>3. ~(j <= i) /\ j <= j
      BY <3>1
    <3> QED
      BY <3>2, <3>3
  <2>2. Upto(i) # Upto(j)
    BY <2>1
  <2>3. IsFiniteSet(Upto(j)) /\ Cardinality(Upto(j)) \in Nat /\ Cardinality(Upto(i)) \in Nat
    BY <1>2, <1>3
  <2>4. /\ Cardinality(Upto(i)) <= Cardinality(Upto(j))
        /\ Cardinality(Upto(i)) # Cardinality(Upto(j))
    BY <2>1, <2>2, <2>3, FS_Subset
  <2> QED
    BY <2>3, <2>4
<1>5. \A k \in 1..c : \E i \in F : Cardinality(Upto(i)) = k
  <2> DEFINE f == [i \in F |-> Cardinality(Upto(i))]
  <2>1. f \in [F -> 1..c]
    BY <1>3
  <2>2. \A i, j \in F : f[i] = f[j] => i = j
    <3>1. SUFFICES ASSUME NEW i \in F, NEW j \in F, f[i] = f[j], i # j PROVE FALSE
      OBVIOUS
    <3>2. i < j \/ j < i
      BY <3>1
    <3>3. f[i] \in Int /\ f[j] \in Int /\ (f[i] < f[j] \/ f[j] < f[i])
      BY <1>3, <1>4, <3>2
    <3> QED
      BY <3>1, <3>3
  <2>3. f \in Injection(F, 1..c)
    BY <2>1, <2>2 DEF Injection, IsInjective
  <2>4. IsFiniteSet(1..c) /\ Cardinality(1..c) = c
    <3>1. 1 \in Int /\ c \in Int
      BY <1>2
    <3>2. /\ IsFiniteSet(1..c)
          /\ Cardinality(1..c) = IF 1 > c THEN 0 ELSE c - 1 + 1
      BY <3>1, FS_Interval, Zenon
    <3> QED
      BY <1>2, <3>2
  <2>5. f \in Surjection(F, 1..c)
    BY <1>2, <2>3, <2>4, FS_Injection
  <2>6. \A k \in 1..c : \E i \in F : f[i] = k
    BY <2>5 DEF Surjection
  <2> QED
    BY <2>6
<1> HIDE DEF c
<1> QED
  BY <1>2, <1>3, <1>4, <1>5 DEF c

\* What set_order rebuilds is a roster of exactly those the order names, each
\* once, in the order in which it first names them.
LEMMA TakeInTurnFacts ==
    ASSUME NEW s \in Seq(Id), NEW order \in [1..Len(s) -> ToSet(s)]
    PROVE  /\ TakeInTurn(order) \in Seq(Id) /\ IsInjective(TakeInTurn(order))
           /\ ToSet(TakeInTurn(order)) = ToSet(order)
           /\ ToSet(order) \subseteq ToSet(s)
           /\ s # << >> => TakeInTurn(order) # << >>
           /\ Len(TakeInTurn(order)) <= Len(s)
<1> DEFINE n == Len(s)
           F == Firsts(order)
           c == Cardinality(F)
           t == TakeInTurn(order)
           at(k) == CHOOSE i \in F : NamedBy(order, i) = k
<1>1. /\ n \in Nat /\ DOMAIN order = 1..n /\ ToSet(s) \subseteq Id
      /\ \A i \in 1..n : order[i] \in ToSet(s)
  BY SeatedFacts
<1>2. F \subseteq 1..n /\ \A i \in F : \A j \in 1..(i - 1) : order[j] # order[i]
  BY <1>1 DEF Firsts
<1> HIDE DEF n, F
<1>3. c \in Nat /\ \A k \in 1..c : \E i \in F : NamedBy(order, i) = k
  BY <1>1, <1>2, Counting DEF NamedBy, F
<1>4. \A k \in 1..c : at(k) \in F /\ NamedBy(order, at(k)) = k
  BY <1>3
<1>5. t = [k \in 1..c |-> order[at(k)]]
  BY DEF TakeInTurn, F
<1> HIDE DEF t, at, c
<1>6. t \in Seq(Id) /\ Len(t) = c /\ DOMAIN t = 1..c
  <2>1. t \in [1..c -> Id]
    BY <1>1, <1>2, <1>4, <1>5
  <2> QED
    BY <1>3, <2>1
<1>7. \A i, j \in F : order[i] = order[j] => i = j
  <2>1. SUFFICES ASSUME NEW i \in F, NEW j \in F, order[i] = order[j], i < j PROVE FALSE
    BY <1>1, <1>2
  <2>2. i \in 1..(j - 1)
    BY <1>1, <1>2, <2>1
  <2> QED
    BY <1>2, <2>1, <2>2
<1>8. IsInjective(t)
  BY <1>4, <1>5, <1>6, <1>7 DEF IsInjective
<1>9. ASSUME NEW p \in ToSet(order) PROVE p \in ToSet(t)
  <2> DEFINE S == {i \in 1..n : order[i] = p}
  <2>1. S # {} /\ S \subseteq Nat
    BY <1>1 DEF ToSet
  <2>2. PICK i \in S : \A j \in S : i <= j
    BY <2>1, HasSmallest DEF Nearest
  <2>3. i \in F
    BY <1>1, <2>2 DEF F, Firsts
  <2>4. NamedBy(order, i) \in 1..c
    BY <1>1, <1>2, <2>3, Counting DEF NamedBy, F, c
  <2>5. at(NamedBy(order, i)) = i
    <3> DEFINE k == NamedBy(order, i)
               l == at(k)
    <3>1. l \in F /\ NamedBy(order, l) = NamedBy(order, i)
      BY <1>4, <2>4
    <3>2. \A a, b \in F : a < b => NamedBy(order, a) < NamedBy(order, b)
      BY <1>1, <1>2, Counting DEF NamedBy, F
    <3>3. \A a \in F : NamedBy(order, a) \in Nat
      BY <1>1, <1>2, Counting DEF NamedBy, F
    <3> HIDE DEF l
    <3>4. ~(l < i) /\ ~(i < l)
      BY <2>3, <3>1, <3>2, <3>3
    <3>5. l = i
      BY <1>1, <1>2, <2>3, <3>1, <3>4
    <3> QED
      BY <3>5 DEF l
  <2>6. t[NamedBy(order, i)] = p
    BY <1>5, <2>2, <2>4, <2>5
  <2> QED
    BY <1>6, <2>4, <2>6 DEF ToSet
<1>10. ToSet(t) \subseteq ToSet(order)
  BY <1>1, <1>2, <1>4, <1>5, <1>6 DEF ToSet
<1>11. ToSet(order) \subseteq ToSet(s)
  BY <1>1 DEF ToSet
<1>12. s # << >> => t # << >>
  <2>1. s # << >> => 1 \in 1..n
    BY DEF n
  <2>2. 1 \in 1..n => ToSet(order) # {}
    BY <1>1 DEF ToSet
  <2>3. t = << >> => ToSet(t) = {}
    BY <1>6 DEF ToSet
  <2> QED
    BY <1>9, <2>1, <2>2, <2>3
<1>13. c <= n
  <2>1. 1 \in Int /\ n \in Int
    BY <1>1
  <2>2. /\ IsFiniteSet(1..n)
        /\ Cardinality(1..n) = IF 1 > n THEN 0 ELSE n - 1 + 1
    BY <2>1, FS_Interval, Zenon
  <2>3. Cardinality(F) <= Cardinality(1..n)
    BY <1>2, <2>2, FS_Subset
  <2> QED
    BY <1>1, <2>2, <2>3 DEF c
<1> QED
  BY <1>6, <1>8, <1>9, <1>10, <1>11, <1>12, <1>13 DEF t, n

\* An order that names nobody twice is taken as it is.
LEMMA TakeAsIs ==
    ASSUME NEW s \in Seq(Id), NEW order \in [1..Len(s) -> ToSet(s)], IsInjective(order)
    PROVE  TakeInTurn(order) = order
<1> DEFINE n == Len(s)
<1>1. n \in Nat /\ DOMAIN order = 1..n
  BY SeatedFacts
<1>2. Firsts(order) = 1..n
  BY <1>1 DEF Firsts, IsInjective
<1>3. \A i \in 1..n : {j \in 1..n : j <= i} = 1..i
  BY <1>1
<1>4. ASSUME NEW i \in Nat PROVE Cardinality(1..i) = i
  <2>1. 1 \in Int /\ i \in Int
    OBVIOUS
  <2>2. Cardinality(1..i) = IF 1 > i THEN 0 ELSE i - 1 + 1
    BY <2>1, FS_Interval, Zenon
  <2> QED
    BY <2>2
<1>5. ASSUME NEW i \in 1..n PROVE NamedBy(order, i) = i
  <2>1. NamedBy(order, i) = Cardinality(1..i)
    BY <1>2, <1>3 DEF NamedBy
  <2>2. i \in Nat
    BY <1>1
  <2> QED
    BY <1>4, <2>1, <2>2
<1>6. \A k \in 1..n : (CHOOSE i \in 1..n : NamedBy(order, i) = k) = k
  BY <1>5
<1>7. TakeInTurn(order) = [k \in 1..n |-> order[CHOOSE i \in 1..n : NamedBy(order, i) = k]]
  BY <1>1, <1>2, <1>4 DEF TakeInTurn
<1> QED
  BY <1>1, <1>6, <1>7

\* Wherever a walk round a non-empty roster stops, a player sits.
LEMMA SeatIsSeated ==
    ASSUME NEW s \in Seq(Id), NEW i \in 1..Len(s), NEW k \in Nat
    PROVE  Seat(s, i, k) \in ToSet(s)
<1>1. Len(s) \in Nat \ {0}
  OBVIOUS
<1>2. ((i - 1 + k) % Len(s)) + 1 \in 1..Len(s)
  BY <1>1
<1> QED
  BY <1>2, SeatedFacts DEF Seat

-----------------------------------------------------------------------------
(* What is true of every room, whatever its clients send: an inductive     *)
(* invariant.  TurnHasClock needs TurnWhilePlaying (a load times a turn    *)
(* exactly if a game is running), that needs AtMostOneHost (a message of   *)
(* the host means that the roster is not empty and the room live), and all *)
(* need that nobody sits twice.                                            *)

\* At most one player wears the badge, and nobody does once the roster has been
\* seen empty: who joins between that and remove_room is nobody's host.
AtMostOneHost ==
    /\ entry # "live" => hosts = {}
    /\ \A g, h \in hosts : g = h

\* Somebody has the turn, player of the room or not, in a running game of a live
\* room, and in no other game.
TurnWhilePlaying ==
    /\ current # NoOne => state = "Active"
    /\ entry = "live" /\ state = "Active" => current # NoOne

\* What is on file can be loaded: it has at most one host, only a live room has
\* one, and somebody's turn goes with a running game.
FileCore ==
    /\ saved.entry # "live" => saved.hosts = {}
    /\ \A g, h \in saved.hosts : g = h
    /\ saved.current # NoOne => saved.state = "Active"
    /\ saved.entry = "live" /\ saved.state = "Active" => saved.current # NoOne

RoomCore ==
    /\ TypeOK
    /\ TurnWhilePlaying
    /\ AtMostOneHost
    /\ TurnHasClock
    /\ ConnectedMeansOwned
    /\ TurnCountsAsActivity

\* A step that records activity, or leaves the turn's clock alone, keeps the turn
\* from being too young for the activity on record.
LEMMA ActivityKept ==
    ASSUME RoomCore, now' = now, turnStartedAt' \in {turnStartedAt, now, Never},
           lastActive' \in {lastActive, now},
           lastActive' = now \/ turnStartedAt' = turnStartedAt
    PROVE  TurnCountsAsActivity'
<1>1. /\ lastActive \in Nat /\ now \in Nat /\ JoinDelay \in Nat
      /\ turnStartedAt \in Nat \cup {-1} /\ Never = -1
  BY BoundsAssumption DEF RoomCore, TypeOK, Never
<1>2. /\ turnStartedAt <= lastActive + JoinDelay
      /\ turnStartedAt <= now /\ lastActive <= now
  BY DEF RoomCore, TurnCountsAsActivity
<1>3. CASE lastActive' = now
  BY <1>1, <1>2, <1>3 DEF TurnCountsAsActivity
<1>4. CASE lastActive' = lastActive /\ turnStartedAt' = turnStartedAt
  BY <1>2, <1>4 DEF TurnCountsAsActivity
<1> QED
  BY <1>3, <1>4

LEMMA RoomCoreInit == Init => RoomCore /\ FileCore
<1> SUFFICES ASSUME Init PROVE RoomCore /\ FileCore
  OBVIOUS
<1>1. PICK host \in Id :
          players = <<host>> /\ hosts = {host} /\ connected = {host}
  BY DEF Init
<1>2. players \in Seq(Id) /\ Len(players) = 1 /\ players[1] = host
  BY <1>1
<1>3. Seated = {host} /\ IsInjective(players)
  BY <1>2 DEF Seated, ToSet, IsInjective
<1>4. TypeOK
  <2>1. /\ hosts \subseteq Seated /\ connected \subseteq Seated
        /\ skipNext \subseteq Seated
    BY <1>1, <1>3 DEF Init
  <2>2. /\ connEpoch \in [Id -> Nat]
        /\ lastNudgeAt \in [Id -> Nat \cup {Never}]
    BY DEF Init, NoEpoch
  <2>3. /\ current \in Id \cup {NoOne} /\ previous \in Id \cup {NoOne}
        /\ turnStartedAt \in Nat \cup {Never} /\ lastActive \in Nat /\ now \in Nat
        /\ sockets \subseteq Id \X (Nat \ {0}) /\ nextConnEpoch \in Nat \ {0}
        /\ createdAt \in Nat
    BY BoundsAssumption DEF Init
  <2>4. IsRecord(saved)
    BY DEF Init, NoRoom, IsRecord, ToSet, IsInjective
  <2> QED
    BY <1>2, <1>3, <2>1, <2>2, <2>3, <2>4 DEF Init, TypeOK
<1>5. FileCore
  BY DEF Init, NoRoom, FileCore
<1> QED
  BY <1>1, <1>3, <1>4, <1>5, NoOneAssumption, BoundsAssumption
     DEF Init, RoomCore, TypeOK, TurnWhilePlaying, AtMostOneHost, TurnHasClock,
         ConnectedMeansOwned, TurnCountsAsActivity, NoEpoch, Never

LEMMA JoinNewCore ==
    ASSUME RoomCore, NEW p \in Id, JoinNew(p)
    PROVE  RoomCore'
<1>1. /\ players' \in Seq(Id) /\ IsInjective(players')
      /\ Seated' = Seated \cup {p}
  BY AppendFacts DEF JoinNew, RoomCore, TypeOK, Seated, Unused
<1>2. lastActive' \in Nat /\ now <= lastActive' + JoinDelay /\ lastActive' <= now
  <2>1. createdAt \in Nat /\ now \in Nat /\ JoinDelay \in Nat
    BY BoundsAssumption DEF RoomCore, TypeOK
  <2>2. lastActive' \in createdAt..now /\ now - lastActive' <= JoinDelay
    BY DEF JoinNew, JoinInstants
  <2>3. \A t \in createdAt..now : now - t <= JoinDelay =>
            t \in Nat /\ now <= t + JoinDelay /\ t <= now
    BY <2>1
  <2> QED
    BY <2>2, <2>3
<1>4. TypeOK'
  BY <1>1, <1>2 DEF JoinNew, Attach, RoomCore, TypeOK, turnVars
<1>3. ConnectedMeansOwned'
  BY <1>1 DEF JoinNew, Attach, Unused, RoomCore, TypeOK, ConnectedMeansOwned, NoEpoch
<1>5. TurnCountsAsActivity'
  <2>1. /\ turnStartedAt' = turnStartedAt /\ now' = now /\ turnStartedAt <= now
        /\ now \in Nat /\ turnStartedAt \in Int /\ JoinDelay \in Nat
    BY BoundsAssumption
       DEF JoinNew, turnVars, RoomCore, TypeOK, TurnCountsAsActivity, Never
  <2>2. \A a \in Int, b, c \in Nat :
           a <= now /\ now <= b + c => a <= b + c
    BY <2>1
  <2>3. turnStartedAt <= lastActive' + JoinDelay
    BY <1>2, <2>1, <2>2
  <2> QED
    BY <1>2, <2>1, <2>3 DEF TurnCountsAsActivity
<1> QED
  BY <1>1, <1>3, <1>4, <1>5
     DEF JoinNew, turnVars, RoomCore, TurnWhilePlaying, AtMostOneHost, TurnHasClock

LEMMA RejoinCore ==
    ASSUME RoomCore, NEW p \in Id, Rejoin(p)
    PROVE  RoomCore'
<1>1. Seated' = Seated
  BY DEF Rejoin, Seated
<1>2. TypeOK'
  BY <1>1 DEF Rejoin, Attach, RoomCore, TypeOK, turnVars, clockVars
<1>3. ConnectedMeansOwned'
  BY <1>1 DEF Rejoin, Attach, RoomCore, TypeOK, ConnectedMeansOwned, NoEpoch
<1> QED
  BY <1>1, <1>2, <1>3
     DEF Rejoin, turnVars, clockVars, RoomCore, TurnWhilePlaying, AtMostOneHost,
         TurnHasClock, TurnCountsAsActivity

LEMMA SocketEndsCore ==
    ASSUME RoomCore, NEW s \in sockets, SocketEnds(s)
    PROVE  RoomCore'
<1>1. Seated' = Seated
  BY DEF SocketEnds, Seated
<1>2. TypeOK'
  BY <1>1 DEF SocketEnds, RoomCore, TypeOK, turnVars, clockVars
<1>3. s = <<s[1], s[2]>> /\ s[2] # NoEpoch
  BY DEF SocketEnds, RoomCore, TypeOK, NoEpoch
<1>4. ConnectedMeansOwned'
  BY <1>1, <1>3 DEF SocketEnds, Owns, RoomCore, TypeOK, ConnectedMeansOwned
<1> QED
  BY <1>1, <1>2, <1>4
     DEF SocketEnds, turnVars, clockVars, RoomCore, TurnWhilePlaying, AtMostOneHost,
         TurnHasClock, TurnCountsAsActivity

\* A step that leaves the aggregate and its sockets alone, whatever it answers.
LEMMA IdleCore ==
    ASSUME RoomCore, UNCHANGED <<state, locked, seatVars, turnVars>>,
           UNCHANGED <<createdAt, nextConnEpoch, sockets>>,
           UNCHANGED <<lastActive, lastNudgeAt>>, now' \in Nat, now <= now',
           actor' \in Id \cup {NoOne}, IsRecord(saved'),
           reply' \in {"ok", "ordered", "error", "none"},
           entry' \in {entry, "doomed", "dropped"}, entry = "dropped" => entry' = entry,
           entry' # entry => hosts = {}
    PROVE  RoomCore'
<1>1. Seated' = Seated
  BY DEF Seated, seatVars
<1>2. TypeOK'
  BY <1>1 DEF RoomCore, TypeOK, seatVars, turnVars, serverVars
<1>3. TurnCountsAsActivity'
  <2>1. now \in Int /\ turnStartedAt \in Int /\ lastActive \in Int
    BY DEF RoomCore, TypeOK, Never
  <2> QED
    BY <2>1 DEF RoomCore, TurnCountsAsActivity, turnVars
<1> QED
  BY <1>1, <1>2, <1>3
     DEF RoomCore, TypeOK, TurnWhilePlaying, AtMostOneHost, TurnHasClock,
         ConnectedMeansOwned, seatVars, turnVars, serverVars

\* A load brings back a roster, a badge and a turn that go together, and forgets
\* every socket.
LEMMA RestartCore ==
    ASSUME RoomCore, FileCore, Restart
    PROVE  RoomCore'
<1>1. /\ saved' = saved /\ IsRecord(saved) /\ Seated' = ToSet(saved.players)
      /\ now \in Nat
  BY DEF Restart, Seated, RoomCore, TypeOK
<1>2. TypeOK'
  <2>1. /\ players' \in Seq(Id) /\ IsInjective(players')
        /\ hosts' \subseteq Seated' /\ skipNext' \subseteq Seated'
        /\ state' \in {"Lobby", "Active"} /\ locked' \in BOOLEAN
        /\ current' \in Id \cup {NoOne} /\ previous' \in Id \cup {NoOne}
        /\ entry' \in {"live", "doomed", "dropped"}
    BY <1>1 DEF Restart, IsRecord
  <2>2. /\ connEpoch' \in [Id -> Nat] /\ lastNudgeAt' \in [Id -> Nat \cup {Never}]
        /\ turnStartedAt' \in Nat \cup {Never} /\ lastActive' \in Nat
        /\ createdAt' \in Nat /\ nextConnEpoch' \in Nat \ {0} /\ now' \in Nat
        /\ connected' = {} /\ sockets' = {}
        /\ actor' = NoOne /\ reply' = "none"
    BY <1>1 DEF Restart, ClockFromLoad, NoEpoch
  <2> QED
    BY <1>1, <2>1, <2>2 DEF TypeOK
<1>3. TurnHasClock' /\ TurnWhilePlaying'
  BY <1>1 DEF Restart, ClockFromLoad, FileCore, TurnHasClock, TurnWhilePlaying, Never
<1>4. ConnectedMeansOwned'
  <2>1. \A p \in Seated' : connEpoch'[p] = NoEpoch /\ p \notin connected'
    BY <1>1, SeatedFacts DEF Restart, IsRecord
  <2> QED
    BY <2>1 DEF ConnectedMeansOwned
<1>5. TurnCountsAsActivity'
  BY <1>1, BoundsAssumption DEF Restart, ClockFromLoad, TurnCountsAsActivity, Never
<1>6. AtMostOneHost'
  BY DEF Restart, FileCore, AtMostOneHost
<1> QED
  BY <1>2, <1>3, <1>4, <1>5, <1>6 DEF RoomCore

\* What a save writes is what a snapshot looks like.
LEMMA SaveCore ==
    ASSUME RoomCore, Save
    PROVE  RoomCore' /\ IsRecord(saved') /\ FileCore'
<1>1. IsRecord(saved')
  <2>1. IsRecord(NoRoom)
    BY DEF NoRoom, IsRecord, ToSet, IsInjective
  <2>2. entry # "dropped" => IsRecord(Persisted)
    BY DEF RoomCore, TypeOK, Persisted, NoRoom, IsRecord, Seated
  <2> QED
    BY <2>1, <2>2 DEF Save, Persisted
<1>2. FileCore'
  BY DEF Save, Persisted, NoRoom, RoomCore, TurnWhilePlaying, AtMostOneHost, FileCore
<1> QED
  BY <1>1, <1>2, IdleCore DEF Save, clockVars, RoomCore, TypeOK

-----------------------------------------------------------------------------
(* Messages.                                                               *)

\* Somebody who wears the badge sits in the room, so the roster is not empty,
\* and wears it alone in a live room.
LEMMA HostFacts ==
    ASSUME RoomCore, NEW a \in hosts
    PROVE  /\ a \in Seated
           /\ Len(players) \in Nat \ {0}
           /\ players[1] \in Seated
           /\ hosts = {a} /\ entry = "live"
<1>1. hosts = {a} /\ entry = "live"
  BY DEF RoomCore, AtMostOneHost
<1> QED
  BY <1>1, SeatedFacts DEF RoomCore, TypeOK, Seated

\* Nobody wears the badge of an empty roster.
LEMMA NobodyHostsNobody ==
    ASSUME RoomCore, players = << >>
    PROVE  hosts = {}
BY SeatedFacts DEF RoomCore, TypeOK, Seated

LEMMA StartGameCore ==
    ASSUME RoomCore, NEW a \in Id, StartGame(a)
    PROVE  RoomCore'
<1>1. /\ Seated' = Seated /\ Seated \subseteq Id
      /\ players[1] \in Seated /\ players # << >>
  <2>1. a \in hosts /\ players' = players
    BY DEF StartGame, seatVars
  <2>2. players[1] \in Seated /\ Len(players) \in Nat \ {0}
    BY <2>1, HostFacts
  <2>3. Seated \subseteq Id
    BY SeatedFacts DEF RoomCore, TypeOK, Seated
  <2>4. players # << >>
    BY <2>2
  <2>5. Seated' = Seated
    BY <2>1 DEF Seated
  <2> QED
    BY <2>2, <2>3, <2>4, <2>5
<1>2. entry' = entry
  BY <1>1 DEF StartGame, Accept, Settle, seatVars
<1>3. TypeOK'
  BY <1>1, <1>2
     DEF StartGame, Dispatching, Accept, Settle, Touch, RoomCore, TypeOK, seatVars,
         serverVars
<1>4. TurnHasClock' /\ TurnWhilePlaying'
  <2>1. current' = players[1] /\ turnStartedAt' = now /\ now \in Nat /\ state' = "Active"
    BY DEF StartGame, RoomCore, TypeOK
  <2>2. current' # NoOne
    BY <1>1, <2>1, NoOneAssumption
  <2> QED
    BY <2>1, <2>2 DEF TurnHasClock, TurnWhilePlaying, Never
<1>5. TurnCountsAsActivity'
  BY ActivityKept DEF StartGame, Accept, Settle, Touch
<1> QED
  BY <1>1, <1>2, <1>3, <1>4, <1>5
     DEF StartGame, Accept, Settle, RoomCore, AtMostOneHost, ConnectedMeansOwned,
         seatVars, serverVars

\* A turn that is passed on from a seat of the roster, whichever skips are
\* pending on the way.
LEMMA PassTurnCore ==
    ASSUME RoomCore, state = "Active", NEW i \in Lap(players), players[i] = current,
           NEW flags \in SUBSET Seated, PassTurn(i, flags), actor' \in Id
    PROVE  RoomCore'
<1>1. /\ Seated' = Seated /\ Seated \subseteq Id
      /\ players # << >> /\ Len(players) \in Nat \ {0}
      /\ current \in Seated
  BY SeatedFacts DEF PassTurn, Seated, RoomCore, TypeOK, Lap
<1>2. current' \in Seated
  BY <1>1, SeatIsSeated DEF PassTurn, Lap, Seated, RoomCore, TypeOK
<1>3. skipNext' \subseteq Seated
  BY DEF PassTurn, FlagsAfter
<1>4. entry' = entry
  BY <1>1 DEF PassTurn, Accept, Settle
<1>5. TypeOK'
  BY <1>1, <1>2, <1>3, <1>4
     DEF PassTurn, Accept, Settle, Touch, RoomCore, TypeOK, serverVars
<1>6. TurnHasClock' /\ TurnWhilePlaying'
  <2>1. turnStartedAt' = now /\ now \in Nat /\ state' = "Active" /\ current' # NoOne
    BY <1>1, <1>2, NoOneAssumption DEF PassTurn, RoomCore, TypeOK
  <2> QED
    BY <2>1 DEF TurnHasClock, TurnWhilePlaying, Never
<1>7. TurnCountsAsActivity'
  BY ActivityKept DEF PassTurn, Accept, Settle, Touch
<1> QED
  BY <1>1, <1>4, <1>5, <1>6, <1>7
     DEF PassTurn, Accept, Settle, RoomCore, AtMostOneHost, ConnectedMeansOwned, serverVars

LEMMA PassStrandedCore ==
    ASSUME RoomCore, NEW i \in Lap(players), NEW flags \in SUBSET Seated,
           PassStranded(i, flags), lastActive' \in {lastActive, now}, actor' \in Id
    PROVE  RoomCore'
<1>1. Seated' = Seated
  BY DEF PassStranded, Seated
<1>2. skipNext' \subseteq Seated
  BY DEF PassStranded, FlagsAfter
<1>3. TypeOK'
  BY <1>1, <1>2 DEF PassStranded, RoomCore, TypeOK, turnVars, serverVars
<1>4. TurnCountsAsActivity'
  BY ActivityKept DEF PassStranded, turnVars
<1> QED
  BY <1>1, <1>3, <1>4
     DEF PassStranded, RoomCore, TurnWhilePlaying, AtMostOneHost,
         TurnHasClock, ConnectedMeansOwned, turnVars, serverVars

LEMMA EndTurnCore ==
    ASSUME RoomCore, NEW a \in Id, EndTurn(a)
    PROVE  RoomCore'
<1>1. PICK i \in Lap(players) :
         /\ players[i] = current
         /\ \/ PassTurn(i, skipNext)
            \/ PassStranded(i, skipNext) /\ UNCHANGED lastActive
  BY DEF EndTurn
<1>2. skipNext \in SUBSET Seated
  BY DEF RoomCore, TypeOK
<1> QED
  BY <1>1, <1>2, PassTurnCore, PassStrandedCore DEF EndTurn, Dispatching

LEMMA ClaimTurnCore ==
    ASSUME RoomCore, NEW a \in Id, ClaimTurn(a)
    PROVE  RoomCore'
<1>1. skipNext \in SUBSET Seated
  BY DEF RoomCore, TypeOK
<1> QED
  BY <1>1, PassTurnCore DEF ClaimTurn, Dispatching

LEMMA UndoTurnCore ==
    ASSUME RoomCore, NEW a \in Id, UndoTurn(a)
    PROVE  RoomCore'
<1>1. /\ Seated' = Seated /\ Seated \subseteq Id /\ players' = players /\ players # << >>
      /\ a \in hosts /\ entry = "live" /\ state = "Active" /\ current # NoOne
  BY HostFacts, SeatedFacts
     DEF UndoTurn, seatVars, Seated, RoomCore, TypeOK, TurnWhilePlaying
<1>2. /\ UNCHANGED <<state, locked, seatVars, lastNudgeAt, now, serverVars, entry>>
      /\ actor' = a /\ reply' \in {"ok", "error"} /\ previous' = NoOne
      /\ \/ current' \in Seated /\ turnStartedAt' = now /\ lastActive' = now
         \/ UNCHANGED <<current, turnStartedAt, lastActive>>
  BY <1>1 DEF UndoTurn, Dispatching, Accept, Settle, Touch, seatVars
<1>3. current' # NoOne
  BY <1>1, <1>2, NoOneAssumption
<1>4. TypeOK'
  BY <1>1, <1>2 DEF RoomCore, TypeOK, seatVars, serverVars
<1>5. TurnHasClock' /\ TurnWhilePlaying'
  <2>1. turnStartedAt # Never /\ now # Never
    BY <1>1 DEF RoomCore, TypeOK, TurnHasClock, Never
  <2> QED
    BY <1>1, <1>2, <1>3, <2>1 DEF TurnHasClock, TurnWhilePlaying
<1>6. TurnCountsAsActivity'
  BY <1>2, ActivityKept
<1> QED
  BY <1>1, <1>2, <1>4, <1>5, <1>6
     DEF RoomCore, AtMostOneHost, ConnectedMeansOwned, seatVars, serverVars

LEMMA SkipPlayerCore ==
    ASSUME RoomCore, NEW a \in Id, NEW t \in Id, SkipPlayer(a, t)
    PROVE  RoomCore'
<1>1. skipNext \cup {t} \in SUBSET Seated
  BY DEF SkipPlayer, RoomCore, TypeOK
<1>2. CASE state = "Active" /\ current = t
  BY <1>1, <1>2, PassTurnCore, PassStrandedCore DEF SkipPlayer, Dispatching, Touch
<1>3. CASE ~(state = "Active" /\ current = t)
  <2>1. /\ Seated' = Seated /\ players # << >>
        /\ skipNext' = skipNext \cup {t}
        /\ UNCHANGED <<state, locked, players, hosts, connected, connEpoch,
                       turnVars, lastNudgeAt>>
        /\ Accept
    BY <1>3, HostFacts DEF SkipPlayer, Seated
  <2>2. entry' = entry
    BY <2>1 DEF Accept, Settle
  <2>3. TypeOK'
    BY <1>1, <2>1, <2>2
       DEF SkipPlayer, Dispatching, Accept, Settle, Touch, RoomCore, TypeOK, turnVars, serverVars
  <2>4. TurnCountsAsActivity'
    BY <2>1, ActivityKept DEF SkipPlayer, Accept, Settle, Touch, turnVars
  <2> QED
    BY <2>1, <2>2, <2>3, <2>4
       DEF Accept, Settle, RoomCore, TurnWhilePlaying, AtMostOneHost,
           TurnHasClock, ConnectedMeansOwned, turnVars, serverVars
<1> QED
  BY <1>2, <1>3

\* A removal leaves the roster without t, the badge with one player of it and the
\* turn, if it was t's, with one player of it; when it empties the roster the
\* room is no longer live, and nobody has the badge or that turn.
LEMMA RemovePlayerRoster ==
    ASSUME RoomCore, NEW a \in Id, NEW t \in Id, RemovePlayer(a, t)
    PROVE  /\ players' \in Seq(Id) /\ IsInjective(players')
           /\ Seated' = Seated \ {t} /\ t \in Seated
           /\ Len(players') = Len(players) - 1
           /\ players' = << >> <=> Seated' = {}
           /\ entry' = IF Seated' = {} THEN "doomed" ELSE entry
<1>1. PICK i \in 1..Len(players) : players[i] = t /\ players' = RemoveAt(players, i)
  BY DEF RemovePlayer, Lap
<1>2. /\ players' \in Seq(Id) /\ IsInjective(players')
      /\ Len(players') = Len(players) - 1
      /\ Seated' = Seated \ {t}
  BY <1>1, RemoveAtFacts DEF RoomCore, TypeOK, Seated
<1>3. players' = << >> <=> Seated' = {}
  BY <1>2, SeatedFacts DEF Seated
<1> QED
  BY <1>2, <1>3 DEF RemovePlayer, Accept, Settle

LEMMA RemovePlayerBadge ==
    ASSUME RoomCore, NEW a \in Id, NEW t \in Id, RemovePlayer(a, t)
    PROVE  IF Seated' = {} THEN hosts' = {} ELSE \E h \in Seated' : hosts' = {h}
<1>1. /\ Seated' = Seated \ {t}
      /\ players' = << >> <=> Seated' = {}
  BY RemovePlayerRoster
<1>2. PassBadge(t) /\ hosts = {a} /\ a \in Seated
  BY HostFacts DEF RemovePlayer
<1>3. CASE t \notin hosts /\ UNCHANGED hosts
  BY <1>1, <1>2, <1>3
<1>4. CASE t \in hosts /\ players' = << >> /\ hosts' = hosts \ {t}
  BY <1>1, <1>2, <1>4
<1>5. ASSUME NEW h \in Seated \ {t}, t \in hosts, hosts' = (hosts \ {t}) \cup {h}
      PROVE  Seated' # {} /\ h \in Seated' /\ hosts' = {h}
  BY <1>1, <1>2, <1>5
<1> QED
  BY <1>2, <1>3, <1>4, <1>5 DEF PassBadge

LEMMA RemovePlayerTurn ==
    ASSUME RoomCore, NEW a \in Id, NEW t \in Id, RemovePlayer(a, t)
    PROVE  /\ skipNext' \subseteq Seated'
           /\ IF state = "Active" /\ current = t
              THEN /\ current' \in IF Seated' = {} THEN {NoOne} ELSE Seated'
                   /\ turnStartedAt' = IF current' = NoOne THEN Never ELSE now
              ELSE UNCHANGED <<current, turnStartedAt>>
<1>1. /\ players' \in Seq(Id) /\ Seated' = Seated \ {t}
      /\ Len(players') = Len(players) - 1
      /\ players' = << >> <=> Seated' = {}
  BY RemovePlayerRoster
<1>2. PICK i \in 1..Len(players) : PassTurnOfLeaver(i, t)
  BY DEF RemovePlayer, Lap
<1>3. skipNext \ {t} \subseteq Seated'
  BY <1>1 DEF RoomCore, TypeOK
<1> DEFINE conn == connected \ {t}
           flags == skipNext \ {t}
           from == Resume(i, Len(players) - 1)
           stops == Eligible(players', from, conn, flags)
<1>4. FlagsAfter(players', from, conn, flags) \subseteq flags
  BY DEF FlagsAfter
<1>5. skipNext' \subseteq Seated'
  BY <1>2, <1>3, <1>4 DEF PassTurnOfLeaver
<1>6. CASE ~(state = "Active" /\ current = t)
  BY <1>2, <1>5, <1>6 DEF PassTurnOfLeaver
<1>7. CASE state = "Active" /\ current = t /\ players' = << >>
  BY <1>1, <1>2, <1>5, <1>7 DEF PassTurnOfLeaver, ClockForTurn
<1>8. CASE state = "Active" /\ current = t /\ players' # << >>
  <2>1. Len(players') \in Nat \ {0} /\ Len(players) \in Nat
    BY <1>1, <1>8, SeatedFacts DEF RoomCore, TypeOK
  <2>2. from \in 1..Len(players')
    BY <1>1, <2>1 DEF Resume
  <2>3. \A k \in Nat : Seat(players', from, k) \in Seated'
    BY <1>1, <2>2, SeatIsSeated DEF Seated
  <2>4. /\ \/ \E k \in Lap(players') :
                 Nearest(k, stops) /\ current' = Seat(players', from, k)
           \/ stops = {} /\ current' = Seat(players', from, 1)
        /\ ClockForTurn
    BY <1>2, <1>8 DEF PassTurnOfLeaver
  <2>5. current' \in Seated'
    BY <2>1, <2>3, <2>4 DEF Lap
  <2> QED
    BY <1>1, <1>5, <1>8, <2>4, <2>5 DEF ClockForTurn
<1> QED
  BY <1>6, <1>7, <1>8

LEMMA RemovePlayerCore ==
    ASSUME RoomCore, NEW a \in Id, NEW t \in Id, RemovePlayer(a, t)
    PROVE  RoomCore'
<1>1. /\ players' \in Seq(Id) /\ IsInjective(players')
      /\ Seated' = Seated \ {t} /\ t \in Seated
      /\ entry' = IF Seated' = {} THEN "doomed" ELSE entry
  BY RemovePlayerRoster
<1>2. IF Seated' = {} THEN hosts' = {} ELSE \E h \in Seated' : hosts' = {h}
  BY RemovePlayerBadge
<1>3. /\ skipNext' \subseteq Seated'
      /\ IF state = "Active" /\ current = t
         THEN /\ current' \in IF Seated' = {} THEN {NoOne} ELSE Seated'
              /\ turnStartedAt' = IF current' = NoOne THEN Never ELSE now
         ELSE UNCHANGED <<current, turnStartedAt>>
  BY RemovePlayerTurn
<1>4. Seated \subseteq Id
  BY SeatedFacts DEF RoomCore, TypeOK, Seated
<1>5. /\ connected' = connected \ {t}
      /\ connEpoch' = [connEpoch EXCEPT ![t] = NoEpoch]
      /\ previous' = IF previous = t THEN NoOne ELSE previous
      /\ lastNudgeAt' = [lastNudgeAt EXCEPT ![t] = Never]
      /\ lastActive' = now
      /\ actor' = a /\ reply' = "ok"
      /\ UNCHANGED <<state, locked, now, createdAt, nextConnEpoch, sockets, saved>>
      /\ entry # "dropped"
  BY DEF RemovePlayer, Dispatching, Forget, Touch, Accept, Settle, serverVars
<1>6. TypeOK'
  <2>1. /\ connEpoch' \in [Id -> Nat]
        /\ lastNudgeAt' \in [Id -> Nat \cup {Never}]
    BY <1>5 DEF RoomCore, TypeOK, NoEpoch
  <2>2. /\ current' \in Id \cup {NoOne} /\ previous' \in Id \cup {NoOne}
        /\ turnStartedAt' \in Nat \cup {Never}
    BY <1>1, <1>3, <1>4, <1>5 DEF RoomCore, TypeOK
  <2>3. connected' \subseteq Seated'
    BY <1>1, <1>5 DEF RoomCore, TypeOK
  <2> QED
    BY <1>1, <1>2, <1>3, <1>5, <2>1, <2>2, <2>3 DEF RoomCore, TypeOK
<1>7. TurnWhilePlaying'
  BY <1>1, <1>3, <1>4, <1>5, NoOneAssumption DEF RoomCore, TypeOK, TurnWhilePlaying
<1>8. AtMostOneHost'
  <2>1. entry = "live"
    BY HostFacts DEF RemovePlayer
  <2> QED
    BY <1>1, <1>2, <2>1 DEF AtMostOneHost
<1>9. TurnHasClock' /\ TurnCountsAsActivity'
  <2>1. TurnHasClock'
    BY <1>1, <1>3, <1>5, NoOneAssumption DEF RoomCore, TypeOK, TurnHasClock, Never
  <2>2. TurnCountsAsActivity'
    BY <1>3, <1>5, ActivityKept
  <2> QED
    BY <2>1, <2>2
<1>10. ConnectedMeansOwned'
  <2>1. hosts \ {t} \subseteq hosts'
    BY DEF RemovePlayer, PassBadge
  <2>2. ASSUME NEW p \in Seated'
        PROVE  /\ p \in Seated /\ p # t /\ connEpoch'[p] = connEpoch[p]
               /\ p \in connected' <=> p \in connected
               /\ p \in hosts => p \in hosts'
    BY <1>1, <1>4, <1>5, <2>1, <2>2 DEF RoomCore, TypeOK
  <2> QED
    BY <1>5, <2>2 DEF RoomCore, ConnectedMeansOwned
<1> QED
  BY <1>6, <1>7, <1>8, <1>9, <1>10 DEF RoomCore

\* An accepted order leaves a roster of players of the room, and not an empty
\* one; without repeats nobody is missing.
LEMMA SetOrderRoster ==
    ASSUME RoomCore, NEW a \in Id, SetOrder(a)
    PROVE  /\ players' \in Seq(Id) /\ IsInjective(players') /\ players' # << >>
           /\ Seated' = ToSet(players') /\ Seated' \subseteq Seated
           /\ entry' = entry /\ Len(players') <= Len(players)
           /\ ~RepeatsInOrder => Seated' = Seated /\ hosts' = hosts
<1>1. PICK order \in [1..Len(players) -> ToSet(players)] :
         /\ RepeatsInOrder \/ IsInjective(order)
         /\ players' = TakeInTurn(order)
  BY DEF SetOrder, Seated
<1>2. players \in Seq(Id) /\ IsInjective(players) /\ hosts \subseteq ToSet(players)
  BY DEF RoomCore, TypeOK, Seated
<1>3. players # << >>
  BY HostFacts DEF SetOrder
<1>4. /\ players' \in Seq(Id) /\ IsInjective(players') /\ players' # << >>
      /\ ToSet(players') \subseteq ToSet(players) /\ Len(players') <= Len(players)
  BY <1>1, <1>2, <1>3, TakeInTurnFacts
<1>5. ~RepeatsInOrder => ToSet(players') = ToSet(players)
  BY <1>1, <1>2, TakeAsIs, OrderFacts
<1>6. entry' = entry /\ hosts' = hosts \cap ToSet(players')
  BY <1>4 DEF SetOrder, Accept, Settle
<1> QED
  BY <1>2, <1>4, <1>5, <1>6 DEF Seated

LEMMA SetOrderCore ==
    ASSUME RoomCore, NEW a \in Id, SetOrder(a)
    PROVE  RoomCore'
<1>1. /\ players' \in Seq(Id) /\ IsInjective(players')
      /\ Seated' = ToSet(players') /\ Seated' \subseteq Seated /\ Seated \subseteq Id
      /\ entry' = entry
  BY SetOrderRoster, SeatedFacts DEF RoomCore, TypeOK, Seated
<1>2. /\ hosts' = hosts \cap Seated' /\ connected' = connected \cap Seated'
      /\ skipNext' = skipNext \cap Seated'
      /\ connEpoch' = [p \in Id |-> IF p \in Seated' THEN connEpoch[p] ELSE NoEpoch]
      /\ lastActive' = now /\ actor' = a /\ reply' = "ordered"
      /\ UNCHANGED <<state, locked, current, previous, turnStartedAt, lastNudgeAt, now,
                     createdAt, nextConnEpoch, sockets, saved>>
  BY <1>1 DEF SetOrder, Dispatching, Settle, Touch, turnVars, serverVars
<1>3. TypeOK'
  BY <1>1, <1>2 DEF RoomCore, TypeOK, NoEpoch
<1>4. ConnectedMeansOwned'
  <2>1. ASSUME NEW p \in Seated'
        PROVE  /\ p \in Seated /\ connEpoch'[p] = connEpoch[p]
               /\ p \in connected' <=> p \in connected
               /\ p \in hosts => p \in hosts'
    BY <1>1, <1>2
  <2> QED
    BY <1>1, <1>2, <2>1 DEF RoomCore, ConnectedMeansOwned
<1>5. TurnCountsAsActivity'
  BY <1>2, ActivityKept
<1> QED
  BY <1>1, <1>2, <1>3, <1>4, <1>5
     DEF RoomCore, TurnWhilePlaying, AtMostOneHost, TurnHasClock

LEMMA SetLockedCore ==
    ASSUME RoomCore, NEW a \in Id, SetLocked(a)
    PROVE  RoomCore'
<1>1. Seated' = Seated /\ players' # << >>
  BY HostFacts DEF SetLocked, seatVars, Seated
<1>2. entry' = entry
  BY <1>1 DEF SetLocked, Accept, Settle
<1>3. TypeOK'
  BY <1>1, <1>2, BoundsAssumption
     DEF SetLocked, Dispatching, Accept, Settle, Touch, RoomCore, TypeOK, seatVars,
         turnVars, serverVars
<1>4. TurnCountsAsActivity'
  BY ActivityKept DEF SetLocked, Accept, Settle, Touch, turnVars
<1> QED
  BY <1>1, <1>2, <1>3, <1>4
     DEF SetLocked, Accept, Settle, RoomCore, TurnWhilePlaying, AtMostOneHost, TurnHasClock,
         ConnectedMeansOwned, seatVars, turnVars, serverVars

LEMMA NudgeCore ==
    ASSUME RoomCore, NEW a \in Id, Nudge(a)
    PROVE  RoomCore'
<1>1. Seated' = Seated
  BY DEF Nudge, seatVars, Seated
<1>2. /\ entry' \in {entry, "doomed"} /\ entry # "dropped"
      /\ entry' # entry => players = << >>
      /\ UNCHANGED <<state, locked, seatVars, turnVars, lastActive, now, serverVars>>
      /\ actor' = a /\ reply' = "ok" /\ lastNudgeAt' \in [Id -> Nat \cup {Never}]
  BY DEF Nudge, Dispatching, Accept, Settle, RoomCore, TypeOK, seatVars
<1>3. TypeOK'
  BY <1>1, <1>2 DEF RoomCore, TypeOK, seatVars, turnVars, serverVars
<1>4. AtMostOneHost'
  BY <1>2, NobodyHostsNobody DEF RoomCore, AtMostOneHost, seatVars
<1> QED
  BY <1>1, <1>2, <1>3, <1>4
     DEF RoomCore, TurnWhilePlaying, TurnHasClock,
         ConnectedMeansOwned, TurnCountsAsActivity, seatVars, turnVars, serverVars

-----------------------------------------------------------------------------
\* Nothing but a save touches the file.
LEMMA OnlySavesWrite ==
    ASSUME [Next]_vars
    PROVE  saved' = saved \/ Save
BY DEF Next, vars, serverVars, JoinNew, Rejoin, Attach, JoinRefused, SocketEnds,
       StartGame, EndTurn, ClaimTurn, UndoTurn, SkipPlayer, RemovePlayer, SetOrder,
       SetLocked, Nudge, Refuse, Drop, Restart, Tick, Accept, Settle, PassTurn,
       PassStranded

LEMMA RoomCoreNext == RoomCore /\ FileCore /\ [Next]_vars => RoomCore' /\ FileCore'
<1> SUFFICES ASSUME RoomCore, FileCore, [Next]_vars PROVE RoomCore'
  BY OnlySavesWrite, SaveCore DEF FileCore
<1>1. ASSUME NEW p \in Id, JoinNew(p) PROVE RoomCore'
  BY <1>1, JoinNewCore
<1>2. ASSUME NEW p \in Id, Rejoin(p) PROVE RoomCore'
  BY <1>2, RejoinCore
<1>3. ASSUME NEW s \in sockets, SocketEnds(s) PROVE RoomCore'
  BY <1>3, SocketEndsCore
<1>4. CASE JoinRefused
  BY <1>4, IdleCore DEF JoinRefused, clockVars, serverVars, RoomCore, TypeOK
<1>5. CASE Drop
  BY <1>5, IdleCore DEF Drop, clockVars, serverVars, RoomCore, TypeOK, AtMostOneHost
<1>6. CASE Tick
  BY <1>6, IdleCore DEF Tick, serverVars, RoomCore, TypeOK
<1>7. CASE UNCHANGED vars
  <2>1. /\ UNCHANGED <<state, locked, seatVars, turnVars, lastActive, lastNudgeAt, now>>
        /\ UNCHANGED <<createdAt, nextConnEpoch, sockets, saved, actor, reply, entry>>
    BY <1>7 DEF vars, clockVars, serverVars
  <2> QED
    BY <2>1, IdleCore DEF RoomCore, TypeOK
<1>8. ASSUME NEW a \in Id, Refuse(a) PROVE RoomCore'
  <2>1. /\ UNCHANGED <<state, locked, seatVars, turnVars, serverVars>>
        /\ UNCHANGED <<lastActive, lastNudgeAt, now>> /\ IsRecord(saved')
        /\ actor' = a /\ reply' = "error" /\ entry # "dropped" /\ entry' \in {entry, "doomed"}
        /\ entry' # entry => hosts = {}
    BY <1>8, NobodyHostsNobody
       DEF Refuse, Dispatching, clockVars, serverVars, RoomCore, TypeOK
  <2>2. now' \in Nat /\ now <= now'
    BY <2>1 DEF RoomCore, TypeOK
  <2> QED
    BY <2>1, <2>2, IdleCore DEF serverVars
<1>9. ASSUME NEW a \in Id,
             \/ StartGame(a) \/ EndTurn(a) \/ ClaimTurn(a) \/ UndoTurn(a)
             \/ \E t \in Id : SkipPlayer(a, t) \/ RemovePlayer(a, t)
             \/ SetOrder(a) \/ SetLocked(a) \/ Nudge(a)
      PROVE  RoomCore'
  BY <1>9, StartGameCore, EndTurnCore, ClaimTurnCore, UndoTurnCore, SkipPlayerCore,
     RemovePlayerCore, SetOrderCore, SetLockedCore, NudgeCore
<1>10. CASE Restart \/ Save
  BY <1>10, RestartCore, SaveCore
<1> QED
  BY <1>1, <1>2, <1>3, <1>4, <1>5, <1>6, <1>7, <1>8, <1>9, <1>10 DEF Next

\* Every reachable state of every room satisfies it.
LEMMA RoomCoreInvariant == Spec => []RoomCore
BY RoomCoreInit, RoomCoreNext, PTL DEF Spec

\* So does every file.
LEMMA FileCoreInvariant == Spec => []FileCore
BY RoomCoreInit, RoomCoreNext, PTL DEF Spec

\* The aggregate keeps its types and nobody ever sits twice, whatever joins,
\* removals and reorders are made, also by an order that names somebody twice.
THEOREM TypeCorrect == Spec => []TypeOK
<1>1. RoomCore => TypeOK
  BY DEF RoomCore
<1> QED
  BY <1>1, RoomCoreInvariant, PTL

\* A player is connected exactly while the socket that attached last is open:
\* no ghost disconnects a player who has come back, and no player stays
\* connected behind a closed socket.
THEOREM OwnershipExact == Spec => []ConnectedMeansOwned
<1>1. RoomCore => ConnectedMeansOwned
  BY DEF RoomCore
<1> QED
  BY <1>1, RoomCoreInvariant, PTL

\* A turn and its clock exist together, across restarts too.
THEOREM ClocksConsistent == Spec => []TurnHasClock
<1>1. RoomCore => TurnHasClock
  BY DEF RoomCore
<1> QED
  BY <1>1, RoomCoreInvariant, PTL

\* No turn is younger than the last activity on record, which the idle sweep
\* goes by, by more than a join may have waited for the room.
THEOREM TurnsKeepRoomsAlive == Spec => []TurnCountsAsActivity
<1>1. RoomCore => TurnCountsAsActivity
  BY DEF RoomCore
<1> QED
  BY <1>1, RoomCoreInvariant, PTL

-----------------------------------------------------------------------------
(* What clients that name nobody twice can count on.  TurnIsSeated needs   *)
(* PreviousIsSeated (an undo goes back to a player), and the three need    *)
(* that an order loses nobody.                                             *)

Kept == TurnIsSeated /\ OneHost /\ PreviousIsSeated

RoomInv == RoomCore /\ Kept

\* The same of what is on file.
FileKept ==
    /\ saved.entry = "live" =>
          /\ IF saved.state = "Active" THEN saved.current \in ToSet(saved.players)
                                       ELSE saved.current = NoOne
          /\ \E h \in ToSet(saved.players) : saved.hosts = {h}
    /\ saved.previous # NoOne => saved.previous \in ToSet(saved.players)

LEMMA FileKeptNext ==
    ASSUME Kept, FileKept, [Next]_vars
    PROVE  FileKept'
<1>1. CASE Save
  <2>1. saved' = Persisted
    BY <1>1 DEF Save
  <2>2. CASE entry = "dropped"
    BY <2>1, <2>2 DEF Persisted, NoRoom, FileKept
  <2>3. CASE entry # "dropped"
    BY <2>1, <2>3
       DEF Persisted, Kept, TurnIsSeated, OneHost, PreviousIsSeated, FileKept,
           Seated
  <2> QED
    BY <2>2, <2>3
<1>2. CASE saved' = saved
  BY <1>2 DEF FileKept
<1> QED
  BY <1>1, <1>2, OnlySavesWrite

\* A load brings back what was saved.
LEMMA RestartKept ==
    ASSUME FileKept, Restart
    PROVE  Kept'
BY DEF Restart, FileKept, Kept, TurnIsSeated, OneHost, PreviousIsSeated, Seated

\* A room that is no longer live never is again in the same process.
LEMMA NeverLiveAgain ==
    ASSUME [Next]_vars, ~Restart, entry # "live"
    PROVE  entry' # "live"
BY DEF Next, vars, JoinNew, Rejoin, JoinRefused, SocketEnds, StartGame,
       EndTurn, ClaimTurn, UndoTurn, SkipPlayer, RemovePlayer, SetOrder, SetLocked,
       Nudge, Refuse, Drop, Save, Tick, Accept, Settle, PassTurn, PassStranded

\* A step after which everybody who sat still sits, the badge and the turn are
\* where they were, and nobody new is there to go back to.
LEMMA KeptInPlace ==
    ASSUME Kept, [Next]_vars, ~Restart, Seated \subseteq Seated',
           UNCHANGED <<hosts, current, state>>, previous' \in {previous, NoOne}
    PROVE  Kept'
BY NeverLiveAgain DEF Kept, TurnIsSeated, OneHost, PreviousIsSeated

\* A step that moves the turn within the roster of a running game.
LEMMA KeptInPlay ==
    ASSUME Kept, [Next]_vars, ~Restart, Seated' = Seated, UNCHANGED hosts, state' = "Active",
           current' \in Seated, previous' \in Seated \cup {NoOne}
    PROVE  Kept'
BY NeverLiveAgain DEF Kept, TurnIsSeated, OneHost, PreviousIsSeated

LEMMA PassKept ==
    ASSUME RoomInv, [Next]_vars, ~Restart, NEW i \in Lap(players), players[i] = current,
           state = "Active", NEW flags, PassTurn(i, flags) \/ PassStranded(i, flags)
    PROVE  Kept'
<1>1. /\ Seated' = Seated /\ UNCHANGED <<hosts, state>>
      /\ players \in Seq(Id) /\ i \in 1..Len(players) /\ current \in Seated
  BY SeatedFacts DEF PassTurn, PassStranded, Seated, RoomInv, RoomCore, TypeOK, Lap
<1>2. CASE PassTurn(i, flags)
  <2>1. current' \in Seated /\ previous' = current
    BY <1>1, <1>2, SeatIsSeated DEF PassTurn, Lap, Seated
  <2> QED
    BY <1>1, <2>1, KeptInPlay DEF RoomInv
<1>3. CASE PassStranded(i, flags)
  BY <1>1, <1>3, KeptInPlace DEF PassStranded, turnVars, RoomInv
<1> QED
  BY <1>2, <1>3

LEMMA SkipPlayerKept ==
    ASSUME RoomInv, [Next]_vars, ~Restart, NEW a \in Id, NEW t \in Id, SkipPlayer(a, t)
    PROVE  Kept'
<1>1. CASE state = "Active" /\ current = t
  BY <1>1, PassKept DEF SkipPlayer
<1>2. CASE ~(state = "Active" /\ current = t)
  BY <1>2, KeptInPlace DEF SkipPlayer, turnVars, Seated, RoomInv
<1> QED
  BY <1>1, <1>2

LEMMA StartGameKept ==
    ASSUME RoomInv, [Next]_vars, ~Restart, NEW a \in Id, StartGame(a)
    PROVE  Kept'
<1>1. players[1] \in Seated
  BY HostFacts DEF StartGame, RoomInv
<1> QED
  BY <1>1, KeptInPlay DEF StartGame, seatVars, Seated, RoomInv

LEMMA UndoTurnKept ==
    ASSUME RoomInv, [Next]_vars, ~Restart, NEW a \in Id, UndoTurn(a)
    PROVE  Kept'
<1>1. previous \in Seated
  BY DEF UndoTurn, RoomInv, Kept, PreviousIsSeated
<1> QED
  BY <1>1, KeptInPlay DEF UndoTurn, seatVars, Seated, RoomInv

LEMMA RemovePlayerKept ==
    ASSUME RoomInv, NEW a \in Id, NEW t \in Id, RemovePlayer(a, t)
    PROVE  Kept'
<1>1. /\ Seated' = Seated \ {t}
      /\ entry' = IF Seated' = {} THEN "doomed" ELSE entry
  BY RemovePlayerRoster DEF RoomInv
<1>2. IF Seated' = {} THEN hosts' = {} ELSE \E h \in Seated' : hosts' = {h}
  BY RemovePlayerBadge DEF RoomInv
<1>3. IF state = "Active" /\ current = t
      THEN current' \in IF Seated' = {} THEN {NoOne} ELSE Seated'
      ELSE current' = current
  BY RemovePlayerTurn DEF RoomInv
<1>4. /\ state' = state /\ entry = "live"
      /\ previous' = IF previous = t THEN NoOne ELSE previous
  BY HostFacts DEF RemovePlayer, Forget, RoomInv
<1>5. TurnIsSeated'
  BY <1>1, <1>3, <1>4 DEF RoomInv, Kept, TurnIsSeated
<1>6. OneHost'
  BY <1>1, <1>2 DEF OneHost
<1>7. PreviousIsSeated'
  BY <1>1, <1>4 DEF RoomInv, Kept, PreviousIsSeated
<1> QED
  BY <1>5, <1>6, <1>7 DEF Kept

LEMMA KeptInit == Init => Kept
<1> SUFFICES ASSUME Init PROVE Kept
  OBVIOUS
<1>1. PICK host \in Id : players = <<host>> /\ hosts = {host}
  BY DEF Init
<1>2. Len(players) = 1 /\ players[1] = host /\ DOMAIN players = {1}
  BY <1>1
<1>3. Seated = {host}
  BY <1>2 DEF Seated, ToSet
<1> QED
  BY <1>1, <1>3 DEF Init, Kept, TurnIsSeated, OneHost, PreviousIsSeated

LEMMA KeptNext ==
    ASSUME ~RepeatsInOrder
    PROVE  RoomInv /\ FileKept /\ [Next]_vars => Kept'
<1> SUFFICES ASSUME RoomInv, [Next]_vars, ~Restart PROVE Kept'
  BY RestartKept
<1>1. ASSUME NEW p \in Id, JoinNew(p) PROVE Kept'
  <2>1. Seated \subseteq Seated'
    BY <1>1, AppendFacts DEF JoinNew, Unused, Seated, RoomInv, RoomCore, TypeOK
  <2> QED
    BY <1>1, <2>1, KeptInPlace DEF JoinNew, turnVars, RoomInv
<1>2. CASE JoinRefused \/ Drop \/ Save \/ Tick \/ \E p \in Id : Rejoin(p)
  BY <1>2, KeptInPlace
     DEF JoinRefused, Drop, Save, Tick, Rejoin, seatVars, turnVars, Seated, RoomInv
<1>3. ASSUME NEW s \in sockets, SocketEnds(s) PROVE Kept'
  BY <1>3, KeptInPlace DEF SocketEnds, turnVars, Seated, RoomInv
<1>4. ASSUME NEW a \in Id, SetLocked(a) \/ Nudge(a) \/ Refuse(a) PROVE Kept'
  BY <1>4, KeptInPlace DEF SetLocked, Nudge, Refuse, seatVars, turnVars, Seated, RoomInv
<1>5. ASSUME NEW a \in Id, SetOrder(a) PROVE Kept'
  <2>1. Seated' = Seated /\ hosts' = hosts
    BY <1>5, SetOrderRoster DEF RoomInv
  <2> QED
    BY <1>5, <2>1, KeptInPlace DEF SetOrder, turnVars, RoomInv
<1>6. ASSUME NEW a \in Id, EndTurn(a) \/ ClaimTurn(a) PROVE Kept'
  BY <1>6, PassKept DEF EndTurn, ClaimTurn
<1>7. ASSUME NEW a \in Id,
             \/ StartGame(a) \/ UndoTurn(a)
             \/ \E t \in Id : SkipPlayer(a, t) \/ RemovePlayer(a, t)
      PROVE  Kept'
  BY <1>7, StartGameKept, UndoTurnKept, SkipPlayerKept, RemovePlayerKept
<1>8. CASE UNCHANGED vars
  BY <1>8, KeptInPlace DEF vars, seatVars, turnVars, Seated, RoomInv
<1> QED
  BY <1>1, <1>2, <1>3, <1>4, <1>5, <1>6, <1>7, <1>8 DEF Next

LEMMA RoomInvariant ==
    ASSUME ~RepeatsInOrder
    PROVE  Spec => []RoomInv
<1> DEFINE Inv == RoomInv /\ FileCore /\ FileKept
<1>1. Init => Inv
  BY RoomCoreInit, KeptInit DEF RoomInv, Init, NoRoom, FileKept
<1>2. Inv /\ [Next]_vars => Inv'
  BY RoomCoreNext, KeptNext, FileKeptNext DEF RoomInv
<1>3. Inv => RoomInv
  OBVIOUS
<1> HIDE DEF Inv
<1> QED
  BY <1>1, <1>2, <1>3, PTL DEF Spec

\* A running game never loses its turn: the turn of a live room rests on one of
\* its players, so no sequence of joins, departures, skips, removals and undos
\* wedges the room.
THEOREM TurnNeverLost ==
    ASSUME ~RepeatsInOrder
    PROVE  Spec => []TurnIsSeated
<1>1. RoomInv => TurnIsSeated
  BY DEF RoomInv, Kept
<1> QED
  BY <1>1, RoomInvariant, PTL

\* A live room has exactly one host, whoever is removed and whoever is away.
THEOREM HostNeverLost ==
    ASSUME ~RepeatsInOrder
    PROVE  Spec => []OneHost
<1>1. RoomInv => OneHost
  BY DEF RoomInv, Kept
<1> QED
  BY <1>1, RoomInvariant, PTL

\* undo_turn always has a player to go back to, or nobody.
THEOREM UndoNeverDangles ==
    ASSUME ~RepeatsInOrder
    PROVE  Spec => []PreviousIsSeated
<1>1. RoomInv => PreviousIsSeated
  BY DEF RoomInv, Kept
<1> QED
  BY <1>1, RoomInvariant, PTL

-----------------------------------------------------------------------------
(* What a step may never do.                                               *)

\* A turn passed on takes a skip only from a connected player, and refuses
\* nothing.
LEMMA PassSpares ==
    ASSUME NEW i \in Lap(players), NEW flags, skipNext \subseteq flags,
           PassTurn(i, flags) \/ PassStranded(i, flags)
    PROVE  /\ skipNext \ connected \subseteq skipNext'
           /\ UNCHANGED <<state, locked, players, hosts>>
           /\ reply' = "error" => UNCHANGED turnVars
BY DEF PassTurn, PassStranded, FlagsAfter, Accept, Settle

\* The messages that move the turn without touching the roster.
TurnMoves ==
    \E a \in Id : EndTurn(a) \/ ClaimTurn(a) \/ \E t \in Id : SkipPlayer(a, t)

LEMMA TurnMovesSpare ==
    ASSUME TurnMoves
    PROVE  /\ skipNext \ connected \subseteq skipNext'
           /\ UNCHANGED <<state, locked, players, hosts>>
           /\ reply' = "error" => UNCHANGED turnVars
<1>1. PICK a \in Id :
         EndTurn(a) \/ ClaimTurn(a) \/ \E t \in Id : SkipPlayer(a, t)
  BY DEF TurnMoves
<1>2. CASE EndTurn(a)
  BY <1>2, PassSpares DEF EndTurn
<1>3. CASE ClaimTurn(a)
  BY <1>3, PassSpares DEF ClaimTurn
<1>4. ASSUME NEW t \in Id, SkipPlayer(a, t)
      PROVE  /\ skipNext \ connected \subseteq skipNext'
             /\ UNCHANGED <<state, locked, players, hosts>>
             /\ reply' = "error" => UNCHANGED turnVars
  <2>1. CASE state = "Active" /\ current = t
    BY <1>4, <2>1, PassSpares DEF SkipPlayer
  <2>2. CASE ~(state = "Active" /\ current = t)
    BY <1>4, <2>2 DEF SkipPlayer, Accept, Settle
  <2> QED
    BY <2>1, <2>2
<1> QED
  BY <1>1, <1>2, <1>3, <1>4

\* Every other step that is not a removal, a new order or a load keeps the badge,
\* the pending skips and, unless it is accepted or an undo with nobody to go back
\* to, the turn.
Keeps ==
    /\ UNCHANGED <<hosts, skipNext>>
    /\ /\ reply' = "error"
       /\ ~ \E a \in Id : UndoTurn(a) /\ previous \notin Seated
       => UNCHANGED <<turnVars, players, hosts, locked, state>>

LEMMA OtherSteps ==
    ASSUME Next
    PROVE  \/ Keeps
           \/ TurnMoves
           \/ Restart
           \/ \E a \in Id : SetOrder(a) \/ \E t \in Id : RemovePlayer(a, t)
<1>1. ASSUME NEW p \in Id, JoinNew(p) \/ Rejoin(p) PROVE Keeps
  BY <1>1 DEF JoinNew, Rejoin, Keeps
<1>2. CASE JoinRefused
  BY <1>2 DEF JoinRefused, Keeps, seatVars
<1>3. ASSUME NEW s \in sockets, SocketEnds(s) PROVE Keeps
  BY <1>3 DEF SocketEnds, Keeps
<1>4. ASSUME NEW a \in Id, StartGame(a) \/ SetLocked(a) \/ Nudge(a) PROVE Keeps
  BY <1>4 DEF StartGame, SetLocked, Nudge, Accept, Settle, Keeps, seatVars
<1>5. ASSUME NEW a \in Id, UndoTurn(a) PROVE Keeps
  BY <1>5 DEF UndoTurn, Accept, Settle, Keeps, seatVars
<1>6. ASSUME NEW a \in Id, Refuse(a) PROVE Keeps
  BY <1>6 DEF Refuse, Keeps, seatVars
<1>7. CASE Drop \/ Save \/ Tick
  BY <1>7 DEF Drop, Save, Tick, Keeps, seatVars
<1> QED
  BY <1>1, <1>2, <1>3, <1>4, <1>5, <1>6, <1>7 DEF Next, TurnMoves

\* A message that is refused leaves the turn, its clock, the roster, the badge
\* and the lock as they were, although two handlers change the room before
\* they fail: undo_turn's failure cannot happen, and advance_turn's costs only
\* skips.
THEOREM RefusalsAreHarmless ==
    ASSUME ~RepeatsInOrder
    PROVE  Spec => RefusalKeepsTurn
<1> DEFINE Harmless == reply' = "error" =>
                           UNCHANGED <<turnVars, players, hosts, locked, state>>
<1>1. RoomInv /\ [Next]_vars => [Harmless]_vars
  <2> SUFFICES ASSUME RoomInv, Next PROVE Harmless
    OBVIOUS
  <2>1. CASE Keeps
    BY <2>1 DEF Keeps, UndoTurn, RoomInv, Kept, PreviousIsSeated
  <2>2. CASE TurnMoves
    BY <2>2, TurnMovesSpare
  <2>3. ASSUME \/ Restart
               \/ \E a \in Id : SetOrder(a) \/ \E t \in Id : RemovePlayer(a, t)
        PROVE  Harmless
    BY <2>3 DEF Restart, SetOrder, RemovePlayer, Accept
  <2> QED
    BY <2>1, <2>2, <2>3, OtherSteps
<1> QED
  BY <1>1, RoomInvariant, PTL DEF Spec, RefusalKeepsTurn

\* The badge moves only when its bearer goes, and then to somebody connected if
\* anybody is; an order that leaves out its bearer gives it to nobody.
LEMMA BadgeStep ==
    ASSUME RoomCore, Next, ~Restart, hosts' # hosts
    PROVE  /\ hosts \cap ToSet(players') = {}
           /\ connected' # {} => hosts' \subseteq connected'
<1>1. ASSUME NEW a \in Id, SetOrder(a)
      PROVE  hosts \cap ToSet(players') = {} /\ hosts' = {}
  <2>1. hosts = {a} /\ hosts' = hosts \cap ToSet(players')
    BY <1>1, HostFacts DEF SetOrder
  <2> QED
    BY <2>1
<1>2. (\E a \in Id : SetOrder(a)) \/ \E a, t \in Id : RemovePlayer(a, t)
  BY OtherSteps, TurnMovesSpare DEF Keeps
<1> SUFFICES ASSUME NEW a \in Id, NEW t \in Id, RemovePlayer(a, t)
             PROVE  /\ hosts \cap ToSet(players') = {}
                    /\ connected' # {} => hosts' \subseteq connected'
  BY <1>1, <1>2
<1>3. /\ players' \in Seq(Id) /\ ToSet(players') = Seated \ {t}
      /\ Len(players') \in Nat
  BY RemovePlayerRoster, SeatedFacts DEF Seated
<1>4. hosts = {t}
  BY HostFacts DEF RemovePlayer, PassBadge
<1>5. connected' = connected \ {t} /\ connected' \subseteq ToSet(players')
  BY <1>3 DEF RemovePlayer, RoomCore, TypeOK
<1>6. ASSUME connected' # {} PROVE hosts' \subseteq connected'
  <2>1. PICK p \in connected' : TRUE
    BY <1>6
  <2>2. PICK k \in Lap(players') : players'[k] = p
    BY <1>3, <1>5, <2>1, SeatedFacts DEF Lap
  <2>3. ASSUME NEW h, IsHeir(h, players', connected \ {t}) PROVE h \in connected'
    BY <1>5, <2>2, <2>3 DEF IsHeir, Nearest
  <2> QED
    BY <1>4, <2>3 DEF RemovePlayer, PassBadge
<1> QED
  BY <1>3, <1>4, <1>6

\* Nobody takes the badge from a player who is still there, and it does not go to
\* an absent player past one who is connected.  An order that leaves out the host
\* is no exception: it gives the badge to nobody.  Only a load, which takes the
\* whole room back to what was saved, may give it to an earlier bearer.
THEOREM BadgeNeverStolen == Spec => BadgeIsInherited
<1> DEFINE Inherited == hosts' # hosts /\ ~Loaded' =>
                            /\ hosts \cap ToSet(players') = {}
                            /\ connected' # {} => hosts' \subseteq connected'
<1>1. RoomCore /\ [Next]_vars => [Inherited]_vars
  BY BadgeStep DEF Restart, Loaded
<1> QED
  BY <1>1, RoomCoreInvariant, PTL DEF Spec, BadgeIsInherited

\* The clock restarts with every change of holder, and with nothing but a
\* hand-over or a load: no removal, reorder, lock or nudge disturbs it.
THEOREM ClockNeverDrifts == Spec => ClockFollowsTurn
<1> DEFINE Follows ==
        /\ current' \notin {current, NoOne} => turnStartedAt' = now
        /\ turnStartedAt' # turnStartedAt =>
              \/ current' # current
              \/ previous' = current'
              \/ previous = current
              \/ Loaded'
<1>1. RoomCore /\ FileCore /\ [Next]_vars => [Follows]_vars
  <2> SUFFICES ASSUME RoomCore, FileCore, Next PROVE Follows
    OBVIOUS
  <2>1. UNCHANGED turnVars => Follows
    BY DEF turnVars
  <2>2. CASE JoinRefused \/ Drop \/ Save \/ Tick \/ \E p \in Id : JoinNew(p) \/ Rejoin(p)
    BY <2>1, <2>2 DEF JoinRefused, Drop, Save, Tick, JoinNew, Rejoin
  <2>3. ASSUME NEW s \in sockets, SocketEnds(s) PROVE Follows
    BY <2>1, <2>3 DEF SocketEnds
  <2>4. ASSUME NEW a \in Id, SetOrder(a) \/ SetLocked(a) \/ Nudge(a) \/ Refuse(a)
        PROVE  Follows
    BY <2>1, <2>4 DEF SetOrder, SetLocked, Nudge, Refuse
  <2>5. CASE Restart
    BY <2>5 DEF Restart, ClockFromLoad, Loaded, FileCore
  <2>6. ASSUME NEW a \in Id, StartGame(a) PROVE Follows
    <3>1. current = NoOne
      BY <2>6, HostFacts DEF StartGame, RoomCore, TypeOK, TurnWhilePlaying
    <3>2. current' \in Id /\ turnStartedAt' = now
      BY <2>6, HostFacts, SeatedFacts DEF StartGame, RoomCore, TypeOK, Seated
    <3> QED
      BY <3>1, <3>2, NoOneAssumption
  <2>7. ASSUME NEW i, NEW flags, PassTurn(i, flags) \/ PassStranded(i, flags)
        PROVE  Follows
    BY <2>1, <2>7 DEF PassTurn, PassStranded
  <2>8. ASSUME NEW a \in Id, EndTurn(a) \/ ClaimTurn(a) PROVE Follows
    BY <2>7, <2>8 DEF EndTurn, ClaimTurn
  <2>9. ASSUME NEW a \in Id, NEW t \in Id, SkipPlayer(a, t) PROVE Follows
    BY <2>1, <2>7, <2>9 DEF SkipPlayer
  <2>10. ASSUME NEW a \in Id, UndoTurn(a) PROVE Follows
    BY <2>10 DEF UndoTurn
  <2>11. ASSUME NEW a \in Id, NEW t \in Id, RemovePlayer(a, t) PROVE Follows
    <3>1. Seated' = Seated \ {t} /\ t \in Seated
      BY <2>11, RemovePlayerRoster
    <3>2. IF state = "Active" /\ current = t
          THEN /\ current' \in IF Seated' = {} THEN {NoOne} ELSE Seated'
               /\ turnStartedAt' = IF current' = NoOne THEN Never ELSE now
          ELSE UNCHANGED <<current, turnStartedAt>>
      BY <2>11, RemovePlayerTurn
    <3> QED
      BY <3>1, <3>2, NoOneAssumption
  <2> QED
    BY <2>2, <2>3, <2>4, <2>5, <2>6, <2>8, <2>9, <2>10, <2>11 DEF Next
<1> QED
  BY <1>1, RoomCoreInvariant, FileCoreInvariant, PTL DEF Spec, ClockFollowsTurn

-----------------------------------------------------------------------------
(* The order of the turns.  Offsets of the walk are distances round the    *)
(* table, also when the walk goes round the roster a player has just left. *)

LEMMA ModFacts ==
    ASSUME NEW n \in Nat \ {0}, NEW a \in Int, 0 - n <= a, a < 2 * n
    PROVE  a % n = IF a < 0 THEN a + n ELSE IF a < n THEN a ELSE a - n
<1>1. CASE a < 0
  BY <1>1
<1>2. CASE 0 <= a /\ a < n
  BY <1>2
<1>3. CASE n <= a
  BY <1>3
<1> QED
  BY <1>1, <1>2, <1>3

\* The seat `k` seats after seat i.
LEMMA SeatAt ==
    ASSUME NEW s \in Seq(Id), NEW i \in 1..Len(s), NEW k \in 1..Len(s)
    PROVE  Seat(s, i, k) = s[IF i + k <= Len(s) THEN i + k ELSE i + k - Len(s)]
<1>1. Len(s) \in Nat \ {0} /\ i \in Nat /\ k \in Nat
  OBVIOUS
<1>2. (i - 1 + k) % Len(s) = IF i - 1 + k < Len(s) THEN i - 1 + k
                                                    ELSE i - 1 + k - Len(s)
  <2> DEFINE n == Len(s)
             a == i - 1 + k
  <2>1. n \in Nat \ {0} /\ a \in Int /\ 0 - n <= a /\ ~(a < 0) /\ a < 2 * n
    BY <1>1
  <2> HIDE DEF n, a
  <2>2. a % n = IF a < n THEN a ELSE a - n
    BY <2>1, ModFacts
  <2> QED
    BY <2>2 DEF n, a
<1>3. ((i - 1 + k) % Len(s)) + 1 = IF i + k <= Len(s) THEN i + k ELSE i + k - Len(s)
  BY <1>1, <1>2
<1> QED
  BY <1>3 DEF Seat

LEMMA DistanceIs ==
    ASSUME players \in Seq(Id), NEW i \in Lap(players), NEW j \in Lap(players)
    PROVE  Distance(i, j) = IF j > i THEN j - i ELSE j - i + Len(players)
<1>1. /\ Len(players) \in Nat \ {0}
      /\ i \in 1..Len(players) /\ j \in 1..Len(players)
  BY DEF Lap
<1>2. (j - i - 1) % Len(players) = IF j - i - 1 < 0 THEN j - i - 1 + Len(players)
                                                     ELSE j - i - 1
  <2> DEFINE n == Len(players)
             a == j - i - 1
  <2>1. n \in Nat \ {0} /\ a \in Int /\ 0 - n <= a /\ a < n /\ a < 2 * n
    BY <1>1
  <2> HIDE DEF n, a
  <2>2. a % n = IF a < 0 THEN a + n ELSE a
    BY <2>1, ModFacts
  <2> QED
    BY <2>2 DEF n, a
<1> QED
  BY <1>1, <1>2 DEF Distance

\* The distance between two seats is the offset at which a walk from the one
\* comes to the other.
LEMMA SeatAtDistance ==
    ASSUME players \in Seq(Id), NEW i \in Lap(players), NEW j \in Lap(players)
    PROVE  /\ Distance(i, j) \in Lap(players)
           /\ Seat(players, i, Distance(i, j)) = players[j]
           /\ Distance(i, j) = Len(players) <=> i = j
<1>1. i \in 1..Len(players) /\ j \in 1..Len(players) /\ Len(players) \in Nat
  BY DEF Lap
<1>2. Distance(i, j) = IF j > i THEN j - i ELSE j - i + Len(players)
  BY DistanceIs
<1>3. Distance(i, j) \in 1..Len(players) /\ (Distance(i, j) = Len(players) <=> i = j)
  BY <1>1, <1>2
<1>4. j = IF i + Distance(i, j) <= Len(players) THEN i + Distance(i, j)
                                              ELSE i + Distance(i, j) - Len(players)
  BY <1>1, <1>2
<1> QED
  BY <1>1, <1>3, <1>4, SeatAt DEF Lap

LEMMA DistanceOfSeat ==
    ASSUME players \in Seq(Id), IsInjective(players),
           NEW i \in Lap(players), NEW j \in Lap(players), NEW k \in Lap(players),
           players[j] = Seat(players, i, k)
    PROVE  Distance(i, j) = k
<1> DEFINE m == IF i + k <= Len(players) THEN i + k ELSE i + k - Len(players)
<1>1. /\ i \in 1..Len(players) /\ j \in 1..Len(players) /\ k \in 1..Len(players)
      /\ Len(players) \in Nat /\ DOMAIN players = Lap(players)
  BY DEF Lap
<1>2. m \in Lap(players)
  BY <1>1 DEF Lap
<1>3. j = m
  BY <1>1, <1>2, SeatAt DEF IsInjective
<1>4. Distance(i, j) = IF j > i THEN j - i ELSE j - i + Len(players)
  BY DistanceIs
<1> QED
  BY <1>1, <1>3, <1>4

\* What the theorem below says of a change of holder from seat i to seat j.
PassedRightly(i, j) ==
    /\ \A x \in Lap(players) : Distance(i, x) < Distance(i, j) => ~Playable(x)
    /\ ~Playable(j) => /\ current \notin ToSet(players')
                       /\ Distance(i, j) = 1
                       /\ \A x \in Lap(players) \ {i} : ~Playable(x)

LEMMA PassTurnGoesToNext ==
    ASSUME RoomCore, NEW i \in Lap(players), NEW j \in Lap(players), i # j,
           players[j] = current', NEW flags,
           skipNext \subseteq flags, flags \subseteq skipNext \cup {players[i]},
           PassTurn(i, flags)
    PROVE  PassedRightly(i, j)
<1>1. players \in Seq(Id) /\ IsInjective(players) /\ DOMAIN players = Lap(players)
  BY DEF RoomCore, TypeOK, Lap
<1>2. PICK k \in Lap(players) :
         /\ Nearest(k, Eligible(players, i, connected, flags))
         /\ players[j] = Seat(players, i, k)
  BY DEF PassTurn
<1>3. Distance(i, j) = k
  BY <1>1, <1>2, DistanceOfSeat
<1>4. ASSUME NEW x \in Lap(players), Distance(i, x) < Distance(i, j)
      PROVE  ~Playable(x)
  <2>1. /\ Distance(i, x) \in Lap(players) /\ Distance(i, j) \in Lap(players)
        /\ Seat(players, i, Distance(i, x)) = players[x]
        /\ Distance(i, x) = Len(players) <=> i = x
    BY <1>1, SeatAtDistance
  <2>2. x # i
    BY <1>4, <2>1 DEF Lap
  <2>3. Distance(i, x) \notin Eligible(players, i, connected, flags)
    <3>1. ~(k <= Distance(i, x))
      BY <1>3, <1>4, <2>1 DEF Lap
    <3> QED
      BY <1>2, <3>1 DEF Nearest
  <2>4. players[x] # players[i]
    BY <1>1, <2>2 DEF IsInjective
  <2> QED
    BY <2>1, <2>3, <2>4 DEF Eligible, Playable
<1>5. Playable(j)
  BY <1>2 DEF Nearest, Eligible, Playable
<1> QED
  BY <1>4, <1>5 DEF PassedRightly

\* Seats as they were and seats of the roster without seat i: the walk from
\* Resume comes, at each offset, to the player who sat that far from seat i.
LEMMA SeatOfLeaver ==
    ASSUME NEW s \in Seq(Id), NEW i \in 1..Len(s), NEW k \in 1..(Len(s) - 1)
    PROVE  Seat(RemoveAt(s, i), Resume(i, Len(s) - 1), k) = Seat(s, i, k)
<1> DEFINE n == Len(s)
           t == RemoveAt(s, i)
           from == Resume(i, n - 1)
<1>1. n \in Nat /\ n >= 2 /\ i \in 1..n /\ k \in 1..(n - 1)
  OBVIOUS
<1>2. /\ t \in Seq(Id) /\ Len(t) = n - 1
      /\ \A j \in 1..(n - 1) : t[j] = IF j < i THEN s[j] ELSE s[j + 1]
  BY RemoveAtSeats
<1>3. from = IF i = 1 THEN n - 1 ELSE i - 1
  <2> HIDE DEF n, t
  <2> DEFINE l == n - 1
             a == i - 1 + l - 1
  <2>1. l \in Nat \ {0} /\ a \in Int /\ 0 - l <= a /\ ~(a < 0) /\ a < 2 * l
    BY <1>1
  <2> HIDE DEF l, a
  <2>2. a % l = IF a < l THEN a ELSE a - l
    BY <2>1, ModFacts
  <2>3. from = (a % l) + 1
    BY DEF Resume, l, a
  <2>4. (IF a < l THEN a ELSE a - l) + 1 = IF i = 1 THEN n - 1 ELSE i - 1
    BY <1>1 DEF l, a
  <2> HIDE DEF from
  <2> QED
    BY <2>2, <2>3, <2>4
<1>4. Seat(t, from, k) = t[IF from + k <= n - 1 THEN from + k ELSE from + k - (n - 1)]
  <2>1. from \in 1..Len(t) /\ k \in 1..Len(t)
    BY <1>1, <1>2, <1>3
  <2> HIDE DEF t, from
  <2> QED
    BY <1>2, <2>1, SeatAt
<1>5. Seat(s, i, k) = s[IF i + k <= n THEN i + k ELSE i + k - n]
  BY <1>1, SeatAt
<1> HIDE DEF t, from, n
<1>6. CASE i + k <= n
  <2> DEFINE m == i - 1 + k
  <2>1. /\ m = IF from + k <= n - 1 THEN from + k ELSE from + k - (n - 1)
        /\ m \in 1..(n - 1) /\ ~(m < i) /\ m + 1 = i + k
    BY <1>1, <1>3, <1>6
  <2> QED
    BY <1>2, <1>4, <1>5, <1>6, <2>1 DEF t, from, n
<1>7. CASE ~(i + k <= n)
  <2> DEFINE m == i + k - n
  <2>1. /\ m = IF from + k <= n - 1 THEN from + k ELSE from + k - (n - 1)
        /\ m \in 1..(n - 1) /\ m < i
    BY <1>1, <1>3, <1>7
  <2> QED
    BY <1>2, <1>4, <1>5, <1>7, <2>1 DEF t, from, n
<1> QED
  BY <1>6, <1>7 DEF t, from, n

LEMMA RemovalGoesToNext ==
    ASSUME RoomCore, NEW a \in Id, NEW t \in Id, RemovePlayer(a, t),
           NEW i \in Lap(players), NEW j \in Lap(players), i # j,
           players[i] = current, players[j] = current'
    PROVE  PassedRightly(i, j)
<1>1. /\ players \in Seq(Id) /\ IsInjective(players)
      /\ DOMAIN players = Lap(players) /\ Len(players) \in Nat
      /\ players[i] \in Id /\ players[j] \in Id
  BY DEF RoomCore, TypeOK, Lap
<1>2. current' # current
  BY <1>1 DEF IsInjective
<1>3. PICK l \in Lap(players) :
         players[l] = t /\ players' = RemoveAt(players, l) /\ PassTurnOfLeaver(l, t)
  BY DEF RemovePlayer
<1>4. state = "Active" /\ current = t /\ l = i
  BY <1>1, <1>2, <1>3 DEF PassTurnOfLeaver, IsInjective
<1>5. players' # << >>
  BY <1>1, <1>3, <1>4, NoOneAssumption DEF PassTurnOfLeaver
<1>6. /\ t \notin ToSet(players')
      /\ Len(players') = Len(players) - 1 /\ Len(players') \in Nat \ {0}
  BY <1>5, RemovePlayerRoster, SeatedFacts DEF Seated
<1> DEFINE conn == connected \ {t}
           flags == skipNext \ {t}
           from == Resume(i, Len(players) - 1)
           stops == Eligible(players', from, conn, flags)
<1>7. \A k \in Lap(players') : Seat(players', from, k) = Seat(players, i, k)
  BY <1>1, <1>3, <1>4, <1>6, SeatOfLeaver DEF Lap
<1>8. \/ \E k \in Lap(players') :
            Nearest(k, stops) /\ current' = Seat(players', from, k)
      \/ stops = {} /\ current' = Seat(players', from, 1)
  BY <1>3, <1>4, <1>5 DEF PassTurnOfLeaver
<1> HIDE DEF from
<1>9. ASSUME NEW x \in Lap(players), x # i
      PROVE  /\ Distance(i, x) \in Lap(players')
             /\ Distance(i, x) \notin stops => ~Playable(x)
  <2>1. /\ Distance(i, x) \in Lap(players) /\ Distance(i, x) # Len(players)
        /\ Seat(players, i, Distance(i, x)) = players[x]
    BY <1>1, <1>9, SeatAtDistance
  <2>2. Distance(i, x) \in Lap(players')
    BY <1>1, <1>6, <2>1 DEF Lap
  <2>3. players[x] # t
    BY <1>1, <1>3, <1>4, <1>9 DEF IsInjective
  <2> QED
    BY <1>7, <2>1, <2>2, <2>3 DEF Eligible, Playable
<1>10. \A x \in Lap(players) : Distance(i, x) \in 1..Len(players)
  BY <1>1, SeatAtDistance DEF Lap
<1>11. Distance(i, i) = Len(players)
  BY <1>1, SeatAtDistance
<1>12. ASSUME NEW k \in Lap(players'), Nearest(k, stops),
              current' = Seat(players', from, k)
       PROVE  PassedRightly(i, j)
  <2>1. k \in Lap(players) /\ k < Len(players) /\ k \in Nat
    BY <1>1, <1>6 DEF Lap
  <2>2. Distance(i, j) = k
    BY <1>1, <1>7, <1>12, <2>1, DistanceOfSeat
  <2>3. ASSUME NEW x \in Lap(players), Distance(i, x) < k PROVE ~Playable(x)
    <3>1. x # i
      BY <1>1, <1>11, <2>1, <2>3
    <3>2. ~(k <= Distance(i, x))
      BY <1>10, <2>1, <2>3
    <3> QED
      BY <1>9, <1>12, <3>1, <3>2 DEF Nearest
  <2>4. Playable(j)
    BY <1>12 DEF Nearest, Eligible, Playable
  <2> QED
    BY <2>2, <2>3, <2>4 DEF PassedRightly
<1>13. CASE stops = {} /\ current' = Seat(players', from, 1)
  <2>1. 1 \in Lap(players') /\ 1 \in Lap(players)
    BY <1>1, <1>6 DEF Lap
  <2>2. Distance(i, j) = 1
    BY <1>1, <1>7, <1>13, <2>1, DistanceOfSeat
  <2>3. \A x \in Lap(players) : ~(Distance(i, x) < 1)
    BY <1>10
  <2>4. \A x \in Lap(players) \ {i} : ~Playable(x)
    BY <1>9, <1>13
  <2> QED
    BY <1>4, <1>6, <2>2, <2>3, <2>4 DEF PassedRightly
<1> QED
  BY <1>8, <1>12, <1>13

\* Whichever message takes the turn from a player, it goes to the nearest player
\* round the table who could play: connected, with no skip pending.  It parks on
\* the next seat only when a player was removed whom nobody could follow.
THEOREM TurnsGoRound == Spec => TurnGoesToNextEligible
<1> DEFINE Rightly == \A i, j \in Lap(players) :
                          MovesTurn(i, j) /\ ~Undone /\ ~Loaded' => PassedRightly(i, j)
<1>1. RoomCore /\ [Next]_vars => [Rightly]_vars
  <2> SUFFICES ASSUME RoomCore, Next, ~Restart,
                      NEW i \in Lap(players), NEW j \in Lap(players), i # j,
                      players[i] = current, players[j] = current', ~Undone
               PROVE  PassedRightly(i, j)
    BY DEF MovesTurn, Restart, Loaded
  <2>1. current' # current /\ players[i] \in Id
    BY DEF RoomCore, TypeOK, Lap, IsInjective
  <2>2. ASSUME NEW a \in Id, StartGame(a) PROVE FALSE
    BY <2>1, <2>2, HostFacts, NoOneAssumption DEF StartGame, RoomCore, TurnWhilePlaying
  <2>3. ASSUME NEW a \in Id, UndoTurn(a) PROVE FALSE
    BY <2>3 DEF UndoTurn, seatVars, Undone
  <2>4. ASSUME NEW a \in Id, NEW t \in Id, RemovePlayer(a, t) PROVE PassedRightly(i, j)
    BY <2>4, RemovalGoesToNext
  <2>5. ASSUME NEW l \in Lap(players), players[l] = current, NEW flags,
               skipNext \subseteq flags, flags \subseteq skipNext \cup {current},
               PassTurn(l, flags) \/ PassStranded(l, flags)
        PROVE  PassedRightly(i, j)
    <3>1. l = i
      BY <2>5 DEF RoomCore, TypeOK, Lap, IsInjective
    <3>2. PassTurn(i, flags)
      BY <2>1, <2>5, <3>1 DEF PassStranded, turnVars
    <3> QED
      BY <2>5, <3>2, PassTurnGoesToNext
  <2>6. ASSUME NEW a \in Id, EndTurn(a) \/ ClaimTurn(a) PROVE PassedRightly(i, j)
    BY <2>5, <2>6 DEF EndTurn, ClaimTurn
  <2>7. ASSUME NEW a \in Id, NEW t \in Id, SkipPlayer(a, t) PROVE PassedRightly(i, j)
    <3>1. current = t
      BY <2>1, <2>7 DEF SkipPlayer, turnVars
    <3>2. PICK l \in Lap(players) :
             /\ players[l] = t
             /\ PassTurn(l, skipNext \cup {t}) \/ PassStranded(l, skipNext \cup {t})
      BY <2>1, <2>7 DEF SkipPlayer, turnVars
    <3> QED
      BY <2>5, <3>1, <3>2
  <2> QED
    BY <2>1, <2>2, <2>3, <2>4, <2>6, <2>7
       DEF Next, JoinNew, Rejoin, JoinRefused, SocketEnds, SetOrder, SetLocked,
           Nudge, Refuse, Drop, Save, Tick, turnVars
<1>2. [Rightly]_vars => [\A i, j \in Lap(players) :
          MovesTurn(i, j) /\ ~Undone /\ ~Loaded' =>
              /\ \A x \in Lap(players) :
                    Distance(i, x) < Distance(i, j) => ~Playable(x)
              /\ ~Playable(j) => /\ current \notin ToSet(players')
                                 /\ Distance(i, j) = 1
                                 /\ \A x \in Lap(players) \ {i} : ~Playable(x)]_vars
  BY DEF PassedRightly
<1> QED
  BY <1>1, <1>2, RoomCoreInvariant, PTL DEF Spec, TurnGoesToNextEligible

-----------------------------------------------------------------------------
(* The skips a walk uses up.                                               *)

\* The player at seat x gave up a skip to the walk of this step.
ServedAt(x) ==
    /\ players[x] \in connected
    /\ \E i \in Lap(players) :
          players[i] = current /\ (GoesPast(i, x) \/ GoesRound(i))

\* Whom a walk from seat i passes, it passes at their distance, before any seat it
\* could stop at.
LEMMA PassedAtDistance ==
    ASSUME players \in Seq(Id), IsInjective(players),
           NEW i \in Lap(players), NEW x \in Lap(players), NEW conn, NEW flags,
           players[x] \in flags \ FlagsAfter(players, i, conn, flags)
    PROVE  /\ players[x] \in conn
           /\ \A e \in Eligible(players, i, conn, flags) : Distance(i, x) < e
<1>1. PICK k \in Lap(players) :
         /\ players[x] = Seat(players, i, k)
         /\ \A e \in Eligible(players, i, conn, flags) : k < e
  BY DEF FlagsAfter, PassedOver
<1>2. Distance(i, x) = k
  BY <1>1, DistanceOfSeat
<1> QED
  BY <1>1, <1>2 DEF FlagsAfter

\* The offset of a walk's stop is the distance of the seat it stops at.
LEMMA StopAtDistance ==
    ASSUME players \in Seq(Id), IsInjective(players),
           NEW i \in Lap(players), NEW k \in Lap(players)
    PROVE  \E j \in Lap(players) :
              players[j] = Seat(players, i, k) /\ Distance(i, j) = k
<1>1. Seat(players, i, k) \in ToSet(players)
  BY SeatIsSeated DEF Lap
<1>2. PICK j \in Lap(players) : players[j] = Seat(players, i, k)
  BY <1>1, SeatedFacts DEF Lap
<1> QED
  BY <1>2, DistanceOfSeat

LEMMA PassServes ==
    ASSUME RoomCore, NEW i \in Lap(players), NEW x \in Lap(players),
           players[i] = current, NEW flags,
           skipNext \subseteq flags, flags \subseteq skipNext \cup {players[i]},
           PassTurn(i, flags) \/ PassStranded(i, flags), LosesSkip(x)
    PROVE  ServedAt(x)
<1>1. /\ players \in Seq(Id) /\ IsInjective(players) /\ DOMAIN players = Lap(players)
      /\ Lap(players) \subseteq Nat
  BY DEF RoomCore, TypeOK, Lap
<1>2. skipNext' = FlagsAfter(players, i, connected, flags)
  BY DEF PassTurn, PassStranded
<1>3. /\ players[x] \in connected
      /\ \A e \in Eligible(players, i, connected, flags) : Distance(i, x) < e
  BY <1>1, <1>2, PassedAtDistance DEF LosesSkip
<1>4. CASE PassTurn(i, flags)
  <2>1. PICK k \in Lap(players) :
           /\ k \in Eligible(players, i, connected, flags)
           /\ current' = Seat(players, i, k)
    BY <1>4 DEF PassTurn, Nearest
  <2>2. PICK j \in Lap(players) : players[j] = current' /\ Distance(i, j) = k
    BY <1>1, <2>1, StopAtDistance
  <2>3. previous' = current
    BY <1>4 DEF PassTurn
  <2>4. GoesPast(i, x)
    BY <1>3, <2>1, <2>2, <2>3 DEF GoesPast
  <2> QED
    BY <1>3, <2>4 DEF ServedAt
<1>5. CASE PassStranded(i, flags)
  <2>1. Eligible(players, i, connected, flags) = {} /\ reply' = "error"
    BY <1>5 DEF PassStranded
  <2>2. ASSUME NEW y \in Lap(players) \ {i} PROVE ~Playable(y)
    <3>1. /\ Distance(i, y) \in Lap(players)
          /\ Seat(players, i, Distance(i, y)) = players[y]
      BY <1>1, SeatAtDistance
    <3>2. players[y] # players[i]
      BY <1>1 DEF IsInjective
    <3> QED
      BY <2>1, <3>1, <3>2 DEF Eligible, Playable
  <2> QED
    BY <1>3, <2>1, <2>2 DEF GoesRound, ServedAt
<1> QED
  BY <1>4, <1>5

LEMMA RemovalServes ==
    ASSUME RoomCore, NEW a \in Id, NEW t \in Id, RemovePlayer(a, t),
           NEW x \in Lap(players), LosesSkip(x)
    PROVE  ServedAt(x)
<1>1. /\ players \in Seq(Id) /\ IsInjective(players)
      /\ DOMAIN players = Lap(players) /\ Len(players) \in Nat
  BY DEF RoomCore, TypeOK, Lap
<1>2. PICK i \in Lap(players) :
         players[i] = t /\ players' = RemoveAt(players, i) /\ PassTurnOfLeaver(i, t)
  BY DEF RemovePlayer
<1>3. /\ t \notin ToSet(players') /\ players' \in Seq(Id) /\ IsInjective(players')
      /\ Len(players') = Len(players) - 1
  BY RemovePlayerRoster DEF Seated
<1> DEFINE conn == connected \ {t}
           flags == skipNext \ {t}
           from == Resume(i, Len(players) - 1)
           stops == Eligible(players', from, conn, flags)
<1>4. players[x] \in flags \ skipNext' /\ x # i
  BY <1>2, <1>3 DEF LosesSkip
<1>5. /\ current = t /\ players' # << >>
      /\ skipNext' = FlagsAfter(players', from, conn, flags)
      /\ \/ \E k \in Lap(players') :
               Nearest(k, stops) /\ current' = Seat(players', from, k)
         \/ stops = {}
  BY <1>2, <1>4 DEF PassTurnOfLeaver
<1>6. Len(players') \in Nat \ {0} /\ Lap(players') \subseteq Lap(players)
  BY <1>1, <1>3, <1>5, SeatedFacts DEF Lap
<1>7. \A k \in Lap(players') : Seat(players', from, k) = Seat(players, i, k)
  BY <1>1, <1>2, <1>6, <1>3, SeatOfLeaver DEF Lap
<1> HIDE DEF from
<1>8. PICK l \in Lap(players') :
         /\ players[x] = Seat(players', from, l)
         /\ \A e \in stops : l < e
  BY <1>4, <1>5 DEF FlagsAfter, PassedOver
<1>9. Distance(i, x) = l /\ players[x] \in connected
  BY <1>1, <1>4, <1>5, <1>6, <1>7, <1>8, DistanceOfSeat DEF FlagsAfter
<1>10. ASSUME NEW k \in Lap(players'), Nearest(k, stops),
              current' = Seat(players', from, k)
       PROVE  GoesPast(i, x)
  <2>1. PICK j \in Lap(players) : players[j] = current' /\ Distance(i, j) = k
    BY <1>1, <1>6, <1>7, <1>10, StopAtDistance
  <2> QED
    BY <1>3, <1>5, <1>8, <1>9, <1>10, <2>1 DEF Nearest, GoesPast
<1>11. ASSUME stops = {} PROVE GoesRound(i)
  <2>1. ASSUME NEW y \in Lap(players) \ {i} PROVE ~Playable(y)
    <3>1. /\ Distance(i, y) \in Lap(players) /\ Distance(i, y) # Len(players)
          /\ Seat(players, i, Distance(i, y)) = players[y]
      BY <1>1, SeatAtDistance
    <3>2. Distance(i, y) \in Lap(players')
      BY <1>1, <1>3, <3>1 DEF Lap
    <3>3. players[y] # t
      BY <1>1, <1>2 DEF IsInjective
    <3> QED
      BY <1>7, <1>11, <3>1, <3>2, <3>3 DEF Eligible, Playable
  <2> QED
    BY <1>3, <1>5, <2>1 DEF GoesRound
<1> QED
  BY <1>2, <1>5, <1>9, <1>10, <1>11 DEF ServedAt

\* A player who is away still owes a skip when they return, and so does everybody
\* whom no walk has gone past: a skip is used up only by a walk from the holder
\* that passes the seat of its bearer while they are connected, by no other
\* message, and lost otherwise only with its bearer or to a load.
THEOREM SkipsAreServed == Spec => SkipIsServed
<1> DEFINE Served == \A x \in Lap(players) : LosesSkip(x) /\ ~Loaded' => ServedAt(x)
<1>1. RoomCore /\ [Next]_vars => [Served]_vars
  <2> SUFFICES ASSUME RoomCore, Next, ~Restart, NEW x \in Lap(players), LosesSkip(x)
               PROVE  ServedAt(x)
    BY DEF Restart, Loaded
  <2>1. CASE Keeps
    BY <2>1 DEF Keeps, LosesSkip
  <2>2. ASSUME NEW a \in Id, EndTurn(a) \/ ClaimTurn(a) PROVE ServedAt(x)
    BY <2>2, PassServes DEF EndTurn, ClaimTurn
  <2>3. ASSUME NEW a \in Id, NEW t \in Id, SkipPlayer(a, t) PROVE ServedAt(x)
    <3>1. CASE state = "Active" /\ current = t
      BY <2>3, <3>1, PassServes DEF SkipPlayer
    <3>2. CASE ~(state = "Active" /\ current = t)
      BY <2>3, <3>2 DEF SkipPlayer, LosesSkip
    <3> QED
      BY <3>1, <3>2
  <2>4. ASSUME NEW a \in Id, SetOrder(a) PROVE ServedAt(x)
    BY <2>4 DEF SetOrder, LosesSkip
  <2>5. ASSUME NEW a \in Id, NEW t \in Id, RemovePlayer(a, t) PROVE ServedAt(x)
    BY <2>5, RemovalServes
  <2> QED
    BY <2>1, <2>2, <2>3, <2>4, <2>5, OtherSteps DEF TurnMoves
<1>2. [Served]_vars => [\A x \in Lap(players) :
          LosesSkip(x) /\ ~Loaded' =>
              /\ players[x] \in connected
              /\ \E i \in Lap(players) :
                    players[i] = current /\ (GoesPast(i, x) \/ GoesRound(i))]_vars
  BY DEF ServedAt
<1> QED
  BY <1>1, <1>2, RoomCoreInvariant, PTL DEF Spec, SkipIsServed

\* A granted claim hands the turn to the claimant: the seat that peek_next finds
\* is the one advance_turn stops at.
LEMMA ClaimServesClaimant ==
    ASSUME NEW a \in Id, ClaimTurn(a)
    PROVE  current' = a
<1>1. PICK i \in Lap(players) :
         /\ players[i] = current
         /\ \E k \in Lap(players) :
               /\ Nearest(k, Eligible(players, i, connected, skipNext))
               /\ Seat(players, i, k) = a
         /\ PassTurn(i, skipNext)
  BY DEF ClaimTurn
<1> DEFINE E == Eligible(players, i, connected, skipNext)
<1>2. PICK k \in Lap(players) : Nearest(k, E) /\ Seat(players, i, k) = a
  BY <1>1
<1>3. PICK j \in Lap(players) : Nearest(j, E) /\ current' = Seat(players, i, j)
  BY <1>1 DEF PassTurn
<1>4. k = j
  BY <1>2, <1>3 DEF Nearest, Lap
<1> QED
  BY <1>2, <1>3, <1>4

\* Whoever is granted a claim has the turn, whatever else is in flight: no claim
\* ever passes the turn to a third player.
THEOREM ClaimsServeClaimants ==
    Spec => [][\A a \in Id : ClaimTurn(a) => current' = a]_vars
<1>1. [Next]_vars => [\A a \in Id : ClaimTurn(a) => current' = a]_vars
  BY ClaimServesClaimant
<1> QED
  BY <1>1, PTL DEF Spec

\* Who may do what, stated of one step: the turn leaves a player at the word of the
\* host, of the player or of the one who claims it; only the host sends players
\* away, starts the game and locks the room.
Authorised ==
    /\ current' # current => actor' \in hosts \cup {current, current'}
    /\ ~(Seated \subseteq Seated') => actor' \in hosts
    /\ <<state, locked>>' # <<state, locked>> => actor' \in hosts

\* A load takes all of that back at once, to what was saved of it, and leaves
\* nobody attached.
TakenBack ==
    /\ <<state, locked, players, hosts, current>>' =
          <<saved.state, saved.locked, saved.players, saved.hosts, saved.current>>
    /\ connected' = {} /\ sockets' = {}

\* What is on file is replaced by nothing but the room as it is.
FiledAsIs ==
    saved' # saved =>
        saved' = Persisted /\ UNCHANGED <<state, locked, players, hosts, current>>

\* Nobody else moves the turn, thins the roster or changes the room's mode: no
\* join, departure, nudge, save or passage of time does, nor any message of a
\* player who is neither host nor concerned, also when orders repeat names.  The
\* exception is a load, which nobody asks for and which may undo what the entitled
\* have done since the last save, but brings back no state other than that.
THEOREM OnlyTheEntitledAct ==
    Spec => [][(Authorised \/ TakenBack) /\ FiledAsIs]_vars
<1>1. RoomCore /\ [Next]_vars => [(Authorised \/ TakenBack) /\ FiledAsIs]_vars
  <2>10. [Next]_vars => FiledAsIs
    BY OnlySavesWrite DEF Save, seatVars, turnVars, FiledAsIs
  <2>11. Restart => TakenBack
    BY DEF Restart, TakenBack
  <2> SUFFICES ASSUME RoomCore, Next, ~Restart PROVE Authorised
    BY <2>10, <2>11
  <2>1. UNCHANGED <<players, current, state, locked>> => Authorised
    BY DEF Authorised, Seated
  <2>2. ASSUME NEW a \in hosts, actor' = a PROVE Authorised
    BY <2>2 DEF Authorised
  <2>3. ASSUME NEW p \in Id, JoinNew(p) PROVE Authorised
    <3>1. Seated \subseteq Seated'
      BY <2>3, AppendFacts DEF JoinNew, Unused, Seated, RoomCore, TypeOK
    <3> QED
      BY <2>3, <3>1 DEF JoinNew, turnVars, Authorised
  <2>4. CASE JoinRefused \/ Drop \/ Save \/ Tick \/ \E p \in Id : Rejoin(p)
    BY <2>1, <2>4 DEF JoinRefused, Drop, Save, Tick, Rejoin, seatVars, turnVars
  <2>5. ASSUME NEW s \in sockets, SocketEnds(s) PROVE Authorised
    BY <2>1, <2>5 DEF SocketEnds, turnVars
  <2>6. ASSUME NEW a \in Id, Nudge(a) \/ Refuse(a) PROVE Authorised
    BY <2>1, <2>6 DEF Nudge, Refuse, seatVars, turnVars
  <2>7. ASSUME NEW a \in Id,
               \/ StartGame(a) \/ UndoTurn(a) \/ SetOrder(a) \/ SetLocked(a)
               \/ \E t \in Id : SkipPlayer(a, t) \/ RemovePlayer(a, t)
        PROVE  Authorised
    BY <2>2, <2>7
       DEF StartGame, UndoTurn, SetOrder, SetLocked, SkipPlayer, RemovePlayer, Dispatching
  <2>8. ASSUME NEW a \in Id, EndTurn(a) PROVE Authorised
    <3>1. actor' = a /\ (a = current \/ a \in hosts)
      BY <2>8 DEF EndTurn, Dispatching, MayEnd
    <3>2. UNCHANGED <<players, state, locked>>
      BY <2>8 DEF EndTurn, PassTurn, PassStranded
    <3> QED
      BY <3>1, <3>2 DEF Authorised, Seated
  <2>9. ASSUME NEW a \in Id, ClaimTurn(a) PROVE Authorised
    <3>1. actor' = a /\ current' = a
      BY <2>9, ClaimServesClaimant DEF ClaimTurn, Dispatching
    <3>2. UNCHANGED <<players, state, locked>>
      BY <2>9 DEF ClaimTurn, PassTurn
    <3> QED
      BY <3>1, <3>2 DEF Authorised, Seated
  <2> QED
    BY <2>3, <2>4, <2>5, <2>6, <2>7, <2>8, <2>9 DEF Next
<1> QED
  BY <1>1, RoomCoreInvariant, PTL DEF Spec

-----------------------------------------------------------------------------
(* Every walk and every succession has one outcome, so that the handlers   *)
(* built from them neither get stuck nor have a choice.                    *)

\* From any seat of a roster the walk comes to exactly one eligible offset first,
\* or there is none.
LEMMA OneStop ==
    ASSUME NEW s \in Seq(Id), NEW i \in Lap(s), NEW conn, NEW flags,
           Eligible(s, i, conn, flags) # {}
    PROVE  \E k \in Lap(s) : \A j \in Lap(s) :
               Nearest(j, Eligible(s, i, conn, flags)) <=> j = k
<1> DEFINE E == Eligible(s, i, conn, flags)
<1>1. E \subseteq Lap(s) /\ Lap(s) \subseteq Nat
  BY DEF Eligible, Lap
<1> HIDE DEF E
<1>2. PICK k \in E : Nearest(k, E)
  BY <1>1, HasSmallest DEF E
<1>3. ASSUME NEW j \in Lap(s), Nearest(j, E) PROVE j = k
  BY <1>1, <1>2, <1>3 DEF Nearest
<1> QED
  BY <1>1, <1>2, <1>3 DEF E

\* A roster that is not empty has exactly one heir to its badge, somebody
\* connected if anybody is.
LEMMA OneHeir ==
    ASSUME NEW s \in Seq(Id), s # << >>, NEW conn
    PROVE  \E h \in ToSet(s) :
              /\ \A g \in Id : IsHeir(g, s, conn) <=> g = h
              /\ conn \cap ToSet(s) # {} => h \in conn
<1> DEFINE here == {k \in Lap(s) : s[k] \in conn}
<1>1. /\ Len(s) \in Nat \ {0} /\ Lap(s) \subseteq Nat /\ 1 \in Lap(s)
      /\ \A i \in Lap(s) : s[i] \in ToSet(s)
      /\ \A p \in ToSet(s) : \E i \in Lap(s) : s[i] = p
      /\ ToSet(s) \subseteq Id
  BY SeatedFacts DEF Lap
<1>2. CASE here = {}
  <2>1. conn \cap ToSet(s) = {}
    BY <1>1, <1>2
  <2>2. \A g \in Id : IsHeir(g, s, conn) <=> g = s[1]
    BY <1>2 DEF IsHeir
  <2> QED
    BY <1>1, <2>1, <2>2
<1>3. CASE here # {}
  <2>1. here \subseteq Nat /\ here \subseteq Lap(s)
    BY <1>1
  <2>2. PICK k \in here : Nearest(k, here)
    BY <1>3, <2>1, HasSmallest
  <2>3. \A j \in here : Nearest(j, here) => j = k
    BY <2>1, <2>2 DEF Nearest
  <2>4. \A g \in Id : IsHeir(g, s, conn) <=> g = s[k]
    <3> HIDE DEF here
    <3>1. \A g \in Id : IsHeir(g, s, conn) <=> \E j \in here : Nearest(j, here) /\ g = s[j]
      BY <1>3 DEF IsHeir, here
    <3> QED
      BY <2>2, <2>3, <3>1
  <2>5. s[k] \in conn /\ s[k] \in ToSet(s)
    BY <1>1, <2>1, <2>2
  <2> QED
    BY <2>4, <2>5
<1> QED
  BY <1>2, <1>3

\* The roster is never longer than a join allows it to get, whatever rejoins and
\* orders the clients send.
RosterBounded == Len(players) <= MaxPlayers
FileBounded == Len(saved.players) <= MaxPlayers

LEMMA RosterBoundedNext ==
    ASSUME RoomCore, RosterBounded, FileBounded, [Next]_vars
    PROVE  RosterBounded' /\ FileBounded'
<1>1. players \in Seq(Id) /\ Len(players) \in Nat /\ MaxPlayers \in Nat
  BY BoundsAssumption DEF RoomCore, TypeOK
<1>2. players' = players => RosterBounded'
  BY DEF RosterBounded
<1>3. ASSUME NEW p \in Id, JoinNew(p) PROVE RosterBounded'
  <2>1. Len(players') = Len(players) + 1 /\ Len(players) < MaxPlayers
    BY <1>1, <1>3 DEF JoinNew
  <2> QED
    BY <1>1, <2>1 DEF RosterBounded
<1>4. ASSUME NEW a \in Id, NEW t \in Id, RemovePlayer(a, t) PROVE RosterBounded'
  <2>1. Len(players') = Len(players) - 1
    BY <1>4, RemovePlayerRoster
  <2> QED
    BY <1>1, <2>1 DEF RosterBounded
<1>5. ASSUME NEW a \in Id, SetOrder(a) PROVE RosterBounded'
  <2>1. Len(players') <= Len(players) /\ players' \in Seq(Id)
    BY <1>5, SetOrderRoster
  <2>2. Len(players') \in Nat
    BY <2>1
  <2> QED
    BY <1>1, <2>1, <2>2 DEF RosterBounded
<1>6. ASSUME TurnMoves PROVE RosterBounded'
  BY <1>2, <1>6, TurnMovesSpare
<1>7. ASSUME \/ JoinRefused \/ Drop \/ Save \/ Tick
             \/ \E p \in Id : Rejoin(p)
             \/ \E s \in sockets : SocketEnds(s)
             \/ \E a \in Id : StartGame(a) \/ UndoTurn(a) \/ SetLocked(a)
                              \/ Nudge(a) \/ Refuse(a)
             \/ UNCHANGED vars
      PROVE  RosterBounded'
  BY <1>2, <1>7 DEF JoinRefused, Drop, Save, Tick, Rejoin, SocketEnds, StartGame,
                    UndoTurn, SetLocked, Nudge, Refuse, vars, seatVars
<1>8. ASSUME Restart PROVE RosterBounded'
  BY <1>8 DEF Restart, RosterBounded, FileBounded
<1>9. FileBounded'
  <2>1. CASE Save
    <3>1. Len(NoRoom.players) = 0 /\ 0 <= MaxPlayers
      BY <1>1 DEF NoRoom
    <3>2. saved'.players = NoRoom.players \/ saved'.players = players
      BY <2>1 DEF Save, Persisted
    <3> QED
      BY <3>1, <3>2 DEF RosterBounded, FileBounded
  <2>2. CASE saved' = saved
    BY <2>2 DEF FileBounded
  <2> QED
    BY <2>1, <2>2, OnlySavesWrite
<1>10. RosterBounded'
  BY <1>3, <1>4, <1>5, <1>6, <1>7, <1>8 DEF Next, TurnMoves
<1> QED
  BY <1>9, <1>10

\* MAX_PLAYERS holds although a rejoin does not look at it: only a new player
\* lengthens the roster.
THEOREM RosterStaysBounded == Spec => []RosterBounded
<1>1. Init => RosterBounded /\ FileBounded
  <2>1. ASSUME NEW host \in Id, players = <<host>> PROVE Len(players) = 1
    BY <2>1
  <2>2. Len(NoRoom.players) = 0
    BY DEF NoRoom
  <2> QED
    BY <2>1, <2>2, BoundsAssumption DEF Init, RosterBounded, FileBounded
<1>2. RoomCore /\ RosterBounded /\ FileBounded /\ [Next]_vars => RosterBounded' /\ FileBounded'
  BY RosterBoundedNext
<1> QED
  BY <1>1, <1>2, RoomCoreInvariant, PTL DEF Spec

\* In a running game an end of the turn is answered in one way: the holder has one
\* seat, and from it the walk has one first stop, or none.
EndHasOneOutcome ==
    entry = "live" /\ state = "Active" =>
        \E i \in Lap(players) :
           /\ \A j \in Lap(players) : players[j] = current <=> j = i
           /\ \/ Eligible(players, i, connected, skipNext) = {}
              \/ \E k \in Lap(players) : \A j \in Lap(players) :
                    Nearest(j, Eligible(players, i, connected, skipNext)) <=> j = k

\* advance_turn never fails to find where to start from, and never has two players
\* to choose between: its only failure is a table where nobody is eligible.
THEOREM TurnsCanAlwaysEnd ==
    ASSUME ~RepeatsInOrder
    PROVE  Spec => []EndHasOneOutcome
<1>1. RoomInv => EndHasOneOutcome
  <2> SUFFICES ASSUME RoomInv, entry = "live", state = "Active"
               PROVE  EndHasOneOutcome
    BY DEF EndHasOneOutcome
  <2>1. /\ players \in Seq(Id) /\ IsInjective(players) /\ DOMAIN players = Lap(players)
        /\ current \in Seated
    BY DEF RoomInv, RoomCore, Kept, TypeOK, TurnIsSeated, Lap
  <2>2. PICK i \in Lap(players) : players[i] = current
    BY <2>1, SeatedFacts DEF Seated, Lap
  <2>3. \A j \in Lap(players) : players[j] = current <=> j = i
    BY <2>1, <2>2 DEF IsInjective
  <2>4. \/ Eligible(players, i, connected, skipNext) = {}
        \/ \E k \in Lap(players) : \A j \in Lap(players) :
              Nearest(j, Eligible(players, i, connected, skipNext)) <=> j = k
    BY <2>1, OneStop
  <2> QED
    BY <2>3, <2>4, Zenon DEF EndHasOneOutcome
<1> QED
  BY <1>1, RoomInvariant, PTL

\* Whoever is removed, the badge they may have worn has one heir among those who
\* are left, and the turn they may have held one successor.
LeavingHasOneOutcome ==
    \A i \in Lap(players) :
        LET left == RemoveAt(players, i)
            conn == connected \ {players[i]}
            flags == skipNext \ {players[i]}
            stops == Eligible(left, Resume(i, Len(players) - 1), conn, flags)
        IN  left # << >> =>
              /\ \E h \in Seated \ {players[i]} : \A g \in Id :
                     IsHeir(g, left, conn) <=> g = h
              /\ \/ stops = {}
                 \/ \E k \in Lap(left) : \A j \in Lap(left) :
                       Nearest(j, stops) <=> j = k

\* remove_player always has somebody to give the badge to and somebody to give
\* the turn to, unless it empties the room.
THEOREM LeavingIsDecided == Spec => []LeavingHasOneOutcome
<1>1. RoomCore => LeavingHasOneOutcome
  <2> SUFFICES ASSUME RoomCore, NEW i \in Lap(players), RemoveAt(players, i) # << >>
               PROVE  LET left == RemoveAt(players, i)
                          conn == connected \ {players[i]}
                          flags == skipNext \ {players[i]}
                          stops == Eligible(left, Resume(i, Len(players) - 1), conn, flags)
                      IN  /\ \E h \in Seated \ {players[i]} : \A g \in Id :
                                 IsHeir(g, left, conn) <=> g = h
                          /\ \/ stops = {}
                             \/ \E k \in Lap(left) : \A j \in Lap(left) :
                                   Nearest(j, stops) <=> j = k
    BY DEF LeavingHasOneOutcome
  <2> DEFINE left == RemoveAt(players, i)
             conn == connected \ {players[i]}
             flags == skipNext \ {players[i]}
             from == Resume(i, Len(players) - 1)
  <2>1. players \in Seq(Id) /\ IsInjective(players) /\ i \in 1..Len(players)
    BY DEF RoomCore, TypeOK, Lap
  <2>2. /\ left \in Seq(Id) /\ Len(left) = Len(players) - 1
        /\ ToSet(left) = Seated \ {players[i]}
    BY <2>1, RemoveAtFacts DEF Seated
  <2> HIDE DEF left
  <2>3. Len(left) \in Nat \ {0} /\ Len(players) \in Nat
    BY <2>1, <2>2, SeatedFacts DEF left
  <2>4. from \in Lap(left)
    <3>1. (i - 1 + Len(left) - 1) % Len(left) \in 0..(Len(left) - 1)
      BY <2>1, <2>3
    <3> QED
      BY <2>2, <2>3, <3>1 DEF Resume, Lap
  <2>5. left # << >>
    BY DEF left
  <2>6. \E h \in Seated \ {players[i]} : \A g \in Id : IsHeir(g, left, conn) <=> g = h
    BY <2>2, <2>5, OneHeir
  <2> HIDE DEF from, conn, flags
  <2>7. \/ Eligible(left, from, conn, flags) = {}
        \/ \E k \in Lap(left) : \A j \in Lap(left) :
              Nearest(j, Eligible(left, from, conn, flags)) <=> j = k
    BY <2>2, <2>4, OneStop
  <2> QED
    BY <2>6, <2>7 DEF left, from, conn, flags
<1> QED
  BY <1>1, RoomCoreInvariant, PTL

-----------------------------------------------------------------------------
(* Every walk a room takes is one of TurnWalk's, so that what is proved    *)
(* there of the two loops is true of the walks that Room takes in one step.*)

Walk(seats, i, conn, flags, eats) == INSTANCE TurnWalk WITH
    players <- seats, connected <- conn, asked <- flags, skipNext <- flags,
    from <- i, consume <- eats, offset <- 1, outcome <- "walking"

LEMMA RostersAreWalked ==
    ASSUME NEW s \in Seq(Id), IsInjective(s), s # << >>, Len(s) <= MaxPlayers,
           NEW i \in Lap(s), NEW conn \in SUBSET Id, NEW flags \in SUBSET Id,
           NEW eats \in BOOLEAN
    PROVE  Walk(s, i, conn, flags, eats)!Init
<1>1. Len(s) \in 1..MaxPlayers /\ DOMAIN s = 1..Len(s)
  BY BoundsAssumption, SeatedFacts
<1>2. s \in [1..Len(s) -> Id]
  BY <1>1
<1>3. s \in Walk(s, i, conn, flags, eats)!Roster
  BY <1>1, <1>2 DEF Walk!Roster
<1> QED
  BY <1>1, <1>3 DEF Walk!Init, Walk!Lap, Lap, IsInjective

\* The walks of a turn that is passed on, from any seat and with any skips
\* pending, and those of the turn of somebody removed.
WalksStartRight ==
    \A i \in Lap(players), flags \in SUBSET Seated, eats \in BOOLEAN :
        LET left == RemoveAt(players, i)
        IN  /\ Walk(players, i, connected, flags, eats)!Init
            /\ left # << >> =>
                   Walk(left, Resume(i, Len(players) - 1), connected \ {players[i]},
                        flags \ {players[i]}, eats)!Init

\* advance_from and peek_next are only ever called on a roster of distinct players
\* that is not empty and not too long, from a seat it has: the hypotheses under
\* which the proofs about the loops hold.
THEOREM WalksAreTurnWalks == Spec => []WalksStartRight
<1>1. RoomCore /\ RosterBounded => WalksStartRight
  <2> SUFFICES ASSUME RoomCore, RosterBounded, NEW i \in Lap(players),
                      NEW flags \in SUBSET Seated, NEW eats \in BOOLEAN
               PROVE  /\ Walk(players, i, connected, flags, eats)!Init
                      /\ RemoveAt(players, i) # << >> =>
                            Walk(RemoveAt(players, i), Resume(i, Len(players) - 1),
                                 connected \ {players[i]}, flags \ {players[i]}, eats)!Init
    BY DEF WalksStartRight
  <2>1. /\ players \in Seq(Id) /\ IsInjective(players) /\ i \in 1..Len(players)
        /\ Len(players) \in Nat /\ Len(players) <= MaxPlayers /\ MaxPlayers \in Nat
    BY BoundsAssumption DEF RoomCore, TypeOK, RosterBounded, Lap
  <2>2. connected \in SUBSET Id /\ flags \in SUBSET Id
    BY SeatedFacts DEF RoomCore, TypeOK, Seated
  <2>3. players # << >>
    BY <2>1
  <2>4. Walk(players, i, connected, flags, eats)!Init
    BY <2>1, <2>2, <2>3, RostersAreWalked DEF RosterBounded
  <2> DEFINE left == RemoveAt(players, i)
             from == Resume(i, Len(players) - 1)
  <2>5. /\ left \in Seq(Id) /\ IsInjective(left) /\ Len(left) = Len(players) - 1
    BY <2>1, RemoveAtFacts
  <2> HIDE DEF left
  <2>6. Len(left) \in Nat /\ Len(left) <= MaxPlayers
    BY <2>1, <2>5
  <2>7. left # << >> => from \in Lap(left)
    <3>1. ASSUME Len(left) \in Nat \ {0}
          PROVE  (i - 1 + Len(left) - 1) % Len(left) \in 0..(Len(left) - 1)
      BY <2>1, <3>1
    <3>2. left # << >> => Len(left) \in Nat \ {0}
      BY <2>5, <2>6, SeatedFacts
    <3> QED
      BY <2>5, <2>6, <3>1, <3>2 DEF Resume, Lap
  <2>8. connected \ {players[i]} \in SUBSET Id /\ flags \ {players[i]} \in SUBSET Id
    BY <2>2
  <2> HIDE DEF from
  <2>9. left # << >> =>
           Walk(left, from, connected \ {players[i]}, flags \ {players[i]}, eats)!Init
    BY <2>5, <2>6, <2>7, <2>8, RostersAreWalked
  <2> QED
    BY <2>4, <2>9 DEF left, from
<1> QED
  BY <1>1, RoomCoreInvariant, RosterStaysBounded, PTL
=============================================================================
