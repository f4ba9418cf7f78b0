---------------------------- MODULE VmFrameProofs ----------------------------
(***************************************************************************)
(* The pool of instances and the frame, for any number of slots, objects   *)
(* and rooms, any placements and any event code.                           *)
(***************************************************************************)
EXTENDS VmFrame, SequenceTheorems, FiniteSetTheorems, WellFoundedInduction, TLAPS

-----------------------------------------------------------------------------
(* Sets of numbers and sequences.                                          *)

LEMMA LeastOf ==
  ASSUME NEW S, S \subseteq Nat, S # {}
  PROVE  Least(S) \in S /\ \A y \in S : Least(S) <= y
<1> DEFINE R == {ss \in Nat \X Nat : ss[1] < ss[2]}
<1>1. IsWellFoundedOn(R, Nat)
  BY NatLessThanWellFounded, Zenon DEF OpToRel
<1>2. \A x, y \in Nat : ~(<<y, x>> \in R) => x <= y
  OBVIOUS
<1> HIDE DEF R
<1>3. PICK x \in S : \A y \in S : ~(<<y, x>> \in R)
  BY <1>1, WFMin
<1>4. ASSUME NEW y \in S PROVE x <= y
  BY <1>2, <1>3
<1> QED
  BY <1>4 DEF Least

LEMMA Ascends ==
  ASSUME NEW S \in SUBSET Nat, IsFiniteSet(S)
  PROVE  /\ Ascending(S) \in Seq(S) /\ Len(Ascending(S)) = Cardinality(S)
         /\ ToSet(Ascending(S)) = S
         /\ \A i, j \in 1..Cardinality(S) : i < j => Ascending(S)[i] < Ascending(S)[j]
<1> DEFINE n == Cardinality(S)
           below(s) == {t \in S : t < s}
           f == [s \in S |-> Cardinality(below(s)) + 1]
<1>0. \A s \in S : s \in Nat
  OBVIOUS
<1>1. n \in Nat
  BY FS_CardinalityType
<1>2. \A s \in S : IsFiniteSet(below(s)) /\ Cardinality(below(s)) \in Nat
  <2> TAKE s \in S
  <2>1. IsFiniteSet(below(s))
    BY FS_Subset, below(s) \in SUBSET S
  <2> QED
    BY <2>1, FS_CardinalityType
<1>3. \A s, u \in S : s < u => Cardinality(below(s)) < Cardinality(below(u))
  <2> SUFFICES ASSUME NEW s \in S, NEW u \in S, s < u
               PROVE  Cardinality(below(s)) < Cardinality(below(u))
    OBVIOUS
  <2>1. below(s) \in SUBSET below(u)
    <3>1. s \in Nat /\ u \in Nat
      BY <1>0
    <3>2. \A t \in S : t < s => t < u
      <4> TAKE t \in S
      <4>1. t \in Nat
        BY <1>0
      <4> QED
        BY <3>1, <4>1
    <3> QED
      BY <3>2
  <2>2. below(s) # below(u)
    <3>1. s \in below(u) /\ s \notin below(s)
      OBVIOUS
    <3> QED
      BY <3>1
  <2>3. IsFiniteSet(below(u))
    BY <1>2
  <2> HIDE DEF below
  <2>4. Cardinality(below(s)) <= Cardinality(below(u)) /\ Cardinality(below(u)) # Cardinality(below(s))
    BY <2>1, <2>2, <2>3, FS_Subset
  <2> QED
    BY <1>2, <2>4
<1>4. \A s \in S : Cardinality(below(s)) < n
  <2> TAKE s \in S
  <2>1. below(s) \in SUBSET S /\ below(s) # S
    OBVIOUS
  <2> HIDE DEF below
  <2>2. Cardinality(below(s)) <= n /\ n # Cardinality(below(s))
    BY <2>1, FS_Subset
  <2> QED
    BY <1>1, <1>2, <2>2
<1>5. f \in Injection(S, 1..n)
  <2>1. f \in [S -> 1..n]
    <3> SUFFICES ASSUME NEW s \in S PROVE Cardinality(below(s)) + 1 \in 1..n
      OBVIOUS
    <3> HIDE DEF below, n
    <3> QED
      BY <1>1, <1>2, <1>4
  <2>2. \A s, u \in S : f[s] = f[u] => s = u
    <3> SUFFICES ASSUME NEW s \in S, NEW u \in S, f[s] = f[u] PROVE s = u
      OBVIOUS
    <3>1. Cardinality(below(s)) = Cardinality(below(u))
      <4>1. f[s] = Cardinality(below(s)) + 1 /\ f[u] = Cardinality(below(u)) + 1
        OBVIOUS
      <4> DEFINE x == Cardinality(below(s))
                 y == Cardinality(below(u))
      <4>2. x \in Nat /\ y \in Nat /\ x + 1 = y + 1
        BY <1>2, <4>1
      <4> HIDE DEF f, x, y
      <4>3. x = y
        BY <4>2
      <4> QED
        BY <4>3 DEF x, y
    <3>2. ~(s < u) /\ ~(u < s)
      <4> HIDE DEF f, below
      <4> QED
        BY <1>2, <1>3, <3>1
    <3> QED
      BY <1>0, <3>2
  <2> HIDE DEF f
  <2> QED
    BY <2>1, <2>2 DEF Injection, IsInjective
<1>6. f \in Surjection(S, 1..n)
  <2>1. IsFiniteSet(1..n) /\ Cardinality(1..n) = n
    BY <1>1, FS_Interval
  <2> HIDE DEF f
  <2> QED
    BY <1>5, <2>1, FS_Injection
<1>7. \A i \in 1..n : \E s \in S : Cardinality(below(s)) = i - 1
  <2> TAKE i \in 1..n
  <2>1. PICK s \in S : f[s] = i
    <3> HIDE DEF f
    <3> QED
      BY <1>6 DEF Surjection
  <2>2. f[s] = Cardinality(below(s)) + 1
    OBVIOUS
  <2> HIDE DEF f, below
  <2>3. Cardinality(below(s)) = i - 1
    BY <1>1, <1>2, <2>1, <2>2
  <2> QED
    BY <2>3
<1> DEFINE a == Ascending(S)
<1>8. a = [i \in 1..n |-> CHOOSE s \in S : Cardinality(below(s)) = i - 1]
  BY DEF Ascending
<1>9. \A i \in 1..n : a[i] \in S /\ Cardinality(below(a[i])) = i - 1
  <2> TAKE i \in 1..n
  <2>1. a[i] = CHOOSE s \in S : Cardinality(below(s)) = i - 1
    BY <1>8
  <2> HIDE DEF a, below
  <2> QED
    BY <1>7, <2>1
<1> HIDE DEF a, below
<1>10. a \in Seq(S) /\ Len(a) = n
  <2>1. a \in [1..n -> S]
    <3>1. DOMAIN a = 1..n /\ a = [i \in 1..n |-> a[i]]
      BY <1>8
    <3> QED
      BY <1>9, <3>1
  <2> QED
    BY <1>1, <2>1
<1>11. \A s \in S : \E i \in 1..n : a[i] = s
  <2> TAKE s \in S
  <2> DEFINE i == Cardinality(below(s)) + 1
  <2>1. i \in 1..n /\ i - 1 = Cardinality(below(s))
    BY <1>1, <1>2, <1>4
  <2> HIDE DEF i
  <2>2. a[i] \in S /\ Cardinality(below(a[i])) = Cardinality(below(s))
    BY <1>9, <2>1
  <2>3. ~(a[i] < s) /\ ~(s < a[i])
    <3>1. /\ a[i] < s => Cardinality(below(a[i])) < Cardinality(below(s))
          /\ s < a[i] => Cardinality(below(s)) < Cardinality(below(a[i]))
      BY <1>3, <2>2
    <3>2. Cardinality(below(s)) \in Nat
      BY <1>2
    <3> QED
      BY <2>2, <3>1, <3>2
  <2>4. a[i] = s
    <3>1. a[i] \in Nat /\ s \in Nat
      BY <1>0, <2>2
    <3> QED
      BY <2>3, <3>1
  <2> QED
    BY <2>1, <2>4
<1>12. \A i, j \in 1..n : i < j => a[i] < a[j]
  <2> SUFFICES ASSUME NEW i \in 1..n, NEW j \in 1..n, i < j PROVE a[i] < a[j]
    OBVIOUS
  <2>1. a[i] \in S /\ a[j] \in S /\ a[i] \in Nat /\ a[j] \in Nat
    BY <1>0, <1>9
  <2>2. Cardinality(below(a[i])) = i - 1 /\ Cardinality(below(a[j])) = j - 1
    BY <1>9
  <2>3. ~(a[j] < a[i])
    BY <1>1, <1>3, <2>1, <2>2
  <2>4. a[i] # a[j]
    BY <1>1, <2>2
  <2> QED
    BY <2>1, <2>3, <2>4
<1>13. ToSet(a) = S
  <2>1. DOMAIN a = 1..n
    BY <1>8
  <2> QED
    BY <1>9, <1>11, <2>1 DEF ToSet
<1> QED
  BY <1>10, <1>12, <1>13 DEF a


LEMMA Greatest ==
  ASSUME NEW S \in SUBSET Nat, IsFiniteSet(S), S # {}
  PROVE  \E x \in S : \A y \in S : y <= x
<1> DEFINE n == Cardinality(S)
           a == Ascending(S)
<1>1. n \in Nat \ {0}
  BY FS_CardinalityType, FS_EmptySet
<1>2. a \in Seq(S) /\ Len(a) = n /\ ToSet(a) = S /\ \A i, j \in 1..n : i < j => a[i] < a[j]
  BY Ascends
<1> HIDE DEF a, n
<1>3. DOMAIN a = 1..n /\ \A i \in 1..n : a[i] \in S
  BY <1>2, LenProperties, ElementOfSeq
<1>4. n \in 1..n
  BY <1>1
<1>5. ASSUME NEW y \in S PROVE y <= a[n]
  <2>1. PICK i \in 1..n : a[i] = y
    BY <1>2, <1>3 DEF ToSet
  <2>2. a[n] \in Nat /\ y \in Nat
    BY <1>3, <1>4
  <2>3. i = n \/ i < n
    BY <1>1
  <2> QED
    BY <1>2, <1>4, <2>1, <2>2, <2>3
<1> QED
  BY <1>3, <1>4, <1>5

LEMMA AscendingOf ==
  ASSUME NEW S \in SUBSET Nat, IsFiniteSet(S)
  PROVE  Ascending(S) \in Seq(S) /\ ToSet(Ascending(S)) = S /\ IsInjective(Ascending(S))
<1> DEFINE n == Cardinality(S)
           a == Ascending(S)
<1>1. /\ n \in Nat /\ a \in Seq(S) /\ Len(a) = n /\ ToSet(a) = S
      /\ \A i, j \in 1..n : i < j => a[i] < a[j]
  BY FS_CardinalityType, Ascends
<1> HIDE DEF a, n
<1>2. DOMAIN a = 1..n
  BY <1>1, LenProperties
<1>3. ASSUME NEW i \in 1..n, NEW j \in 1..n, a[i] = a[j] PROVE i = j
  <2>1. a[i] \in Nat /\ a[j] \in Nat
    BY <1>1, ElementOfSeq
  <2>2. ~(i < j) /\ ~(j < i)
    BY <1>1, <1>3, <2>1
  <2> QED
    BY <1>1, <2>2
<1>4. IsInjective(a)
  BY <1>2, <1>3 DEF IsInjective
<1> QED
  BY <1>1, <1>4 DEF a

LEMMA Members ==
  ASSUME NEW T, NEW q \in Seq(T)
  PROVE  /\ Len(q) \in Nat /\ DOMAIN q = 1..Len(q) /\ ToSet(q) \subseteq T
         /\ \A i \in 1..Len(q) : q[i] \in T /\ q[i] \in ToSet(q)
BY LenProperties, ElementOfSeq DEF ToSet

\* Sifting keeps the order, the members that are in the set, and no repeats where there were none.
LEMMA Sifted ==
  ASSUME NEW T, NEW q \in Seq(T), NEW S
  PROVE  /\ Sift(q, S) \in Seq(T) /\ ToSet(Sift(q, S)) = ToSet(q) \cap S
         /\ IsInjective(q) => IsInjective(Sift(q, S))
<1> DEFINE P == {i \in DOMAIN q : q[i] \in S}
           a == Ascending(P)
           r == Sift(q, S)
<1>1. Len(q) \in Nat /\ DOMAIN q = 1..Len(q) /\ \A i \in 1..Len(q) : q[i] \in T
  BY Members
<1>2. P \in SUBSET Nat /\ IsFiniteSet(P)
  <2>1. P \subseteq 1..Len(q) /\ IsFiniteSet(1..Len(q))
    BY <1>1, FS_Interval
  <2> HIDE DEF P
  <2>2. IsFiniteSet(P)
    BY <2>1, FS_Subset
  <2>3. P \subseteq Nat
    BY <1>1, <2>1
  <2> QED
    BY <2>2, <2>3
<1>3. a \in Seq(P) /\ ToSet(a) = P /\ IsInjective(a)
  <2> HIDE DEF P
  <2> QED
    BY <1>2, AscendingOf
<1>4. r = [i \in 1..Len(a) |-> q[a[i]]]
  BY DEF Sift
<1>5. \A i \in P : i \in 1..Len(q) /\ q[i] \in S
  BY <1>1
<1>6. \A i \in 1..Len(q) : q[i] \in S => i \in P
  BY <1>1
<1> HIDE DEF P, a, r
<1>7. Len(a) \in Nat /\ DOMAIN a = 1..Len(a) /\ \A i \in 1..Len(a) : a[i] \in P
  BY <1>3, Members
<1>8. \A i \in 1..Len(a) : r[i] = q[a[i]] /\ r[i] \in T /\ r[i] \in S /\ a[i] \in 1..Len(q)
  BY <1>1, <1>4, <1>5, <1>7
<1>9. r \in Seq(T) /\ DOMAIN r = 1..Len(a)
  <2>1. r \in [1..Len(a) -> T]
    BY <1>1, <1>4, <1>5, <1>7
  <2> QED
    BY <1>7, <2>1
<1>10. ToSet(r) = ToSet(q) \cap S
  <2>1. ASSUME NEW x \in ToSet(r) PROVE x \in ToSet(q) \cap S
    <3>1. PICK i \in 1..Len(a) : r[i] = x
      BY <1>9, <2>1 DEF ToSet
    <3> QED
      BY <1>1, <1>8, <3>1 DEF ToSet
  <2>2. ASSUME NEW x \in ToSet(q) \cap S PROVE x \in ToSet(r)
    <3>1. PICK j \in 1..Len(q) : q[j] = x
      BY <1>1, <2>2 DEF ToSet
    <3>2. j \in P
      BY <1>6, <2>2, <3>1
    <3>3. PICK i \in 1..Len(a) : a[i] = j
      BY <1>3, <1>7, <3>2 DEF ToSet
    <3>4. r[i] = x
      BY <1>8, <3>1, <3>3
    <3> QED
      BY <1>9, <3>4 DEF ToSet
  <2> QED
    BY <2>1, <2>2
<1>11. ASSUME IsInjective(q) PROVE IsInjective(r)
  <2> SUFFICES ASSUME NEW i \in 1..Len(a), NEW j \in 1..Len(a), r[i] = r[j] PROVE i = j
    BY <1>9 DEF IsInjective
  <2>1. a[i] = a[j]
    BY <1>1, <1>8, <1>11 DEF IsInjective
  <2> QED
    BY <1>3, <1>7, <2>1 DEF IsInjective
<1> QED
  BY <1>9, <1>10, <1>11 DEF r

LEMMA Reversed ==
  ASSUME NEW T, NEW q \in Seq(T)
  PROVE  /\ Reverse(q) \in Seq(T) /\ ToSet(Reverse(q)) = ToSet(q)
         /\ IsInjective(q) => IsInjective(Reverse(q))
<1> DEFINE n == Len(q)
           r == Reverse(q)
<1>1. n \in Nat /\ DOMAIN q = 1..n /\ \A i \in 1..n : q[i] \in T
  BY Members
<1>2. r = [i \in 1..n |-> q[(n - i) + 1]]
  BY DEF Reverse
<1> HIDE DEF n, r
<1>3. \A i \in 1..n : (n - i) + 1 \in 1..n /\ (n - ((n - i) + 1)) + 1 = i
  BY <1>1
<1>4. \A i \in 1..n : r[i] = q[(n - i) + 1] /\ r[i] \in T
  BY <1>1, <1>2, <1>3
<1>5. r \in Seq(T) /\ DOMAIN r = 1..n
  <2>1. r \in [1..n -> T]
    BY <1>1, <1>2, <1>3
  <2> QED
    BY <1>1, <2>1
<1>6. ToSet(r) = ToSet(q)
  <2>1. ASSUME NEW x \in ToSet(r) PROVE x \in ToSet(q)
    <3>1. PICK i \in 1..n : r[i] = x
      BY <1>5, <2>1 DEF ToSet
    <3> QED
      BY <1>1, <1>3, <1>4, <3>1 DEF ToSet
  <2>2. ASSUME NEW x \in ToSet(q) PROVE x \in ToSet(r)
    <3>1. PICK i \in 1..n : q[i] = x
      BY <1>1, <2>2 DEF ToSet
    <3>2. r[(n - i) + 1] = x /\ (n - i) + 1 \in 1..n
      BY <1>3, <1>4, <3>1
    <3> QED
      BY <1>5, <3>2 DEF ToSet
  <2> QED
    BY <2>1, <2>2
<1>7. ASSUME IsInjective(q) PROVE IsInjective(r)
  <2> SUFFICES ASSUME NEW i \in 1..n, NEW j \in 1..n, r[i] = r[j] PROVE i = j
    BY <1>5 DEF IsInjective
  <2>1. (n - i) + 1 = (n - j) + 1
    BY <1>1, <1>3, <1>4, <1>7 DEF IsInjective
  <2> QED
    BY <1>1, <2>1
<1> QED
  BY <1>5, <1>6, <1>7 DEF r

LEMMA Concatenated ==
  ASSUME NEW T, NEW q \in Seq(T), NEW r \in Seq(T)
  PROVE  /\ q \o r \in Seq(T) /\ ToSet(q \o r) = ToSet(q) \cup ToSet(r)
         /\ IsInjective(q) /\ IsInjective(r) /\ ToSet(q) \cap ToSet(r) = {} => IsInjective(q \o r)
<1> DEFINE m == Len(q)
           n == Len(r)
           u == q \o r
<1>1. /\ m \in Nat /\ n \in Nat /\ DOMAIN q = 1..m /\ DOMAIN r = 1..n
      /\ \A i \in 1..m : q[i] \in ToSet(q)
      /\ \A i \in 1..n : r[i] \in ToSet(r)
  BY Members
<1>2. u \in Seq(T) /\ Len(u) = m + n /\ \A i \in 1..(m + n) : u[i] = IF i <= m THEN q[i] ELSE r[i - m]
  BY ConcatProperties
<1>3. DOMAIN u = 1..(m + n)
  BY <1>2, LenProperties
<1> HIDE DEF u, m, n
<1>4. /\ \A i \in 1..m : i \in 1..(m + n) /\ u[i] = q[i]
      /\ \A i \in 1..n : m + i \in 1..(m + n) /\ u[m + i] = r[i]
  <2>1. \A i \in 1..m : i \in 1..(m + n) /\ i <= m
    BY <1>1
  <2>2. \A i \in 1..n : m + i \in 1..(m + n) /\ ~(m + i <= m) /\ (m + i) - m = i
    BY <1>1
  <2> QED
    BY <1>2, <2>1, <2>2
<1>5. \A i \in 1..(m + n) : i \in 1..m \/ \E j \in 1..n : i = m + j
  <2> SUFFICES ASSUME NEW i \in 1..(m + n), ~(i \in 1..m) PROVE \E j \in 1..n : i = m + j
    OBVIOUS
  <2>1. i - m \in 1..n /\ i = m + (i - m)
    BY <1>1
  <2> QED
    BY <2>1
<1>6. ToSet(u) = ToSet(q) \cup ToSet(r)
  <2>1. ASSUME NEW x \in ToSet(u) PROVE x \in ToSet(q) \cup ToSet(r)
    <3>1. PICK i \in 1..(m + n) : u[i] = x
      BY <1>3, <2>1 DEF ToSet
    <3> QED
      BY <1>1, <1>4, <1>5, <3>1
  <2>2. ASSUME NEW x \in ToSet(q) PROVE x \in ToSet(u)
    <3>1. PICK i \in 1..m : q[i] = x
      BY <1>1, <2>2 DEF ToSet
    <3> QED
      BY <1>3, <1>4, <3>1 DEF ToSet
  <2>3. ASSUME NEW x \in ToSet(r) PROVE x \in ToSet(u)
    <3>1. PICK i \in 1..n : r[i] = x
      BY <1>1, <2>3 DEF ToSet
    <3> QED
      BY <1>3, <1>4, <3>1 DEF ToSet
  <2> QED
    BY <2>1, <2>2, <2>3
<1>7. ASSUME IsInjective(q), IsInjective(r), ToSet(q) \cap ToSet(r) = {} PROVE IsInjective(u)
  <2> SUFFICES ASSUME NEW i \in 1..(m + n), NEW j \in 1..(m + n), u[i] = u[j] PROVE i = j
    BY <1>3 DEF IsInjective
  <2>1. CASE i \in 1..m /\ j \in 1..m
    BY <1>1, <1>4, <1>7, <2>1 DEF IsInjective
  <2>2. CASE i \in 1..m /\ ~(j \in 1..m)
    <3>1. u[i] \in ToSet(q) /\ u[j] \in ToSet(r)
      BY <1>1, <1>4, <1>5, <2>2
    <3> QED
      BY <1>7, <3>1
  <2>3. CASE ~(i \in 1..m) /\ j \in 1..m
    <3>1. u[j] \in ToSet(q) /\ u[i] \in ToSet(r)
      BY <1>1, <1>4, <1>5, <2>3
    <3> QED
      BY <1>7, <3>1
  <2>4. CASE ~(i \in 1..m) /\ ~(j \in 1..m)
    <3>1. PICK k \in 1..n : i = m + k
      BY <1>5, <2>4
    <3>2. PICK l \in 1..n : j = m + l
      BY <1>5, <2>4
    <3>3. r[k] = r[l]
      BY <1>4, <3>1, <3>2
    <3>4. k = l
      BY <1>1, <1>7, <3>3 DEF IsInjective
    <3> QED
      BY <3>1, <3>2, <3>4
  <2> QED
    BY <2>1, <2>2, <2>3, <2>4
<1> QED
  BY <1>2, <1>6, <1>7 DEF u

LEMMA Single ==
  ASSUME NEW T, NEW x \in T
  PROVE  <<x>> \in Seq(T) /\ ToSet(<<x>>) = {x} /\ IsInjective(<<x>>)
<1>1. <<x>> \in Seq(T) /\ DOMAIN <<x>> = 1..1 /\ <<x>>[1] = x
  OBVIOUS
<1>2. ToSet(<<x>>) = {x}
  BY <1>1 DEF ToSet
<1>3. IsInjective(<<x>>)
  BY <1>1 DEF IsInjective
<1> QED
  BY <1>1, <1>2, <1>3

\* A sequence without repeats is as long as its set of members is large.
LEMMA CountedOnce ==
  ASSUME NEW T, NEW q \in Seq(T), IsInjective(q)
  PROVE  Len(q) = Cardinality(ToSet(q))
<1> DEFINE n == Len(q)
           S == ToSet(q)
<1>1. n \in Nat /\ DOMAIN q = 1..n /\ \A i \in 1..n : q[i] \in S
  BY Members
<1>2. q \in [1..n -> S]
  <2>1. q = [i \in 1..n |-> q[i]]
    BY <1>1, LenProperties
  <2> HIDE DEF S, n
  <2> QED
    BY <1>1, <2>1
<1>3. \A x \in S : \E i \in 1..n : q[i] = x
  BY <1>1 DEF ToSet
<1> HIDE DEF n, S
<1>4. q \in Bijection(1..n, S)
  BY <1>1, <1>2, <1>3 DEF Bijection, Injection, Surjection, IsInjective
<1>5. ExistsBijection(1..n, S)
  BY <1>4 DEF ExistsBijection
<1> QED
  BY <1>1, <1>5, FS_CountingElements DEF n, S

-----------------------------------------------------------------------------
(* Types.                                                                  *)

States == {"free", "live", "off", "dormant"}
Inst == [st : States, marked : BOOLEAN, obj : Objects \cup {0}, id : Nat, seq : Nat,
         owner : Rooms \cup {NoRoom}, wasOff : BOOLEAN, placed : BOOLEAN, alarm : BOOLEAN, cleaned : Nat]
Frame == [k : {"event", "create", "birth", "code", "destroy", "cleanup", "clear", "change"},
          s : Slots \cup {NoSlot}, to : Objects \cup {0}]

PoolType == pool \in [Slots -> Inst]
BookType ==
  /\ count \in 0..Cap /\ nextId \in Nat \ {0} /\ nextSeq \in Nat
  /\ alive \in [Objects -> Int] /\ list \in [Objects -> Seq(Slots)]
  /\ holes \in Seq(Slots) /\ stepping \in BOOLEAN /\ base \in 0..Cap
FlowType ==
  /\ policy \in Policies /\ room \in Rooms /\ pending \in Rooms \cup {NoRoom} /\ stored \subseteq Rooms
  /\ pc \in {"idle", "reap", "draw"} \cup StepPhases \cup RoomPhases
LoopType ==
  /\ at \in Nat /\ limit \in 0..Cap /\ todo \in Seq(Slots) /\ groups \in Seq(Objects)
  /\ mark \in Nat /\ firstId \in Nat /\ ran \in BOOLEAN
StackType == stack \in Seq(Frame)
MoveType == target \in Rooms \cup {NoRoom} /\ after \in {"timeline", "alarm", "finish"} /\ chain \in 0..ChainLimit
PastType == ops \in 0..MaxOps /\ seen \in [Slots -> Nat] /\ born \subseteq Slots

LEMMA TypeParts ==
  TypeOK <=> PoolType /\ BookType /\ FlowType /\ LoopType /\ StackType /\ MoveType /\ PastType
BY Zenon DEF TypeOK, PoolType, BookType, FlowType, LoopType, StackType, MoveType, PastType, Inst, States, Frame

\* Only a room's creation code runs without a slot, and what an instance changes to is an object.
FramesInv ==
  \A i \in DOMAIN stack : /\ stack[i].k # "code" => stack[i].s \in Slots
                          /\ stack[i].k = "change" => stack[i].to \in Objects

\* A room change has a room to go to until it enters it.
TargetInv == pc \in {"leave", "clear"} => target \in Rooms

TypeInv ==
  PoolType /\ BookType /\ FlowType /\ LoopType /\ StackType /\ MoveType /\ PastType /\ FramesInv /\ TargetInv

LEMMA Numbers == Cap \in Nat \ {0} /\ Slots \subseteq Nat /\ Cap - 1 \in Slots /\ NoSlot \notin Slots
BY PoolAssumption DEF Slots, NoSlot

LEMMA Below ==
  ASSUME NEW n \in 0..Cap
  PROVE  0..(n - 1) \subseteq Slots /\ (n < Cap => n \in Slots) /\ n \in Nat
BY Numbers DEF Slots

\* A set of slots is finite and can be listed.
LEMMA SlotSets ==
  ASSUME NEW S, S \subseteq Slots
  PROVE  /\ S \in SUBSET Nat /\ IsFiniteSet(S) /\ Cardinality(S) \in Nat
         /\ Ascending(S) \in Seq(Slots) /\ ToSet(Ascending(S)) = S /\ IsInjective(Ascending(S))
<1>1. IsFiniteSet(Slots)
  BY Numbers, FS_Interval DEF Slots
<1>2. S \in SUBSET Nat /\ IsFiniteSet(S)
  BY <1>1, FS_Subset, Numbers
<1>3. Ascending(S) \in Seq(S) /\ ToSet(Ascending(S)) = S /\ IsInjective(Ascending(S))
  BY <1>2, AscendingOf
<1>4. Ascending(S) \in Seq(Slots)
  BY <1>3, SeqMonotonic
<1> QED
  BY <1>2, <1>3, <1>4, FS_CardinalityType

LEMMA GroupList == Ascending(Objects) \in Seq(Objects) /\ Head(Ascending(Objects)) \in Objects
<1>1. Objects \in SUBSET Nat /\ IsFiniteSet(Objects) /\ Objects # {}
  BY PoolAssumption
<1>2. Ascending(Objects) \in Seq(Objects) /\ ToSet(Ascending(Objects)) = Objects
  BY <1>1, AscendingOf
<1>3. Ascending(Objects) # <<>>
  BY <1>1, <1>2 DEF ToSet
<1> QED
  BY <1>2, <1>3, HeadTailProperties

(* An instance gets a new value in one field.                              *)
LEMMA MarkedType ==
  ASSUME NEW r \in Inst, NEW b \in BOOLEAN
  PROVE  [r EXCEPT !.marked = b] \in Inst
BY DEF Inst

LEMMA AlarmedType ==
  ASSUME NEW r \in Inst, NEW b \in BOOLEAN
  PROVE  [r EXCEPT !.alarm = b] \in Inst
BY DEF Inst

LEMMA InStateType ==
  ASSUME NEW r \in Inst, NEW st \in States
  PROVE  [r EXCEPT !.st = st] \in Inst
BY DEF Inst

LEMMA NumberedType ==
  ASSUME NEW r \in Inst, NEW n \in Nat
  PROVE  [r EXCEPT !.seq = n] \in Inst
BY DEF Inst

LEMMA CleanedType ==
  ASSUME NEW r \in Inst, NEW n \in Nat
  PROVE  [r EXCEPT !.cleaned = n] \in Inst
BY DEF Inst

LEMMA BecomesType ==
  ASSUME NEW r \in Inst, NEW o \in Objects \cup {0}
  PROVE  [r EXCEPT !.obj = o] \in Inst
BY DEF Inst

LEMMA OwnedByType ==
  ASSUME NEW r \in Inst, NEW w \in Rooms \cup {NoRoom}
  PROVE  [r EXCEPT !.owner = w] \in Inst
BY DEF Inst

LEMMA FreeType == Free \in Inst
BY DEF Free, Inst, States, NoRoom

LEMMA NewbornIs ==
  ASSUME NEW o \in Objects, NEW id \in Nat, NEW seq \in Nat, NEW b \in BOOLEAN, NEW w \in Rooms
  PROVE  LET r == Newborn(o, id, seq, b, w)
         IN /\ r \in Inst
            /\ r.st = "live" /\ ~r.marked /\ r.obj = o /\ r.id = id /\ r.owner = w
            /\ (r.placed <=> b) /\ ~r.alarm /\ r.cleaned = 0
BY DEF Newborn, Inst, States

LEMMA AllocType ==
  ASSUME BookType
  PROVE  Alloc \in Slots
<1>1. count \in 0..Cap /\ holes \in Seq(Slots) /\ DOMAIN holes = 1..Len(holes) /\ Len(holes) \in Nat
  BY LenProperties DEF BookType
<1>2. CASE Recycles /\ InStep
  <2>1. UsableHoles # {} /\ UsableHoles \subseteq 1..Len(holes) /\ UsableHoles \subseteq Nat
    BY <1>1, <1>2 DEF Recycles, UsableHoles
  <2>2. Least(UsableHoles) \in UsableHoles
    BY <2>1, LeastOf
  <2>3. Alloc = holes[Least(UsableHoles)]
    BY <1>2 DEF Alloc
  <2> QED
    BY <1>1, <2>1, <2>2, <2>3, ElementOfSeq
<1>3. CASE Recycles /\ ~InStep
  <2>1. FreeBelow # {} /\ FreeBelow \subseteq Slots /\ FreeBelow \subseteq Nat
    BY <1>1, <1>3, Below, Numbers DEF Recycles, FreeBelow
  <2>2. Least(FreeBelow) \in FreeBelow
    BY <2>1, LeastOf
  <2>3. Alloc = Least(FreeBelow)
    BY <1>3 DEF Alloc
  <2> QED
    BY <2>1, <2>2, <2>3
<1>4. CASE ~Recycles /\ count < Cap
  <2>1. Alloc = count
    BY <1>4 DEF Alloc
  <2> QED
    BY <1>1, <1>4, <2>1, Below
<1>5. CASE ~Recycles /\ ~(count < Cap)
  <2>1. Alloc = Cap - 1
    BY <1>5 DEF Alloc
  <2> QED
    BY <2>1, Numbers
<1> QED
  BY <1>2, <1>3, <1>4, <1>5

-----------------------------------------------------------------------------
(* The operations of the pool keep the types of the pool and its books.    *)

LEMMA AdjustedType ==
  ASSUME NEW a \in [Objects -> Int], NEW o, NEW d \in Int
  PROVE  Adjusted(a, o, d) \in [Objects -> Int]
BY DEF Adjusted

LEMMA LinkedType ==
  ASSUME NEW l \in [Objects -> Seq(Slots)], NEW s \in Slots, NEW o
  PROVE  Linked(l, s, o) \in [Objects -> Seq(Slots)]
<1>1. ASSUME o \in Objects PROVE <<s>> \o l[o] \in Seq(Slots)
  BY <1>1, Single, Concatenated
<1> QED
  BY <1>1 DEF Linked

LEMMA UnlinkedType ==
  ASSUME NEW l \in [Objects -> Seq(Slots)], NEW s, NEW o
  PROVE  Unlinked(l, s, o) \in [Objects -> Seq(Slots)]
<1>1. ASSUME o \in Objects PROVE Sift(l[o], Slots \ {s}) \in Seq(Slots)
  BY <1>1, Sifted
<1> QED
  BY <1>1 DEF Unlinked

LEMMA WithoutType ==
  ASSUME BookType, NEW S, S \subseteq Slots, Without(S)
  PROVE  alive' \in [Objects -> Int] /\ list' \in [Objects -> Seq(Slots)]
<1>1. \A o \in Objects : Cardinality({s \in S : o \in Family[pool[s].obj]}) \in Nat
  <2> TAKE o \in Objects
  <2>1. {s \in S : o \in Family[pool[s].obj]} \subseteq Slots
    OBVIOUS
  <2> QED
    BY <2>1, SlotSets
<1>2. alive' \in [Objects -> Int]
  BY <1>1 DEF Without, BookType
<1>3. \A o \in Objects : Sift(list[o], Slots \ {s \in S : pool[s].obj = o}) \in Seq(Slots)
  BY Sifted DEF BookType
<1> QED
  BY <1>2, <1>3 DEF Without

\* A slot gets a new value.
LEMMA PutType ==
  ASSUME PoolType, NEW s, NEW r, s \in Slots => r \in Inst, pool' = [pool EXCEPT ![s] = r]
  PROVE  PoolType'
BY DEF PoolType

LEMMA SameBooks ==
  ASSUME BookType, UNCHANGED <<count, nextId, nextSeq, alive, list, holes, stepping, base>>
  PROVE  BookType'
BY DEF BookType

LEMMA MarkType == ASSUME PoolType, BookType, NEW s \in Slots, Mark(s) PROVE PoolType' /\ BookType'
<1>1. pool' = [pool EXCEPT ![s] = [pool[s] EXCEPT !.marked = TRUE]]
  BY DEF Mark
<1>2. pool[s] \in Inst
  BY DEF PoolType
<1>3. [pool[s] EXCEPT !.marked = TRUE] \in Inst
  BY <1>2, MarkedType
<1> QED
  BY <1>1, <1>3, PutType, SameBooks DEF Mark

LEMMA CleanUpType == ASSUME PoolType, BookType, NEW s \in Slots, CleanUp(s) PROVE PoolType' /\ BookType'
<1>1. pool' = [pool EXCEPT ![s] = [pool[s] EXCEPT !.cleaned = pool[s].cleaned + 1]]
  BY DEF CleanUp
<1>2. pool[s] \in Inst /\ pool[s].cleaned + 1 \in Nat
  BY DEF PoolType, Inst
<1>3. [pool[s] EXCEPT !.cleaned = pool[s].cleaned + 1] \in Inst
  BY <1>2, CleanedType
<1> QED
  BY <1>1, <1>3, PutType, SameBooks DEF CleanUp

LEMMA SetActiveType ==
  ASSUME PoolType, BookType, NEW s \in Slots, NEW st \in States, SetActive(s, st)
  PROVE  PoolType' /\ BookType'
<1>1. pool' = [pool EXCEPT ![s] = [pool[s] EXCEPT !.st = st]]
  BY DEF SetActive
<1>2. pool[s] \in Inst
  BY DEF PoolType
<1>3. [pool[s] EXCEPT !.st = st] \in Inst
  BY <1>2, InStateType
<1> QED
  BY <1>1, <1>3, PutType, SameBooks DEF SetActive

LEMMA SetAlarmType ==
  ASSUME PoolType, BookType, NEW s \in Slots, NEW on \in BOOLEAN, SetAlarm(s, on)
  PROVE  PoolType' /\ BookType'
<1>1. pool' = [pool EXCEPT ![s] = [pool[s] EXCEPT !.alarm = on]]
  BY DEF SetAlarm
<1>2. pool[s] \in Inst
  BY DEF PoolType
<1>3. [pool[s] EXCEPT !.alarm = on] \in Inst
  BY <1>2, AlarmedType
<1> QED
  BY <1>1, <1>3, PutType, SameBooks DEF SetAlarm

LEMMA ChangeBeginType ==
  ASSUME PoolType, BookType, NEW s \in Slots, NEW o, ChangeBegin(s, o)
  PROVE  PoolType' /\ BookType'
<1>1. alive \in [Objects -> Int] /\ list \in [Objects -> Seq(Slots)]
  BY DEF BookType
<1>2. Adjusted(alive, pool[s].obj, -1) \in [Objects -> Int]
  BY <1>1, AdjustedType
<1>3. alive' \in [Objects -> Int]
  BY <1>2, AdjustedType DEF ChangeBegin
<1>4. list' \in [Objects -> Seq(Slots)]
  BY <1>1, UnlinkedType DEF ChangeBegin
<1> QED
  BY <1>3, <1>4 DEF ChangeBegin, PoolType, BookType

LEMMA ChangeEndType ==
  ASSUME PoolType, BookType, NEW s \in Slots, NEW o \in Objects, ChangeEnd(s, o)
  PROVE  PoolType' /\ BookType'
<1>0. list \in [Objects -> Seq(Slots)]
  BY DEF BookType
<1>1. list' \in [Objects -> Seq(Slots)]
  <2>1. Linked(list, s, o) \in [Objects -> Seq(Slots)]
    BY <1>0, LinkedType
  <2>2. Linked(list, s, pool[s].obj) \in [Objects -> Seq(Slots)]
    BY <1>0, LinkedType
  <2> QED
    BY <2>1, <2>2 DEF ChangeEnd
<1>2. BookType'
  BY <1>1 DEF ChangeEnd, BookType
<1>3. CASE Running(s)
  <2>1. pool' = [pool EXCEPT ![s] = [pool[s] EXCEPT !.obj = o]]
    BY <1>3 DEF ChangeEnd
  <2>2. [pool[s] EXCEPT !.obj = o] \in Inst
    <3>1. pool[s] \in Inst /\ o \in Objects \cup {0}
      BY DEF PoolType
    <3> QED
      BY <3>1, BecomesType
  <2> QED
    BY <1>2, <2>1, <2>2, PutType
<1>4. CASE ~Running(s)
  BY <1>2, <1>4 DEF ChangeEnd, PoolType
<1> QED
  BY <1>3, <1>4

LEMMA ChangeQuietlyType ==
  ASSUME PoolType, BookType, NEW s \in Slots, NEW o \in Objects, ChangeQuietly(s, o)
  PROVE  PoolType' /\ BookType'
<1>1. alive \in [Objects -> Int] /\ list \in [Objects -> Seq(Slots)]
  BY DEF BookType
<1>2. Adjusted(alive, pool[s].obj, -1) \in [Objects -> Int]
  BY <1>1, -1 \in Int, AdjustedType, Zenon
<1>3. Unlinked(list, s, pool[s].obj) \in [Objects -> Seq(Slots)]
  BY <1>1, UnlinkedType
<1>4. alive' \in [Objects -> Int] /\ list' \in [Objects -> Seq(Slots)]
  <2>1. alive' \in [Objects -> Int]
    BY <1>2, AdjustedType DEF ChangeQuietly
  <2>2. list' \in [Objects -> Seq(Slots)]
    BY <1>3, LinkedType DEF ChangeQuietly
  <2> QED
    BY <2>1, <2>2
<1>5. pool' = [pool EXCEPT ![s] = [pool[s] EXCEPT !.obj = o]]
  BY DEF ChangeQuietly
<1>6. [pool[s] EXCEPT !.obj = o] \in Inst
  <2>1. pool[s] \in Inst /\ o \in Objects \cup {0}
    BY DEF PoolType
  <2> QED
    BY <2>1, BecomesType
<1>7. PoolType'
  BY <1>5, <1>6, PutType
<1> QED
  BY <1>4, <1>7 DEF ChangeQuietly, BookType

LEMMA DisposeType ==
  ASSUME PoolType, BookType, NEW s \in Slots, Dispose(s)
  PROVE  PoolType' /\ BookType'
<1>0. alive \in [Objects -> Int] /\ list \in [Objects -> Seq(Slots)]
  BY DEF BookType
<1>1. alive' \in [Objects -> Int] /\ list' \in [Objects -> Seq(Slots)]
  <2>1. alive' \in [Objects -> Int]
    BY <1>0, AdjustedType DEF Dispose
  <2>2. list' \in [Objects -> Seq(Slots)]
    BY <1>0, UnlinkedType DEF Dispose
  <2> QED
    BY <2>1, <2>2
<1>2. PoolType'
  BY FreeType, PutType DEF Dispose
<1> QED
  BY <1>1, <1>2 DEF Dispose, BookType

LEMMA UpTo ==
  ASSUME BookType
  PROVE  0..(count - 1) \subseteq Slots
BY Below DEF BookType

LEMMA ReapType == ASSUME PoolType, BookType, Reap PROVE PoolType' /\ BookType'
<1>1. Doomed \subseteq Slots
  BY UpTo DEF Doomed
<1>2. alive' \in [Objects -> Int] /\ list' \in [Objects -> Seq(Slots)]
  BY <1>1, WithoutType DEF Reap
<1>3. PoolType'
  BY FreeType DEF Reap, PoolType
<1> QED
  BY <1>2, <1>3 DEF Reap, BookType

LEMMA RebaseType == ASSUME PoolType, BookType, ReapAndRebase PROVE PoolType' /\ BookType'
<1> DEFINE rank(s) == Cardinality({t \in Held : t <= s})
<1>1. Doomed \subseteq Slots /\ Held \subseteq Slots
  BY UpTo DEF Doomed, Held
<1>2. alive' \in [Objects -> Int] /\ list' \in [Objects -> Seq(Slots)]
  BY <1>1, WithoutType DEF ReapAndRebase
<1>3. \A s \in Slots : rank(s) \in Nat
  <2> TAKE s \in Slots
  <2>1. {t \in Held : t <= s} \subseteq Slots
    BY <1>1
  <2> QED
    BY <2>1, SlotSets
<1>4. Cardinality(Held) \in Nat
  BY <1>1, SlotSets
<1>5. pool' = [s \in Slots |-> IF s \in Doomed THEN Free
                               ELSE IF s \in Held THEN [pool[s] EXCEPT !.seq = rank(s)] ELSE pool[s]]
  BY DEF ReapAndRebase
<1>6. nextSeq' = Cardinality(Held) + 1 /\ UNCHANGED <<count, nextId, holes, stepping, base>>
  BY DEF ReapAndRebase
<1> HIDE DEF rank
<1>7. \A s \in Slots : [pool[s] EXCEPT !.seq = rank(s)] \in Inst /\ pool[s] \in Inst
  <2> TAKE s \in Slots
  <2>1. pool[s] \in Inst /\ rank(s) \in Nat
    BY <1>3 DEF PoolType
  <2> QED
    BY <2>1, NumberedType
<1>8. PoolType'
  BY <1>5, <1>7, FreeType DEF PoolType
<1> QED
  BY <1>2, <1>4, <1>6, <1>8 DEF BookType

LEMMA SleepType ==
  ASSUME PoolType, BookType, NEW r, PutToSleep(r)
  PROVE  PoolType' /\ BookType'
<1>1. Sleepers(r) \subseteq Slots
  BY UpTo DEF Sleepers
<1>2. alive' \in [Objects -> Int] /\ list' \in [Objects -> Seq(Slots)]
  BY <1>1, WithoutType DEF PutToSleep
<1>3. \A s \in Slots : [pool[s] EXCEPT !.st = "dormant", !.wasOff = (pool[s].st = "off")] \in Inst
  <2> TAKE s \in Slots
  <2>1. pool[s] \in Inst
    BY DEF PoolType
  <2> QED
    BY <2>1 DEF Inst, States
<1>4. PoolType'
  BY <1>3 DEF PutToSleep, PoolType
<1> QED
  BY <1>2, <1>4 DEF PutToSleep, BookType

LEMMA WakeType ==
  ASSUME PoolType, BookType, NEW r, WakeUp(r)
  PROVE  PoolType' /\ BookType'
<1>1. Woken(r) \subseteq Slots
  BY UpTo DEF Woken
<1>2. alive' \in [Objects -> Int]
  <2>0. alive \in [Objects -> Int]
    BY DEF BookType
  <2>1. \A o \in Objects : Cardinality({s \in Woken(r) : o \in Family[pool[s].obj]}) \in Nat
    <3> TAKE o \in Objects
    <3>1. {s \in Woken(r) : o \in Family[pool[s].obj]} \subseteq Slots
      BY <1>1
    <3> QED
      BY <3>1, SlotSets
  <2> DEFINE awake(o) == Cardinality({s \in Woken(r) : o \in Family[pool[s].obj]})
  <2>2. alive' = [o \in Objects |-> alive[o] + awake(o)]
    BY DEF WakeUp
  <2>3. \A o \in Objects : awake(o) \in Nat
    BY <2>1
  <2> HIDE DEF awake
  <2>4. \A o \in Objects : alive[o] + awake(o) \in Int
    BY <2>0, <2>3
  <2> QED
    BY <2>2, <2>4
<1>3. list' \in [Objects -> Seq(Slots)]
  <2>1. ASSUME NEW o \in Objects
        PROVE  Reverse(Ascending({s \in Woken(r) : pool[s].obj = o})) \o list[o] \in Seq(Slots)
    <3>1. {s \in Woken(r) : pool[s].obj = o} \subseteq Slots
      BY <1>1
    <3>2. Ascending({s \in Woken(r) : pool[s].obj = o}) \in Seq(Slots)
      BY <3>1, SlotSets
    <3>3. Reverse(Ascending({s \in Woken(r) : pool[s].obj = o})) \in Seq(Slots)
      BY <3>2, Reversed
    <3> QED
      BY <3>3, Concatenated DEF BookType
  <2> QED
    BY <2>1 DEF WakeUp
<1>4. \A s \in Slots : [pool[s] EXCEPT !.st = IF pool[s].wasOff THEN "off" ELSE "live", !.wasOff = FALSE] \in Inst
  <2> TAKE s \in Slots
  <2>1. pool[s] \in Inst
    BY DEF PoolType
  <2> QED
    BY <2>1 DEF Inst, States
<1>5. PoolType'
  BY <1>4 DEF WakeUp, PoolType
<1> QED
  BY <1>2, <1>3, <1>5 DEF WakeUp, BookType

LEMMA AdoptType ==
  ASSUME PoolType, BookType, NEW r \in Rooms, Adopt(r)
  PROVE  PoolType' /\ BookType'
<1>1. \A s \in Slots : [pool[s] EXCEPT !.owner = r] \in Inst /\ pool[s] \in Inst
  <2> TAKE s \in Slots
  <2>1. pool[s] \in Inst /\ r \in Rooms \cup {NoRoom}
    BY DEF PoolType
  <2> QED
    BY <2>1, OwnedByType
<1>2. PoolType'
  BY <1>1 DEF Adopt, PoolType
<1> QED
  BY <1>2, SameBooks DEF Adopt

LEMMA CreateType ==
  ASSUME PoolType, BookType, NEW o \in Objects, NEW id \in Nat, NEW b \in BOOLEAN, NEW w \in Rooms,
         Create(Alloc, o, id, b, w)
  PROVE  PoolType' /\ BookType'
<1> DEFINE s == Alloc
           fresh == IF nextSeq = 0 THEN 1 ELSE nextSeq
           seq == IF InStep THEN fresh ELSE s + 1
           evicts == Full /\ Exists(s)
           a == IF evicts THEN Adjusted(alive, pool[s].obj, -1) ELSE alive
           l == IF evicts THEN Unlinked(list, s, pool[s].obj) ELSE list
<1>1. s \in Slots /\ s \in Nat
  BY AllocType, Numbers
<1>2. nextSeq \in Nat /\ fresh \in Nat
  BY DEF BookType
<1>3. seq \in Nat
  BY <1>1, <1>2
<1>4. /\ pool' = [pool EXCEPT ![s] = Newborn(o, id, seq, b, w)]
      /\ count' = IF Recycles \/ count >= Cap THEN count ELSE count + 1
      /\ holes' = IF ~InStep THEN holes
                  ELSE IF Recycles THEN SubSeq(holes, Least(UsableHoles) + 1, Len(holes)) ELSE <<>>
      /\ nextId' = IdAfter(b)
      /\ nextSeq' = IF InStep THEN fresh + 1 ELSE IF nextSeq <= seq THEN seq + 1 ELSE nextSeq
      /\ alive' = Adjusted(a, o, 1)
      /\ list' = Linked(l, s, o)
      /\ UNCHANGED <<stepping, base>>
  BY DEF Create
<1>5. a \in [Objects -> Int] /\ l \in [Objects -> Seq(Slots)]
  <2>1. alive \in [Objects -> Int] /\ list \in [Objects -> Seq(Slots)]
    BY DEF BookType
  <2>2. Adjusted(alive, pool[s].obj, -1) \in [Objects -> Int]
    BY <2>1, AdjustedType
  <2>3. Unlinked(list, s, pool[s].obj) \in [Objects -> Seq(Slots)]
    BY <2>1, UnlinkedType
  <2> QED
    BY <2>1, <2>2, <2>3
<1> HIDE DEF s, fresh, seq, a, l
<1>6. PoolType'
  BY <1>3, <1>4, NewbornIs, PutType
<1>7. alive' \in [Objects -> Int] /\ list' \in [Objects -> Seq(Slots)]
  <2>1. alive' \in [Objects -> Int]
    BY <1>4, <1>5, AdjustedType
  <2>2. list' \in [Objects -> Seq(Slots)]
    BY <1>1, <1>4, <1>5, LinkedType
  <2> QED
    BY <2>1, <2>2
<1>8. count' \in 0..Cap
  BY <1>4, Numbers DEF BookType
<1>9. nextId' \in Nat \ {0} /\ nextSeq' \in Nat
  BY <1>2, <1>3, <1>4 DEF IdAfter, BookType
<1>10. holes' \in Seq(Slots)
  <2>1. CASE InStep /\ Recycles
    <3>1. holes \in Seq(Slots) /\ DOMAIN holes = 1..Len(holes) /\ Len(holes) \in Nat
      BY LenProperties DEF BookType
    <3>2. UsableHoles # {} /\ UsableHoles \subseteq 1..Len(holes) /\ UsableHoles \subseteq Nat
      BY <2>1, <3>1 DEF Recycles, UsableHoles
    <3>3. Least(UsableHoles) \in 1..Len(holes)
      BY <3>2, LeastOf
    <3>4. Least(UsableHoles) + 1 \in 1..(Len(holes) + 1)
      BY <3>1, <3>3
    <3>5. \A i \in (Least(UsableHoles) + 1)..Len(holes) : holes[i] \in Slots
      BY <3>1, <3>3, ElementOfSeq
    <3>6. SubSeq(holes, Least(UsableHoles) + 1, Len(holes)) \in Seq(Slots)
      BY <3>1, <3>4, <3>5, SubSeqProperties
    <3> QED
      BY <1>4, <2>1, <3>6
  <2>2. CASE ~InStep
    BY <1>4, <2>2 DEF BookType
  <2>3. CASE InStep /\ ~Recycles
    BY <1>4, <2>3
  <2> QED
    BY <2>1, <2>2, <2>3
<1>11. stepping' \in BOOLEAN /\ base' \in 0..Cap
  BY <1>4 DEF BookType
<1> QED
  BY <1>6, <1>7, <1>8, <1>9, <1>10, <1>11 DEF BookType

-----------------------------------------------------------------------------
(* The parts the actions share keep their types.                           *)

Kinds == {"event", "create", "birth", "code", "destroy", "cleanup", "clear", "change"}

LEMMA PushType ==
  ASSUME StackType, FramesInv, NEW k \in Kinds, NEW s \in Slots \cup {NoSlot}, NEW o \in Objects \cup {0},
         k # "code" => s \in Slots, k = "change" => o \in Objects, Push(k, s, o)
  PROVE  StackType' /\ FramesInv'
<1> DEFINE f == [k |-> k, s |-> s, to |-> o]
<1>1. f \in Frame
  BY DEF Frame, Kinds
<1>2. f.k = k /\ f.s = s /\ f.to = o
  OBVIOUS
<1>3. stack \in Seq(Frame) /\ stack' = <<f>> \o stack
  BY DEF StackType, Push
<1> HIDE DEF f
<1>4. <<f>> \in Seq(Frame) /\ Len(<<f>>) = 1 /\ <<f>>[1] = f
  BY <1>1
<1>5. stack' \in Seq(Frame) /\ Len(stack') = 1 + Len(stack) /\ Len(stack) \in Nat
      /\ \A i \in 1..(1 + Len(stack)) : stack'[i] = IF i <= 1 THEN <<f>>[i] ELSE stack[i - 1]
  BY <1>3, <1>4, ConcatProperties
<1>6. DOMAIN stack' = 1..(1 + Len(stack)) /\ DOMAIN stack = 1..Len(stack)
  BY <1>3, <1>5, LenProperties
<1>7. ASSUME NEW i \in DOMAIN stack'
      PROVE  /\ stack'[i].k # "code" => stack'[i].s \in Slots
             /\ stack'[i].k = "change" => stack'[i].to \in Objects
  <2>1. CASE i = 1
    BY <1>2, <1>4, <1>5, <1>6, <2>1
  <2>2. CASE i # 1
    <3>1. i - 1 \in DOMAIN stack /\ stack'[i] = stack[i - 1]
      BY <1>5, <1>6, <1>7, <2>2
    <3> QED
      BY <3>1 DEF FramesInv
  <2> QED
    BY <2>1, <2>2
<1> QED
  BY <1>5, <1>7 DEF StackType, FramesInv

\* The innermost frame, and the stack under it.
LEMMA Top ==
  ASSUME StackType, FramesInv, stack # <<>>
  PROVE  /\ Head(stack) \in Frame /\ Head(stack) = stack[1] /\ 1 \in DOMAIN stack
         /\ Tail(stack) \in Seq(Frame) /\ Len(stack) \in Nat /\ Len(stack) >= 1
         /\ DOMAIN Tail(stack) = 1..(Len(stack) - 1) /\ DOMAIN stack = 1..Len(stack)
         /\ \A i \in 1..(Len(stack) - 1) : i + 1 \in DOMAIN stack /\ Tail(stack)[i] = stack[i + 1]
         /\ Head(stack).k # "code" => Head(stack).s \in Slots
         /\ Head(stack).k = "change" => Head(stack).to \in Objects
         /\ Self \in Slots \cup {NoSlot}
<1>1. stack \in Seq(Frame)
  BY DEF StackType
<1>2. Len(stack) \in Nat /\ DOMAIN stack = 1..Len(stack)
  BY <1>1, LenProperties
<1>3. Len(stack) >= 1
  BY <1>1, <1>2, EmptySeq
<1>4. Head(stack) = stack[1] /\ Tail(stack) \in Seq(Frame) /\ Len(Tail(stack)) = Len(stack) - 1
  BY <1>1, HeadTailProperties
<1>5. \A i \in 1..(Len(stack) - 1) : i + 1 \in DOMAIN stack /\ Tail(stack)[i] = stack[i + 1]
  BY <1>1, <1>2, HeadTailProperties
<1>6. DOMAIN Tail(stack) = 1..(Len(stack) - 1)
  BY <1>4, LenProperties
<1>7. 1 \in DOMAIN stack
  BY <1>2, <1>3
<1>8. Head(stack) \in Frame
  BY <1>1, <1>2, <1>4, <1>7, ElementOfSeq
<1>9. Self \in Slots \cup {NoSlot}
  BY <1>8 DEF Frame, Self
<1> QED
  BY <1>2, <1>3, <1>4, <1>5, <1>6, <1>7, <1>8, <1>9 DEF FramesInv

LEMMA PopType ==
  ASSUME StackType, FramesInv, stack # <<>>, stack' = Tail(stack)
  PROVE  StackType' /\ FramesInv'
<1>1. StackType'
  BY Top DEF StackType
<1>2. FramesInv'
  <2> SUFFICES ASSUME NEW i \in DOMAIN stack'
               PROVE  /\ stack'[i].k # "code" => stack'[i].s \in Slots
                      /\ stack'[i].k = "change" => stack'[i].to \in Objects
    BY DEF FramesInv
  <2>1. i + 1 \in DOMAIN stack /\ stack'[i] = stack[i + 1]
    BY Top
  <2> QED
    BY <2>1 DEF FramesInv
<1> QED
  BY <1>1, <1>2

\* The innermost handler goes on as another one of the same instance.
LEMMA SwapType ==
  ASSUME StackType, FramesInv, stack # <<>>, NEW k \in Kinds \ {"code", "change"}, Head(stack).s \in Slots,
         stack' = <<[Head(stack) EXCEPT !.k = k]>> \o Tail(stack)
  PROVE  /\ StackType' /\ FramesInv' /\ Len(stack') = Len(stack) /\ DOMAIN stack' = DOMAIN stack
         /\ stack'[1].k = k /\ stack'[1].s = Head(stack).s /\ stack'[1].to = Head(stack).to
         /\ \A i \in DOMAIN stack : i # 1 => stack'[i] = stack[i]
<1> DEFINE f == [Head(stack) EXCEPT !.k = k]
           t == Tail(stack)
           g == <<f>>
           u == g \o t
<1>1. f \in Frame /\ f.k = k /\ f.s = Head(stack).s /\ f.to = Head(stack).to
  <2>1. Head(stack) \in Frame
    BY Top
  <2> QED
    BY <2>1 DEF Frame, Kinds
<1>2. t \in Seq(Frame) /\ stack' = u /\ Len(stack) \in Nat /\ Len(t) = Len(stack) - 1
  BY Top, HeadTailProperties DEF StackType
<1>3. \A i \in 1..(Len(stack) - 1) : i + 1 \in DOMAIN stack /\ t[i] = stack[i + 1]
  BY Top
<1>4. DOMAIN stack = 1..Len(stack) /\ Len(stack) >= 1
  BY Top
<1> HIDE DEF f, t
<1>5. g \in Seq(Frame) /\ Len(g) = 1 /\ g[1] = f
  BY <1>1
<1> HIDE DEF g
<1>6. stack' \in Seq(Frame) /\ Len(stack') = Len(stack)
      /\ \A i \in 1..Len(stack) : stack'[i] = IF i <= 1 THEN g[i] ELSE t[i - 1]
  <2>1. u \in Seq(Frame) /\ Len(u) = 1 + Len(t)
        /\ \A i \in 1..(1 + Len(t)) : u[i] = IF i <= 1 THEN g[i] ELSE t[i - 1]
    BY <1>2, <1>5, ConcatProperties
  <2>2. 1 + Len(t) = Len(stack)
    BY <1>2
  <2> HIDE DEF u
  <2>3. stack' \in Seq(Frame) /\ Len(stack') = Len(stack)
    BY <1>2, <2>1, <2>2
  <2>4. ASSUME NEW i \in 1..Len(stack) PROVE stack'[i] = IF i <= 1 THEN g[i] ELSE t[i - 1]
    <3>1. i \in 1..(1 + Len(t))
      BY <2>2
    <3>2. u[i] = IF i <= 1 THEN g[i] ELSE t[i - 1]
      BY <2>1, <3>1
    <3> QED
      BY <1>2, <3>2
  <2> QED
    BY <2>3, <2>4
<1>7. DOMAIN stack' = DOMAIN stack
  BY <1>4, <1>6, LenProperties
<1>8. stack'[1] = f
  BY <1>4, <1>5, <1>6
<1>9. \A i \in DOMAIN stack : i # 1 => stack'[i] = stack[i]
  <2> SUFFICES ASSUME NEW i \in DOMAIN stack, i # 1 PROVE stack'[i] = stack[i]
    OBVIOUS
  <2>1. i \in 1..Len(stack) /\ ~(i <= 1) /\ i - 1 \in 1..(Len(stack) - 1) /\ (i - 1) + 1 = i
    BY <1>2, <1>4
  <2> QED
    BY <1>3, <1>6, <2>1
<1>10. FramesInv'
  <2> SUFFICES ASSUME NEW i \in DOMAIN stack'
               PROVE  /\ stack'[i].k # "code" => stack'[i].s \in Slots
                      /\ stack'[i].k = "change" => stack'[i].to \in Objects
    BY DEF FramesInv
  <2>1. CASE i = 1
    BY <1>1, <1>8, <2>1
  <2>2. CASE i # 1
    BY <1>7, <1>9, <2>2 DEF FramesInv
  <2> QED
    BY <2>1, <2>2
<1> QED
  BY <1>1, <1>6, <1>7, <1>8, <1>9, <1>10 DEF StackType

LEMMA SameStack == ASSUME StackType, FramesInv, UNCHANGED stack PROVE StackType' /\ FramesInv'
BY DEF StackType, FramesInv

LEMMA EmptyStack == ASSUME stack' = <<>> PROVE StackType' /\ FramesInv'
BY DEF StackType, FramesInv

LEMMA CollectedType ==
  ASSUME BookType, NEW o \in Objects
  PROVE  Collected(o) \in Seq(Slots)
<1>1. list[o] \in Seq(Slots)
  BY DEF BookType
<1>2. Reverse(list[o]) \in Seq(Slots)
  BY <1>1, Reversed
<1> QED
  BY <1>2, Sifted DEF Collected

Phases == {"idle", "reap", "draw"} \cup StepPhases \cup RoomPhases

LEMMA PhaseType ==
  ASSUME BookType, FlowType, NEW ph \in Phases, NEW n \in 0..Cap, EnterPhase(ph, n)
  PROVE  /\ pc' \in Phases /\ at' \in Nat /\ limit' \in 0..Cap /\ todo' \in Seq(Slots)
         /\ groups' \in Seq(Objects) /\ mark' \in Nat /\ ran' \in BOOLEAN /\ born' \subseteq Slots
<1>1. Ascending(Objects) \in Seq(Objects) /\ Head(Ascending(Objects)) \in Objects
  BY GroupList
<1>2. Collected(Head(Ascending(Objects))) \in Seq(Slots)
  BY <1>1, CollectedType
<1>3. <<>> \in Seq(Slots) /\ <<>> \in Seq(Objects)
  OBVIOUS
<1>4. nextId \in Nat
  BY DEF BookType
<1> QED
  BY <1>1, <1>2, <1>3, <1>4 DEF EnterPhase

LEMMA SnapshotType ==
  ASSUME PoolType, BookType, TakeSnapshot
  PROVE  holes' \in Seq(Slots) /\ base' \in 0..Cap /\ firstId' \in Nat /\ seen' \in [Slots -> Nat]
<1>1. {s \in 0..(count - 1) : IsFree(s)} \subseteq Slots
  BY UpTo
<1>2. HolesNow \in Seq(Slots)
  BY <1>1, SlotSets DEF HolesNow
<1>3. \A s \in Slots : pool[s].id \in Nat
  BY DEF PoolType, Inst
<1> QED
  BY <1>2, <1>3 DEF TakeSnapshot, BookType

LEMMA TrimmedType ==
  ASSUME BookType
  PROVE  /\ Trimmed \in 0..Cap
         /\ Trimmed <= count
         /\ \A s \in Slots : s < count /\ ~IsFree(s) => s < Trimmed
<1> DEFINE S == Held \cup Doomed
<1>1. S \subseteq 0..(count - 1) /\ count \in 0..Cap
  BY DEF Held, Doomed, BookType
<1>2. \A s \in Slots : s < count /\ ~IsFree(s) => s \in S
  <2> SUFFICES ASSUME NEW s \in Slots, s < count, ~IsFree(s), s \notin Doomed PROVE s \in Held
    OBVIOUS
  <2>1. s \in 0..(count - 1)
    BY <1>1 DEF Slots
  <2> QED
    BY <2>1 DEF Held
<1>3. CASE S = {}
  <2>1. Trimmed = 0
    BY <1>3 DEF Trimmed
  <2> QED
    BY <1>1, <1>2, <1>3, <2>1, Numbers
<1>4. CASE S # {}
  <2>1. S \in SUBSET Nat /\ IsFiniteSet(S)
    BY <1>1, UpTo, SlotSets
  <2> HIDE DEF S
  <2>2. \E s \in S : \A t \in S : t <= s
    BY <1>4, <2>1, Greatest
  <2> DEFINE m == CHOOSE s \in S : \A t \in S : t <= s
  <2>3. m \in S /\ \A t \in S : t <= m
    BY <2>2
  <2>4. Trimmed = 1 + m
    BY <1>4 DEF Trimmed, S
  <2> HIDE DEF m
  <2>5. m \in 0..(count - 1)
    BY <1>1, <2>3
  <2> QED
    BY <1>1, <1>2, <2>3, <2>4, <2>5, Numbers
<1> QED
  BY <1>3, <1>4


-----------------------------------------------------------------------------
(* Every step keeps the types: event code.                                 *)

LEMMA SamePool == ASSUME PoolType, BookType, UNCHANGED poolVars PROVE PoolType' /\ BookType'
BY DEF PoolType, BookType, poolVars

LEMMA SameFlow == ASSUME FlowType, UNCHANGED <<flow, pc>> PROVE FlowType'
BY DEF FlowType, flow

LEMMA SameLoop == ASSUME LoopType, UNCHANGED <<loop, firstId>> PROVE LoopType'
BY DEF LoopType, loop

LEMMA NoChain == 0 \in 0..ChainLimit
BY FrameAssumption

LEMMA SameMove == ASSUME MoveType, UNCHANGED move PROVE MoveType'
BY DEF MoveType, move

\* While event code acts the frame stands still.
LEMMA FrameWaits ==
  ASSUME TypeInv, UNCHANGED <<flow, pc, loop, firstId, move>>
  PROVE  FlowType' /\ LoopType' /\ MoveType' /\ TargetInv'
<1>1. FlowType' /\ LoopType' /\ MoveType'
  BY SameFlow, SameLoop, SameMove DEF TypeInv
<1>2. TargetInv'
  BY DEF TypeInv, TargetInv, move
<1> QED
  BY <1>1, <1>2

LEMMA SpendType ==
  ASSUME TypeInv, Acts, Spend
  PROVE  ops' \in 0..MaxOps
BY FrameAssumption DEF TypeInv, PastType, Acts, Spend

LEMMA OpCreateType == ASSUME TypeInv, NEW o \in Objects, OpCreate(o) PROVE TypeInv'
<1>1. Alloc \in Slots /\ nextId \in Nat /\ room \in Rooms
  BY AllocType DEF TypeInv, BookType, FlowType
<1>2. PoolType' /\ BookType'
  BY <1>1, CreateType DEF OpCreate, TypeInv
<1>3. FlowType' /\ LoopType' /\ MoveType' /\ TargetInv'
  BY FrameWaits DEF OpCreate
<1>4. StackType' /\ FramesInv'
  BY <1>1, PushType DEF OpCreate, TypeInv, Kinds
<1>5. PastType'
  BY <1>1, SpendType DEF OpCreate, TypeInv, PastType
<1> QED
  BY <1>2, <1>3, <1>4, <1>5 DEF TypeInv

LEMMA OpDestroyType == ASSUME TypeInv, NEW t \in Slots, OpDestroy(t) PROVE TypeInv'
<1>2. PoolType' /\ BookType'
  BY MarkType DEF OpDestroy, TypeInv
<1>3. FlowType' /\ LoopType' /\ MoveType' /\ TargetInv'
  BY FrameWaits DEF OpDestroy
<1>4. StackType' /\ FramesInv'
  BY PushType DEF OpDestroy, TypeInv, Kinds
<1>5. PastType'
  BY SpendType DEF OpDestroy, TypeInv, PastType, past
<1> QED
  BY <1>2, <1>3, <1>4, <1>5 DEF TypeInv

LEMMA SelfSlot == ASSUME TypeInv, stack # <<>>, Self # NoSlot PROVE Self \in Slots
BY Top DEF TypeInv

LEMMA OpChangeType ==
  ASSUME TypeInv, NEW o \in Objects, NEW perform \in BOOLEAN, OpChange(o, perform)
  PROVE  TypeInv'
<1>1. Self \in Slots
  BY SelfSlot DEF OpChange, Acts
<1>2. FlowType' /\ LoopType' /\ MoveType' /\ TargetInv'
  BY FrameWaits DEF OpChange
<1>3. PastType'
  BY SpendType DEF OpChange, TypeInv, PastType, past
<1>4. CASE perform
  <2>1. ChangeBegin(Self, o) /\ Push("change", Self, o)
    BY <1>4 DEF OpChange
  <2>2. PoolType' /\ BookType'
    BY <1>1, <2>1, ChangeBeginType DEF TypeInv
  <2>3. StackType' /\ FramesInv'
    BY <1>1, <2>1, PushType DEF TypeInv, Kinds
  <2> QED
    BY <1>2, <1>3, <2>2, <2>3 DEF TypeInv
<1>5. CASE ~perform
  <2>1. ChangeQuietly(Self, o) /\ UNCHANGED stack
    BY <1>5 DEF OpChange
  <2>2. PoolType' /\ BookType'
    BY <1>1, <2>1, ChangeQuietlyType DEF TypeInv
  <2>3. StackType' /\ FramesInv'
    BY <2>1, SameStack DEF TypeInv
  <2> QED
    BY <1>2, <1>3, <2>2, <2>3 DEF TypeInv
<1> QED
  BY <1>4, <1>5

LEMMA OpActiveType ==
  ASSUME TypeInv, NEW t \in Slots, OpDeactivate(t) \/ OpActivate(t)
  PROVE  TypeInv'
<1>1. /\ SetActive(t, "off") \/ SetActive(t, "live")
      /\ Acts /\ Spend /\ UNCHANGED <<flow, pc, loop, firstId, stack, move, past>>
  BY DEF OpDeactivate, OpActivate
<1>2. PoolType' /\ BookType'
  BY <1>1, SetActiveType DEF TypeInv, States
<1>3. FlowType' /\ LoopType' /\ MoveType' /\ TargetInv'
  BY <1>1, FrameWaits
<1>4. StackType' /\ FramesInv'
  BY <1>1, SameStack DEF TypeInv
<1>5. PastType'
  BY <1>1, SpendType DEF TypeInv, PastType, past
<1> QED
  BY <1>2, <1>3, <1>4, <1>5 DEF TypeInv

LEMMA OpAlarmType == ASSUME TypeInv, OpAlarm PROVE TypeInv'
<1>1. Self \in Slots
  BY SelfSlot DEF OpAlarm, Acts
<1>2. PoolType' /\ BookType'
  BY <1>1, SetAlarmType DEF OpAlarm, TypeInv
<1>3. FlowType' /\ LoopType' /\ MoveType' /\ TargetInv'
  BY FrameWaits DEF OpAlarm
<1>4. StackType' /\ FramesInv'
  BY SameStack DEF OpAlarm, TypeInv
<1>5. PastType'
  BY SpendType DEF OpAlarm, TypeInv, PastType, past
<1> QED
  BY <1>2, <1>3, <1>4, <1>5 DEF TypeInv

LEMMA OpRoomType == ASSUME TypeInv, NEW r \in Rooms, OpRoom(r) PROVE TypeInv'
<1>1. PoolType' /\ BookType'
  BY SamePool DEF OpRoom, TypeInv
<1>2. FlowType'
  BY DEF OpRoom, TypeInv, FlowType
<1>3. LoopType' /\ MoveType'
  BY SameLoop, SameMove DEF OpRoom, TypeInv
<1>4. TargetInv'
  BY DEF OpRoom, TypeInv, TargetInv, move
<1>5. StackType' /\ FramesInv'
  BY SameStack DEF OpRoom, TypeInv
<1>6. PastType'
  <2>1. ops' \in 0..MaxOps
    BY FrameAssumption DEF OpRoom, Spend, TypeInv, PastType
  <2> QED
    BY <2>1 DEF OpRoom, TypeInv, PastType, past
<1> QED
  BY <1>1, <1>2, <1>3, <1>4, <1>5, <1>6 DEF TypeInv

\* How a handler returns.
LEMMA Returns ==
  ASSUME TypeInv, Return
  PROVE  LET f == Head(stack)
         IN /\ stack # <<>> /\ f \in Frame
            /\ f.k = "destroy" => /\ CleanUp(f.s) /\ f.s \in Slots
                                  /\ stack' = <<[f EXCEPT !.k = "cleanup"]>> \o Tail(stack)
            /\ f.k = "clear" => Dispose(f.s) /\ f.s \in Slots /\ stack' = Tail(stack)
            /\ f.k = "change" =>
                 /\ ChangeEnd(f.s, f.to) /\ f.s \in Slots /\ f.to \in Objects
                 /\ Running(f.s) => stack' = <<[f EXCEPT !.k = "create"]>> \o Tail(stack)
                 /\ ~Running(f.s) => stack' = Tail(stack)
            /\ f.k \notin {"destroy", "clear", "change"} => UNCHANGED poolVars /\ stack' = Tail(stack)
            /\ UNCHANGED <<flow, pc, loop, firstId, move, ops, past>>
<1>1. stack # <<>> /\ UNCHANGED <<flow, pc, loop, firstId, move, ops, past>>
  BY DEF Return
<1>2. /\ Head(stack) \in Frame
      /\ Head(stack).k # "code" => Head(stack).s \in Slots
      /\ Head(stack).k = "change" => Head(stack).to \in Objects
  BY <1>1, Top DEF TypeInv
<1> QED
  BY <1>1, <1>2 DEF Return

LEMMA ReturnType == ASSUME TypeInv, Return PROVE TypeInv'
<1> DEFINE f == Head(stack)
<1>1. stack # <<>> /\ StackType /\ FramesInv /\ PoolType /\ BookType
  BY Returns DEF TypeInv
<1>2. FlowType' /\ LoopType' /\ MoveType' /\ TargetInv'
  BY Returns, FrameWaits
<1>3. PastType'
  BY Returns DEF TypeInv, PastType, past
<1>4. CASE f.k = "destroy"
  <2>1. PoolType' /\ BookType'
    BY <1>1, <1>4, Returns, CleanUpType
  <2>2. "cleanup" \in Kinds \ {"code", "change"} /\ f.s \in Slots
        /\ stack' = <<[f EXCEPT !.k = "cleanup"]>> \o Tail(stack)
    BY <1>4, Returns DEF Kinds
  <2>3. StackType' /\ FramesInv'
    BY <1>1, <2>2, SwapType
  <2> QED
    BY <1>2, <1>3, <2>1, <2>3 DEF TypeInv
<1>5. CASE f.k = "clear"
  <2>1. PoolType' /\ BookType'
    BY <1>1, <1>5, Returns, DisposeType
  <2>2. StackType' /\ FramesInv'
    BY <1>1, <1>5, Returns, PopType
  <2> QED
    BY <1>2, <1>3, <2>1, <2>2 DEF TypeInv
<1>6. CASE f.k = "change"
  <2>1. PoolType' /\ BookType'
    BY <1>1, <1>6, Returns, ChangeEndType
  <2>2. CASE Running(f.s)
    <3>1. "create" \in Kinds \ {"code", "change"} /\ f.s \in Slots
          /\ stack' = <<[f EXCEPT !.k = "create"]>> \o Tail(stack)
      BY <1>6, <2>2, Returns DEF Kinds
    <3>2. StackType' /\ FramesInv'
      BY <1>1, <3>1, SwapType
    <3> QED
      BY <1>2, <1>3, <2>1, <3>2 DEF TypeInv
  <2>3. CASE ~Running(f.s)
    <3>1. StackType' /\ FramesInv'
      BY <1>1, <1>6, <2>3, Returns, PopType
    <3> QED
      BY <1>2, <1>3, <2>1, <3>1 DEF TypeInv
  <2> QED
    BY <2>2, <2>3
<1>7. CASE f.k \notin {"destroy", "clear", "change"}
  <2>1. PoolType' /\ BookType'
    BY <1>1, <1>7, Returns, SamePool
  <2>2. StackType' /\ FramesInv'
    BY <1>1, <1>7, Returns, PopType
  <2> QED
    BY <1>2, <1>3, <2>1, <2>2 DEF TypeInv
<1> QED
  BY <1>4, <1>5, <1>6, <1>7

-----------------------------------------------------------------------------
(* Every step keeps the types: the frame.                                  *)

\* Who a loop has reached.
Recipient == IF Collects THEN todo[Least(Due)] ELSE Least(Due)

LEMMA DueType ==
  ASSUME BookType, LoopType, Due # {}
  PROVE  /\ Least(Due) \in Due /\ Least(Due) \in Nat /\ Recipient \in Slots /\ Receives(Recipient)
         /\ Collects => /\ Least(Due) \in DOMAIN todo /\ Recipient = todo[Least(Due)] /\ Recipient < count
                        /\ Grouped(pc) => pool[Recipient].obj = Head(groups)
         /\ ~Collects => /\ Recipient = Least(Due) /\ at <= Recipient
                         /\ Recipient < (IF pc = "leave" THEN count ELSE limit)
<1>1. /\ at \in Nat /\ limit \in 0..Cap /\ count \in 0..Cap
      /\ todo \in Seq(Slots) /\ DOMAIN todo = 1..Len(todo) /\ Len(todo) \in Nat
  BY LenProperties DEF BookType, LoopType
<1>2. CASE Collects
  <2>1. Due = {i \in DOMAIN todo : /\ todo[i] < count /\ Receives(todo[i])
                                   /\ Grouped(pc) => pool[todo[i]].obj = Head(groups)}
    BY <1>2 DEF Due
  <2>2. Due \subseteq Nat
    BY <1>1, <2>1
  <2>3. Least(Due) \in Due
    BY <2>2, LeastOf
  <2>4. Recipient = todo[Least(Due)]
    BY <1>2 DEF Recipient
  <2>5. Recipient \in Slots
    BY <1>1, <2>1, <2>3, <2>4, ElementOfSeq
  <2> QED
    BY <1>2, <2>1, <2>2, <2>3, <2>4, <2>5
<1>3. CASE ~Collects
  <2> DEFINE n == IF pc = "leave" THEN count ELSE limit
  <2>1. Due = {s \in at..(n - 1) : Receives(s)}
    BY <1>3 DEF Due
  <2>2. n \in 0..Cap
    BY <1>1
  <2> HIDE DEF n
  <2>3. Due \subseteq Nat /\ \A s \in Due : s \in Slots /\ at <= s /\ s < n /\ Receives(s)
    BY <1>1, <2>1, <2>2, Numbers DEF Slots
  <2>4. Least(Due) \in Due
    BY <2>3, LeastOf
  <2>5. Recipient = Least(Due)
    BY <1>3 DEF Recipient
  <2> QED
    BY <1>3, <2>3, <2>4, <2>5 DEF n
<1> QED
  BY <1>2, <1>3

\* One event of a loop.
LEMMA Dispatches ==
  ASSUME Dispatch
  PROVE  /\ Due # {} /\ Push("event", Recipient, 0)
         /\ pc \in StepPhases \cup {"leave", "birth", "start"} /\ stack = <<>> /\ ~Interrupted
         /\ Collects => todo' = SubSeq(todo, Least(Due) + 1, Len(todo)) /\ UNCHANGED at
         /\ ~Collects => at' = Recipient + 1 /\ UNCHANGED todo
         /\ pc = "alarm" => SetAlarm(Recipient, FALSE)
         /\ pc # "alarm" => UNCHANGED poolVars
         /\ ran' = TRUE
         /\ UNCHANGED <<flow, pc, limit, groups, mark, firstId, move, ops, past>>
BY DEF Dispatch, Recipient, Ready

LEMMA DispatchType == ASSUME TypeInv, Dispatch PROVE TypeInv'
<1>1. /\ PoolType /\ BookType /\ LoopType /\ FlowType /\ StackType /\ FramesInv
      /\ MoveType /\ PastType /\ TargetInv
  BY DEF TypeInv
<1>2. Recipient \in Slots /\ Least(Due) \in Nat
  BY <1>1, DueType, Dispatches
<1>3. PoolType' /\ BookType'
  <2>1. CASE pc = "alarm"
    BY <1>1, <1>2, <2>1, Dispatches, SetAlarmType
  <2>2. CASE pc # "alarm"
    BY <1>1, <2>2, Dispatches, SamePool
  <2> QED
    BY <2>1, <2>2
<1>4. FlowType' /\ MoveType'
  BY <1>1, Dispatches, SameFlow, SameMove
<1>5. StackType' /\ FramesInv'
  BY <1>1, <1>2, Dispatches, PushType DEF Kinds
<1>6. PastType' /\ TargetInv'
  BY <1>1, Dispatches DEF PastType, TargetInv, past, move
<1>7. at' \in Nat
  <2>1. Recipient \in Nat /\ at \in Nat
    BY <1>1, <1>2, Numbers DEF LoopType
  <2> QED
    BY <2>1, Dispatches
<1>8. todo' \in Seq(Slots)
  <2>1. todo \in Seq(Slots) /\ DOMAIN todo = 1..Len(todo) /\ Len(todo) \in Nat
    BY <1>1, LenProperties DEF LoopType
  <2>2. CASE Collects
    <3>1. Least(Due) \in 1..Len(todo)
      BY <1>1, <2>1, <2>2, DueType, Dispatches
    <3>2. Least(Due) + 1 \in 1..(Len(todo) + 1)
      BY <2>1, <3>1
    <3>3. \A i \in (Least(Due) + 1)..Len(todo) : todo[i] \in Slots
      BY <2>1, <3>1, ElementOfSeq
    <3>4. SubSeq(todo, Least(Due) + 1, Len(todo)) \in Seq(Slots)
      BY <2>1, <3>2, <3>3, SubSeqProperties
    <3> QED
      BY <2>2, <3>4, Dispatches
  <2>3. CASE ~Collects
    BY <2>1, <2>3, Dispatches
  <2> QED
    BY <2>2, <2>3
<1>9. LoopType'
  BY <1>1, <1>7, <1>8, Dispatches DEF LoopType
<1> QED
  BY <1>3, <1>4, <1>5, <1>6, <1>9 DEF TypeInv

\* A new phase of the frame, with the pool and the stack as they are.
LEMMA PhaseParts ==
  ASSUME TypeInv, NEW ph \in Phases \ {"leave", "clear"}, NEW n \in 0..Cap, EnterPhase(ph, n), UNCHANGED firstId
  PROVE  LoopType' /\ pc' \in Phases /\ born' \subseteq Slots /\ TargetInv'
<1>1. /\ pc' \in Phases /\ at' \in Nat /\ limit' \in 0..Cap /\ todo' \in Seq(Slots)
      /\ groups' \in Seq(Objects) /\ mark' \in Nat /\ ran' \in BOOLEAN /\ born' \subseteq Slots
  BY PhaseType DEF TypeInv
<1>2. firstId' \in Nat
  BY DEF TypeInv, LoopType
<1>3. TargetInv'
  BY DEF EnterPhase, TargetInv
<1> QED
  BY <1>1, <1>2, <1>3 DEF LoopType

LEMMA GroupAfter ==
  ASSUME groups \in Seq(Objects), Len(groups) > 1
  PROVE  Tail(groups) \in Seq(Objects) /\ Head(Tail(groups)) \in Objects
<1>1. Tail(groups) \in Seq(Objects) /\ Len(Tail(groups)) = Len(groups) - 1 /\ Len(groups) \in Nat
  BY HeadTailProperties, LenProperties
<1>2. \A n \in Nat : n > 1 => n - 1 # 0
  OBVIOUS
<1>3. Len(Tail(groups)) # 0
  BY <1>1, <1>2, Zenon
<1>4. Tail(groups) # <<>>
  BY <1>1, <1>3, EmptySeq
<1> QED
  BY <1>1, <1>4, HeadTailProperties

LEMMA NextGroupType == ASSUME TypeInv, NextGroup PROVE TypeInv'
<1>1. PoolType' /\ BookType'
  BY SamePool DEF NextGroup, TypeInv
<1>2. FlowType' /\ MoveType' /\ TargetInv'
  BY SameFlow, SameMove DEF NextGroup, TypeInv, TargetInv, move
<1>3. StackType' /\ FramesInv'
  BY SameStack DEF NextGroup, TypeInv
<1>4. groups \in Seq(Objects) /\ Len(groups) > 1
  BY DEF NextGroup, TypeInv, LoopType
<1>5. Tail(groups) \in Seq(Objects) /\ Head(Tail(groups)) \in Objects
  BY <1>4, GroupAfter
<1>7. Collected(Head(Tail(groups))) \in Seq(Slots)
  BY <1>5, CollectedType DEF TypeInv
<1>8. LoopType'
  BY <1>5, <1>7 DEF NextGroup, TypeInv, LoopType, BookType
<1>9. PastType'
  BY DEF NextGroup, TypeInv, PastType
<1> QED
  BY <1>1, <1>2, <1>3, <1>8, <1>9 DEF TypeInv

LEMMA Extents == ASSUME BookType PROVE count \in 0..Cap /\ base \in 0..Cap /\ 0 \in 0..Cap
BY Numbers DEF BookType

LEMMA StartFrameType == ASSUME TypeInv, StartFrame PROVE TypeInv'
<1>1. PoolType' /\ StackType' /\ FramesInv' /\ MoveType'
  BY DEF StartFrame, TypeInv, PoolType, StackType, FramesInv, MoveType, move
<1>2. holes' \in Seq(Slots) /\ base' \in 0..Cap /\ firstId' \in Nat /\ seen' \in [Slots -> Nat]
  BY SnapshotType DEF StartFrame, TypeInv
<1>3. BookType'
  BY <1>2 DEF StartFrame, TypeInv, BookType
<1>4. /\ pc' \in Phases /\ at' \in Nat /\ limit' \in 0..Cap /\ todo' \in Seq(Slots)
      /\ groups' \in Seq(Objects) /\ mark' \in Nat /\ ran' \in BOOLEAN /\ born' \subseteq Slots
  <2>1. "begin" \in Phases /\ count \in 0..Cap /\ EnterPhase("begin", count) /\ BookType /\ FlowType
    BY Extents DEF StartFrame, TypeInv, Phases, StepPhases
  <2> QED
    BY <2>1, PhaseType
<1>5. FlowType'
  BY <1>4 DEF StartFrame, TypeInv, FlowType, flow, Phases
<1>6. LoopType' /\ PastType'
  BY <1>2, <1>4 DEF StartFrame, TypeInv, LoopType, PastType
<1>7. TargetInv'
  BY DEF StartFrame, EnterPhase, TargetInv
<1> QED
  BY <1>1, <1>3, <1>5, <1>6, <1>7 DEF TypeInv

LEMMA PhaseEndsType == ASSUME TypeInv, PhaseEnds PROVE TypeInv'
<1>1. PoolType' /\ BookType'
  BY SamePool DEF PhaseEnds, TypeInv
<1>2. StackType' /\ FramesInv' /\ MoveType'
  BY SameStack, SameMove DEF PhaseEnds, TypeInv
<1>3. \E ph \in {"timeline", "alarm", "step", "end"} : EnterPhase(ph, base) \/ EnterPhase(ph, count)
  BY DEF PhaseEnds, StepPhases
<1>4. PICK ph \in {"timeline", "alarm", "step", "end"} : EnterPhase(ph, base) \/ EnterPhase(ph, count)
  BY <1>3
<1>5. ph \in Phases \ {"leave", "clear"} /\ base \in 0..Cap /\ count \in 0..Cap /\ UNCHANGED firstId
  BY <1>4, Extents DEF Phases, StepPhases, PhaseEnds, TypeInv
<1>6. LoopType' /\ pc' \in Phases /\ born' \subseteq Slots /\ TargetInv'
  <2>1. CASE EnterPhase(ph, base)
    BY <1>5, <2>1, PhaseParts
  <2>2. CASE EnterPhase(ph, count)
    BY <1>5, <2>2, PhaseParts
  <2> QED
    BY <1>4, <2>1, <2>2
<1>7. FlowType' /\ PastType'
  BY <1>6 DEF PhaseEnds, TypeInv, FlowType, PastType, flow, Phases
<1> QED
  BY <1>1, <1>2, <1>6, <1>7 DEF TypeInv

LEMMA NothingType == Nothing \in [Slots -> Nat]
BY DEF Nothing

LEMMA EndStepEndsType == ASSUME TypeInv, EndStepEnds PROVE TypeInv'
<1>1. PoolType' /\ BookType'
  BY ReapType DEF EndStepEnds, TypeInv
<1>2. StackType' /\ FramesInv' /\ MoveType'
  BY SameStack, SameMove DEF EndStepEnds, TypeInv
<1>3. "reap" \in Phases \ {"leave", "clear"} /\ 0 \in 0..Cap /\ UNCHANGED firstId
  BY Extents DEF Phases, EndStepEnds, TypeInv
<1>4. LoopType' /\ pc' \in Phases /\ born' \subseteq Slots /\ TargetInv'
  BY <1>3, PhaseParts DEF EndStepEnds
<1>5. FlowType' /\ PastType'
  BY <1>4, NothingType DEF EndStepEnds, TypeInv, FlowType, PastType, flow, Phases
<1> QED
  BY <1>1, <1>2, <1>4, <1>5 DEF TypeInv

LEMMA FinishStepType == ASSUME TypeInv, FinishStep PROVE TypeInv'
<1>1. PoolType' /\ StackType' /\ FramesInv'
  BY DEF FinishStep, TypeInv, PoolType, StackType, FramesInv
<1>2. BookType'
  <2>1. Trimmed \in 0..Cap /\ 0 \in 0..Cap
    BY TrimmedType, Extents DEF TypeInv
  <2>2. holes' \in Seq(Slots)
    BY DEF FinishStep
  <2>3. /\ count' = Trimmed /\ base' = 0 /\ stepping' = FALSE
        /\ UNCHANGED <<nextId, nextSeq, alive, list>>
    BY DEF FinishStep
  <2>4. nextId \in Nat \ {0} /\ nextSeq \in Nat /\ alive \in [Objects -> Int] /\ list \in [Objects -> Seq(Slots)]
    BY DEF TypeInv, BookType
  <2> QED
    BY <2>1, <2>2, <2>3, <2>4 DEF BookType
<1>3. FlowType' /\ MoveType' /\ TargetInv'
  BY NoChain DEF FinishStep, TypeInv, FlowType, MoveType, TargetInv, flow
<1>4. PastType'
  BY NothingType DEF FinishStep, TypeInv, PastType
<1>5. LoopType'
  <2>1. {s \in 0..(count - 1) : Running(s)} \subseteq Slots
    BY UpTo DEF TypeInv
  <2>2. todo' \in Seq(Slots)
    BY <2>1, SlotSets DEF FinishStep
  <2>3. at' = 0 /\ limit' = 0 /\ groups' = <<>> /\ mark' = 0 /\ ran' = FALSE /\ firstId' = 0
    BY DEF FinishStep
  <2>4. groups' \in Seq(Objects) /\ limit' \in 0..Cap
    BY <2>3, Numbers
  <2> QED
    BY <2>2, <2>3, <2>4 DEF LoopType
<1> QED
  BY <1>1, <1>2, <1>3, <1>4, <1>5 DEF TypeInv

LEMMA DrawType == ASSUME TypeInv, DrawOne \/ DrawEnds PROVE TypeInv'
<1>1. PoolType' /\ BookType' /\ MoveType'
  BY SamePool, SameMove DEF DrawOne, DrawEnds, TypeInv
<1>2. PastType'
  BY DEF DrawOne, DrawEnds, TypeInv, PastType, past
<1>3. CASE DrawOne
  <2>1. PICK i \in DOMAIN todo : Push("event", todo[i], 0) /\ todo' = RemoveAt(todo, i)
    BY <1>3 DEF DrawOne
  <2>2. todo \in Seq(Slots) /\ todo[i] \in Slots /\ i \in 1..Len(todo) /\ Len(todo) \in Nat
    <3>1. todo \in Seq(Slots)
      BY DEF TypeInv, LoopType
    <3> QED
      BY <2>1, <3>1, LenProperties, ElementOfSeq
  <2>3. StackType' /\ FramesInv'
    BY <2>1, <2>2, PushType DEF TypeInv, Kinds
  <2>4. todo' \in Seq(Slots)
    <3>1. SubSeq(todo, 1, i - 1) \in Seq(Slots)
      BY <2>2
    <3>2. SubSeq(todo, i + 1, Len(todo)) \in Seq(Slots)
      BY <2>2
    <3> QED
      BY <2>1, <3>1, <3>2 DEF RemoveAt
  <2>5. LoopType' /\ FlowType' /\ TargetInv'
    BY <1>3, <2>4 DEF DrawOne, TypeInv, LoopType, FlowType, TargetInv, flow, move
  <2> QED
    BY <1>1, <1>2, <2>3, <2>5 DEF TypeInv
<1>4. CASE DrawEnds
  <2>1. StackType' /\ FramesInv' /\ LoopType'
    BY <1>4, SameStack, SameLoop DEF DrawEnds, TypeInv
  <2>2. FlowType' /\ TargetInv'
    BY <1>4 DEF DrawEnds, TypeInv, FlowType, TargetInv, flow
  <2> QED
    BY <1>1, <1>2, <2>1, <2>2 DEF TypeInv
<1> QED
  BY <1>3, <1>4

-----------------------------------------------------------------------------
(* Every step keeps the types: a room change.                              *)

LEMMA StartMoveType ==
  ASSUME TypeInv, NEW resume \in {"timeline", "alarm", "finish"}, NEW n \in 0..ChainLimit, pending # NoRoom,
         StartMove(resume, n)
  PROVE  TypeInv'
<1>1. PoolType' /\ StackType' /\ FramesInv'
  BY DEF StartMove, TypeInv, PoolType, StackType, FramesInv
<1>2. base' \in 0..Cap /\ "leave" \in Phases /\ 0 \in 0..Cap
  BY Extents DEF StartMove, TypeInv, Phases, RoomPhases
<1>3. BookType'
  BY <1>2 DEF StartMove, TypeInv, BookType
<1>4. /\ pc' \in Phases /\ at' \in Nat /\ limit' \in 0..Cap /\ todo' \in Seq(Slots)
      /\ groups' \in Seq(Objects) /\ mark' \in Nat /\ ran' \in BOOLEAN /\ born' \subseteq Slots
  BY <1>2, PhaseType DEF StartMove, TypeInv
<1>5. FlowType'
  BY <1>4 DEF StartMove, TypeInv, FlowType, Phases
<1>6. LoopType' /\ PastType'
  BY <1>4, NothingType DEF StartMove, TypeInv, LoopType, PastType
<1>7. MoveType' /\ TargetInv'
  BY DEF StartMove, TypeInv, FlowType, MoveType, TargetInv
<1> QED
  BY <1>1, <1>3, <1>5, <1>6, <1>7 DEF TypeInv

LEMMA CommitRequestType == ASSUME TypeInv, CommitRequest PROVE TypeInv'
<1>1. pending # NoRoom /\ Resumption # "later" /\ StartMove(Resumption, 1)
  BY DEF CommitRequest, Commits
<1>2. Resumption \in {"timeline", "alarm", "finish"}
  BY <1>1 DEF Resumption
<1>3. 1 \in 0..ChainLimit
  BY FrameAssumption
<1> QED
  BY <1>1, <1>2, <1>3, StartMoveType

LEMMA MoveAgainType == ASSUME TypeInv, MoveAgain PROVE TypeInv'
<1>1. pending # NoRoom /\ chain < ChainLimit /\ StartMove(after, chain + 1)
  BY DEF MoveAgain
<1>2. after \in {"timeline", "alarm", "finish"} /\ chain + 1 \in 0..ChainLimit
  BY <1>1, FrameAssumption DEF TypeInv, MoveType
<1> QED
  BY <1>1, <1>2, StartMoveType

LEMMA CannotStoreType == ASSUME TypeInv, CannotStore PROVE TypeInv'
<1>1. PoolType' /\ BookType'
  BY SamePool DEF CannotStore, TypeInv
<1>2. StackType' /\ FramesInv' /\ MoveType'
  BY SameStack, SameMove DEF CannotStore, TypeInv
<1>3. "settle" \in Phases \ {"leave", "clear"} /\ 0 \in 0..Cap /\ UNCHANGED firstId
  BY Extents DEF CannotStore, Phases, RoomPhases, TypeInv
<1>4. LoopType' /\ pc' \in Phases /\ born' \subseteq Slots /\ TargetInv'
  BY <1>3, PhaseParts DEF CannotStore
<1>5. FlowType' /\ PastType'
  BY <1>4 DEF CannotStore, TypeInv, FlowType, PastType, Phases
<1> QED
  BY <1>1, <1>2, <1>4, <1>5 DEF TypeInv

LEMMA LeaveRoomType == ASSUME TypeInv, LeaveRoom PROVE TypeInv'
<1>1. PoolType' /\ BookType'
  <2>1. PoolType /\ BookType
    BY DEF TypeInv
  <2>2. PutToSleep(room) \/ UNCHANGED poolVars
    BY DEF LeaveRoom
  <2> QED
    BY <2>1, <2>2, SleepType, SamePool
<1>2. StackType' /\ FramesInv' /\ MoveType'
  BY SameStack, SameMove DEF LeaveRoom, TypeInv
<1>3. "clear" \in Phases /\ 0 \in 0..Cap /\ EnterPhase("clear", 0) /\ UNCHANGED <<firstId, target>>
  BY Extents DEF LeaveRoom, Phases, RoomPhases, TypeInv, move
<1>4. /\ pc' \in Phases /\ at' \in Nat /\ limit' \in 0..Cap /\ todo' \in Seq(Slots)
      /\ groups' \in Seq(Objects) /\ mark' \in Nat /\ ran' \in BOOLEAN /\ born' \subseteq Slots
  BY <1>3, PhaseType DEF TypeInv
<1>5. LoopType' /\ PastType'
  BY <1>3, <1>4 DEF LeaveRoom, TypeInv, LoopType, PastType
<1>6. stored' \subseteq Rooms
  BY DEF LeaveRoom, TypeInv, FlowType
<1>7. FlowType'
  BY <1>4, <1>6 DEF LeaveRoom, TypeInv, FlowType, Phases
<1>8. TargetInv'
  BY <1>3 DEF LeaveRoom, TypeInv, TargetInv
<1> QED
  BY <1>1, <1>2, <1>5, <1>7, <1>8 DEF TypeInv

\* The next to go when a room is cleared.
LEMMA LeavingType ==
  ASSUME TypeInv, Leaving # {}
  PROVE  /\ Least(Leaving) \in Leaving /\ Least(Leaving) \in Slots /\ Least(Leaving) \in Nat
         /\ at <= Least(Leaving) /\ Least(Leaving) < count
         /\ \A s \in Leaving : Least(Leaving) <= s
<1>1. at \in Nat /\ count \in 0..Cap
  BY DEF TypeInv, LoopType, BookType
<1>2. Leaving \subseteq Nat /\ \A s \in Leaving : s \in Slots /\ at <= s /\ s < count
  BY <1>1, Numbers DEF Leaving, Slots
<1>3. Least(Leaving) \in Leaving /\ \A s \in Leaving : Least(Leaving) <= s
  BY <1>2, LeastOf
<1> QED
  BY <1>2, <1>3

LEMMA ClearOneType == ASSUME TypeInv, ClearOne PROVE TypeInv'
<1>1. Least(Leaving) \in Slots /\ Least(Leaving) \in Nat
  BY LeavingType DEF ClearOne
<1>2. PoolType' /\ BookType'
  BY <1>1, CleanUpType DEF ClearOne, TypeInv
<1>3. StackType' /\ FramesInv'
  BY <1>1, PushType DEF ClearOne, TypeInv, Kinds
<1>4. FlowType' /\ MoveType'
  BY SameFlow, SameMove DEF ClearOne, TypeInv
<1>5. PastType' /\ TargetInv'
  BY DEF ClearOne, TypeInv, PastType, TargetInv, past, move
<1>6. at' \in Nat
  BY <1>1 DEF ClearOne
<1>7. LoopType'
  BY <1>6 DEF ClearOne, TypeInv, LoopType
<1> QED
  BY <1>2, <1>3, <1>4, <1>5, <1>7 DEF TypeInv

LEMMA EnterRoomType == ASSUME TypeInv, EnterRoom PROVE TypeInv'
<1>1. target \in Rooms
  BY DEF EnterRoom, TypeInv, TargetInv
<1>2. PoolType' /\ BookType'
  BY <1>1, AdoptType DEF EnterRoom, TypeInv
<1>3. StackType' /\ FramesInv' /\ MoveType'
  BY SameStack, SameMove DEF EnterRoom, TypeInv
<1>4. "place" \in Phases \ {"leave", "clear"} /\ 0 \in 0..Cap /\ UNCHANGED firstId
  BY Extents DEF EnterRoom, Phases, RoomPhases, TypeInv
<1>5. LoopType' /\ pc' \in Phases /\ born' \subseteq Slots /\ TargetInv'
  BY <1>4, PhaseParts DEF EnterRoom
<1>6. FlowType' /\ PastType'
  BY <1>1, <1>5 DEF EnterRoom, TypeInv, FlowType, PastType, Phases
<1> QED
  BY <1>2, <1>3, <1>5, <1>6 DEF TypeInv

LEMMA RestoreRoomType == ASSUME TypeInv, RestoreRoom PROVE TypeInv'
<1>1. PoolType' /\ BookType'
  BY WakeType DEF RestoreRoom, TypeInv
<1>2. StackType' /\ FramesInv' /\ MoveType'
  BY SameStack, SameMove DEF RestoreRoom, TypeInv
<1>3. "start" \in Phases \ {"leave", "clear"} /\ count \in 0..Cap /\ UNCHANGED firstId
  BY Extents DEF RestoreRoom, Phases, RoomPhases, TypeInv
<1>4. LoopType' /\ pc' \in Phases /\ born' \subseteq Slots /\ TargetInv'
  BY <1>3, PhaseParts DEF RestoreRoom
<1>5. FlowType' /\ PastType'
  BY <1>4 DEF RestoreRoom, TypeInv, FlowType, PastType, Phases
<1> QED
  BY <1>1, <1>2, <1>4, <1>5 DEF TypeInv

\* What a room places.
LEMMA PlacedType ==
  ASSUME NEW r \in Rooms
  PROVE  /\ Placed[r] \in Seq([obj : Objects, id : Nat \ {0}])
         /\ Len(Placed[r]) \in 0..Cap /\ DOMAIN Placed[r] = 1..Len(Placed[r])
         /\ \A i \in DOMAIN Placed[r] : /\ Placed[r][i].obj \in Objects /\ Placed[r][i].id \in Nat \ {0}
                                        /\ Placed[r][i].id \in PlacedIds
<1>1. Placed[r] \in Seq([obj : Objects, id : Nat \ {0}]) /\ Len(Placed[r]) <= Cap
  BY FrameAssumption
<1>2. Len(Placed[r]) \in Nat /\ DOMAIN Placed[r] = 1..Len(Placed[r])
  BY <1>1, LenProperties
<1>3. Len(Placed[r]) \in 0..Cap
  BY <1>1, <1>2, Numbers
<1>4. \A i \in DOMAIN Placed[r] : Placed[r][i] \in [obj : Objects, id : Nat \ {0}]
  BY <1>1, <1>2, ElementOfSeq
<1>5. \A i \in DOMAIN Placed[r] : Placed[r][i].id \in PlacedIds
  BY DEF PlacedIds
<1> QED
  BY <1>1, <1>2, <1>3, <1>4, <1>5

\* One placement.
LEMMA Places ==
  ASSUME TypeInv, PlaceOne
  PROVE  LET p == Placed[room][at + 1]
         IN /\ at + 1 \in DOMAIN Placed[room] /\ p.obj \in Objects /\ p.id \in Nat \ {0} /\ p.id \in PlacedIds
            /\ room \in Rooms /\ Alloc \in Slots /\ Create(Alloc, p.obj, p.id, TRUE, room)
            /\ pc = "place" /\ room \notin stored /\ (Full => "overflow" \in Habits)
            /\ todo' = Append(todo, Alloc) /\ at' = at + 1
            /\ UNCHANGED <<flow, pc, limit, groups, mark, ran, firstId, stack, move, ops, past>>
<1>1. room \in Rooms /\ at \in Nat /\ Alloc \in Slots
  BY AllocType DEF TypeInv, FlowType, LoopType
<1>2. at + 1 \in DOMAIN Placed[room]
  BY <1>1, PlacedType DEF PlaceOne
<1> QED
  BY <1>1, <1>2, PlacedType DEF PlaceOne, May

LEMMA PlaceOneType == ASSUME TypeInv, PlaceOne PROVE TypeInv'
<1>1. PoolType' /\ BookType'
  BY Places, CreateType DEF TypeInv
<1>2. FlowType' /\ MoveType'
  BY Places, SameFlow, SameMove DEF TypeInv
<1>3. StackType' /\ FramesInv'
  BY Places, SameStack DEF TypeInv
<1>4. PastType' /\ TargetInv'
  BY Places DEF TypeInv, PastType, TargetInv, past, move
<1>5. todo' \in Seq(Slots) /\ at' \in Nat
  <2>1. todo \in Seq(Slots) /\ at \in Nat
    BY DEF TypeInv, LoopType
  <2> QED
    BY <2>1, Places
<1>6. LoopType'
  BY <1>5, Places DEF TypeInv, LoopType
<1> QED
  BY <1>1, <1>2, <1>3, <1>4, <1>6 DEF TypeInv

LEMMA PlacesEndType == ASSUME TypeInv, PlacesEnd PROVE TypeInv'
<1>1. PoolType' /\ BookType' /\ MoveType'
  BY SamePool, SameMove DEF PlacesEnd, TypeInv
<1>2. StackType' /\ FramesInv'
  BY SameStack DEF PlacesEnd, TypeInv
<1>3. PastType' /\ FlowType' /\ TargetInv'
  BY DEF PlacesEnd, TypeInv, PastType, FlowType, TargetInv, past, flow, RoomPhases
<1>4. LoopType'
  BY DEF PlacesEnd, TypeInv, LoopType
<1> QED
  BY <1>1, <1>2, <1>3, <1>4 DEF TypeInv

LEMMA CreationCodeType == ASSUME TypeInv, CreationCode PROVE TypeInv'
<1>1. PoolType' /\ BookType' /\ MoveType'
  BY SamePool, SameMove DEF CreationCode, TypeInv
<1>2. StackType' /\ FramesInv'
  BY PushType DEF CreationCode, TypeInv, Kinds
<1>3. PastType' /\ FlowType' /\ TargetInv'
  BY DEF CreationCode, TypeInv, PastType, FlowType, TargetInv, past, flow, RoomPhases
<1>4. LoopType'
  <2>1. todo' \in Seq(Slots)
    BY DEF CreationCode
  <2> QED
    BY <2>1 DEF CreationCode, TypeInv, LoopType
<1> QED
  BY <1>1, <1>2, <1>3, <1>4 DEF TypeInv

LEMMA CreationCodeEndsType == ASSUME TypeInv, CreationCodeEnds PROVE TypeInv'
<1>1. PoolType' /\ BookType'
  BY SamePool DEF CreationCodeEnds, TypeInv
<1>2. StackType' /\ FramesInv' /\ MoveType'
  BY SameStack, SameMove DEF CreationCodeEnds, TypeInv
<1>3. "start" \in Phases \ {"leave", "clear"} /\ count \in 0..Cap /\ UNCHANGED firstId
  BY Extents DEF CreationCodeEnds, Phases, RoomPhases, TypeInv
<1>4. LoopType' /\ pc' \in Phases /\ born' \subseteq Slots /\ TargetInv'
  BY <1>3, PhaseParts DEF CreationCodeEnds
<1>5. FlowType' /\ PastType'
  BY <1>4 DEF CreationCodeEnds, TypeInv, FlowType, PastType, Phases, flow
<1> QED
  BY <1>1, <1>2, <1>4, <1>5 DEF TypeInv

LEMMA RoomStartEndsType == ASSUME TypeInv, RoomStartEnds PROVE TypeInv'
<1>1. PoolType' /\ BookType'
  BY RebaseType DEF RoomStartEnds, TypeInv
<1>2. StackType' /\ FramesInv' /\ MoveType'
  BY SameStack, SameMove DEF RoomStartEnds, TypeInv
<1>3. "settle" \in Phases \ {"leave", "clear"} /\ 0 \in 0..Cap /\ UNCHANGED firstId
  BY Extents DEF RoomStartEnds, Phases, RoomPhases, TypeInv
<1>4. LoopType' /\ pc' \in Phases /\ born' \subseteq Slots /\ TargetInv'
  BY <1>3, PhaseParts DEF RoomStartEnds
<1>5. FlowType' /\ PastType'
  BY <1>4 DEF RoomStartEnds, TypeInv, FlowType, PastType, Phases, flow
<1> QED
  BY <1>1, <1>2, <1>4, <1>5 DEF TypeInv

LEMMA ResumeFrameType == ASSUME TypeInv, ResumeFrame PROVE TypeInv'
<1>1. PoolType' /\ StackType' /\ FramesInv' /\ MoveType'
  BY NoChain DEF ResumeFrame, TypeInv, PoolType, StackType, FramesInv, MoveType
<1>2. holes' \in Seq(Slots) /\ base' \in 0..Cap /\ firstId' \in Nat /\ seen' \in [Slots -> Nat]
  BY SnapshotType DEF ResumeFrame, TypeInv
<1>3. BookType'
  BY <1>2 DEF ResumeFrame, TypeInv, BookType
<1>4. after \in {"timeline", "alarm"}
  BY DEF ResumeFrame, TypeInv, MoveType
<1>5. /\ pc' \in Phases /\ at' \in Nat /\ limit' \in 0..Cap /\ todo' \in Seq(Slots)
      /\ groups' \in Seq(Objects) /\ mark' \in Nat /\ ran' \in BOOLEAN /\ born' \subseteq Slots
  <2>1. after \in Phases /\ count \in 0..Cap /\ EnterPhase(after, count) /\ BookType /\ FlowType
    BY <1>4, Extents DEF ResumeFrame, TypeInv, Phases, StepPhases
  <2> QED
    BY <2>1, PhaseType
<1>6. FlowType'
  BY <1>5 DEF ResumeFrame, TypeInv, FlowType, flow, Phases
<1>7. LoopType' /\ PastType'
  BY <1>2, <1>5 DEF ResumeFrame, TypeInv, LoopType, PastType
<1>8. TargetInv'
  BY <1>4 DEF ResumeFrame, EnterPhase, TargetInv
<1> QED
  BY <1>1, <1>3, <1>6, <1>7, <1>8 DEF TypeInv

-----------------------------------------------------------------------------
(* The first room.                                                         *)

\* The ids rooms place are bounded: the counter starts above them.
LEMMA FirstFreeId ==
  ASSUME nextId = 1 + CHOOSE i \in PlacedIds \cup {0} : \A j \in PlacedIds : j <= i
  PROVE  nextId \in Nat \ {0} /\ \A j \in PlacedIds : j \in Nat \ {0} /\ j < nextId
<1>1. \A j \in PlacedIds : j \in Nat \ {0}
  BY PlacedType DEF PlacedIds
<1> DEFINE S == PlacedIds \cup {0}
<1>2. S \in SUBSET Nat /\ IsFiniteSet(S) /\ S # {}
  <2>1. IsFiniteSet(PlacedIds) /\ IsFiniteSet({0})
    BY FrameAssumption, FS_Singleton
  <2>2. IsFiniteSet(S)
    BY <2>1, FS_Union
  <2> QED
    BY <1>1, <2>2
<1>3. \E i \in S : \A j \in S : j <= i
  <2> HIDE DEF S
  <2> QED
    BY <1>2, Greatest
<1> DEFINE m == CHOOSE i \in S : \A j \in PlacedIds : j <= i
<1>4. m \in S /\ \A j \in PlacedIds : j <= m
  BY <1>3
<1>5. nextId = 1 + m
  OBVIOUS
<1> HIDE DEF m
<1> QED
  BY <1>1, <1>2, <1>4, <1>5

\* Who is in the first room, by slot, when the placements `gone` have destroyed themselves.
Opening(gone) ==
  LET here == (1..Len(Placed[room])) \ gone
  IN /\ room \in Rooms /\ count = Len(Placed[room])
     /\ pool \in [Slots -> Inst]
     /\ \A s \in Slots :
          /\ s + 1 \in here => /\ pool[s].st = "live" /\ ~pool[s].marked /\ pool[s].placed
                               /\ pool[s].obj = Placed[room][s + 1].obj
                               /\ pool[s].id = Placed[room][s + 1].id /\ pool[s].owner = room
          /\ s + 1 \notin here => pool[s] = Free
     /\ nextSeq = Cardinality(here) + 1
     /\ alive = [o \in Objects |-> Cardinality({i \in here : o \in Family[Placed[room][i].obj]})]
     /\ list = [o \in Objects |->
                 Reverse(Ascending({s \in Slots : s + 1 \in here /\ Placed[room][s + 1].obj = o}))]

LEMMA FirstRoom == ASSUME Init PROVE \E gone \in SUBSET (1..Len(Placed[room])) : Opening(gone)
<1>1. PICK first \in Starts :
        LET here == DOMAIN Placed[room] \ first.gone
            holds(s) == s + 1 \in here
            rank(s) == Cardinality({i \in here : i <= s + 1})
            of(o) == Ascending({s \in Slots : holds(s) /\ Placed[room][s + 1].obj = o})
        IN /\ room = first.room
           /\ pool = [s \in Slots |->
                       IF holds(s)
                       THEN Newborn(Placed[room][s + 1].obj, Placed[room][s + 1].id, rank(s), TRUE, room)
                       ELSE Free]
           /\ count = Len(Placed[room]) /\ nextSeq = Cardinality(here) + 1
           /\ alive = [o \in Objects |-> Cardinality({i \in here : o \in Family[Placed[room][i].obj]})]
           /\ list = [o \in Objects |-> Reverse(of(o))]
  BY DEF Init
<1> DEFINE n == Len(Placed[room])
           here == (1..n) \ first.gone
           rank(s) == Cardinality({i \in here : i <= s + 1})
<1>2. room \in Rooms
  BY <1>1, FrameAssumption
<1>3. first.gone \in SUBSET (1..n) /\ n \in 0..Cap /\ DOMAIN Placed[room] = 1..n
  BY <1>1, <1>2, PlacedType, FrameAssumption
<1>4. /\ \A i \in here : Placed[room][i].obj \in Objects /\ Placed[room][i].id \in Nat
  BY <1>2, <1>3, PlacedType
<1>5. \A s \in Slots : rank(s) \in Nat
  <2> TAKE s \in Slots
  <2>1. {i \in here : i <= s + 1} \subseteq 1..n /\ IsFiniteSet(1..n)
    BY <1>3, FS_Interval
  <2> QED
    BY <2>1, FS_Subset, FS_CardinalityType
<1>6. pool = [s \in Slots |->
               IF s + 1 \in here
               THEN Newborn(Placed[room][s + 1].obj, Placed[room][s + 1].id, rank(s), TRUE, room)
               ELSE Free]
  BY <1>1, <1>3
<1>7. /\ count = n /\ nextSeq = Cardinality(here) + 1
      /\ alive = [o \in Objects |-> Cardinality({i \in here : o \in Family[Placed[room][i].obj]})]
      /\ list = [o \in Objects |->
                  Reverse(Ascending({s \in Slots : s + 1 \in here /\ Placed[room][s + 1].obj = o}))]
  BY <1>1, <1>3
<1> HIDE DEF rank, here, n
<1>8. \A s \in Slots :
        LET r == Newborn(Placed[room][s + 1].obj, Placed[room][s + 1].id, rank(s), TRUE, room)
        IN s + 1 \in here =>
             /\ r \in Inst
             /\ r.st = "live" /\ ~r.marked /\ r.obj = Placed[room][s + 1].obj
             /\ r.id = Placed[room][s + 1].id /\ r.owner = room /\ r.placed
  <2> SUFFICES ASSUME NEW s \in Slots, s + 1 \in here
               PROVE  LET r == Newborn(Placed[room][s + 1].obj, Placed[room][s + 1].id, rank(s), TRUE, room)
                      IN /\ r \in Inst
                         /\ r.st = "live" /\ ~r.marked /\ r.obj = Placed[room][s + 1].obj
                         /\ r.id = Placed[room][s + 1].id /\ r.owner = room /\ r.placed
    OBVIOUS
  <2>1. Placed[room][s + 1].obj \in Objects /\ Placed[room][s + 1].id \in Nat /\ rank(s) \in Nat
    BY <1>4, <1>5
  <2> QED
    BY <1>2, <2>1 DEF Newborn, Inst, States
<1>9. pool \in [Slots -> Inst]
  BY <1>6, <1>8, FreeType
<1>10. \A s \in Slots :
         /\ s + 1 \in here => /\ pool[s].st = "live" /\ ~pool[s].marked /\ pool[s].placed
                              /\ pool[s].obj = Placed[room][s + 1].obj
                              /\ pool[s].id = Placed[room][s + 1].id /\ pool[s].owner = room
         /\ s + 1 \notin here => pool[s] = Free
  BY <1>6, <1>8
<1> QED
  BY <1>2, <1>3, <1>7, <1>9, <1>10 DEF here, n, Opening

LEMMA InitType == ASSUME Init PROVE TypeInv
<1>0. PICK gone \in SUBSET (1..Len(Placed[room])) : Opening(gone)
  BY FirstRoom
<1> DEFINE here == (1..Len(Placed[room])) \ gone
<1>1. /\ room \in Rooms /\ count = Len(Placed[room]) /\ pool \in [Slots -> Inst]
      /\ nextSeq = Cardinality(here) + 1
      /\ alive = [o \in Objects |-> Cardinality({i \in here : o \in Family[Placed[room][i].obj]})]
      /\ list = [o \in Objects |->
                  Reverse(Ascending({s \in Slots : s + 1 \in here /\ Placed[room][s + 1].obj = o}))]
  BY <1>0 DEF Opening
<1>2. IsFiniteSet(here)
  <2>1. IsFiniteSet(1..Len(Placed[room]))
    BY <1>1, PlacedType, FS_Interval
  <2> QED
    BY <2>1, FS_Subset
<1>3. nextSeq \in Nat
  BY <1>1, <1>2, FS_CardinalityType
<1>4. alive \in [Objects -> Int]
  <2>1. \A o \in Objects : Cardinality({i \in here : o \in Family[Placed[room][i].obj]}) \in Int
    <3> TAKE o \in Objects
    <3>1. IsFiniteSet({i \in here : o \in Family[Placed[room][i].obj]})
      BY <1>2, FS_Subset
    <3> QED
      BY <3>1, FS_CardinalityType
  <2> QED
    BY <1>1, <2>1
<1>5. list \in [Objects -> Seq(Slots)]
  <2>1. ASSUME NEW o \in Objects
        PROVE  Reverse(Ascending({s \in Slots : s + 1 \in here /\ Placed[room][s + 1].obj = o})) \in Seq(Slots)
    <3> DEFINE S == {s \in Slots : s + 1 \in here /\ Placed[room][s + 1].obj = o}
    <3>1. S \subseteq Slots
      OBVIOUS
    <3> HIDE DEF S
    <3>2. Ascending(S) \in Seq(Slots)
      BY <3>1, SlotSets
    <3>3. Reverse(Ascending(S)) \in Seq(Slots)
      BY <3>2, Reversed
    <3> QED
      BY <3>3 DEF S
  <2> QED
    BY <1>1, <2>1
<1>6. nextId \in Nat \ {0}
  BY FirstFreeId DEF Init
<1>7. holes \in Seq(Slots) /\ stepping \in BOOLEAN /\ base \in 0..Cap
  <2>1. holes \in Seq(Slots)
    BY EmptySeq DEF Init
  <2>2. stepping \in BOOLEAN
    BY DEF Init
  <2>3. base \in 0..Cap
    BY Numbers DEF Init
  <2> QED
    BY <2>1, <2>2, <2>3
<1>8. PoolType /\ BookType
  BY <1>1, <1>3, <1>4, <1>5, <1>6, <1>7, PlacedType DEF PoolType, BookType
<1>9. FlowType
  BY <1>1 DEF Init, FlowType
<1>10. LoopType
  <2>1. limit \in 0..Cap /\ todo \in Seq(Slots) /\ groups \in Seq(Objects)
    BY Numbers DEF Init
  <2> QED
    BY <2>1 DEF Init, LoopType
<1>11. StackType /\ FramesInv
  <2>1. stack = <<>>
    BY DEF Init
  <2> QED
    BY <2>1 DEF StackType, FramesInv
<1>12. MoveType /\ TargetInv
  BY NoChain DEF Init, MoveType, TargetInv
<1>13. PastType
  BY NothingType, FrameAssumption DEF Init, PastType
<1> QED
  BY <1>8, <1>9, <1>10, <1>11, <1>12, <1>13 DEF TypeInv

LEMMA StepType == ASSUME TypeInv, [Next]_vars PROVE TypeInv'
<1>1. CASE Engine
  <2>1. CASE StartFrame
    BY <2>1, StartFrameType
  <2>2. CASE Dispatch
    BY <2>2, DispatchType
  <2>3. CASE NextGroup
    BY <2>3, NextGroupType
  <2>4. CASE PhaseEnds
    BY <2>4, PhaseEndsType
  <2>5. CASE EndStepEnds
    BY <2>5, EndStepEndsType
  <2>6. CASE EndFrame \/ EndMovedFrame
    BY <2>6, FinishStepType DEF EndFrame, EndMovedFrame
  <2>7. CASE DrawOne \/ DrawEnds
    BY <2>7, DrawType
  <2>8. CASE CommitRequest
    BY <2>8, CommitRequestType
  <2>9. CASE CannotStore
    BY <2>9, CannotStoreType
  <2>10. CASE LeaveRoom
    BY <2>10, LeaveRoomType
  <2>11. CASE ClearOne
    BY <2>11, ClearOneType
  <2>12. CASE EnterRoom
    BY <2>12, EnterRoomType
  <2>13. CASE RestoreRoom
    BY <2>13, RestoreRoomType
  <2>14. CASE PlaceOne
    BY <2>14, PlaceOneType
  <2>15. CASE PlacesEnd
    BY <2>15, PlacesEndType
  <2>16. CASE CreationCode
    BY <2>16, CreationCodeType
  <2>17. CASE CreationCodeEnds
    BY <2>17, CreationCodeEndsType
  <2>18. CASE RoomStartEnds
    BY <2>18, RoomStartEndsType
  <2>19. CASE MoveAgain
    BY <2>19, MoveAgainType
  <2>20. CASE ResumeFrame
    BY <2>20, ResumeFrameType
  <2> QED
    BY <1>1, <2>1, <2>2, <2>3, <2>4, <2>5, <2>6, <2>7, <2>8, <2>9, <2>10, <2>11, <2>12, <2>13, <2>14,
       <2>15, <2>16, <2>17, <2>18, <2>19, <2>20 DEF Engine
<1>2. CASE Operation
  <2>1. ASSUME NEW o \in Objects, OpCreate(o) PROVE TypeInv'
    BY <2>1, OpCreateType
  <2>2. ASSUME NEW t \in Slots, OpDestroy(t) PROVE TypeInv'
    BY <2>2, OpDestroyType
  <2>3. ASSUME NEW o \in Objects, NEW perform \in BOOLEAN, OpChange(o, perform) PROVE TypeInv'
    BY <2>3, OpChangeType
  <2>4. ASSUME NEW t \in Slots, OpDeactivate(t) \/ OpActivate(t) PROVE TypeInv'
    BY <2>4, OpActiveType
  <2>5. CASE OpAlarm
    BY <2>5, OpAlarmType
  <2>6. ASSUME NEW r \in Rooms, OpRoom(r) PROVE TypeInv'
    BY <2>6, OpRoomType
  <2> QED
    BY <1>2, <2>1, <2>2, <2>3, <2>4, <2>5, <2>6 DEF Operation
<1>3. CASE Return
  BY <1>3, ReturnType
<1>4. CASE UNCHANGED vars
  <2>1. PoolType' /\ BookType' /\ FlowType' /\ LoopType' /\ MoveType' /\ TargetInv'
    BY <1>4, SamePool, FrameWaits DEF vars, TypeInv
  <2>2. StackType' /\ FramesInv'
    BY <1>4, SameStack DEF vars, TypeInv
  <2>3. PastType'
    BY <1>4 DEF vars, TypeInv, PastType, past
  <2> QED
    BY <2>1, <2>2, <2>3 DEF TypeInv
<1> QED
  BY <1>1, <1>2, <1>3, <1>4 DEF Next

LEMMA TypeKept == Spec => []TypeInv
<1>1. Init => TypeInv
  BY InitType
<1>2. TypeInv /\ [Next]_vars => TypeInv'
  BY StepType
<1> QED
  BY <1>1, <1>2, PTL DEF Spec

\* Every variable keeps its type, whatever event code does.
THEOREM Typing == Spec => []TypeOK
<1>1. TypeInv => TypeOK
  BY TypeParts DEF TypeInv
<1> QED
  BY <1>1, TypeKept, PTL

-----------------------------------------------------------------------------
(* What the operations of the pool do to the instance of one slot.         *)

SameLife(t) == pool'[t].st = pool[t].st /\ (pool'[t].wasOff <=> pool[t].wasOff)
SameMark(t) == (pool'[t].marked <=> pool[t].marked) /\ pool'[t].cleaned = pool[t].cleaned
SameName(t) == pool'[t].id = pool[t].id /\ (pool'[t].placed <=> pool[t].placed)
SameKind(t) == pool'[t].obj = pool[t].obj
SameHome(t) == pool'[t].owner = pool[t].owner
SameAlarm(t) == (pool'[t].alarm <=> pool[t].alarm)
SameAll(t) == SameLife(t) /\ SameMark(t) /\ SameName(t) /\ SameKind(t) /\ SameHome(t) /\ SameAlarm(t)

\* The definitions above, for the steps that look at one slot.
LEMMA Unmoved ==
  ASSUME NEW t, pool'[t] = pool[t]
  PROVE  SameAll(t)
BY DEF SameAll, SameLife, SameMark, SameName, SameKind, SameHome, SameAlarm

LEMMA PutOne ==
  ASSUME PoolType, NEW s \in Slots, NEW r, pool' = [pool EXCEPT ![s] = r]
  PROVE  pool'[s] = r /\ \A t \in Slots : t # s => pool'[t] = pool[t] /\ SameAll(t)
<1>1. pool'[s] = r /\ \A t \in Slots : t # s => pool'[t] = pool[t]
  BY DEF PoolType
<1> QED
  BY <1>1, Unmoved

LEMMA MarkDoes ==
  ASSUME PoolType, NEW s \in Slots, Mark(s)
  PROVE  \A t \in Slots : /\ SameLife(t) /\ SameName(t) /\ SameKind(t) /\ SameHome(t) /\ SameAlarm(t)
                          /\ pool'[t].cleaned = pool[t].cleaned
                          /\ (pool'[t].marked <=> pool[t].marked \/ t = s)
                          /\ t # s => SameAll(t)
<1>1. pool' = [pool EXCEPT ![s] = [pool[s] EXCEPT !.marked = TRUE]]
  BY DEF Mark
<1>2. pool'[s] = [pool[s] EXCEPT !.marked = TRUE] /\ \A t \in Slots : t # s => pool'[t] = pool[t] /\ SameAll(t)
  BY <1>1, PutOne
<1>3. pool[s] \in Inst
  BY DEF PoolType
<1>4. SameLife(s) /\ SameName(s) /\ SameKind(s) /\ SameHome(s) /\ SameAlarm(s)
      /\ pool'[s].cleaned = pool[s].cleaned /\ pool'[s].marked
  BY <1>2, <1>3 DEF Inst, SameLife, SameName, SameKind, SameHome, SameAlarm
<1> QED
  BY <1>2, <1>4 DEF SameAll, SameMark

LEMMA CleanUpDoes ==
  ASSUME PoolType, NEW s \in Slots, CleanUp(s)
  PROVE  /\ \A t \in Slots : /\ SameLife(t) /\ SameName(t) /\ SameKind(t) /\ SameHome(t) /\ SameAlarm(t)
                             /\ (pool'[t].marked <=> pool[t].marked)
                             /\ pool'[t].cleaned >= pool[t].cleaned
                             /\ t # s => SameAll(t)
         /\ pool'[s].cleaned > 0
<1>1. pool' = [pool EXCEPT ![s] = [pool[s] EXCEPT !.cleaned = pool[s].cleaned + 1]]
  BY DEF CleanUp
<1>2. pool'[s] = [pool[s] EXCEPT !.cleaned = pool[s].cleaned + 1]
      /\ \A t \in Slots : t # s => pool'[t] = pool[t] /\ SameAll(t)
  BY <1>1, PutOne
<1>3. \A t \in Slots : pool[t] \in Inst /\ pool[t].cleaned \in Nat
  BY DEF PoolType, Inst
<1>4. SameLife(s) /\ SameName(s) /\ SameKind(s) /\ SameHome(s) /\ SameAlarm(s)
      /\ pool'[s].cleaned = pool[s].cleaned + 1 /\ (pool'[s].marked <=> pool[s].marked)
  BY <1>2, <1>3 DEF Inst, SameLife, SameName, SameKind, SameHome, SameAlarm
<1>5. pool'[s].cleaned > 0 /\ pool'[s].cleaned >= pool[s].cleaned
  BY <1>3, <1>4
<1>6. \A t \in Slots : t # s => pool'[t].cleaned >= pool[t].cleaned
  BY <1>2, <1>3
<1> QED
  BY <1>2, <1>4, <1>5, <1>6 DEF SameAll, SameMark

LEMMA SetActiveDoes ==
  ASSUME PoolType, NEW s \in Slots, NEW st \in {"live", "off"}, SetActive(s, st)
  PROVE  /\ \A t \in Slots : /\ SameMark(t) /\ SameName(t) /\ SameKind(t) /\ SameHome(t) /\ SameAlarm(t)
                             /\ t # s => SameAll(t)
         /\ pool'[s].st = st
<1>1. pool' = [pool EXCEPT ![s] = [pool[s] EXCEPT !.st = st]]
  BY DEF SetActive
<1>2. pool'[s] = [pool[s] EXCEPT !.st = st] /\ \A t \in Slots : t # s => pool'[t] = pool[t] /\ SameAll(t)
  BY <1>1, PutOne
<1>3. pool[s] \in Inst
  BY DEF PoolType
<1>4. SameMark(s) /\ SameName(s) /\ SameKind(s) /\ SameHome(s) /\ SameAlarm(s) /\ pool'[s].st = st
  BY <1>2, <1>3 DEF Inst, SameMark, SameName, SameKind, SameHome, SameAlarm
<1> QED
  BY <1>2, <1>4 DEF SameAll

LEMMA SetAlarmDoes ==
  ASSUME PoolType, NEW s \in Slots, NEW on \in BOOLEAN, SetAlarm(s, on)
  PROVE  \A t \in Slots : /\ SameLife(t) /\ SameMark(t) /\ SameName(t) /\ SameKind(t) /\ SameHome(t)
                          /\ t # s => SameAll(t)
<1>1. pool' = [pool EXCEPT ![s] = [pool[s] EXCEPT !.alarm = on]]
  BY DEF SetAlarm
<1>2. pool'[s] = [pool[s] EXCEPT !.alarm = on] /\ \A t \in Slots : t # s => pool'[t] = pool[t] /\ SameAll(t)
  BY <1>1, PutOne
<1>3. pool[s] \in Inst
  BY DEF PoolType
<1>4. SameLife(s) /\ SameMark(s) /\ SameName(s) /\ SameKind(s) /\ SameHome(s)
  BY <1>2, <1>3 DEF Inst, SameLife, SameMark, SameName, SameKind, SameHome
<1> QED
  BY <1>2, <1>4 DEF SameAll

\* An instance becomes one of another object.
LEMMA BecomeDoes ==
  ASSUME PoolType, NEW s \in Slots, NEW o \in Objects, pool' = [pool EXCEPT ![s].obj = o]
  PROVE  /\ \A t \in Slots : /\ SameLife(t) /\ SameMark(t) /\ SameName(t) /\ SameHome(t) /\ SameAlarm(t)
                             /\ t # s => SameAll(t)
         /\ pool'[s].obj = o
<1>1. pool' = [pool EXCEPT ![s] = [pool[s] EXCEPT !.obj = o]]
  OBVIOUS
<1>2. pool'[s] = [pool[s] EXCEPT !.obj = o] /\ \A t \in Slots : t # s => pool'[t] = pool[t] /\ SameAll(t)
  BY <1>1, PutOne
<1>3. pool[s] \in Inst
  BY DEF PoolType
<1>4. SameLife(s) /\ SameMark(s) /\ SameName(s) /\ SameHome(s) /\ SameAlarm(s) /\ pool'[s].obj = o
  BY <1>2, <1>3 DEF Inst, SameLife, SameMark, SameName, SameHome, SameAlarm
<1> QED
  BY <1>2, <1>4 DEF SameAll

LEMMA FreeIs == Free.st = "free" /\ ~Free.marked /\ Free.obj = 0 /\ Free.id = 0 /\ Free.cleaned = 0
BY DEF Free

LEMMA DisposeDoes ==
  ASSUME PoolType, NEW s \in Slots, Dispose(s)
  PROVE  pool'[s] = Free /\ IsFree(s)' /\ \A t \in Slots : t # s => pool'[t] = pool[t] /\ SameAll(t)
<1>1. pool' = [pool EXCEPT ![s] = Free]
  BY DEF Dispose
<1>2. pool'[s] = Free /\ \A t \in Slots : t # s => pool'[t] = pool[t] /\ SameAll(t)
  BY <1>1, PutOne
<1> QED
  BY <1>2, FreeIs DEF IsFree

LEMMA ReapDoes ==
  ASSUME PoolType, BookType, Reap \/ ReapAndRebase
  PROVE  \A t \in Slots : /\ t \in Doomed => pool'[t] = Free /\ IsFree(t)' /\ Exists(t) /\ pool[t].marked
                          /\ t \notin Doomed => SameAll(t)
<1>1. \A t \in Doomed : Exists(t) /\ pool[t].marked
  BY DEF Doomed, Exists
<1>2. CASE Reap
  <2>1. pool' = [s \in Slots |-> IF s \in Doomed THEN Free ELSE pool[s]]
    BY <1>2 DEF Reap
  <2>2. \A t \in Slots : (t \in Doomed => pool'[t] = Free) /\ (t \notin Doomed => pool'[t] = pool[t])
    BY <2>1
  <2> QED
    BY <1>1, <2>2, Unmoved, FreeIs DEF IsFree
<1>3. CASE ReapAndRebase
  <2> DEFINE rank(s) == Cardinality({t \in Held : t <= s})
  <2>1. pool' = [s \in Slots |-> IF s \in Doomed THEN Free
                                 ELSE IF s \in Held THEN [pool[s] EXCEPT !.seq = rank(s)] ELSE pool[s]]
    BY <1>3 DEF ReapAndRebase
  <2> HIDE DEF rank
  <2>2. \A t \in Slots : /\ t \in Doomed => pool'[t] = Free
                         /\ t \notin Doomed /\ t \in Held => pool'[t] = [pool[t] EXCEPT !.seq = rank(t)]
                         /\ t \notin Doomed /\ t \notin Held => pool'[t] = pool[t]
    BY <2>1
  <2>3. ASSUME NEW t \in Slots, NEW n, pool'[t] = [pool[t] EXCEPT !.seq = n]
        PROVE  SameAll(t)
    <3>1. pool[t] \in Inst
      BY DEF PoolType
    <3> QED
      BY <2>3, <3>1 DEF Inst, SameAll, SameLife, SameMark, SameName, SameKind, SameHome, SameAlarm
  <2>4. ASSUME NEW t \in Slots, t \notin Doomed PROVE SameAll(t)
    <3>1. CASE t \in Held
      BY <2>2, <2>3, <2>4, <3>1
    <3>2. CASE t \notin Held
      BY <2>2, <2>4, <3>2, Unmoved
    <3> QED
      BY <3>1, <3>2
  <2> QED
    BY <1>1, <2>2, <2>4, FreeIs DEF IsFree
<1> QED
  BY <1>2, <1>3

LEMMA SleepDoes ==
  ASSUME PoolType, NEW r, PutToSleep(r)
  PROVE  \A t \in Slots : /\ SameMark(t) /\ SameName(t) /\ SameKind(t) /\ SameHome(t) /\ SameAlarm(t)
                          /\ t \in Sleepers(r) => pool'[t].st = "dormant" /\ (pool'[t].wasOff <=> pool[t].st = "off")
                          /\ t \notin Sleepers(r) => SameAll(t)
<1>1. pool' = [s \in Slots |-> IF s \in Sleepers(r)
                               THEN [pool[s] EXCEPT !.st = "dormant", !.wasOff = pool[s].st = "off"]
                               ELSE pool[s]]
  BY DEF PutToSleep
<1>2. ASSUME NEW t \in Slots
      PROVE  /\ SameMark(t) /\ SameName(t) /\ SameKind(t) /\ SameHome(t) /\ SameAlarm(t)
             /\ t \in Sleepers(r) => pool'[t].st = "dormant" /\ (pool'[t].wasOff <=> pool[t].st = "off")
             /\ t \notin Sleepers(r) => SameAll(t)
  <2>1. CASE t \in Sleepers(r)
    <3>1. pool'[t] = [pool[t] EXCEPT !.st = "dormant", !.wasOff = pool[t].st = "off"] /\ pool[t] \in Inst
      BY <1>1, <2>1 DEF PoolType
    <3> QED
      BY <2>1, <3>1 DEF Inst, SameMark, SameName, SameKind, SameHome, SameAlarm
  <2>2. CASE t \notin Sleepers(r)
    <3>1. pool'[t] = pool[t]
      BY <1>1, <2>2
    <3> QED
      BY <2>2, <3>1, Unmoved DEF SameAll
  <2> QED
    BY <2>1, <2>2
<1> QED
  BY <1>2

LEMMA WakeDoes ==
  ASSUME PoolType, NEW r, WakeUp(r)
  PROVE  \A t \in Slots : /\ SameMark(t) /\ SameName(t) /\ SameKind(t) /\ SameHome(t) /\ SameAlarm(t)
                          /\ t \in Woken(r) => pool'[t].st = IF pool[t].wasOff THEN "off" ELSE "live"
                          /\ t \notin Woken(r) => SameAll(t)
<1>1. pool' = [s \in Slots |-> IF s \in Woken(r)
                               THEN [pool[s] EXCEPT !.st = IF pool[s].wasOff THEN "off" ELSE "live",
                                                    !.wasOff = FALSE]
                               ELSE pool[s]]
  BY DEF WakeUp
<1>2. ASSUME NEW t \in Slots
      PROVE  /\ SameMark(t) /\ SameName(t) /\ SameKind(t) /\ SameHome(t) /\ SameAlarm(t)
             /\ t \in Woken(r) => pool'[t].st = IF pool[t].wasOff THEN "off" ELSE "live"
             /\ t \notin Woken(r) => SameAll(t)
  <2>1. CASE t \in Woken(r)
    <3>1. pool'[t] = [pool[t] EXCEPT !.st = IF pool[t].wasOff THEN "off" ELSE "live", !.wasOff = FALSE]
          /\ pool[t] \in Inst
      BY <1>1, <2>1 DEF PoolType
    <3> QED
      BY <2>1, <3>1 DEF Inst, SameMark, SameName, SameKind, SameHome, SameAlarm
  <2>2. CASE t \notin Woken(r)
    <3>1. pool'[t] = pool[t]
      BY <1>1, <2>2
    <3> QED
      BY <2>2, <3>1, Unmoved DEF SameAll
  <2> QED
    BY <2>1, <2>2
<1> QED
  BY <1>2

LEMMA AdoptDoes ==
  ASSUME PoolType, NEW r, Adopt(r)
  PROVE  \A t \in Slots : /\ SameLife(t) /\ SameMark(t) /\ SameName(t) /\ SameKind(t) /\ SameAlarm(t)
                          /\ Exists(t) /\ Kept(t) => pool'[t].owner = r
                          /\ ~(Exists(t) /\ Kept(t)) => SameAll(t)
<1>1. pool' = [s \in Slots |-> IF Exists(s) /\ Kept(s) THEN [pool[s] EXCEPT !.owner = r] ELSE pool[s]]
  BY DEF Adopt
<1>2. ASSUME NEW t \in Slots
      PROVE  /\ SameLife(t) /\ SameMark(t) /\ SameName(t) /\ SameKind(t) /\ SameAlarm(t)
             /\ Exists(t) /\ Kept(t) => pool'[t].owner = r
             /\ ~(Exists(t) /\ Kept(t)) => SameAll(t)
  <2>1. CASE Exists(t) /\ Kept(t)
    <3>1. pool'[t] = [pool[t] EXCEPT !.owner = r] /\ pool[t] \in Inst
      BY <1>1, <2>1 DEF PoolType
    <3> QED
      BY <2>1, <3>1 DEF Inst, SameLife, SameMark, SameName, SameKind, SameAlarm
  <2>2. CASE ~(Exists(t) /\ Kept(t))
    <3>1. pool'[t] = pool[t]
      BY <1>1, <2>2
    <3> QED
      BY <2>2, <3>1, Unmoved DEF SameAll
  <2> QED
    BY <2>1, <2>2
<1> QED
  BY <1>2

LEMMA CreateDoes ==
  ASSUME PoolType, BookType, NEW o \in Objects, NEW id \in Nat, NEW b \in BOOLEAN, NEW w \in Rooms,
         Create(Alloc, o, id, b, w)
  PROVE  /\ Alloc \in Slots /\ \A t \in Slots : t # Alloc => pool'[t] = pool[t] /\ SameAll(t)
         /\ pool'[Alloc].st = "live" /\ ~pool'[Alloc].marked /\ pool'[Alloc].obj = o
         /\ pool'[Alloc].id = id /\ pool'[Alloc].owner = w /\ (pool'[Alloc].placed <=> b)
         /\ nextId' = IdAfter(b) /\ count' = (IF Recycles \/ count >= Cap THEN count ELSE count + 1)
         /\ UNCHANGED <<stepping, base>>
<1> DEFINE fresh == IF nextSeq = 0 THEN 1 ELSE nextSeq
           seq == IF InStep THEN fresh ELSE Alloc + 1
<1>1. Alloc \in Slots /\ Alloc \in Nat
  BY AllocType, Numbers
<1>2. seq \in Nat
  BY <1>1 DEF BookType
<1>3. pool' = [pool EXCEPT ![Alloc] = Newborn(o, id, seq, b, w)]
  BY DEF Create
<1>4. nextId' = IdAfter(b) /\ count' = (IF Recycles \/ count >= Cap THEN count ELSE count + 1)
      /\ UNCHANGED <<stepping, base>>
  BY DEF Create
<1> HIDE DEF seq
<1>5. pool'[Alloc] = Newborn(o, id, seq, b, w) /\ \A t \in Slots : t # Alloc => pool'[t] = pool[t] /\ SameAll(t)
  BY <1>1, <1>3, PutOne
<1>6. LET r == Newborn(o, id, seq, b, w)
      IN /\ r.st = "live" /\ ~r.marked /\ r.obj = o /\ r.id = id /\ r.owner = w /\ (r.placed <=> b)
  BY <1>2, NewbornIs
<1> QED
  BY <1>1, <1>4, <1>5, <1>6

-----------------------------------------------------------------------------
(* The steps by what they do, and the shape of the stack.                  *)

\* A new phase, or the end of one, without a change to the pool.
Turn == \/ StartFrame \/ PhaseEnds \/ EndFrame \/ DrawEnds \/ CommitRequest \/ CannotStore \/ PlacesEnd
        \/ CreationCodeEnds \/ MoveAgain \/ ResumeFrame \/ EndMovedFrame
Reaping == EndStepEnds \/ RoomStartEnds
Still == UNCHANGED vars

LEMMA Steps ==
  ASSUME [Next]_vars
  PROVE  \/ \E o \in Objects : OpCreate(o)
         \/ \E t \in Slots : OpDestroy(t)
         \/ \E o \in Objects, perform \in BOOLEAN : OpChange(o, perform)
         \/ \E t \in Slots : OpDeactivate(t) \/ OpActivate(t)
         \/ OpAlarm
         \/ \E r \in Rooms : OpRoom(r)
         \/ Return \/ Dispatch \/ NextGroup \/ DrawOne \/ ClearOne \/ CreationCode \/ PlaceOne
         \/ Turn \/ Reaping \/ LeaveRoom \/ EnterRoom \/ RestoreRoom \/ Still
BY Zenon DEF Next, Engine, Operation, Turn, Reaping, Still

\* The engine's own phases run no event code.
Waits == pc \in {"idle", "reap", "place", "settle"} => stack = <<>>

\* Only the disposal of a room's instances leaves a "clear" frame, under everything its Clean Up runs.
ClearFrames ==
  /\ \A i \in DOMAIN stack : stack[i].k = "clear" => pc = "clear" /\ i = Len(stack)
  /\ pc = "clear" /\ stack # <<>> => stack[Len(stack)].k = "clear"

\* The slots past the extent are free.
Beyond == \A s \in Slots : s >= count => IsFree(s)

StepBooks ==
  /\ pc \notin {"idle", "draw"} => stepping
  /\ base > 0 => pc \in StepPhases \cup {"reap"}
  /\ base <= count

ShapeInv == Waits /\ ClearFrames /\ Beyond /\ StepBooks

LEMMA TurnDoes ==
  ASSUME Waits, Turn
  PROVE  stack = <<>> /\ stack' = <<>> /\ UNCHANGED <<pool, nextId, alive, list, room, ops>>
<1>1. CASE StartFrame
  BY <1>1 DEF StartFrame, Waits, flow
<1>2. CASE PhaseEnds
  BY <1>2 DEF PhaseEnds, LoopOver, poolVars, flow
<1>3. CASE EndFrame \/ EndMovedFrame
  BY <1>3 DEF EndFrame, EndMovedFrame, Moved, FinishStep, Waits, flow
<1>4. CASE DrawEnds
  BY <1>4 DEF DrawEnds, poolVars, flow
<1>5. CASE CommitRequest
  BY <1>5 DEF CommitRequest, LoopOver, StartMove
<1>6. CASE CannotStore
  BY <1>6 DEF CannotStore, LoopOver, poolVars
<1>7. CASE PlacesEnd
  BY <1>7 DEF PlacesEnd, poolVars, flow, Waits
<1>8. CASE CreationCodeEnds
  BY <1>8 DEF CreationCodeEnds, poolVars, flow
<1>9. CASE MoveAgain
  BY <1>9 DEF MoveAgain, StartMove, Waits
<1>10. CASE ResumeFrame
  BY <1>10 DEF ResumeFrame, Moved, Waits, flow
<1> QED
  BY <1>1, <1>2, <1>3, <1>4, <1>5, <1>6, <1>7, <1>8, <1>9, <1>10 DEF Turn

LEMMA Pushed ==
  ASSUME StackType, NEW k, NEW s, NEW o, [k |-> k, s |-> s, to |-> o] \in Frame, Push(k, s, o)
  PROVE  /\ stack' # <<>> /\ Len(stack') = Len(stack) + 1 /\ Len(stack) \in Nat
         /\ DOMAIN stack' = 1..(Len(stack) + 1) /\ DOMAIN stack = 1..Len(stack)
         /\ stack'[1].k = k /\ stack'[1].s = s /\ stack'[1].to = o /\ Head(stack').s = s
         /\ \A i \in DOMAIN stack' : i # 1 => i - 1 \in DOMAIN stack /\ stack'[i] = stack[i - 1]
         /\ \A i \in DOMAIN stack : i + 1 \in DOMAIN stack' /\ stack'[i + 1] = stack[i] /\ i + 1 # 1
<1> DEFINE f == [k |-> k, s |-> s, to |-> o]
           g == <<f>>
           u == g \o stack
<1>1. f.k = k /\ f.s = s /\ f.to = o
  OBVIOUS
<1>2. stack \in Seq(Frame) /\ stack' = u /\ g \in Seq(Frame) /\ Len(g) = 1 /\ g[1] = f
  BY DEF StackType, Push
<1> HIDE DEF f, g
<1>3. /\ u \in Seq(Frame) /\ Len(u) = 1 + Len(stack) /\ Len(stack) \in Nat
      /\ \A i \in 1..(1 + Len(stack)) : u[i] = IF i <= 1 THEN g[i] ELSE stack[i - 1]
  BY <1>2, ConcatProperties
<1> HIDE DEF u
<1>4. DOMAIN stack = 1..Len(stack) /\ DOMAIN u = 1..(Len(stack) + 1) /\ Len(u) = Len(stack) + 1
  BY <1>2, <1>3, LenProperties
<1>5. u[1] = f
  BY <1>2, <1>3
<1>6. ASSUME NEW i \in DOMAIN u, i # 1 PROVE i - 1 \in DOMAIN stack /\ u[i] = stack[i - 1]
  BY <1>3, <1>4, <1>6
<1>7. ASSUME NEW i \in DOMAIN stack PROVE i + 1 \in DOMAIN u /\ u[i + 1] = stack[i] /\ i + 1 # 1
  <2>1. i + 1 \in DOMAIN u /\ i + 1 # 1 /\ (i + 1) - 1 = i
    BY <1>3, <1>4
  <2> QED
    BY <1>6, <2>1
<1>8. u # <<>>
  BY <1>3, EmptySeq
<1>9. Head(u) = u[1]
  BY <1>3, <1>8, HeadTailProperties
<1> QED
  BY <1>1, <1>2, <1>3, <1>4, <1>5, <1>6, <1>7, <1>8, <1>9

LEMMA Popped ==
  ASSUME StackType, FramesInv, stack # <<>>, stack' = Tail(stack)
  PROVE  /\ DOMAIN stack' = 1..(Len(stack) - 1) /\ Len(stack') = Len(stack) - 1
         /\ \A i \in DOMAIN stack' : i + 1 \in DOMAIN stack /\ stack'[i] = stack[i + 1]
         /\ Len(stack) \in Nat /\ Len(stack) >= 1 /\ DOMAIN stack = 1..Len(stack)
         /\ Len(stack) = 1 => stack' = <<>>
<1>1. Tail(stack) \in Seq(Frame) /\ Len(Tail(stack)) = Len(stack) - 1
  BY HeadTailProperties DEF StackType
<1>2. Len(stack) = 1 => stack' = <<>>
  BY <1>1, EmptySeq
<1> QED
  BY <1>1, <1>2, Top

\* What is pushed is a frame.
LEMMA FrameOf ==
  ASSUME NEW k \in Kinds, NEW s \in Slots \cup {NoSlot}, NEW o \in Objects \cup {0}
  PROVE  [k |-> k, s |-> s, to |-> o] \in Frame
BY DEF Frame, Kinds


LEMMA PushShape ==
  ASSUME TypeInv, ShapeInv, stack # <<>>, NEW k \in Kinds \ {"clear"}, NEW s \in Slots, NEW o \in Objects \cup {0},
         Push(k, s, o), UNCHANGED pc
  PROVE  Waits' /\ ClearFrames'
<1>1. [k |-> k, s |-> s, to |-> o] \in Frame /\ StackType
  BY FrameOf DEF TypeInv
<1>2. /\ stack' # <<>> /\ Len(stack') = Len(stack) + 1 /\ Len(stack) \in Nat
      /\ DOMAIN stack' = 1..(Len(stack) + 1) /\ DOMAIN stack = 1..Len(stack)
      /\ stack'[1].k = k
      /\ \A i \in DOMAIN stack' : i # 1 => i - 1 \in DOMAIN stack /\ stack'[i] = stack[i - 1]
      /\ \A i \in DOMAIN stack : i + 1 \in DOMAIN stack' /\ stack'[i + 1] = stack[i] /\ i + 1 # 1
  BY <1>1, Pushed
<1>3. Len(stack) >= 1
  BY Top DEF TypeInv
<1>4. ASSUME NEW i \in DOMAIN stack', stack'[i].k = "clear" PROVE pc' = "clear" /\ i = Len(stack')
  <2>1. i # 1
    BY <1>2, <1>4
  <2>2. i - 1 \in DOMAIN stack /\ stack[i - 1].k = "clear"
    BY <1>2, <1>4, <2>1
  <2>3. pc = "clear" /\ i - 1 = Len(stack)
    BY <2>2 DEF ShapeInv, ClearFrames
  <2> QED
    BY <1>2, <2>3
<1>5. ASSUME pc' = "clear" PROVE stack'[Len(stack')].k = "clear"
  <2>1. stack[Len(stack)].k = "clear" /\ Len(stack) \in DOMAIN stack
    BY <1>2, <1>3, <1>5 DEF ShapeInv, ClearFrames
  <2> QED
    BY <1>2, <2>1
<1>6. ClearFrames'
  BY <1>4, <1>5 DEF ClearFrames
<1>7. Waits'
  BY DEF ShapeInv, Waits
<1> QED
  BY <1>6, <1>7

LEMMA FirstShape ==
  ASSUME TypeInv, stack = <<>>, NEW k \in Kinds, NEW s \in Slots \cup {NoSlot}, NEW o \in Objects \cup {0},
         Push(k, s, o), k = "clear" <=> pc' = "clear", pc' \notin {"idle", "reap", "place", "settle"}
  PROVE  Waits' /\ ClearFrames'
<1>1. [k |-> k, s |-> s, to |-> o] \in Frame /\ StackType
  BY FrameOf DEF TypeInv
<1>2. Len(stack) = 0
  BY EmptySeq
<1>3. Len(stack') = 1 /\ DOMAIN stack' = 1..1 /\ stack'[1].k = k
  BY <1>1, <1>2, Pushed
<1>4. ClearFrames'
  BY <1>3 DEF ClearFrames
<1> QED
  BY <1>4 DEF Waits

LEMMA ReturnShape == ASSUME TypeInv, ShapeInv, Return PROVE Waits' /\ ClearFrames'
<1> DEFINE f == Head(stack)
<1>1. stack # <<>> /\ UNCHANGED pc /\ StackType /\ FramesInv
  BY Returns DEF TypeInv
<1>2. Waits'
  BY <1>1 DEF ShapeInv, Waits
<1>3. /\ Len(stack) \in Nat /\ Len(stack) >= 1 /\ DOMAIN stack = 1..Len(stack) /\ Head(stack) = stack[1]
      /\ 1 \in DOMAIN stack
  BY <1>1, Top
<1>4. CASE stack' = Tail(stack)
  <2>1. /\ DOMAIN stack' = 1..(Len(stack) - 1) /\ Len(stack') = Len(stack) - 1
        /\ \A i \in DOMAIN stack' : i + 1 \in DOMAIN stack /\ stack'[i] = stack[i + 1]
        /\ Len(stack) = 1 => stack' = <<>>
    BY <1>1, <1>4, Popped
  <2>2. ASSUME NEW i \in DOMAIN stack', stack'[i].k = "clear" PROVE pc' = "clear" /\ i = Len(stack')
    <3>1. i + 1 \in DOMAIN stack /\ stack[i + 1].k = "clear"
      BY <2>1, <2>2
    <3>2. pc = "clear" /\ i + 1 = Len(stack)
      BY <3>1 DEF ShapeInv, ClearFrames
    <3> QED
      BY <1>1, <1>3, <2>1, <3>2
  <2>3. ASSUME pc' = "clear", stack' # <<>> PROVE stack'[Len(stack')].k = "clear"
    <3>1. Len(stack) # 1
      BY <2>1, <2>3
    <3>2. Len(stack') \in DOMAIN stack' /\ Len(stack') + 1 = Len(stack)
      BY <1>3, <2>1, <3>1
    <3>3. stack'[Len(stack')] = stack[Len(stack)]
      BY <2>1, <3>2
    <3> QED
      BY <1>1, <2>3, <3>3 DEF ShapeInv, ClearFrames
  <2> QED
    BY <1>2, <2>2, <2>3 DEF ClearFrames
<1>5. CASE f.k \in {"destroy", "change"} /\ f.s \in Slots
           /\ \E k \in {"cleanup", "create"} : stack' = <<[f EXCEPT !.k = k]>> \o Tail(stack)
  <2>1. PICK k \in {"cleanup", "create"} : stack' = <<[f EXCEPT !.k = k]>> \o Tail(stack)
    BY <1>5
  <2>2. k \in Kinds \ {"code", "change"} /\ f.s \in Slots
    BY <1>5 DEF Kinds
  <2>3. /\ Len(stack') = Len(stack) /\ DOMAIN stack' = DOMAIN stack /\ stack'[1].k = k
        /\ \A i \in DOMAIN stack : i # 1 => stack'[i] = stack[i]
    BY <1>1, <2>1, <2>2, SwapType
  <2>4. ASSUME NEW i \in DOMAIN stack', stack'[i].k = "clear" PROVE pc' = "clear" /\ i = Len(stack')
    <3>1. i # 1
      BY <2>3, <2>4
    <3> QED
      BY <1>1, <2>3, <2>4, <3>1 DEF ShapeInv, ClearFrames
  <2>5. ASSUME pc' = "clear" PROVE stack'[Len(stack')].k = "clear"
    <3>1. stack[Len(stack)].k = "clear" /\ Len(stack) \in DOMAIN stack
      BY <1>1, <1>3, <2>5 DEF ShapeInv, ClearFrames
    <3>2. Len(stack) # 1
      BY <1>3, <1>5, <3>1
    <3> QED
      BY <2>3, <3>1, <3>2
  <2> QED
    BY <1>2, <2>4, <2>5 DEF ClearFrames
<1> QED
  BY <1>4, <1>5, Returns

LEMMA EmptyShape == ASSUME stack' = <<>> PROVE Waits' /\ ClearFrames'
BY DEF Waits, ClearFrames

LEMMA SameShape ==
  ASSUME Waits, ClearFrames, UNCHANGED <<stack, pc>>
  PROVE  Waits' /\ ClearFrames'
BY DEF Waits, ClearFrames

LEMMA StackShapeKept == ASSUME TypeInv, ShapeInv, [Next]_vars PROVE Waits' /\ ClearFrames'
<1>0. Waits /\ ClearFrames
  BY DEF ShapeInv
<1>1. ASSUME NEW o \in Objects, OpCreate(o) PROVE Waits' /\ ClearFrames'
  <2>1. Alloc \in Slots
    BY AllocType DEF TypeInv
  <2> QED
    BY <1>1, <2>1, PushShape DEF OpCreate, Acts, Kinds
<1>2. ASSUME NEW t \in Slots, OpDestroy(t) PROVE Waits' /\ ClearFrames'
  BY <1>2, PushShape DEF OpDestroy, Acts, Kinds
<1>3. ASSUME NEW o \in Objects, NEW perform \in BOOLEAN, OpChange(o, perform) PROVE Waits' /\ ClearFrames'
  <2>1. Self \in Slots /\ stack # <<>> /\ UNCHANGED pc
    BY <1>3, SelfSlot DEF OpChange, Acts
  <2>2. CASE perform
    BY <1>3, <2>1, <2>2, PushShape DEF OpChange, Kinds
  <2>3. CASE ~perform
    BY <1>0, <1>3, <2>1, <2>3, SameShape DEF OpChange
  <2> QED
    BY <2>2, <2>3
<1>4. ASSUME NEW t \in Slots, OpDeactivate(t) \/ OpActivate(t) PROVE Waits' /\ ClearFrames'
  BY <1>0, <1>4, SameShape DEF OpDeactivate, OpActivate
<1>5. CASE OpAlarm
  BY <1>0, <1>5, SameShape DEF OpAlarm
<1>6. ASSUME NEW r \in Rooms, OpRoom(r) PROVE Waits' /\ ClearFrames'
  BY <1>0, <1>6, SameShape DEF OpRoom
<1>7. CASE Return
  BY <1>7, ReturnShape
<1>8. CASE Dispatch
  <2>1. Recipient \in Slots
    BY <1>8, DueType, Dispatches DEF TypeInv
  <2>2. pc' = pc /\ pc \in StepPhases \cup {"leave", "birth", "start"} /\ stack = <<>> /\ Push("event", Recipient, 0)
    BY <1>8, Dispatches
  <2> QED
    BY <2>1, <2>2, FirstShape DEF StepPhases, Kinds
<1>9. CASE NextGroup
  BY <1>0, <1>9, SameShape DEF NextGroup
<1>10. CASE DrawOne
  <2>1. PICK i \in DOMAIN todo : Push("event", todo[i], 0)
    BY <1>10 DEF DrawOne
  <2>2. todo[i] \in Slots
    <3>1. todo \in Seq(Slots)
      BY DEF TypeInv, LoopType
    <3> QED
      BY <3>1, <2>1, LenProperties, ElementOfSeq
  <2>3. pc' = "draw" /\ stack = <<>>
    BY <1>10 DEF DrawOne
  <2> QED
    BY <2>1, <2>2, <2>3, FirstShape DEF Kinds
<1>11. CASE ClearOne
  <2>1. Least(Leaving) \in Slots
    BY <1>11, LeavingType DEF ClearOne
  <2>2. pc' = "clear" /\ stack = <<>> /\ Push("clear", Least(Leaving), 0)
    BY <1>11 DEF ClearOne
  <2> QED
    BY <2>1, <2>2, FirstShape DEF Kinds
<1>12. CASE CreationCode
  <2>1. pc' = "code" /\ stack = <<>> /\ Push("code", NoSlot, 0)
    BY <1>12 DEF CreationCode, LoopOver
  <2> QED
    BY <2>1, FirstShape DEF Kinds
<1>13. CASE PlaceOne
  BY <1>0, <1>13, SameShape DEF PlaceOne
<1>14. CASE Turn
  BY <1>0, <1>14, TurnDoes, EmptyShape
<1>15. CASE Reaping
  BY <1>15, EmptyShape DEF Reaping, EndStepEnds, RoomStartEnds, LoopOver
<1>16. CASE LeaveRoom
  BY <1>16, EmptyShape DEF LeaveRoom, LoopOver
<1>17. CASE EnterRoom
  BY <1>17, EmptyShape DEF EnterRoom
<1>18. CASE RestoreRoom
  BY <1>0, <1>18, EmptyShape DEF RestoreRoom, Waits
<1>19. CASE Still
  BY <1>0, <1>19, SameShape DEF Still, vars
<1> QED
  BY <1>1, <1>2, <1>3, <1>4, <1>5, <1>6, <1>7, <1>8, <1>9, <1>10, <1>11, <1>12, <1>13, <1>14, <1>15,
     <1>16, <1>17, <1>18, <1>19, Steps


\* Apart from the birth of an instance, a step at most ends some: who is left is who was there.
Births ==
  \E o \in Objects, id \in Nat, b \in BOOLEAN :
    /\ Create(Alloc, o, id, b, room)
    /\ b => id \in PlacedIds
    /\ ~b => id = nextId
    /\ Full => "overflow" \in Habits
    /\ b => pc = "place"
Survivors == \A t \in Slots : ~IsFree(t)' => ~IsFree(t) /\ SameName(t)
Extends == UNCHANGED count \/ (FinishStep /\ UNCHANGED pool)

LEMMA Surviving ==
  ASSUME NEW t, SameLife(t), SameName(t)
  PROVE  ~IsFree(t)' => ~IsFree(t) /\ SameName(t)
BY DEF SameLife, IsFree

LEMMA UnmovedSurvive ==
  ASSUME UNCHANGED pool
  PROVE  Survivors
BY Unmoved, Surviving DEF Survivors, SameAll

LEMMA ReturnSurvivors == ASSUME TypeInv, Return PROVE Survivors /\ UNCHANGED <<nextId, count>>
<1> DEFINE f == Head(stack)
<1>1. PoolType
  BY DEF TypeInv
<1>2. CASE f.k = "destroy"
  <2>1. CleanUp(f.s) /\ f.s \in Slots
    BY <1>2, Returns
  <2>2. \A t \in Slots : SameLife(t) /\ SameName(t)
    BY <1>1, <2>1, CleanUpDoes
  <2> QED
    BY <2>1, <2>2, Surviving DEF Survivors, CleanUp
<1>3. CASE f.k = "clear"
  <2>1. Dispose(f.s) /\ f.s \in Slots
    BY <1>3, Returns
  <2>2. \A t \in Slots : (t = f.s => IsFree(t)') /\ (t # f.s => SameAll(t))
    BY <1>1, <2>1, DisposeDoes
  <2> QED
    BY <2>1, <2>2, Surviving DEF Survivors, Dispose, SameAll
<1>4. CASE f.k = "change"
  <2>1. ChangeEnd(f.s, f.to) /\ f.s \in Slots /\ f.to \in Objects
    BY <1>4, Returns
  <2>2. CASE Running(f.s)
    <3>1. pool' = [pool EXCEPT ![f.s].obj = f.to]
      BY <2>1, <2>2 DEF ChangeEnd
    <3>2. \A t \in Slots : SameLife(t) /\ SameName(t)
      BY <1>1, <2>1, <3>1, BecomeDoes
    <3> QED
      BY <2>1, <3>2, Surviving DEF Survivors, ChangeEnd
  <2>3. CASE ~Running(f.s)
    BY <2>1, <2>3, UnmovedSurvive DEF ChangeEnd
  <2> QED
    BY <2>2, <2>3
<1>5. CASE f.k \notin {"destroy", "clear", "change"}
  BY <1>5, Returns, UnmovedSurvive DEF poolVars
<1> QED
  BY <1>2, <1>3, <1>4, <1>5

LEMMA Fates ==
  ASSUME TypeInv, Waits, [Next]_vars
  PROVE  Births \/ (Survivors /\ Extends /\ UNCHANGED nextId)
<1>0. PoolType /\ BookType
  BY DEF TypeInv
<1>1. ASSUME NEW o \in Objects, OpCreate(o) PROVE Births
  <2>1. Create(Alloc, o, nextId, FALSE, room) /\ (Full => "overflow" \in Habits) /\ nextId \in Nat
    BY <1>0, <1>1 DEF OpCreate, May, BookType
  <2>2. FALSE \in BOOLEAN
    OBVIOUS
  <2> QED
    BY <2>1, <2>2 DEF Births
<1>2. ASSUME NEW t \in Slots, OpDestroy(t) PROVE Survivors /\ Extends /\ UNCHANGED nextId
  <2>1. Mark(t)
    BY <1>2 DEF OpDestroy
  <2>2. \A u \in Slots : SameLife(u) /\ SameName(u)
    BY <1>0, <2>1, MarkDoes
  <2> QED
    BY <2>1, <2>2, Surviving DEF Survivors, Extends, Mark
<1>3. ASSUME NEW o \in Objects, NEW perform \in BOOLEAN, OpChange(o, perform)
      PROVE  Survivors /\ Extends /\ UNCHANGED nextId
  <2>1. Self \in Slots
    BY <1>3, SelfSlot DEF OpChange, Acts
  <2>2. CASE perform
    BY <1>3, <2>2, UnmovedSurvive DEF OpChange, ChangeBegin, Extends
  <2>3. CASE ~perform
    <3>1. pool' = [pool EXCEPT ![Self].obj = o] /\ UNCHANGED <<count, nextId>>
      BY <1>3, <2>3 DEF OpChange, ChangeQuietly
    <3>2. \A t \in Slots : SameLife(t) /\ SameName(t)
      BY <1>0, <2>1, <3>1, BecomeDoes
    <3> QED
      BY <3>1, <3>2, Surviving DEF Survivors, Extends
  <2> QED
    BY <2>2, <2>3
<1>4. ASSUME NEW t \in Slots, OpDeactivate(t) \/ OpActivate(t)
      PROVE  Survivors /\ Extends /\ UNCHANGED nextId
  <2>1. PICK st \in {"live", "off"} : SetActive(t, st) /\ ~IsFree(t)
    BY <1>4 DEF OpDeactivate, OpActivate, Running, IsFree
  <2>2. \A u \in Slots : SameName(u) /\ (u # t => SameAll(u))
    BY <1>0, <2>1, SetActiveDoes
  <2> QED
    BY <2>1, <2>2, Surviving DEF Survivors, Extends, SetActive, SameAll
<1>5. CASE OpAlarm
  <2>1. Self \in Slots /\ SetAlarm(Self, TRUE)
    BY <1>5, SelfSlot DEF OpAlarm, Acts
  <2>2. \A t \in Slots : SameLife(t) /\ SameName(t)
    BY <1>0, <2>1, SetAlarmDoes
  <2> QED
    BY <2>1, <2>2, Surviving DEF Survivors, Extends, SetAlarm
<1>6. ASSUME UNCHANGED <<pool, count, nextId>> PROVE Survivors /\ Extends /\ UNCHANGED nextId
  BY <1>6, UnmovedSurvive DEF Extends
<1>7. ASSUME NEW r \in Rooms, OpRoom(r) PROVE UNCHANGED <<pool, count, nextId>>
  BY <1>7 DEF OpRoom, poolVars
<1>8. CASE Return
  BY <1>8, ReturnSurvivors DEF Extends
<1>9. CASE Dispatch
  <2>1. CASE pc = "alarm"
    <3>1. Recipient \in Slots /\ SetAlarm(Recipient, FALSE)
      BY <1>9, <2>1, DueType, Dispatches DEF TypeInv
    <3>2. \A t \in Slots : SameLife(t) /\ SameName(t)
      BY <1>0, <3>1, SetAlarmDoes
    <3> QED
      BY <3>1, <3>2, Surviving DEF Survivors, Extends, SetAlarm
  <2>2. CASE pc # "alarm"
    BY <1>6, <1>9, <2>2, Dispatches DEF poolVars
  <2> QED
    BY <2>1, <2>2
<1>10. CASE NextGroup \/ DrawOne \/ CreationCode \/ Still
  BY <1>6, <1>10 DEF NextGroup, DrawOne, CreationCode, Still, vars, poolVars
<1>11. CASE ClearOne
  <2>1. Least(Leaving) \in Slots /\ CleanUp(Least(Leaving))
    BY <1>11, LeavingType DEF ClearOne
  <2>2. \A t \in Slots : SameLife(t) /\ SameName(t)
    BY <1>0, <2>1, CleanUpDoes
  <2> QED
    BY <2>1, <2>2, Surviving DEF Survivors, Extends, CleanUp
<1>12. CASE PlaceOne
  <2> DEFINE p == Placed[room][at + 1]
  <2>1. p.obj \in Objects /\ p.id \in Nat /\ p.id \in PlacedIds /\ Create(Alloc, p.obj, p.id, TRUE, room)
        /\ (Full => "overflow" \in Habits) /\ pc = "place" /\ TRUE \in BOOLEAN
    BY <1>12, Places
  <2> QED
    BY <2>1 DEF Births
<1>13. CASE Turn
  <2>1. UNCHANGED <<pool, nextId>>
    BY <1>13, TurnDoes
  <2>2. Extends
    <3>1. CASE EndFrame \/ EndMovedFrame
      BY <2>1, <3>1 DEF EndFrame, EndMovedFrame, Extends
    <3>2. CASE ~(EndFrame \/ EndMovedFrame)
      BY <1>13, <3>2 DEF Turn, Extends, StartFrame, PhaseEnds, DrawEnds, CommitRequest, CannotStore, PlacesEnd,
                        CreationCodeEnds, MoveAgain, ResumeFrame, StartMove, poolVars
    <3> QED
      BY <3>1, <3>2
  <2> QED
    BY <2>1, <2>2, UnmovedSurvive
<1>14. CASE Reaping
  <2>1. Reap \/ ReapAndRebase
    BY <1>14 DEF Reaping, EndStepEnds, RoomStartEnds
  <2>2. \A t \in Slots : IsFree(t)' \/ SameAll(t)
    BY <1>0, <2>1, ReapDoes
  <2> QED
    BY <2>1, <2>2, Surviving DEF Survivors, Extends, Reap, ReapAndRebase, SameAll
<1>15. CASE LeaveRoom
  <2>1. CASE PutToSleep(room)
    <3>1. \A t \in Slots : SameName(t) /\ (SameAll(t) \/ t \in Sleepers(room))
      BY <1>0, <2>1, SleepDoes
    <3>2. \A t \in Sleepers(room) : ~IsFree(t)
      BY DEF Sleepers, Exists, IsFree
    <3> QED
      BY <2>1, <3>1, <3>2, Surviving DEF Survivors, Extends, PutToSleep, SameAll
  <2>2. CASE UNCHANGED poolVars
    BY <1>6, <2>2 DEF poolVars
  <2> QED
    BY <1>15, <2>1, <2>2 DEF LeaveRoom
<1>16. CASE EnterRoom
  <2>1. Adopt(target)
    BY <1>16 DEF EnterRoom
  <2>2. \A t \in Slots : SameLife(t) /\ SameName(t)
    BY <1>0, <2>1, AdoptDoes
  <2> QED
    BY <2>1, <2>2, Surviving DEF Survivors, Extends, Adopt
<1>17. CASE RestoreRoom
  <2>1. WakeUp(room)
    BY <1>17 DEF RestoreRoom
  <2>2. \A t \in Slots : SameName(t) /\ (SameAll(t) \/ t \in Woken(room))
    BY <1>0, <2>1, WakeDoes
  <2>3. \A t \in Woken(room) : ~IsFree(t)
    BY DEF Woken, IsFree
  <2> QED
    BY <2>1, <2>2, <2>3, Surviving DEF Survivors, Extends, WakeUp, SameAll
<1> QED
  BY <1>1, <1>2, <1>3, <1>4, <1>5, <1>6, <1>7, <1>8, <1>9, <1>10, <1>11, <1>12, <1>13, <1>14, <1>15,
     <1>16, <1>17, Steps

\* Where a new instance goes.
LEMMA AllocWhere ==
  ASSUME BookType
  PROVE  \/ Full
         \/ Recycles /\ IsFree(Alloc) /\ Alloc < count /\ (InStep => \E i \in DOMAIN holes : Alloc = holes[i])
         \/ ~Recycles /\ count < Cap /\ Alloc = count
<1>1. count \in 0..Cap /\ holes \in Seq(Slots) /\ DOMAIN holes = 1..Len(holes) /\ Len(holes) \in Nat
  BY LenProperties DEF BookType
<1>2. CASE Recycles /\ InStep
  <2>1. UsableHoles # {} /\ UsableHoles \subseteq Nat
    BY <1>1, <1>2 DEF Recycles, UsableHoles
  <2>2. Least(UsableHoles) \in UsableHoles
    BY <2>1, LeastOf
  <2>3. Alloc = holes[Least(UsableHoles)]
    BY <1>2 DEF Alloc
  <2> QED
    BY <1>2, <2>2, <2>3 DEF UsableHoles
<1>3. CASE Recycles /\ ~InStep
  <2>1. FreeBelow # {} /\ FreeBelow \subseteq Nat
    BY <1>1, <1>3 DEF Recycles, FreeBelow
  <2>2. Least(FreeBelow) \in FreeBelow
    BY <2>1, LeastOf
  <2>3. Alloc = Least(FreeBelow)
    BY <1>3 DEF Alloc
  <2> QED
    BY <1>1, <1>3, <2>2, <2>3 DEF FreeBelow
<1>4. CASE ~Recycles /\ count < Cap
  BY <1>4 DEF Alloc
<1>5. CASE ~Recycles /\ ~(count < Cap)
  BY <1>1, <1>5, Numbers DEF Full
<1> QED
  BY <1>2, <1>3, <1>4, <1>5

LEMMA BeyondKept == ASSUME TypeInv, ShapeInv, [Next]_vars PROVE Beyond'
<1>0. PoolType /\ BookType /\ Waits /\ Beyond /\ count \in 0..Cap /\ Slots \subseteq Nat
  BY Numbers DEF TypeInv, ShapeInv, BookType
<1>1. CASE Births
  <2>1. PICK o \in Objects, id \in Nat, b \in BOOLEAN : Create(Alloc, o, id, b, room)
    BY <1>1 DEF Births
  <2>2. room \in Rooms
    BY DEF TypeInv, FlowType
  <2>3. /\ Alloc \in Slots /\ \A t \in Slots : t # Alloc => SameAll(t)
        /\ count' = (IF Recycles \/ count >= Cap THEN count ELSE count + 1)
    BY <1>0, <2>1, <2>2, CreateDoes
  <2>4. count <= count' /\ Alloc < count'
    <3>1. CASE Full
      <4>1. Alloc = Cap - 1 /\ count = Cap /\ count' = count
        BY <1>0, <2>3, <3>1, Numbers DEF Full, Alloc
      <4> QED
        BY <1>0, <4>1, Numbers
    <3>2. CASE ~Full
      BY <1>0, <2>3, <3>2, AllocWhere, Numbers
    <3> QED
      BY <3>1, <3>2
  <2>5. ASSUME NEW s \in Slots, s >= count' PROVE IsFree(s)'
    <3>1. count' \in Nat /\ Alloc \in Nat /\ s \in Nat
      BY <1>0, <2>3
    <3>2. s # Alloc /\ s >= count
      BY <1>0, <2>4, <2>5, <3>1
    <3>3. SameAll(s) /\ IsFree(s)
      BY <1>0, <2>3, <3>2 DEF Beyond
    <3> QED
      BY <3>3 DEF SameAll, SameLife, IsFree
  <2> QED
    BY <2>5 DEF Beyond
<1>2. CASE Survivors /\ UNCHANGED count
  BY <1>0, <1>2 DEF Survivors, Beyond
<1>3. CASE FinishStep /\ UNCHANGED pool
  <2>1. count' = Trimmed /\ \A s \in Slots : IsFree(s)' <=> IsFree(s)
    BY <1>3 DEF FinishStep, IsFree
  <2>2. ASSUME NEW s \in Slots, s >= Trimmed PROVE IsFree(s)
    <3>1. s >= count => IsFree(s)
      BY <1>0 DEF Beyond
    <3>2. s < count /\ ~IsFree(s) => s < Trimmed
      BY <1>0, TrimmedType
    <3>3. s \in Nat /\ Trimmed \in Nat
      BY <1>0, TrimmedType
    <3> QED
      BY <1>0, <2>2, <3>1, <3>2, <3>3
  <2> QED
    BY <2>1, <2>2 DEF Beyond
<1> QED
  BY <1>0, <1>1, <1>2, <1>3, Fates DEF Extends


LEMMA StepBooksKept == ASSUME TypeInv, ShapeInv, [Next]_vars PROVE StepBooks'
<1>0. PoolType /\ BookType /\ Waits /\ StepBooks /\ count \in Nat /\ base \in Nat
  BY DEF TypeInv, ShapeInv, BookType
<1>1. ASSUME UNCHANGED <<pc, stepping, base>>, count <= count', count' \in Nat PROVE StepBooks'
  BY <1>0, <1>1 DEF StepBooks
<1>2. ASSUME UNCHANGED <<pc, stepping, base, count>> PROVE StepBooks'
  BY <1>0, <1>1, <1>2
<1>3. ASSUME NEW o \in Objects, NEW id \in Nat, NEW b \in BOOLEAN, Create(Alloc, o, id, b, room), UNCHANGED pc
      PROVE  StepBooks'
  <2>1. UNCHANGED <<stepping, base>> /\ count' = (IF Recycles \/ count >= Cap THEN count ELSE count + 1)
    BY <1>3 DEF Create
  <2> QED
    BY <1>0, <1>1, <1>3, <2>1
<1>4. ASSUME NEW o \in Objects, OpCreate(o) PROVE StepBooks'
  <2>1. nextId \in Nat /\ FALSE \in BOOLEAN
    BY <1>0 DEF BookType
  <2> QED
    BY <1>3, <1>4, <2>1 DEF OpCreate
<1>5. ASSUME NEW t \in Slots, OpDestroy(t) PROVE StepBooks'
  BY <1>2, <1>5 DEF OpDestroy, Mark
<1>6. ASSUME NEW o \in Objects, NEW perform \in BOOLEAN, OpChange(o, perform) PROVE StepBooks'
  BY <1>2, <1>6 DEF OpChange, ChangeBegin, ChangeQuietly
<1>7. ASSUME NEW t \in Slots, OpDeactivate(t) \/ OpActivate(t) PROVE StepBooks'
  BY <1>2, <1>7 DEF OpDeactivate, OpActivate, SetActive
<1>8. CASE OpAlarm
  BY <1>2, <1>8 DEF OpAlarm, SetAlarm
<1>9. ASSUME NEW r \in Rooms, OpRoom(r) PROVE StepBooks'
  BY <1>2, <1>9 DEF OpRoom, poolVars
<1>10. CASE Return
  BY <1>2, <1>10 DEF Return, CleanUp, Dispose, ChangeEnd, poolVars
<1>11. CASE Dispatch \/ NextGroup \/ DrawOne \/ ClearOne \/ Still
  BY <1>2, <1>11 DEF Dispatch, SetAlarm, NextGroup, DrawOne, ClearOne, CleanUp, Still, vars, poolVars
<1>12. CASE CreationCode
  BY <1>0, <1>12 DEF CreationCode, StepBooks, poolVars, StepPhases
<1>13. CASE PlaceOne
  <2>1. Placed[room][at + 1].obj \in Objects /\ Placed[room][at + 1].id \in Nat /\ TRUE \in BOOLEAN
    BY <1>13, Places
  <2> QED
    BY <1>3, <1>13, <2>1 DEF PlaceOne
<1>14. CASE StartFrame \/ ResumeFrame
  <2>1. count' = count /\ base' = count /\ stepping' = TRUE /\ pc' \in StepPhases
    <3>1. CASE StartFrame
      BY <3>1 DEF StartFrame, TakeSnapshot, EnterPhase, StepPhases
    <3>2. CASE ResumeFrame
      <4>1. after \in {"timeline", "alarm"}
        BY <3>2 DEF ResumeFrame, TypeInv, MoveType
      <4> QED
        BY <1>0, <3>2, <4>1 DEF ResumeFrame, Moved, TakeSnapshot, EnterPhase, StepPhases, StepBooks, TypeInv, BookType
    <3> QED
      BY <1>14, <3>1, <3>2
  <2> QED
    BY <1>0, <2>1 DEF StepBooks
<1>15. CASE EndFrame \/ EndMovedFrame
  <2>1. pc' = "draw" /\ base' = 0 /\ count' = Trimmed
    BY <1>15 DEF EndFrame, EndMovedFrame, FinishStep
  <2>2. Trimmed \in Nat
    BY <1>0, TrimmedType
  <2> QED
    BY <2>1, <2>2 DEF StepBooks
<1>16. CASE CommitRequest \/ MoveAgain
  <2>1. base' = 0 /\ pc' = "leave" /\ UNCHANGED <<count, stepping>>
    BY <1>16 DEF CommitRequest, MoveAgain, StartMove, EnterPhase
  <2>2. stepping
    BY <1>0, <1>16 DEF CommitRequest, MoveAgain, StepBooks, StepPhases
  <2> QED
    BY <1>0, <2>1, <2>2 DEF StepBooks
<1>17. CASE PhaseEnds \/ EndStepEnds
  <2>1. UNCHANGED <<count, stepping, base>> /\ pc \in StepPhases /\ pc' \in StepPhases \cup {"reap"}
    BY <1>17 DEF PhaseEnds, EndStepEnds, EnterPhase, Reap, poolVars, StepPhases
  <2>2. stepping
    BY <1>0, <2>1 DEF StepBooks, StepPhases
  <2> QED
    BY <1>0, <2>1, <2>2 DEF StepBooks
<1>18. CASE DrawEnds \/ CannotStore \/ PlacesEnd \/ CreationCodeEnds \/ LeaveRoom \/ EnterRoom \/ RestoreRoom
            \/ RoomStartEnds
  <2>1. UNCHANGED <<count, stepping, base>>
    BY <1>18 DEF DrawEnds, CannotStore, PlacesEnd, CreationCodeEnds, LeaveRoom, EnterRoom, RestoreRoom,
                 RoomStartEnds, poolVars, PutToSleep, Adopt, WakeUp, ReapAndRebase
  <2>2. pc \in {"draw"} \cup RoomPhases /\ (pc = "draw" => pc' = "idle")
    BY <1>18 DEF DrawEnds, CannotStore, PlacesEnd, CreationCodeEnds, LeaveRoom, EnterRoom, RestoreRoom,
                 RoomStartEnds, RoomPhases
  <2>3. ~(base > 0) /\ (pc # "draw" => stepping)
    BY <1>0, <2>2 DEF StepBooks, StepPhases, RoomPhases
  <2> QED
    BY <1>0, <2>1, <2>2, <2>3 DEF StepBooks
<1> QED
  BY <1>4, <1>5, <1>6, <1>7, <1>8, <1>9, <1>10, <1>11, <1>12, <1>13, <1>14, <1>15, <1>16, <1>17, <1>18,
     Steps DEF Turn, Reaping

LEMMA ShapeKept == ASSUME TypeInv, ShapeInv, [Next]_vars PROVE ShapeInv'
BY StackShapeKept, BeyondKept, StepBooksKept DEF ShapeInv

LEMMA ShapeInit == ASSUME Init PROVE ShapeInv
<1>1. stack = <<>> /\ base = 0 /\ pc = "idle"
  BY DEF Init
<1>2. Waits /\ ClearFrames
  BY <1>1 DEF Waits, ClearFrames
<1>0. PICK gone \in SUBSET (1..Len(Placed[room])) : Opening(gone)
  BY FirstRoom
<1>3. /\ room \in Rooms /\ count = Len(Placed[room])
      /\ \A s \in Slots : s + 1 \notin (1..Len(Placed[room])) \ gone => pool[s] = Free
  BY <1>0 DEF Opening
<1>4. Beyond
  <2> SUFFICES ASSUME NEW s \in Slots, s >= count PROVE IsFree(s)
    BY DEF Beyond
  <2>1. count \in Nat /\ s \in Nat
    BY <1>3, PlacedType, Numbers
  <2>2. s + 1 \notin (1..Len(Placed[room])) \ gone
    BY <1>3, <2>1
  <2> QED
    BY <1>3, <2>2, FreeIs DEF IsFree
<1>5. StepBooks
  <2>1. 0 <= count
    BY <1>3, PlacedType
  <2> QED
    BY <1>1, <2>1 DEF StepBooks
<1> QED
  BY <1>2, <1>4, <1>5 DEF ShapeInv

LEMMA ShapeAlways == Spec => [](TypeInv /\ ShapeInv)
<1>1. Init => TypeInv /\ ShapeInv
  BY InitType, ShapeInit
<1>2. TypeInv /\ ShapeInv /\ [Next]_vars => TypeInv' /\ ShapeInv'
  BY StepType, ShapeKept
<1> QED
  BY <1>1, <1>2, PTL DEF Spec

-----------------------------------------------------------------------------
(* Identity.                                                               *)

\* Ids below the counter; a dynamic id is its instance's own, and no room places it.
IdInv ==
  /\ \A j \in PlacedIds : j < nextId
  /\ \A s \in Slots : ~IsFree(s) => /\ pool[s].id < nextId
                                    /\ pool[s].placed <=> pool[s].id \in PlacedIds
  /\ \A s, t \in Slots : s # t /\ ~IsFree(s) /\ ~IsFree(t) /\ pool[s].id = pool[t].id
                           => pool[s].placed /\ pool[t].placed

LEMMA IdInit == ASSUME Init PROVE IdInv
<1>1. \A j \in PlacedIds : j \in Nat \ {0} /\ j < nextId
  BY FirstFreeId DEF Init
<1>0. PICK gone \in SUBSET (1..Len(Placed[room])) : Opening(gone)
  BY FirstRoom
<1> DEFINE here == (1..Len(Placed[room])) \ gone
<1>2. /\ room \in Rooms
      /\ \A s \in Slots : /\ s + 1 \in here => pool[s].placed /\ pool[s].id = Placed[room][s + 1].id
                          /\ s + 1 \notin here => pool[s] = Free
  BY <1>0 DEF Opening
<1>3. \A s \in Slots : ~IsFree(s) => pool[s].placed /\ pool[s].id \in PlacedIds
  <2> SUFFICES ASSUME NEW s \in Slots, ~IsFree(s) PROVE pool[s].placed /\ pool[s].id \in PlacedIds
    OBVIOUS
  <2>1. s + 1 \in (1..Len(Placed[room])) \ gone
    BY <1>2, FreeIs DEF IsFree
  <2>2. s + 1 \in DOMAIN Placed[room]
    BY <1>2, <2>1, PlacedType
  <2> QED
    BY <1>2, <2>1, <2>2, PlacedType
<1> QED
  BY <1>1, <1>3 DEF IdInv

LEMMA IdKept == ASSUME TypeInv, ShapeInv, IdInv, [Next]_vars PROVE IdInv'
<1>0. PoolType /\ BookType /\ Waits /\ nextId \in Nat /\ room \in Rooms
  BY DEF TypeInv, ShapeInv, BookType, FlowType
<1>1. CASE Births
  <2>1. PICK o \in Objects, id \in Nat, b \in BOOLEAN :
          Create(Alloc, o, id, b, room) /\ (b => id \in PlacedIds) /\ (~b => id = nextId)
    BY <1>1 DEF Births
  <2> DEFINE a == Alloc
  <2>2. /\ a \in Slots /\ \A t \in Slots : t # a => SameAll(t)
        /\ pool'[a].id = id /\ (pool'[a].placed <=> b) /\ nextId' = IdAfter(b)
    BY <1>0, <2>1, CreateDoes
  <2> HIDE DEF a
  <2>3. nextId' \in Nat /\ nextId <= nextId' /\ (~b => nextId' = nextId + 1)
    BY <1>0, <2>2 DEF IdAfter
  <2>4. \A t \in Slots : t # a => /\ (IsFree(t)' <=> IsFree(t)) /\ pool'[t].id = pool[t].id
                                  /\ (pool'[t].placed <=> pool[t].placed) /\ pool[t].id \in Nat
    BY <1>0, <2>2 DEF SameAll, SameLife, SameName, IsFree, PoolType, Inst
  <2>5. \A j \in PlacedIds : j \in Nat /\ j < nextId'
    <3> TAKE j \in PlacedIds
    <3>1. j \in Nat
      BY PlacedType DEF PlacedIds
    <3> QED
      BY <1>0, <2>3, <3>1 DEF IdInv
  <2>6. pool'[a].id < nextId' /\ (pool'[a].placed <=> pool'[a].id \in PlacedIds)
    <3>1. CASE b
      BY <2>1, <2>2, <2>5, <3>1
    <3>2. CASE ~b
      <4>1. id \notin PlacedIds
        BY <1>0, <2>1, <3>2 DEF IdInv
      <4> QED
        BY <1>0, <2>1, <2>2, <2>3, <3>2, <4>1
    <3> QED
      BY <3>1, <3>2
  <2>7. \A t \in Slots : t # a /\ ~IsFree(t)' => /\ pool'[t].id < nextId'
                                                 /\ pool'[t].placed <=> pool'[t].id \in PlacedIds
    BY <1>0, <2>3, <2>4 DEF IdInv
  <2>8. \A t \in Slots : t # a /\ ~IsFree(t)' /\ pool'[t].id = pool'[a].id => pool'[a].placed /\ pool'[t].placed
    <3>1. CASE b
      BY <2>1, <2>2, <2>7, <3>1
    <3>2. CASE ~b
      BY <1>0, <2>1, <2>2, <2>4, <3>2 DEF IdInv
    <3> QED
      BY <3>1, <3>2
  <2>9. ASSUME NEW s \in Slots, NEW t \in Slots, s # t, ~IsFree(s)', ~IsFree(t)', pool'[s].id = pool'[t].id
        PROVE  pool'[s].placed /\ pool'[t].placed
    <3>1. CASE s # a /\ t # a
      BY <2>4, <2>9, <3>1 DEF IdInv
    <3>2. CASE s = a \/ t = a
      BY <2>8, <2>9, <3>2
    <3> QED
      BY <3>1, <3>2
  <2> QED
    BY <2>5, <2>6, <2>7, <2>9 DEF IdInv
<1>2. CASE Survivors /\ UNCHANGED nextId
  <2>1. \A t \in Slots : ~IsFree(t)' => /\ ~IsFree(t) /\ pool'[t].id = pool[t].id
                                        /\ (pool'[t].placed <=> pool[t].placed)
    BY <1>2 DEF Survivors, SameName
  <2>2. ASSUME NEW s \in Slots, ~IsFree(s)'
        PROVE  pool'[s].id < nextId' /\ (pool'[s].placed <=> pool'[s].id \in PlacedIds)
    BY <1>2, <2>1, <2>2 DEF IdInv
  <2>3. ASSUME NEW s \in Slots, NEW t \in Slots, s # t, ~IsFree(s)', ~IsFree(t)', pool'[s].id = pool'[t].id
        PROVE  pool'[s].placed /\ pool'[t].placed
    BY <2>1, <2>3 DEF IdInv
  <2>4. \A j \in PlacedIds : j < nextId'
    BY <1>2 DEF IdInv
  <2> QED
    BY <2>2, <2>3, <2>4 DEF IdInv
<1> QED
  BY <1>0, <1>1, <1>2, Fates


\* Instances end in two places only: the reap, and the disposal of a room that is cleared.
LEMMA Ends ==
  ASSUME TypeInv, ShapeInv, [Next]_vars, NEW t \in Slots, ~IsFree(t), IsFree(t)'
  PROVE  \/ Reaping /\ t \in Doomed
         \/ Return /\ Head(stack).k = "clear" /\ t = Head(stack).s
<1>0. PoolType /\ BookType /\ Waits /\ room \in Rooms
  BY DEF TypeInv, ShapeInv, FlowType
<1>1. ASSUME SameLife(t) PROVE FALSE
  BY <1>1 DEF SameLife, IsFree
<1>2. ASSUME UNCHANGED pool PROVE FALSE
  BY <1>2 DEF IsFree
<1>3. ASSUME Births PROVE FALSE
  <2>1. PICK o \in Objects, id \in Nat, b \in BOOLEAN : Create(Alloc, o, id, b, room)
    BY <1>3 DEF Births
  <2>2. pool'[Alloc].st = "live" /\ \A u \in Slots : u # Alloc => SameAll(u)
    BY <1>0, <2>1, CreateDoes
  <2>3. t # Alloc
    BY <2>2 DEF IsFree
  <2> QED
    BY <1>1, <2>2, <2>3 DEF SameAll
<1>4. ASSUME NEW o \in Objects, OpCreate(o) PROVE FALSE
  <2>1. Births
    BY <1>0, <1>4 DEF OpCreate, Births, May, BookType
  <2> QED
    BY <1>3, <2>1
<1>5. ASSUME NEW u \in Slots, OpDestroy(u) PROVE FALSE
  BY <1>0, <1>1, <1>5, MarkDoes DEF OpDestroy
<1>6. ASSUME NEW o \in Objects, NEW perform \in BOOLEAN, OpChange(o, perform) PROVE FALSE
  <2>1. Self \in Slots
    BY <1>6, SelfSlot DEF OpChange, Acts
  <2>2. CASE perform
    BY <1>2, <1>6, <2>2 DEF OpChange, ChangeBegin
  <2>3. CASE ~perform
    <3>1. pool' = [pool EXCEPT ![Self].obj = o]
      BY <1>6, <2>3 DEF OpChange, ChangeQuietly
    <3> QED
      BY <1>0, <1>1, <2>1, <3>1, BecomeDoes
  <2> QED
    BY <2>2, <2>3
<1>7. ASSUME NEW u \in Slots, OpDeactivate(u) \/ OpActivate(u) PROVE FALSE
  <2>1. PICK st \in {"live", "off"} : SetActive(u, st)
    BY <1>7 DEF OpDeactivate, OpActivate
  <2>2. pool'[u].st = st /\ \A v \in Slots : v # u => SameAll(v)
    BY <1>0, <2>1, SetActiveDoes
  <2>3. t # u
    BY <2>2 DEF IsFree
  <2> QED
    BY <1>1, <2>2, <2>3 DEF SameAll
<1>8. CASE OpAlarm
  <2>1. Self \in Slots /\ SetAlarm(Self, TRUE)
    BY <1>8, SelfSlot DEF OpAlarm, Acts
  <2> QED
    BY <1>0, <1>1, <2>1, SetAlarmDoes
<1>9. ASSUME NEW r \in Rooms, OpRoom(r) PROVE FALSE
  BY <1>2, <1>9 DEF OpRoom, poolVars
<1>10. CASE Return
  <2> DEFINE f == Head(stack)
  <2>1. CASE f.k = "destroy"
    <3>1. CleanUp(f.s) /\ f.s \in Slots
      BY <1>10, <2>1, Returns
    <3> QED
      BY <1>0, <1>1, <3>1, CleanUpDoes
  <2>2. CASE f.k = "clear"
    <3>1. Dispose(f.s) /\ f.s \in Slots
      BY <1>10, <2>2, Returns
    <3>2. \A u \in Slots : u # f.s => SameAll(u)
      BY <1>0, <3>1, DisposeDoes
    <3> QED
      BY <1>1, <1>10, <2>2, <3>2 DEF SameAll
  <2>3. CASE f.k = "change"
    <3>1. ChangeEnd(f.s, f.to) /\ f.s \in Slots /\ f.to \in Objects
      BY <1>10, <2>3, Returns
    <3>2. CASE Running(f.s)
      <4>1. pool' = [pool EXCEPT ![f.s].obj = f.to]
        BY <3>1, <3>2 DEF ChangeEnd
      <4> QED
        BY <1>0, <1>1, <3>1, <4>1, BecomeDoes
    <3>3. CASE ~Running(f.s)
      BY <1>2, <3>1, <3>3 DEF ChangeEnd
    <3> QED
      BY <3>2, <3>3
  <2>4. CASE f.k \notin {"destroy", "clear", "change"}
    BY <1>2, <1>10, <2>4, Returns DEF poolVars
  <2> QED
    BY <2>1, <2>2, <2>3, <2>4
<1>11. CASE Dispatch
  <2>1. CASE pc = "alarm"
    <3>1. Recipient \in Slots /\ SetAlarm(Recipient, FALSE)
      BY <1>11, <2>1, DueType, Dispatches DEF TypeInv
    <3> QED
      BY <1>0, <1>1, <3>1, SetAlarmDoes
  <2>2. CASE pc # "alarm"
    BY <1>2, <1>11, <2>2, Dispatches DEF poolVars
  <2> QED
    BY <2>1, <2>2
<1>12. CASE NextGroup \/ DrawOne \/ CreationCode \/ Still
  BY <1>2, <1>12 DEF NextGroup, DrawOne, CreationCode, Still, vars, poolVars
<1>13. CASE ClearOne
  <2>1. Least(Leaving) \in Slots /\ CleanUp(Least(Leaving))
    BY <1>13, LeavingType DEF ClearOne
  <2> QED
    BY <1>0, <1>1, <2>1, CleanUpDoes
<1>14. CASE PlaceOne
  <2> DEFINE p == Placed[room][at + 1]
  <2>1. p.obj \in Objects /\ p.id \in Nat /\ p.id \in PlacedIds /\ Create(Alloc, p.obj, p.id, TRUE, room)
        /\ (Full => "overflow" \in Habits) /\ pc = "place" /\ TRUE \in BOOLEAN
    BY <1>14, Places
  <2>2. Births
    BY <2>1 DEF Births
  <2> QED
    BY <1>3, <2>2
<1>15. CASE Turn
  BY <1>0, <1>2, <1>15, TurnDoes
<1>16. CASE Reaping
  <2>1. Reap \/ ReapAndRebase
    BY <1>16 DEF Reaping, EndStepEnds, RoomStartEnds
  <2>2. t \notin Doomed => SameAll(t)
    BY <1>0, <2>1, ReapDoes
  <2> QED
    BY <1>1, <1>16, <2>2 DEF SameAll
<1>17. CASE LeaveRoom
  <2>1. CASE PutToSleep(room)
    <3>1. (t \in Sleepers(room) => pool'[t].st = "dormant") /\ (t \notin Sleepers(room) => SameAll(t))
      BY <1>0, <2>1, SleepDoes
    <3> QED
      BY <1>1, <3>1 DEF SameAll, IsFree
  <2>2. CASE UNCHANGED poolVars
    BY <1>2, <2>2 DEF poolVars
  <2> QED
    BY <1>17, <2>1, <2>2 DEF LeaveRoom
<1>18. CASE EnterRoom
  BY <1>0, <1>1, <1>18, AdoptDoes DEF EnterRoom
<1>19. CASE RestoreRoom
  <2>1. WakeUp(room)
    BY <1>19 DEF RestoreRoom
  <2>2. /\ t \in Woken(room) => pool'[t].st = IF pool[t].wasOff THEN "off" ELSE "live"
        /\ t \notin Woken(room) => SameAll(t)
    BY <1>0, <2>1, WakeDoes
  <2>3. t \notin Woken(room)
    BY <2>2 DEF IsFree
  <2> QED
    BY <1>1, <2>2, <2>3 DEF SameAll
<1> QED
  BY <1>4, <1>5, <1>6, <1>7, <1>8, <1>9, <1>10, <1>11, <1>12, <1>13, <1>14, <1>15, <1>16, <1>17, <1>18,
     <1>19, Steps

\* Unless the pool overflows, a new instance never takes the place of another.
LEMMA AllocFree ==
  ASSUME BookType, Beyond, ~Full
  PROVE  Alloc \in Slots /\ IsFree(Alloc)
<1>1. Alloc \in Slots
  BY AllocType
<1>2. CASE Alloc = count
  BY <1>1, <1>2, Numbers DEF Beyond, BookType
<1> QED
  BY <1>1, <1>2, AllocWhere

NoOverflow == "overflow" \notin Habits

LEMMA BirthDoes ==
  ASSUME TypeInv, ShapeInv, NoOverflow, Births
  PROVE  /\ Alloc \in Slots /\ IsFree(Alloc) /\ \A t \in Slots : t # Alloc => pool'[t] = pool[t] /\ SameAll(t)
         /\ pool'[Alloc].st = "live" /\ ~pool'[Alloc].marked /\ pool'[Alloc].owner = room
<1>1. PICK o \in Objects, id \in Nat, b \in BOOLEAN : Create(Alloc, o, id, b, room) /\ (Full => "overflow" \in Habits)
  BY DEF Births
<1>2. room \in Rooms /\ PoolType /\ BookType /\ Beyond /\ ~Full
  BY <1>1 DEF TypeInv, ShapeInv, FlowType, NoOverflow
<1>3. Alloc \in Slots /\ IsFree(Alloc)
  BY <1>2, AllocFree
<1> QED
  BY <1>1, <1>2, <1>3, CreateDoes

\* A slot the frame's snapshot names still holds the instance it held then.
SeenInv ==
  /\ pc \notin StepPhases => seen = Nothing
  /\ \A s \in Slots : seen[s] # 0 => ~IsFree(s) /\ pool[s].id = seen[s]

LEMMA SeenMoves ==
  ASSUME TypeInv, ShapeInv, SeenInv, [Next]_vars
  PROVE  \/ seen' = Nothing
         \/ seen' = seen /\ pc \in StepPhases /\ pc' \in StepPhases /\ ~Reaping
         \/ TakeSnapshot /\ UNCHANGED <<pool, count>> /\ pc' \in StepPhases
<1>1. CASE pc' = pc /\ seen' = seen
  <2>1. ~Reaping
    BY <1>1 DEF Reaping, EndStepEnds, RoomStartEnds, EnterPhase
  <2> QED
    BY <1>1, <2>1 DEF SeenInv
<1>2. CASE Operation
  BY <1>1, <1>2 DEF Operation, OpCreate, OpDestroy, OpChange, OpDeactivate, OpActivate, OpAlarm, OpRoom, past
<1>3. CASE Return \/ Dispatch \/ NextGroup \/ DrawOne \/ ClearOne \/ PlaceOne \/ Still
  BY <1>1, <1>3 DEF Return, Dispatch, NextGroup, DrawOne, ClearOne, PlaceOne, Still, vars, past
<1>4. CASE StartFrame \/ ResumeFrame
  <2>1. TakeSnapshot /\ UNCHANGED <<pool, count>>
    BY <1>4 DEF StartFrame, ResumeFrame
  <2>2. pc' \in StepPhases
    <3>1. after # "finish" => after \in StepPhases
      BY DEF TypeInv, MoveType, StepPhases
    <3> QED
      BY <1>4, <3>1 DEF StartFrame, ResumeFrame, EnterPhase, StepPhases
  <2> QED
    BY <2>1, <2>2
<1>5. CASE EndFrame \/ EndMovedFrame \/ CommitRequest \/ MoveAgain \/ EndStepEnds
  BY <1>5 DEF EndFrame, EndMovedFrame, FinishStep, CommitRequest, MoveAgain, StartMove, EndStepEnds
<1>6. CASE PhaseEnds
  <2>1. ~Reaping
    BY <1>6 DEF PhaseEnds, Reaping, EndStepEnds, RoomStartEnds, StepPhases
  <2> QED
    BY <1>6, <2>1 DEF PhaseEnds, EnterPhase, StepPhases
<1>7. CASE DrawEnds \/ CannotStore \/ PlacesEnd \/ CreationCode \/ CreationCodeEnds \/ LeaveRoom \/ EnterRoom
           \/ RestoreRoom \/ RoomStartEnds
  <2>1. pc \notin StepPhases /\ seen' = seen
    BY <1>7 DEF DrawEnds, CannotStore, PlacesEnd, CreationCode, CreationCodeEnds, LeaveRoom, EnterRoom,
                RestoreRoom, RoomStartEnds, StepPhases, past
  <2> QED
    BY <2>1 DEF SeenInv
<1> QED
  BY <1>2, <1>3, <1>4, <1>5, <1>6, <1>7, Zenon DEF Next, Engine, Still

LEMMA SeenKept == ASSUME TypeInv, ShapeInv, SeenInv, NoOverflow, [Next]_vars PROVE SeenInv'
<1>0. PoolType /\ BookType /\ Waits /\ ClearFrames
  BY DEF TypeInv, ShapeInv
<1>1. CASE seen' = Nothing
  BY <1>1 DEF SeenInv, Nothing
<1>2. CASE seen' = seen /\ pc \in StepPhases /\ pc' \in StepPhases /\ ~Reaping
  <2>1. ASSUME NEW s \in Slots, seen[s] # 0 PROVE ~IsFree(s)' /\ pool'[s].id = pool[s].id
    <3>1. ~IsFree(s)
      BY <2>1 DEF SeenInv
    <3>2. ~IsFree(s)'
      <4> SUFFICES ASSUME IsFree(s)' PROVE FALSE
        OBVIOUS
      <4>1. Return /\ Head(stack).k = "clear"
        BY <1>2, <3>1, Ends
      <4>2. stack # <<>> /\ StackType /\ FramesInv
        BY <4>1, Returns DEF TypeInv
      <4>3. 1 \in DOMAIN stack /\ stack[1].k = "clear"
        BY <4>1, <4>2, Top
      <4>4. pc = "clear"
        BY <1>0, <4>3 DEF ClearFrames
      <4> QED
        BY <1>2, <4>4 DEF StepPhases
    <3>3. CASE Births
      <4>1. IsFree(Alloc) /\ \A t \in Slots : t # Alloc => pool'[t] = pool[t]
        BY <3>3, BirthDoes
      <4> QED
        BY <3>1, <3>2, <4>1
    <3>4. CASE Survivors
      BY <3>2, <3>4 DEF Survivors, SameName
    <3> QED
      BY <1>0, <3>2, <3>3, <3>4, Fates
  <2> QED
    BY <1>2, <2>1 DEF SeenInv
<1>3. CASE TakeSnapshot /\ UNCHANGED <<pool, count>> /\ pc' \in StepPhases
  <2>1. seen' = [s \in Slots |-> IF s < count /\ ~IsFree(s) THEN pool[s].id ELSE 0]
    BY <1>3 DEF TakeSnapshot
  <2>2. ASSUME NEW s \in Slots, seen'[s] # 0 PROVE ~IsFree(s)' /\ pool'[s].id = seen'[s]
    BY <1>3, <2>1, <2>2 DEF IsFree
  <2> QED
    BY <1>3, <2>2 DEF SeenInv
<1> QED
  BY <1>1, <1>2, <1>3, SeenMoves

LEMMA SeenInit == ASSUME Init PROVE SeenInv
BY DEF Init, SeenInv, Nothing

\* A number stands for one instance: the slots a loop has seen keep theirs for as long as the loop may
\* come back to them, and no dynamic id is given out twice, for any pool that does not overflow.
THEOREM Identity == ASSUME NoOverflow PROVE Spec => []IdentityKept
<1>1. Init => TypeInv /\ ShapeInv /\ IdInv /\ SeenInv
  BY InitType, ShapeInit, IdInit, SeenInit
<1>2. TypeInv /\ ShapeInv /\ IdInv /\ SeenInv /\ [Next]_vars => (TypeInv /\ ShapeInv /\ IdInv /\ SeenInv)'
  BY StepType, ShapeKept, IdKept, SeenKept
<1>3. IdInv /\ SeenInv => IdentityKept
  <2> SUFFICES ASSUME IdInv, SeenInv PROVE IdentityKept
    OBVIOUS
  <2>1. SlotHeld
    BY DEF SeenInv, SlotHeld
  <2>2. DynamicIdsUnique
    <3> SUFFICES ASSUME NEW s \in Slots, ~IsFree(s), NEW t \in 0..(s - 1), ~IsFree(t), pool[s].id = pool[t].id
                 PROVE  pool[s].placed /\ pool[t].placed
      BY DEF DynamicIdsUnique
    <3>1. t \in Slots /\ t # s
      BY Numbers DEF Slots
    <3> QED
      BY <3>1 DEF IdInv
  <2> QED
    BY <2>1, <2>2 DEF IdentityKept
<1> QED
  BY <1>1, <1>2, <1>3, PTL DEF Spec


-----------------------------------------------------------------------------
(* Whose instances are in a room.                                          *)

NoLitter == "litter" \notin Habits

Asleep(s) == pool[s].st = "dormant"

\* The rooms whose instances may be asleep.
Kipping == IF pc \in {"clear", "place"} THEN stored ELSE stored \ {room}

OwnerInv == \A s \in Slots : /\ Exists(s) => pool[s].owner = room
                             /\ Asleep(s) => pool[s].owner \in Kipping

\* While a room is cleared: behind the loop only persistent instances are left, and the one whose Clean Up
\* runs; whoever else has event code in progress is marked.
Bottom == stack[Len(stack)].s
ClearedInv ==
  pc = "clear" =>
    /\ \A s \in Slots : Exists(s) /\ s < at => Kept(s) \/ (stack # <<>> /\ s = Bottom)
    /\ \A i \in DOMAIN stack : stack[i].s \in Slots /\ (stack[i].s = Bottom \/ pool[stack[i].s].marked)

LEMMA SameExists ==
  ASSUME NEW t, SameLife(t)
  PROVE  (Exists(t)' <=> Exists(t)) /\ (Asleep(t)' <=> Asleep(t)) /\ (IsFree(t)' <=> IsFree(t))
BY DEF SameLife, Exists, Asleep, IsFree

\* Steps that leave the room, the stored rooms and the phase alone, and move no instance between rooms.
LEMMA OwnersStay ==
  ASSUME OwnerInv, UNCHANGED <<pc, room, stored>>,
         \A t \in Slots : \/ IsFree(t)'
                          \/ Exists(t)' /\ pool'[t].owner = room
                          \/ SameLife(t) /\ SameHome(t)
  PROVE  OwnerInv'
<1>1. Kipping' = Kipping
  BY DEF Kipping
<1>2. ASSUME NEW t \in Slots
      PROVE  (Exists(t)' => pool'[t].owner = room') /\ (Asleep(t)' => pool'[t].owner \in Kipping')
  <2>1. CASE IsFree(t)'
    BY <2>1 DEF IsFree, Exists, Asleep
  <2>2. CASE Exists(t)' /\ pool'[t].owner = room
    BY <2>2 DEF Exists, Asleep
  <2>3. CASE SameLife(t) /\ SameHome(t)
    BY <1>1, <2>3, SameExists DEF SameHome, OwnerInv
  <2> QED
    BY <2>1, <2>2, <2>3
<1> QED
  BY <1>2 DEF OwnerInv

LEMMA ReturnOwners ==
  ASSUME TypeInv, Return
  PROVE  \A t \in Slots : IsFree(t)' \/ (SameLife(t) /\ SameHome(t))
<1> DEFINE f == Head(stack)
<1>0. PoolType
  BY DEF TypeInv
<1>1. CASE f.k = "destroy"
  <2>1. CleanUp(f.s) /\ f.s \in Slots
    BY <1>1, Returns
  <2> QED
    BY <1>0, <2>1, CleanUpDoes
<1>2. CASE f.k = "clear"
  <2>1. Dispose(f.s) /\ f.s \in Slots
    BY <1>2, Returns
  <2>2. \A t \in Slots : (t = f.s => IsFree(t)') /\ (t # f.s => SameAll(t))
    BY <1>0, <2>1, DisposeDoes
  <2> QED
    BY <2>2 DEF SameAll
<1>3. CASE f.k = "change"
  <2>1. ChangeEnd(f.s, f.to) /\ f.s \in Slots /\ f.to \in Objects
    BY <1>3, Returns
  <2>2. CASE Running(f.s)
    <3>1. pool' = [pool EXCEPT ![f.s].obj = f.to]
      BY <2>1, <2>2 DEF ChangeEnd
    <3> QED
      BY <1>0, <2>1, <3>1, BecomeDoes
  <2>3. CASE ~Running(f.s)
    BY <2>1, <2>3, Unmoved DEF ChangeEnd, SameAll
  <2> QED
    BY <2>2, <2>3
<1>4. CASE f.k \notin {"destroy", "clear", "change"}
  BY <1>4, Returns, Unmoved DEF poolVars, SameAll
<1> QED
  BY <1>1, <1>2, <1>3, <1>4

LEMMA OwnersKept == ASSUME TypeInv, ShapeInv, OwnerInv, ClearedInv, [Next]_vars PROVE OwnerInv'
<1>0. PoolType /\ BookType /\ Waits /\ Beyond /\ room \in Rooms /\ target \in Rooms \cup {NoRoom}
  BY DEF TypeInv, ShapeInv, FlowType, MoveType
<1>1. ASSUME UNCHANGED <<pool, pc, room, stored>> PROVE OwnerInv'
  <2>1. \A t \in Slots : SameAll(t)
    BY <1>1, Unmoved
  <2> QED
    BY <1>1, <2>1, OwnersStay DEF SameAll
<1>2. ASSUME UNCHANGED <<pc, room, stored>>, Births PROVE OwnerInv'
  <2>1. PICK o \in Objects, id \in Nat, b \in BOOLEAN : Create(Alloc, o, id, b, room)
    BY <1>2 DEF Births
  <2>2. /\ \A t \in Slots : t # Alloc => SameAll(t)
        /\ pool'[Alloc].st = "live" /\ pool'[Alloc].owner = room
    BY <1>0, <2>1, CreateDoes
  <2>3. \A t \in Slots : (Exists(t)' /\ pool'[t].owner = room) \/ SameAll(t)
    BY <2>2 DEF Exists
  <2> QED
    BY <1>2, <2>3, OwnersStay DEF SameAll
<1>3. ASSUME NEW o \in Objects, OpCreate(o) PROVE OwnerInv'
  <2>1. Births
    BY <1>0, <1>3 DEF OpCreate, Births, May, BookType
  <2> QED
    BY <1>2, <1>3, <2>1 DEF OpCreate, flow
<1>4. ASSUME NEW t \in Slots, OpDestroy(t) PROVE OwnerInv'
  <2>1. \A u \in Slots : SameLife(u) /\ SameHome(u)
    BY <1>0, <1>4, MarkDoes DEF OpDestroy
  <2> QED
    BY <1>4, <2>1, OwnersStay DEF OpDestroy, flow
<1>5. ASSUME NEW o \in Objects, NEW perform \in BOOLEAN, OpChange(o, perform) PROVE OwnerInv'
  <2>1. Self \in Slots
    BY <1>5, SelfSlot DEF OpChange, Acts
  <2>2. CASE perform
    BY <1>1, <1>5, <2>2 DEF OpChange, ChangeBegin, flow
  <2>3. CASE ~perform
    <3>1. pool' = [pool EXCEPT ![Self].obj = o]
      BY <1>5, <2>3 DEF OpChange, ChangeQuietly
    <3>2. \A u \in Slots : SameLife(u) /\ SameHome(u)
      BY <1>0, <2>1, <3>1, BecomeDoes
    <3> QED
      BY <1>5, <3>2, OwnersStay DEF OpChange, flow
  <2> QED
    BY <2>2, <2>3
<1>6. ASSUME NEW t \in Slots, OpDeactivate(t) \/ OpActivate(t) PROVE OwnerInv'
  <2>1. PICK st \in {"live", "off"} : SetActive(t, st)
    BY <1>6 DEF OpDeactivate, OpActivate
  <2>2. Exists(t) /\ pool[t].owner = room
    BY <1>6 DEF OpDeactivate, OpActivate, Running, Exists, OwnerInv
  <2>3. pool'[t].st = st /\ SameHome(t) /\ \A u \in Slots : u # t => SameAll(u)
    BY <1>0, <2>1, SetActiveDoes
  <2>4. \A u \in Slots : (Exists(u)' /\ pool'[u].owner = room) \/ SameAll(u)
    BY <2>2, <2>3 DEF Exists, SameHome
  <2> QED
    BY <1>6, <2>4, OwnersStay DEF OpDeactivate, OpActivate, flow, SameAll
<1>7. CASE OpAlarm
  <2>1. Self \in Slots /\ SetAlarm(Self, TRUE)
    BY <1>7, SelfSlot DEF OpAlarm, Acts
  <2>2. \A u \in Slots : SameLife(u) /\ SameHome(u)
    BY <1>0, <2>1, SetAlarmDoes
  <2> QED
    BY <1>7, <2>2, OwnersStay DEF OpAlarm, flow
<1>8. ASSUME NEW r \in Rooms, OpRoom(r) PROVE OwnerInv'
  BY <1>1, <1>8 DEF OpRoom, poolVars
<1>9. CASE Return
  <2>1. UNCHANGED <<pc, room, stored>>
    BY <1>9 DEF Return, flow
  <2> QED
    BY <1>9, <2>1, ReturnOwners, OwnersStay
<1>10. CASE Dispatch
  <2>0. UNCHANGED <<pc, room, stored>>
    BY <1>10 DEF Dispatch, flow
  <2>1. CASE pc = "alarm"
    <3>1. Recipient \in Slots /\ SetAlarm(Recipient, FALSE)
      BY <1>10, <2>1, DueType, Dispatches DEF TypeInv
    <3>2. \A u \in Slots : SameLife(u) /\ SameHome(u)
      BY <1>0, <3>1, SetAlarmDoes
    <3> QED
      BY <2>0, <3>2, OwnersStay
  <2>2. CASE pc # "alarm"
    BY <1>1, <1>10, <2>0, <2>2, Dispatches DEF poolVars
  <2> QED
    BY <2>1, <2>2
<1>11. CASE NextGroup \/ DrawOne \/ Still
  BY <1>1, <1>11 DEF NextGroup, DrawOne, Still, vars, poolVars, flow
<1>12. CASE ClearOne
  <2>1. Least(Leaving) \in Slots /\ CleanUp(Least(Leaving))
    BY <1>12, LeavingType DEF ClearOne
  <2>2. \A u \in Slots : SameLife(u) /\ SameHome(u)
    BY <1>0, <2>1, CleanUpDoes
  <2> QED
    BY <1>12, <2>2, OwnersStay DEF ClearOne, flow
<1>13. CASE PlaceOne
  <2> DEFINE p == Placed[room][at + 1]
  <2>1. p.obj \in Objects /\ p.id \in Nat /\ p.id \in PlacedIds /\ Create(Alloc, p.obj, p.id, TRUE, room)
        /\ (Full => "overflow" \in Habits) /\ pc = "place" /\ TRUE \in BOOLEAN
    BY <1>13, Places
  <2>2. Births
    BY <2>1 DEF Births
  <2> QED
    BY <1>2, <1>13, <2>2 DEF PlaceOne, flow
<1>14. CASE Turn \/ CreationCode
  <2>1. UNCHANGED <<pool, room>>
    BY <1>0, <1>14, TurnDoes DEF CreationCode, poolVars, flow
  <2>2. UNCHANGED stored
    BY <1>14 DEF Turn, StartFrame, PhaseEnds, EndFrame, DrawEnds, CommitRequest, CannotStore, PlacesEnd,
                 CreationCode, CreationCodeEnds, MoveAgain, ResumeFrame, EndMovedFrame, FinishStep, StartMove, flow
  <2>3. \A t \in Slots : Asleep(t) => pool[t].owner \in Kipping'
    <3>1. CASE PlacesEnd
      <4>1. Kipping = stored /\ Kipping' = stored /\ room \notin stored
        BY <2>1, <2>2, <3>1 DEF Kipping, PlacesEnd
      <4> QED
        BY <4>1 DEF OwnerInv
    <3>2. CASE ~PlacesEnd
      <4>1. pc \notin {"clear", "place"} /\ pc' \notin {"clear", "place"}
        <5>1. after # "finish" => after \in {"timeline", "alarm"}
          BY DEF TypeInv, MoveType
        <5> QED
          BY <1>14, <3>2, <5>1
             DEF Turn, StartFrame, PhaseEnds, EndFrame, DrawEnds, CommitRequest, CannotStore, Moved,
                 CreationCode, CreationCodeEnds, MoveAgain, ResumeFrame, EndMovedFrame, FinishStep, StartMove,
                 EnterPhase, StepPhases
      <4> QED
        BY <2>1, <2>2, <4>1 DEF Kipping, OwnerInv
    <3> QED
      BY <3>1, <3>2
  <2> QED
    BY <2>1, <2>3 DEF OwnerInv, Exists, Asleep
<1>15. CASE Reaping
  <2>1. Reap \/ ReapAndRebase
    BY <1>15 DEF Reaping, EndStepEnds, RoomStartEnds
  <2>2. \A t \in Slots : IsFree(t)' \/ SameAll(t)
    BY <1>0, <2>1, ReapDoes
  <2>3. UNCHANGED <<room, stored>> /\ Kipping' = Kipping
    BY <1>15 DEF Reaping, EndStepEnds, RoomStartEnds, EnterPhase, flow, Kipping
  <2>4. ASSUME NEW t \in Slots
        PROVE  (Exists(t)' => pool'[t].owner = room') /\ (Asleep(t)' => pool'[t].owner \in Kipping')
    <3>1. CASE IsFree(t)'
      BY <3>1 DEF IsFree, Exists, Asleep
    <3>2. CASE SameAll(t)
      BY <2>3, <3>2, SameExists DEF SameAll, SameHome, OwnerInv
    <3> QED
      BY <2>2, <3>1, <3>2
  <2> QED
    BY <2>4 DEF OwnerInv
<1>16. CASE LeaveRoom
  <2>0. pc = "leave" /\ pc' = "clear" /\ room' = room /\ Kipping' = stored' /\ Kipping = stored \ {room}
    BY <1>16 DEF LeaveRoom, EnterPhase, Kipping
  <2>1. CASE room \in PersistentRoom
    <3>1. PutToSleep(room) /\ stored' = stored \cup {room}
      BY <1>16, <2>1 DEF LeaveRoom
    <3>2. \A t \in Slots : SameHome(t) /\ (t \in Sleepers(room) => pool'[t].st = "dormant")
                           /\ (t \notin Sleepers(room) => SameAll(t))
      BY <1>0, <3>1, SleepDoes
    <3>3. ASSUME NEW t \in Slots
          PROVE  (Exists(t)' => pool'[t].owner = room') /\ (Asleep(t)' => pool'[t].owner \in Kipping')
      <4>1. CASE t \in Sleepers(room)
        BY <2>0, <3>1, <3>2, <4>1 DEF Sleepers, SameHome, Exists, Asleep
      <4>2. CASE t \notin Sleepers(room)
        BY <2>0, <3>1, <3>2, <4>2, SameExists DEF SameAll, SameHome, OwnerInv
      <4> QED
        BY <4>1, <4>2
    <3> QED
      BY <3>3 DEF OwnerInv
  <2>2. CASE room \notin PersistentRoom
    <3>1. UNCHANGED pool /\ stored' = stored \ {room}
      BY <1>16, <2>2 DEF LeaveRoom, poolVars
    <3> QED
      BY <2>0, <3>1 DEF OwnerInv, Exists, Asleep
  <2> QED
    BY <2>1, <2>2
<1>17. CASE EnterRoom
  <2>0. /\ pc = "clear" /\ pc' = "place" /\ room' = target /\ stored' = stored /\ stack = <<>> /\ Leaving = {}
        /\ Kipping = stored /\ Kipping' = stored /\ Adopt(target)
    BY <1>17 DEF EnterRoom, EnterPhase, Kipping
  <2>1. ASSUME NEW t \in Slots, Exists(t) PROVE Kept(t)
    <3>1. CASE t < at
      BY <2>0, <2>1, <3>1 DEF ClearedInv
    <3>2. CASE ~(t < at)
      <4>1. t < count
        <5>1. t \in Nat /\ count \in Nat
          BY <1>0, Numbers DEF BookType
        <5> QED
          BY <1>0, <2>1, <5>1 DEF Beyond, Exists, IsFree
      <4>2. t \in at..(count - 1)
        <5>1. t \in Nat /\ count \in Nat /\ at \in Nat
          BY <1>0, Numbers DEF BookType, TypeInv, LoopType
        <5> QED
          BY <3>2, <4>1, <5>1
      <4> QED
        BY <2>0, <2>1, <4>2 DEF Leaving
    <3> QED
      BY <3>1, <3>2
  <2>2. \A t \in Slots : SameLife(t) /\ (Exists(t) /\ Kept(t) => pool'[t].owner = target)
                         /\ (~(Exists(t) /\ Kept(t)) => SameAll(t))
    BY <1>0, <2>0, AdoptDoes
  <2>3. ASSUME NEW t \in Slots
        PROVE  (Exists(t)' => pool'[t].owner = room') /\ (Asleep(t)' => pool'[t].owner \in Kipping')
    <3>1. CASE Exists(t)
      BY <2>0, <2>1, <2>2, <3>1, SameExists DEF Exists, Asleep
    <3>2. CASE ~Exists(t)
      <4>1. SameAll(t) /\ ~Exists(t)'
        BY <2>2, <3>2, SameExists
      <4> QED
        BY <2>0, <4>1, SameExists DEF SameAll, SameHome, OwnerInv
    <3> QED
      BY <3>1, <3>2
  <2> QED
    BY <2>3 DEF OwnerInv
<1>18. CASE RestoreRoom
  <2>0. /\ pc = "place" /\ pc' = "start" /\ room' = room /\ stored' = stored \ {room} /\ WakeUp(room)
        /\ Kipping = stored /\ Kipping' = stored \ {room}
    BY <1>18 DEF RestoreRoom, EnterPhase, Kipping
  <2>1. \A t \in Slots : /\ SameHome(t)
                         /\ t \in Woken(room) => pool'[t].st = IF pool[t].wasOff THEN "off" ELSE "live"
                         /\ t \notin Woken(room) => SameAll(t)
    BY <1>0, <2>0, WakeDoes
  <2>2. ASSUME NEW t \in Slots
        PROVE  (Exists(t)' => pool'[t].owner = room') /\ (Asleep(t)' => pool'[t].owner \in Kipping')
    <3>1. CASE t \in Woken(room)
      <4>1. pool[t].owner = room /\ pool'[t].owner = pool[t].owner
        BY <2>1, <3>1 DEF Woken, SameHome
      <4>2. ~Asleep(t)'
        BY <2>1, <3>1 DEF Asleep
      <4> QED
        BY <2>0, <4>1, <4>2
    <3>2. CASE t \notin Woken(room)
      <4>1. SameAll(t) /\ (Exists(t)' <=> Exists(t)) /\ (Asleep(t)' <=> Asleep(t)) /\ pool'[t].owner = pool[t].owner
        BY <2>1, <3>2, SameExists DEF SameAll, SameHome
      <4>2. Asleep(t) => pool[t].owner # room
        <5>1. t \in Nat /\ count \in Nat
          BY <1>0, Numbers DEF BookType
        <5>2. Asleep(t) => t \in 0..(count - 1)
          BY <1>0, <5>1 DEF Beyond, Asleep, IsFree
        <5> QED
          BY <3>2, <5>2 DEF Woken, Asleep
      <4> QED
        BY <2>0, <4>1, <4>2 DEF OwnerInv
    <3> QED
      BY <3>1, <3>2
  <2> QED
    BY <2>2 DEF OwnerInv
<1> QED
  BY <1>3, <1>4, <1>5, <1>6, <1>7, <1>8, <1>9, <1>10, <1>11, <1>12, <1>13, <1>14, <1>15, <1>16, <1>17,
     <1>18, Steps

\* Event code while a room is cleared touches the kind of one instance only, the one being cleared.
LEMMA ClearingStays ==
  ASSUME ClearedInv, pc = "clear", UNCHANGED at, stack # <<>>, stack' # <<>>, Bottom' = Bottom,
         \A t \in Slots : t # Bottom => (Exists(t)' => Exists(t) /\ SameKind(t)),
         \A i \in DOMAIN stack' : stack'[i].s \in Slots /\ (stack'[i].s = Bottom \/ pool'[stack'[i].s].marked)
  PROVE  ClearedInv'
<1>1. ASSUME NEW s \in Slots, Exists(s)', s < at PROVE Kept(s)' \/ s = Bottom
  <2>1. CASE s # Bottom
    <3>1. Exists(s) /\ SameKind(s)
      BY <1>1, <2>1
    <3>2. Kept(s)
      BY <1>1, <2>1, <3>1 DEF ClearedInv
    <3> QED
      BY <3>1, <3>2 DEF Kept, SameKind
  <2> QED
    BY <2>1
<1> QED
  BY <1>1 DEF ClearedInv

\* What a new frame does to the books of the clearing loop.
LEMMA PushClears ==
  ASSUME TypeInv, ClearedInv, pc = "clear", stack # <<>>, NEW k \in Kinds, NEW s \in Slots, NEW o \in Objects \cup {0},
         Push(k, s, o), s = Bottom \/ pool'[s].marked, \A t \in Slots : pool[t].marked => pool'[t].marked
  PROVE  /\ stack' # <<>> /\ Bottom' = Bottom
         /\ \A i \in DOMAIN stack' : stack'[i].s \in Slots /\ (stack'[i].s = Bottom \/ pool'[stack'[i].s].marked)
<1>1. [k |-> k, s |-> s, to |-> o] \in Frame /\ StackType
  BY FrameOf DEF TypeInv
<1>2. /\ stack' # <<>> /\ Len(stack') = Len(stack) + 1
      /\ DOMAIN stack' = 1..(Len(stack) + 1) /\ DOMAIN stack = 1..Len(stack)
      /\ stack'[1].s = s
      /\ \A i \in DOMAIN stack' : i # 1 => i - 1 \in DOMAIN stack /\ stack'[i] = stack[i - 1]
      /\ \A i \in DOMAIN stack : i + 1 \in DOMAIN stack' /\ stack'[i + 1] = stack[i] /\ i + 1 # 1
  BY <1>1, Pushed
<1>3. Len(stack) \in DOMAIN stack
  BY Top DEF TypeInv
<1>4. Bottom' = Bottom
  BY <1>2, <1>3 DEF Bottom
<1>5. ASSUME NEW i \in DOMAIN stack'
      PROVE  stack'[i].s \in Slots /\ (stack'[i].s = Bottom \/ pool'[stack'[i].s].marked)
  <2>1. CASE i = 1
    BY <1>2, <2>1
  <2>2. CASE i # 1
    <3>1. i - 1 \in DOMAIN stack /\ stack'[i] = stack[i - 1]
      BY <1>2, <2>2
    <3> QED
      BY <3>1 DEF ClearedInv
  <2> QED
    BY <2>1, <2>2
<1> QED
  BY <1>2, <1>4, <1>5

\* The innermost handler's instance, if it is not marked, is the one being cleared.
LEMMA SelfClears ==
  ASSUME TypeInv, ClearedInv, pc = "clear", stack # <<>>
  PROVE  Head(stack).s \in Slots /\ (~pool[Head(stack).s].marked => Head(stack).s = Bottom)
<1>1. Head(stack) = stack[1] /\ 1 \in DOMAIN stack
  BY Top DEF TypeInv
<1> QED
  BY <1>1 DEF ClearedInv

LEMMA ReturnClears == ASSUME TypeInv, ShapeInv, ClearedInv, pc = "clear", Return PROVE ClearedInv'
<1> DEFINE f == Head(stack)
<1>0. PoolType /\ stack # <<>> /\ StackType /\ FramesInv /\ UNCHANGED <<pc, at>>
  BY Returns DEF TypeInv, Return, loop
<1>1. /\ Len(stack) \in Nat /\ Len(stack) >= 1 /\ DOMAIN stack = 1..Len(stack) /\ f = stack[1] /\ 1 \in DOMAIN stack
      /\ f \in Frame
  BY <1>0, Top
<1>2. stack[Len(stack)].k = "clear"
  BY <1>0 DEF ShapeInv, ClearFrames
<1>3. f.s \in Slots /\ (Running(f.s) => f.s = Bottom)
  BY <1>0, SelfClears DEF Running
<1>4. CASE f.k = "clear"
  <2>1. Len(stack) = 1
    BY <1>1, <1>4 DEF ShapeInv, ClearFrames
  <2>2. Dispose(f.s) /\ stack' = Tail(stack)
    BY <1>0, <1>4 DEF Return
  <2>3. stack' = <<>>
    BY <1>0, <2>1, <2>2, Popped
  <2>4. f.s = Bottom
    BY <1>1, <2>1 DEF Bottom
  <2>5. pool'[f.s] = Free /\ \A t \in Slots : t # f.s => SameAll(t)
    BY <1>0, <1>3, <2>2, DisposeDoes
  <2>6. ASSUME NEW t \in Slots, Exists(t)', t < at' PROVE Kept(t)'
    <3>1. t # f.s
      BY <2>5, <2>6, FreeIs DEF Exists
    <3>2. SameAll(t)
      BY <2>5, <3>1
    <3>3. Kept(t)
      BY <1>0, <2>4, <2>6, <3>1, <3>2, SameExists DEF SameAll, ClearedInv
    <3> QED
      BY <3>2, <3>3 DEF SameAll, SameKind, Kept
  <2> QED
    BY <2>3, <2>6 DEF ClearedInv
<1>5. CASE f.k # "clear"
  <2>1. Len(stack) # 1
    BY <1>1, <1>2, <1>5
  <2>2. /\ \A t \in Slots : t # Bottom => (Exists(t)' => Exists(t) /\ SameKind(t))
        /\ \A t \in Slots : pool[t].marked => pool'[t].marked
    <3>1. CASE f.k = "destroy"
      <4>1. CleanUp(f.s)
        BY <1>0, <3>1, Returns
      <4>2. \A t \in Slots : SameLife(t) /\ SameKind(t) /\ (pool'[t].marked <=> pool[t].marked)
        BY <1>0, <1>3, <4>1, CleanUpDoes
      <4> QED
        BY <4>2, SameExists
    <3>2. CASE f.k = "change"
      <4>1. ChangeEnd(f.s, f.to) /\ f.to \in Objects
        BY <1>0, <3>2, Returns
      <4>2. CASE Running(f.s)
        <5>1. pool' = [pool EXCEPT ![f.s].obj = f.to]
          BY <4>1, <4>2 DEF ChangeEnd
        <5>2. \A t \in Slots : SameLife(t) /\ SameMark(t) /\ (t # f.s => SameAll(t))
          BY <1>0, <1>3, <4>1, <5>1, BecomeDoes
        <5> QED
          BY <1>3, <4>2, <5>2, SameExists DEF SameAll, SameMark
      <4>3. CASE ~Running(f.s)
        <5>1. \A t \in Slots : SameAll(t)
          BY <4>1, <4>3, Unmoved DEF ChangeEnd
        <5> QED
          BY <5>1, SameExists DEF SameAll, SameMark
      <4> QED
        BY <4>2, <4>3
    <3>3. CASE f.k \notin {"destroy", "change"}
      <4>1. \A t \in Slots : SameAll(t)
        BY <1>0, <1>5, <3>3, Returns, Unmoved DEF poolVars
      <4> QED
        BY <4>1, SameExists DEF SameAll, SameMark
    <3> QED
      BY <3>1, <3>2, <3>3
  <2>3. \A i \in DOMAIN stack : stack[i].s \in Slots /\ (stack[i].s = Bottom \/ pool'[stack[i].s].marked)
    BY <2>2 DEF ClearedInv
  <2>4. stack' # <<>> /\ Bottom' = Bottom /\ \A i \in DOMAIN stack' : \E j \in DOMAIN stack : stack'[i].s = stack[j].s
    <3>1. CASE stack' = Tail(stack)
      <4>1. /\ DOMAIN stack' = 1..(Len(stack) - 1) /\ Len(stack') = Len(stack) - 1
            /\ \A i \in DOMAIN stack' : i + 1 \in DOMAIN stack /\ stack'[i] = stack[i + 1]
        BY <1>0, <3>1, Popped
      <4>2. Len(stack') \in DOMAIN stack' /\ Len(stack') + 1 = Len(stack)
        BY <1>1, <2>1, <4>1
      <4>3. Bottom' = Bottom
        BY <4>1, <4>2 DEF Bottom
      <4>4. stack' # <<>>
        BY <4>2
      <4> QED
        BY <4>1, <4>3, <4>4
    <3>2. CASE f.k \in {"destroy", "change"} /\ f.s \in Slots
               /\ \E k \in {"cleanup", "create"} : stack' = <<[f EXCEPT !.k = k]>> \o Tail(stack)
      <4>1. PICK k \in {"cleanup", "create"} : stack' = <<[f EXCEPT !.k = k]>> \o Tail(stack)
        BY <3>2
      <4>2. k \in Kinds \ {"code", "change"} /\ f.s \in Slots
        BY <3>2 DEF Kinds
      <4>3. /\ Len(stack') = Len(stack) /\ DOMAIN stack' = DOMAIN stack /\ stack'[1].s = f.s
            /\ \A i \in DOMAIN stack : i # 1 => stack'[i] = stack[i]
        BY <1>0, <4>1, <4>2, SwapType
      <4>4. \A i \in DOMAIN stack : stack'[i].s = stack[i].s
        BY <1>1, <4>3
      <4>5. Len(stack) \in DOMAIN stack
        BY <1>1
      <4>6. Bottom' = Bottom
        BY <4>3, <4>4, <4>5 DEF Bottom
      <4>7. stack' # <<>>
        BY <4>3, <4>5
      <4> QED
        BY <4>3, <4>4, <4>6, <4>7
    <3> QED
      BY <1>0, <3>1, <3>2, Returns
  <2> QED
    BY <1>0, <2>2, <2>3, <2>4, ClearingStays
<1> QED
  BY <1>4, <1>5

LEMMA ClearedKept == ASSUME TypeInv, ShapeInv, ClearedInv, NoLitter, [Next]_vars PROVE ClearedInv'
<1>0. PoolType /\ BookType /\ LoopType /\ StackType /\ FramesInv /\ Waits
  BY DEF TypeInv, ShapeInv
<1>1. ASSUME pc' # "clear" PROVE ClearedInv'
  BY <1>1 DEF ClearedInv
<1>2. ASSUME pc = "clear", stack # <<>>, UNCHANGED <<stack, at>>, \A t \in Slots : t # Bottom => SameKind(t),
             \A t \in Slots : (Exists(t)' => Exists(t)) /\ (pool[t].marked => pool'[t].marked)
      PROVE  ClearedInv'
  <2>1. Bottom' = Bottom
    BY <1>2 DEF Bottom
  <2>2. \A i \in DOMAIN stack' : stack'[i].s \in Slots /\ (stack'[i].s = Bottom \/ pool'[stack'[i].s].marked)
    BY <1>2 DEF ClearedInv
  <2> QED
    BY <1>2, <2>1, <2>2, ClearingStays
<1>3. ASSUME UNCHANGED <<pc, stack, at, pool>> PROVE ClearedInv'
  BY <1>3 DEF ClearedInv, Bottom, Exists, Kept
<1>4. CASE pc = "clear"
  <2>1. ASSUME NEW o \in Objects, OpCreate(o) PROVE FALSE
    BY <1>4, <2>1 DEF OpCreate, May, NoLitter
  <2>2. ASSUME NEW t \in Slots, OpDestroy(t) PROVE ClearedInv'
    <3>1. Mark(t) /\ Push("destroy", t, 0) /\ stack # <<>> /\ UNCHANGED at
      BY <2>2 DEF OpDestroy, Acts, loop
    <3>2. \A u \in Slots : /\ SameLife(u) /\ SameKind(u) /\ (pool'[u].marked <=> pool[u].marked \/ u = t)
      BY <1>0, <3>1, MarkDoes
    <3>3. pool'[t].marked /\ (\A u \in Slots : pool[u].marked => pool'[u].marked)
          /\ \A u \in Slots : Exists(u)' => Exists(u)
      BY <3>2, SameExists
    <3>4. "destroy" \in Kinds /\ 0 \in Objects \cup {0}
      BY DEF Kinds
    <3>5. /\ stack' # <<>> /\ Bottom' = Bottom
          /\ \A i \in DOMAIN stack' : stack'[i].s \in Slots /\ (stack'[i].s = Bottom \/ pool'[stack'[i].s].marked)
      BY <1>4, <3>1, <3>3, <3>4, PushClears
    <3> QED
      BY <1>4, <3>1, <3>2, <3>3, <3>5, ClearingStays
  <2>3. ASSUME NEW o \in Objects, NEW perform \in BOOLEAN, OpChange(o, perform) PROVE ClearedInv'
    <3>1. stack # <<>> /\ Running(Self) /\ UNCHANGED <<at, pc>>
      BY <2>3 DEF OpChange, Acts, loop
    <3>2. Self \in Slots /\ Self = Bottom
      BY <1>4, <3>1, SelfClears DEF Self, Running
    <3>3. CASE perform
      <4>1. UNCHANGED pool /\ Push("change", Self, o)
        BY <2>3, <3>3 DEF OpChange, ChangeBegin
      <4>2. \A u \in Slots : (pool[u].marked => pool'[u].marked) /\ (Exists(u)' => Exists(u) /\ SameKind(u))
        BY <4>1 DEF Exists, SameKind
      <4>3. "change" \in Kinds
        BY DEF Kinds
      <4>4. /\ stack' # <<>> /\ Bottom' = Bottom
            /\ \A i \in DOMAIN stack' : stack'[i].s \in Slots /\ (stack'[i].s = Bottom \/ pool'[stack'[i].s].marked)
        BY <1>4, <3>1, <3>2, <4>1, <4>2, <4>3, PushClears
      <4> QED
        BY <1>4, <3>1, <4>2, <4>4, ClearingStays
    <3>4. CASE ~perform
      <4>1. pool' = [pool EXCEPT ![Self].obj = o] /\ UNCHANGED stack
        BY <2>3, <3>4 DEF OpChange, ChangeQuietly
      <4>2. \A u \in Slots : SameLife(u) /\ SameMark(u) /\ (u # Self => SameAll(u))
        BY <1>0, <3>2, <4>1, BecomeDoes
      <4> QED
        BY <1>2, <1>4, <3>1, <3>2, <4>1, <4>2, SameExists DEF SameAll, SameMark
    <3> QED
      BY <3>3, <3>4
  <2>4. ASSUME NEW t \in Slots, OpDeactivate(t) \/ OpActivate(t) PROVE ClearedInv'
    <3>1. PICK st \in {"live", "off"} : SetActive(t, st) /\ Exists(t) /\ stack # <<>> /\ UNCHANGED <<stack, at>>
      BY <2>4 DEF OpDeactivate, OpActivate, Running, Exists, Acts, loop
    <3>2. \A u \in Slots : SameMark(u) /\ SameKind(u) /\ (u # t => SameAll(u))
      BY <1>0, <3>1, SetActiveDoes
    <3> QED
      BY <1>2, <1>4, <3>1, <3>2, SameExists DEF SameAll, SameMark
  <2>5. CASE OpAlarm
    <3>1. Self \in Slots /\ SetAlarm(Self, TRUE) /\ stack # <<>> /\ UNCHANGED <<stack, at>>
      BY <2>5, SelfSlot DEF OpAlarm, Acts, loop
    <3>2. \A u \in Slots : SameLife(u) /\ SameMark(u) /\ SameKind(u)
      BY <1>0, <3>1, SetAlarmDoes
    <3> QED
      BY <1>2, <1>4, <3>1, <3>2, SameExists DEF SameMark
  <2>6. ASSUME NEW r \in Rooms, OpRoom(r) PROVE ClearedInv'
    BY <1>3, <2>6 DEF OpRoom, poolVars, loop
  <2>7. CASE Return
    BY <1>4, <2>7, ReturnClears
  <2>8. CASE ClearOne
    <3> DEFINE x == Least(Leaving)
    <3>1. x \in Leaving /\ x \in Slots /\ x \in Nat /\ at <= x /\ \A s \in Leaving : x <= s
      BY <2>8, LeavingType DEF ClearOne
    <3>2. stack = <<>> /\ CleanUp(x) /\ Push("clear", x, 0) /\ at' = x + 1
      BY <2>8 DEF ClearOne
    <3> HIDE DEF x
    <3>3. \A u \in Slots : SameLife(u) /\ SameKind(u)
      BY <1>0, <3>1, <3>2, CleanUpDoes
    <3>4. [k |-> "clear", s |-> x, to |-> 0] \in Frame
      BY <3>1, FrameOf DEF Kinds
    <3>5. Len(stack) = 0
      BY <3>2, EmptySeq
    <3>6. Len(stack') = 1 /\ DOMAIN stack' = 1..1 /\ stack'[1].s = x
      BY <1>0, <3>2, <3>4, <3>5, Pushed
    <3>7. Bottom' = x /\ stack' # <<>>
      BY <3>6 DEF Bottom
    <3>8. ASSUME NEW s \in Slots, Exists(s)', s < at' PROVE Kept(s)' \/ s = x
      <4>1. Exists(s) /\ s \in Nat
        BY <3>3, <3>8, SameExists, Numbers
      <4>2. CASE s < at
        <5>1. Kept(s)
          BY <1>4, <3>2, <4>1, <4>2 DEF ClearedInv
        <5> QED
          BY <3>3, <5>1 DEF Kept, SameKind
      <4>3. CASE ~(s < at) /\ s # x
        <5>1. at \in Nat /\ count \in Nat
          BY <1>0 DEF LoopType, BookType
        <5>2. s < x /\ x <= count - 1
          BY <3>1, <3>2, <3>8, <4>1, <4>3, <5>1 DEF Leaving
        <5>3. s \in at..(count - 1) /\ s \notin Leaving
          BY <3>1, <4>1, <4>3, <5>1, <5>2
        <5>4. Kept(s)
          BY <4>1, <5>3 DEF Leaving
        <5> QED
          BY <3>3, <5>4 DEF Kept, SameKind
      <4> QED
        BY <4>2, <4>3
    <3>9. \A i \in DOMAIN stack' : stack'[i].s \in Slots /\ stack'[i].s = x
      BY <3>1, <3>6
    <3> QED
      BY <3>7, <3>8, <3>9 DEF ClearedInv
  <2>9. CASE Dispatch \/ NextGroup \/ DrawOne \/ CreationCode \/ PlaceOne \/ LeaveRoom \/ RestoreRoom
    BY <1>4, <2>9 DEF Dispatch, NextGroup, Grouped, DrawOne, CreationCode, PlaceOne, LeaveRoom, RestoreRoom, StepPhases
  <2>10. CASE EnterRoom
    BY <1>1, <2>10 DEF EnterRoom, EnterPhase
  <2>11. CASE Still
    BY <1>3, <2>11 DEF Still, vars, poolVars, loop
  <2>12. CASE Turn \/ Reaping
    BY <1>4, <2>12 DEF Turn, Reaping, StartFrame, PhaseEnds, EndFrame, DrawEnds, CommitRequest, CannotStore,
                       PlacesEnd, CreationCodeEnds, MoveAgain, ResumeFrame, EndMovedFrame, Moved, EndStepEnds,
                       RoomStartEnds, StepPhases
  <2> QED
    BY <2>1, <2>2, <2>3, <2>4, <2>5, <2>6, <2>7, <2>8, <2>9, <2>10, <2>11, <2>12, Steps
<1>5. CASE pc # "clear"
  <2>1. CASE pc' = "clear"
    <3>1. LeaveRoom
      <4>1. after # "clear"
        BY DEF TypeInv, MoveType
      <4>2. pc = pc' => FALSE
        BY <1>5, <2>1
      <4>3. ~Operation /\ ~Return
        BY <4>2 DEF Operation, OpCreate, OpDestroy, OpChange, OpDeactivate, OpActivate, OpAlarm, OpRoom, Return
      <4>4. ~(Dispatch \/ NextGroup \/ DrawOne \/ ClearOne \/ PlaceOne \/ UNCHANGED vars)
        BY <4>2 DEF Dispatch, NextGroup, DrawOne, ClearOne, PlaceOne, vars
      <4>5. ~(StartFrame \/ PhaseEnds \/ EndStepEnds \/ EndFrame \/ DrawEnds \/ CommitRequest \/ CannotStore
              \/ EnterRoom \/ RestoreRoom \/ PlacesEnd \/ CreationCode \/ CreationCodeEnds \/ RoomStartEnds
              \/ MoveAgain \/ ResumeFrame \/ EndMovedFrame)
        BY <2>1, <4>1 DEF StartFrame, PhaseEnds, EndStepEnds, EndFrame, DrawEnds, CommitRequest, CannotStore,
             EnterRoom, RestoreRoom, PlacesEnd, CreationCode, CreationCodeEnds, RoomStartEnds, MoveAgain,
             ResumeFrame, EndMovedFrame, FinishStep, StartMove, EnterPhase, StepPhases
      <4> QED
        BY <4>3, <4>4, <4>5, Zenon DEF Next, Engine
    <3>2. stack' = <<>> /\ at' = 0
      BY <3>1 DEF LeaveRoom, LoopOver, EnterPhase
    <3>3. \A s \in Slots : ~(s < at')
      BY <3>2, Numbers
    <3> QED
      BY <3>2, <3>3 DEF ClearedInv
  <2> QED
    BY <1>1, <2>1
<1> QED
  BY <1>4, <1>5

LEMMA OwnerInit == ASSUME Init PROVE OwnerInv /\ ClearedInv
<1>0. PICK gone \in SUBSET (1..Len(Placed[room])) : Opening(gone)
  BY FirstRoom
<1>1. /\ room \in Rooms
      /\ \A s \in Slots : /\ s + 1 \in (1..Len(Placed[room])) \ gone => pool[s].owner = room /\ pool[s].st = "live"
                          /\ s + 1 \notin (1..Len(Placed[room])) \ gone => pool[s] = Free
  BY <1>0 DEF Opening
<1>2. OwnerInv
  BY <1>1, FreeIs DEF OwnerInv, Exists, Asleep
<1>3. pc = "idle"
  BY DEF Init
<1> QED
  BY <1>2, <1>3 DEF ClearedInv

\* Outside a room change whoever exists belongs to the room shown, and whoever sleeps to a stored one, in
\* every game whose Clean Up events create no instances while a room is cleared.
THEOREM Belonging == ASSUME NoLitter PROVE Spec => []NobodyLeftBehind
<1>1. Init => TypeInv /\ ShapeInv /\ OwnerInv /\ ClearedInv
  BY InitType, ShapeInit, OwnerInit
<1>2. TypeInv /\ ShapeInv /\ OwnerInv /\ ClearedInv /\ [Next]_vars => (TypeInv /\ ShapeInv /\ OwnerInv /\ ClearedInv)'
  BY StepType, ShapeKept, OwnersKept, ClearedKept
<1>3. OwnerInv => NobodyLeftBehind
  <2> SUFFICES ASSUME OwnerInv, pc \notin RoomPhases PROVE NobodyLeftBehind
    BY DEF NobodyLeftBehind
  <2>1. Kipping = stored \ {room}
    BY DEF Kipping, RoomPhases
  <2> QED
    BY <2>1 DEF OwnerInv, Asleep, NobodyLeftBehind
<1> QED
  BY <1>1, <1>2, <1>3, PTL DEF Spec

-----------------------------------------------------------------------------
(* What one step does to the instance of one slot, and to the event code   *)
(* in progress.                                                            *)

Born(t) == Births /\ t = Alloc
Ended(t) ==
  /\ IsFree(t)'
  /\ \/ Reaping /\ t \in Doomed
     \/ Return /\ Head(stack).k = "clear" /\ t = Head(stack).s
Condemned(t) ==
  /\ OpDestroy(t) /\ SameLife(t) /\ SameName(t) /\ SameKind(t) /\ SameHome(t) /\ SameAlarm(t)
  /\ pool'[t].cleaned = pool[t].cleaned
Tidied(t) ==
  /\ \/ Return /\ Head(stack).k = "destroy" /\ t = Head(stack).s
     \/ ClearOne /\ t = Least(Leaving)
  /\ SameLife(t) /\ SameName(t) /\ SameKind(t) /\ SameHome(t) /\ SameAlarm(t)
  /\ (pool'[t].marked <=> pool[t].marked) /\ pool'[t].cleaned > 0
Changed(t) == Running(t) /\ SameLife(t) /\ SameMark(t) /\ SameName(t) /\ SameHome(t) /\ SameAlarm(t)
Switched(t) ==
  /\ OpDeactivate(t) \/ OpActivate(t)
  /\ Exists(t) /\ Exists(t)' /\ SameMark(t) /\ SameName(t) /\ SameKind(t) /\ SameHome(t) /\ SameAlarm(t)
Alarmed(t) ==
  /\ (OpAlarm /\ t = Self) \/ Running(t)
  /\ SameLife(t) /\ SameMark(t) /\ SameName(t) /\ SameKind(t) /\ SameHome(t)
Slept(t) ==
  /\ LeaveRoom /\ t \in Sleepers(room) /\ Asleep(t)' /\ (pool'[t].wasOff <=> pool[t].st = "off")
  /\ SameMark(t) /\ SameName(t) /\ SameKind(t) /\ SameHome(t) /\ SameAlarm(t)
Moves(t) ==
  /\ EnterRoom /\ Exists(t) /\ Kept(t)
  /\ SameLife(t) /\ SameMark(t) /\ SameName(t) /\ SameKind(t) /\ SameAlarm(t)
Woke(t) ==
  /\ RestoreRoom /\ t \in Woken(room) /\ pool'[t].st = (IF pool[t].wasOff THEN "off" ELSE "live")
  /\ SameMark(t) /\ SameName(t) /\ SameKind(t) /\ SameHome(t) /\ SameAlarm(t)

Effect(t) == \/ SameAll(t) \/ Born(t) \/ Ended(t) \/ Condemned(t) \/ Tidied(t) \/ Changed(t) \/ Switched(t)
             \/ Alarmed(t) \/ Slept(t) \/ Moves(t) \/ Woke(t)

LEMMA Alike == ASSUME \A t \in Slots : SameAll(t) PROVE \A t \in Slots : Effect(t)
BY DEF Effect

LEMMA ReturnEffects == ASSUME TypeInv, Return PROVE \A t \in Slots : Effect(t)
<1> DEFINE f == Head(stack)
<1>0. PoolType
  BY DEF TypeInv
<1>1. CASE f.k = "destroy"
  <2>1. CleanUp(f.s) /\ f.s \in Slots
    BY <1>1, Returns
  <2>2. \A t \in Slots : /\ SameLife(t) /\ SameName(t) /\ SameKind(t) /\ SameHome(t) /\ SameAlarm(t)
                         /\ (pool'[t].marked <=> pool[t].marked) /\ (t # f.s => SameAll(t))
    BY <1>0, <2>1, CleanUpDoes
  <2>3. pool'[f.s].cleaned > 0
    BY <1>0, <2>1, CleanUpDoes
  <2> QED
    BY <1>1, <2>2, <2>3 DEF Effect, Tidied
<1>2. CASE f.k = "clear"
  <2>1. Dispose(f.s) /\ f.s \in Slots
    BY <1>2, Returns
  <2>2. \A t \in Slots : (t = f.s => IsFree(t)') /\ (t # f.s => SameAll(t))
    BY <1>0, <2>1, DisposeDoes
  <2> QED
    BY <1>2, <2>2 DEF Effect, Ended
<1>3. CASE f.k = "change"
  <2>1. ChangeEnd(f.s, f.to) /\ f.s \in Slots /\ f.to \in Objects
    BY <1>3, Returns
  <2>2. CASE Running(f.s)
    <3>1. pool' = [pool EXCEPT ![f.s].obj = f.to]
      BY <2>1, <2>2 DEF ChangeEnd
    <3>2. \A t \in Slots : /\ SameLife(t) /\ SameMark(t) /\ SameName(t) /\ SameHome(t) /\ SameAlarm(t)
                           /\ t # f.s => SameAll(t)
      BY <1>0, <2>1, <3>1, BecomeDoes
    <3> QED
      BY <2>2, <3>2 DEF Effect, Changed
  <2>3. CASE ~Running(f.s)
    BY <2>1, <2>3, Unmoved, Alike DEF ChangeEnd
  <2> QED
    BY <2>2, <2>3
<1>4. CASE f.k \notin {"destroy", "clear", "change"}
  BY <1>4, Returns, Unmoved, Alike DEF poolVars
<1> QED
  BY <1>1, <1>2, <1>3, <1>4

LEMMA Effects == ASSUME TypeInv, ShapeInv, [Next]_vars PROVE \A t \in Slots : Effect(t)
<1>0. PoolType /\ BookType /\ Waits /\ room \in Rooms
  BY DEF TypeInv, ShapeInv, FlowType
<1>1. ASSUME UNCHANGED pool PROVE \A t \in Slots : Effect(t)
  BY <1>1, Unmoved, Alike
<1>2. ASSUME Births PROVE \A t \in Slots : Effect(t)
  <2>1. PICK o \in Objects, id \in Nat, b \in BOOLEAN : Create(Alloc, o, id, b, room)
    BY <1>2 DEF Births
  <2>2. \A t \in Slots : t # Alloc => SameAll(t)
    BY <1>0, <2>1, CreateDoes
  <2> QED
    BY <1>2, <2>2 DEF Effect, Born
<1>3. ASSUME NEW o \in Objects, OpCreate(o) PROVE \A t \in Slots : Effect(t)
  <2>1. Births
    BY <1>0, <1>3 DEF OpCreate, Births, May, BookType
  <2> QED
    BY <1>2, <2>1
<1>4. ASSUME NEW u \in Slots, OpDestroy(u) PROVE \A t \in Slots : Effect(t)
  <2>1. \A t \in Slots : /\ SameLife(t) /\ SameName(t) /\ SameKind(t) /\ SameHome(t) /\ SameAlarm(t)
                         /\ pool'[t].cleaned = pool[t].cleaned
                         /\ t # u => SameAll(t)
    BY <1>0, <1>4, MarkDoes DEF OpDestroy
  <2> QED
    BY <1>4, <2>1 DEF Effect, Condemned
<1>5. ASSUME NEW o \in Objects, NEW perform \in BOOLEAN, OpChange(o, perform) PROVE \A t \in Slots : Effect(t)
  <2>1. Self \in Slots /\ Running(Self)
    BY <1>5, SelfSlot DEF OpChange, Acts
  <2>2. CASE perform
    BY <1>1, <1>5, <2>2 DEF OpChange, ChangeBegin
  <2>3. CASE ~perform
    <3>1. pool' = [pool EXCEPT ![Self].obj = o]
      BY <1>5, <2>3 DEF OpChange, ChangeQuietly
    <3>2. \A t \in Slots : /\ SameLife(t) /\ SameMark(t) /\ SameName(t) /\ SameHome(t) /\ SameAlarm(t)
                           /\ t # Self => SameAll(t)
      BY <1>0, <2>1, <3>1, BecomeDoes
    <3> QED
      BY <2>1, <3>2 DEF Effect, Changed
  <2> QED
    BY <2>2, <2>3
<1>6. ASSUME NEW u \in Slots, OpDeactivate(u) \/ OpActivate(u) PROVE \A t \in Slots : Effect(t)
  <2>1. PICK st \in {"live", "off"} : SetActive(u, st) /\ Exists(u)
    BY <1>6 DEF OpDeactivate, OpActivate, Running, Exists
  <2>2. /\ \A t \in Slots : /\ SameMark(t) /\ SameName(t) /\ SameKind(t) /\ SameHome(t) /\ SameAlarm(t)
                            /\ t # u => SameAll(t)
        /\ pool'[u].st = st
    BY <1>0, <2>1, SetActiveDoes
  <2>3. Exists(u)'
    BY <2>2 DEF Exists
  <2> QED
    BY <1>6, <2>1, <2>2, <2>3 DEF Effect, Switched
<1>7. CASE OpAlarm
  <2>1. Self \in Slots /\ SetAlarm(Self, TRUE)
    BY <1>7, SelfSlot DEF OpAlarm, Acts
  <2>2. \A t \in Slots : /\ SameLife(t) /\ SameMark(t) /\ SameName(t) /\ SameKind(t) /\ SameHome(t)
                         /\ t # Self => SameAll(t)
    BY <1>0, <2>1, SetAlarmDoes
  <2> QED
    BY <1>7, <2>2 DEF Effect, Alarmed
<1>8. ASSUME NEW r \in Rooms, OpRoom(r) PROVE \A t \in Slots : Effect(t)
  BY <1>1, <1>8 DEF OpRoom, poolVars
<1>9. CASE Return
  BY <1>9, ReturnEffects
<1>10. CASE Dispatch
  <2>1. CASE pc = "alarm"
    <3>1. Recipient \in Slots /\ SetAlarm(Recipient, FALSE) /\ Receives(Recipient)
      BY <1>10, <2>1, DueType, Dispatches DEF TypeInv
    <3>2. Running(Recipient)
      BY <2>1, <3>1 DEF Receives
    <3>3. \A t \in Slots : /\ SameLife(t) /\ SameMark(t) /\ SameName(t) /\ SameKind(t) /\ SameHome(t)
                           /\ t # Recipient => SameAll(t)
      BY <1>0, <3>1, SetAlarmDoes
    <3> QED
      BY <3>2, <3>3 DEF Effect, Alarmed
  <2>2. CASE pc # "alarm"
    BY <1>1, <1>10, <2>2, Dispatches DEF poolVars
  <2> QED
    BY <2>1, <2>2
<1>11. CASE NextGroup \/ DrawOne \/ CreationCode \/ Still
  BY <1>1, <1>11 DEF NextGroup, DrawOne, CreationCode, Still, vars, poolVars
<1>12. CASE ClearOne
  <2> DEFINE x == Least(Leaving)
  <2>1. x \in Slots /\ CleanUp(x)
    BY <1>12, LeavingType DEF ClearOne
  <2>2. \A t \in Slots : /\ SameLife(t) /\ SameName(t) /\ SameKind(t) /\ SameHome(t) /\ SameAlarm(t)
                         /\ (pool'[t].marked <=> pool[t].marked) /\ (t # x => SameAll(t))
    BY <1>0, <2>1, CleanUpDoes
  <2>3. pool'[x].cleaned > 0
    BY <1>0, <2>1, CleanUpDoes
  <2> QED
    BY <1>12, <2>2, <2>3 DEF Effect, Tidied
<1>13. CASE PlaceOne
  <2> DEFINE p == Placed[room][at + 1]
  <2>1. p.obj \in Objects /\ p.id \in Nat /\ p.id \in PlacedIds /\ Create(Alloc, p.obj, p.id, TRUE, room)
        /\ (Full => "overflow" \in Habits) /\ pc = "place" /\ TRUE \in BOOLEAN
    BY <1>13, Places
  <2>2. Births
    BY <2>1 DEF Births
  <2> QED
    BY <1>2, <2>2
<1>14. CASE Turn
  BY <1>0, <1>1, <1>14, TurnDoes
<1>15. CASE Reaping
  <2>1. Reap \/ ReapAndRebase
    BY <1>15 DEF Reaping, EndStepEnds, RoomStartEnds
  <2>2. \A t \in Slots : (t \in Doomed => IsFree(t)') /\ (t \notin Doomed => SameAll(t))
    BY <1>0, <2>1, ReapDoes
  <2> QED
    BY <1>15, <2>2 DEF Effect, Ended
<1>16. CASE LeaveRoom
  <2>1. CASE PutToSleep(room)
    <3>1. \A t \in Slots : /\ SameMark(t) /\ SameName(t) /\ SameKind(t) /\ SameHome(t) /\ SameAlarm(t)
                           /\ t \in Sleepers(room) => pool'[t].st = "dormant" /\ (pool'[t].wasOff <=> pool[t].st = "off")
                           /\ t \notin Sleepers(room) => SameAll(t)
      BY <1>0, <2>1, SleepDoes
    <3> QED
      BY <1>16, <3>1 DEF Effect, Slept, Asleep
  <2>2. CASE UNCHANGED poolVars
    BY <1>1, <2>2 DEF poolVars
  <2> QED
    BY <1>16, <2>1, <2>2 DEF LeaveRoom
<1>17. CASE EnterRoom
  <2>1. \A t \in Slots : /\ SameLife(t) /\ SameMark(t) /\ SameName(t) /\ SameKind(t) /\ SameAlarm(t)
                         /\ ~(Exists(t) /\ Kept(t)) => SameAll(t)
    BY <1>0, <1>17, AdoptDoes DEF EnterRoom
  <2> QED
    BY <1>17, <2>1 DEF Effect, Moves
<1>18. CASE RestoreRoom
  <2>1. \A t \in Slots : /\ SameMark(t) /\ SameName(t) /\ SameKind(t) /\ SameHome(t) /\ SameAlarm(t)
                         /\ t \in Woken(room) => pool'[t].st = IF pool[t].wasOff THEN "off" ELSE "live"
                         /\ t \notin Woken(room) => SameAll(t)
    BY <1>0, <1>18, WakeDoes DEF RestoreRoom
  <2> QED
    BY <1>18, <2>1 DEF Effect, Woke
<1> QED
  BY <1>3, <1>4, <1>5, <1>6, <1>7, <1>8, <1>9, <1>10, <1>11, <1>12, <1>13, <1>14, <1>15, <1>16, <1>17,
     <1>18, Steps

\* Event code in progress, as a set of frames.
Active == ToSet(stack)

LEMMA FrameIs ==
  ASSUME StackType, FramesInv, NEW f \in Active
  PROVE  f \in Frame /\ (f.k # "code" => f.s \in Slots) /\ (f.k = "change" => f.to \in Objects)
<1>1. PICK i \in DOMAIN stack : f = stack[i]
  BY DEF Active, ToSet
<1>2. f \in Frame
  BY <1>1, Members DEF StackType
<1> QED
  BY <1>1, <1>2 DEF FramesInv

LEMMA Frames == \A f \in Active : \E i \in DOMAIN stack : f = stack[i]
BY DEF Active, ToSet

LEMMA PushActive ==
  ASSUME StackType, NEW k \in Kinds, NEW s \in Slots \cup {NoSlot}, NEW o \in Objects \cup {0}, Push(k, s, o)
  PROVE  Active' = {[k |-> k, s |-> s, to |-> o]} \cup Active
<1> DEFINE f == [k |-> k, s |-> s, to |-> o]
           g == <<f>>
<1>1. f \in Frame /\ stack \in Seq(Frame) /\ stack' = g \o stack
  BY FrameOf DEF StackType, Push
<1> HIDE DEF f
<1>2. g \in Seq(Frame) /\ ToSet(g) = {f}
  BY <1>1, Single
<1> HIDE DEF g
<1>3. ToSet(g \o stack) = ToSet(g) \cup ToSet(stack)
  BY <1>1, <1>2, Concatenated
<1> QED
  BY <1>1, <1>2, <1>3 DEF Active, f

LEMMA TopActive ==
  ASSUME StackType, FramesInv, stack # <<>>
  PROVE  Head(stack) \in Active /\ Active = {Head(stack)} \cup ToSet(Tail(stack)) /\ Tail(stack) \in Seq(Frame)
<1>1. /\ Head(stack) = stack[1] /\ 1 \in DOMAIN stack /\ Tail(stack) \in Seq(Frame) /\ Len(stack) \in Nat /\ Len(stack) >= 1
      /\ DOMAIN Tail(stack) = 1..(Len(stack) - 1) /\ DOMAIN stack = 1..Len(stack)
  BY Top
<1>2. \A i \in DOMAIN Tail(stack) : i + 1 \in DOMAIN stack /\ Tail(stack)[i] = stack[i + 1]
  BY <1>1 DEF StackType
<1>3. \A i \in DOMAIN stack : i # 1 => i - 1 \in DOMAIN Tail(stack) /\ (i - 1) + 1 = i
  BY <1>1
<1>4. \A i \in DOMAIN stack : i # 1 => stack[i] = Tail(stack)[i - 1] /\ i - 1 \in DOMAIN Tail(stack)
  BY <1>2, <1>3
<1>5. ASSUME NEW f \in Active PROVE f = Head(stack) \/ f \in ToSet(Tail(stack))
  <2>1. PICK i \in DOMAIN stack : f = stack[i]
    BY Frames
  <2> QED
    BY <1>1, <1>4, <2>1 DEF ToSet
<1>6. ToSet(Tail(stack)) \subseteq Active
  <2> SUFFICES ASSUME NEW f \in ToSet(Tail(stack)) PROVE f \in Active
    OBVIOUS
  <2>1. PICK i \in DOMAIN Tail(stack) : f = Tail(stack)[i]
    BY DEF ToSet
  <2> QED
    BY <1>2, <2>1 DEF Active, ToSet
<1>7. Head(stack) \in Active
  BY <1>1 DEF Active, ToSet
<1> QED
  BY <1>1, <1>5, <1>6, <1>7

LEMMA ReturnActive ==
  ASSUME TypeInv, Return
  PROVE  /\ Head(stack) \in Active
         /\ \A f \in Active : f \in Active' \/ f = Head(stack)
         /\ \A f \in Active' : \/ f \in Active
                               \/ /\ f.k \in {"cleanup", "create"} /\ f.s = Head(stack).s
                                  /\ Head(stack).k \in {"destroy", "change"} /\ f.s \in Slots
<1> DEFINE h == Head(stack)
<1>0. StackType /\ FramesInv /\ stack # <<>>
  BY Returns DEF TypeInv
<1>1. h \in Active /\ Active = {h} \cup ToSet(Tail(stack)) /\ Tail(stack) \in Seq(Frame) /\ h \in Frame
  BY <1>0, TopActive, Top
<1>2. CASE stack' = Tail(stack)
  <2>1. Active' = ToSet(Tail(stack))
    BY <1>2 DEF Active
  <2> QED
    BY <1>1, <2>1
<1>3. CASE h.k \in {"destroy", "change"} /\ h.s \in Slots
           /\ \E k \in {"cleanup", "create"} : stack' = <<[h EXCEPT !.k = k]>> \o Tail(stack)
  <2>1. PICK k \in {"cleanup", "create"} : stack' = <<[h EXCEPT !.k = k]>> \o Tail(stack)
    BY <1>3
  <2> DEFINE f == [h EXCEPT !.k = k]
             g == <<f>>
             r == Tail(stack)
  <2>2. f \in Frame /\ f.k = k /\ f.s = h.s
    BY <1>1 DEF Frame
  <2>3. stack' = g \o r /\ r \in Seq(Frame)
    BY <1>1, <2>1
  <2> HIDE DEF f, r
  <2>4. g \in Seq(Frame) /\ ToSet(g) = {f}
    BY <2>2, Single
  <2> HIDE DEF g
  <2>5. ToSet(g \o r) = ToSet(g) \cup ToSet(r)
    BY <2>3, <2>4, Concatenated
  <2>6. Active' = {f} \cup ToSet(Tail(stack))
    BY <2>3, <2>4, <2>5 DEF Active, r
  <2> QED
    BY <1>1, <1>3, <2>2, <2>6
<1> QED
  BY <1>0, <1>2, <1>3, Returns

\* How a frame comes to be on the stack.
Opened(f) ==
  \/ f.k = "create" /\ Births /\ f.s = Alloc /\ f.s \in Slots
  \/ f.k = "destroy" /\ OpDestroy(f.s) /\ f.s \in Slots
  \/ f.k = "change" /\ Running(f.s) /\ f.s \in Slots /\ UNCHANGED pool
  \/ /\ f.k \in {"cleanup", "create"} /\ Return /\ f.s = Head(stack).s
     /\ Head(stack).k \in {"destroy", "change"} /\ f.s \in Slots
  \/ f.k = "event" /\ f.s \in Slots /\ Exists(f.s) /\ Dispatch
  \/ f.k = "event" /\ f.s \in Slots /\ DrawOne /\ f.s \in ToSet(todo)
  \/ f.k = "clear" /\ ClearOne /\ f.s = Least(Leaving) /\ f.s \in Slots
  \/ f.k = "code" /\ f.s = NoSlot

LEMMA FramesMove ==
  ASSUME TypeInv, ShapeInv, [Next]_vars
  PROVE  /\ \A f \in Active' : f \in Active \/ Opened(f)
         /\ \A f \in Active : f \in Active' \/ (Return /\ f = Head(stack))
<1>0. BookType /\ StackType /\ FramesInv /\ Waits /\ 0 \in Objects \cup {0} /\ LoopType
  BY DEF TypeInv, ShapeInv
<1>1. ASSUME UNCHANGED stack PROVE Active' = Active
  BY <1>1 DEF Active
<1>2. ASSUME stack = <<>>, stack' = <<>> PROVE Active' = Active
  BY <1>1, <1>2
<1>3. ASSUME NEW k \in Kinds, NEW s \in Slots \cup {NoSlot}, NEW o \in Objects \cup {0}, Push(k, s, o)
      PROVE  /\ Active \subseteq Active'
             /\ \A f \in Active' : f \in Active \/ (f.k = k /\ f.s = s)
  BY <1>0, <1>3, PushActive
<1>4. ASSUME NEW o \in Objects, OpCreate(o)
      PROVE  Active \subseteq Active' /\ \A f \in Active' : f \in Active \/ Opened(f)
  <2>1. Births
    BY <1>0, <1>4 DEF OpCreate, Births, May, BookType
  <2>2. Alloc \in Slots /\ Push("create", Alloc, o) /\ "create" \in Kinds
    BY <1>0, <1>4, AllocType DEF OpCreate, Kinds
  <2> QED
    BY <1>3, <2>1, <2>2 DEF Opened
<1>5. ASSUME NEW t \in Slots, OpDestroy(t)
      PROVE  Active \subseteq Active' /\ \A f \in Active' : f \in Active \/ Opened(f)
  <2>1. Push("destroy", t, 0) /\ "destroy" \in Kinds
    BY <1>5 DEF OpDestroy, Kinds
  <2> QED
    BY <1>0, <1>3, <1>5, <2>1 DEF Opened
<1>6. ASSUME NEW o \in Objects, NEW perform \in BOOLEAN, OpChange(o, perform)
      PROVE  Active \subseteq Active' /\ \A f \in Active' : f \in Active \/ Opened(f)
  <2>1. CASE perform
    <3>1. Push("change", Self, o) /\ Self \in Slots /\ Running(Self) /\ UNCHANGED pool /\ "change" \in Kinds
      BY <1>6, <2>1, SelfSlot DEF OpChange, Acts, ChangeBegin, Kinds
    <3> QED
      BY <1>3, <3>1 DEF Opened
  <2>2. CASE ~perform
    BY <1>1, <1>6, <2>2 DEF OpChange
  <2> QED
    BY <2>1, <2>2
<1>7. CASE \/ \E t \in Slots : OpDeactivate(t) \/ OpActivate(t)
           \/ OpAlarm \/ (\E r \in Rooms : OpRoom(r)) \/ NextGroup \/ PlaceOne \/ Still
  BY <1>1, <1>7 DEF OpDeactivate, OpActivate, OpAlarm, OpRoom, NextGroup, PlaceOne, Still, vars
<1>8. CASE Return
  BY <1>8, ReturnActive DEF Opened
<1>9. CASE Dispatch
  <2>1. Recipient \in Slots /\ Receives(Recipient) /\ Push("event", Recipient, 0)
    BY <1>0, <1>9, DueType, Dispatches
  <2>2. Exists(Recipient)
    BY <2>1 DEF Receives, Running, Exists
  <2>3. "event" \in Kinds
    BY DEF Kinds
  <2> QED
    BY <1>0, <1>3, <1>9, <2>1, <2>2, <2>3 DEF Opened
<1>10. CASE DrawOne
  <2>1. PICK i \in DOMAIN todo : Push("event", todo[i], 0)
    BY <1>10 DEF DrawOne
  <2>2. todo[i] \in Slots /\ todo[i] \in ToSet(todo)
    <3>1. todo \in Seq(Slots)
      BY DEF TypeInv, LoopType
    <3> QED
      BY <3>1, <2>1, Members
  <2>3. "event" \in Kinds
    BY DEF Kinds
  <2> QED
    BY <1>0, <1>3, <1>10, <2>1, <2>2, <2>3 DEF Opened
<1>11. CASE ClearOne
  <2>1. Least(Leaving) \in Slots /\ Push("clear", Least(Leaving), 0) /\ "clear" \in Kinds
    BY <1>11, LeavingType DEF ClearOne, Kinds
  <2> QED
    BY <1>0, <1>3, <1>11, <2>1 DEF Opened
<1>12. CASE CreationCode
  <2>1. Push("code", NoSlot, 0) /\ "code" \in Kinds /\ NoSlot \in Slots \cup {NoSlot}
    BY <1>12 DEF CreationCode, Kinds
  <2> QED
    BY <1>0, <1>3, <2>1 DEF Opened
<1>13. CASE Turn
  BY <1>0, <1>2, <1>13, TurnDoes
<1>14. CASE Reaping \/ LeaveRoom \/ EnterRoom \/ RestoreRoom
  BY <1>1, <1>14 DEF Reaping, EndStepEnds, RoomStartEnds, LeaveRoom, EnterRoom, RestoreRoom
<1> QED
  BY <1>4, <1>5, <1>6, <1>7, <1>8, <1>9, <1>10, <1>11, <1>12, <1>13, <1>14, Steps

-----------------------------------------------------------------------------
(* How instances end and sleep.                                            *)

\* The dead have had their Clean Up or are having their Destroy event, and who is cleared has had it.
MarkedInv ==
  /\ \A s \in Slots : ~IsFree(s) /\ pool[s].marked =>
       pool[s].cleaned > 0 \/ \E f \in Active : f.k = "destroy" /\ f.s = s
  /\ \A f \in Active : f.k = "clear" => Exists(f.s) /\ pool[f.s].cleaned > 0

\* No event code runs for an instance that is asleep, and none is drawn.
AwakeInv ==
  /\ \A f \in Active : f.s \in Slots => ~Asleep(f.s)
  /\ pc = "draw" => \A s \in ToSet(todo) : ~Asleep(s)

LEMMA NoneActive ==
  ASSUME stack = <<>>
  PROVE  Active = {}
BY DEF Active, ToSet

LEMMA Later ==
  ASSUME NEW q \in Seq(Slots), NEW i \in DOMAIN q
  PROVE  /\ SubSeq(q, i + 1, Len(q)) \in Seq(Slots) /\ ToSet(SubSeq(q, i + 1, Len(q))) \subseteq ToSet(q)
<1> DEFINE v == SubSeq(q, i + 1, Len(q))
<1>1. DOMAIN q = 1..Len(q) /\ Len(q) \in Nat
  BY LenProperties
<1>2. v \in Seq(Slots) /\ Len(v) = Len(q) - i /\ \A j \in 1..(Len(q) - i) : v[j] = q[j + i]
  <2>1. \A j \in 1..(Len(q) - i) : j + i \in 1..Len(q) /\ q[j + i] \in Slots
    BY <1>1
  <2> QED
    BY <1>1, <2>1
<1>3. DOMAIN v = 1..(Len(q) - i)
  BY <1>2, LenProperties
<1> HIDE DEF v
<1>4. \A j \in DOMAIN v : j + i \in DOMAIN q /\ v[j] = q[j + i]
  BY <1>1, <1>2, <1>3
<1>5. ToSet(v) \subseteq ToSet(q)
  BY <1>4 DEF ToSet
<1> QED
  BY <1>2, <1>5 DEF v

LEMMA Removed ==
  ASSUME NEW q \in Seq(Slots), NEW i \in DOMAIN q
  PROVE  RemoveAt(q, i) \in Seq(Slots) /\ ToSet(RemoveAt(q, i)) \subseteq ToSet(q)
<1> DEFINE u == SubSeq(q, 1, i - 1)
           v == SubSeq(q, i + 1, Len(q))
<1>1. DOMAIN q = 1..Len(q) /\ Len(q) \in Nat
  BY LenProperties
<1>2. u \in Seq(Slots) /\ Len(u) = i - 1 /\ \A j \in 1..(i - 1) : u[j] = q[j]
  <2>1. 1 \in 1..(Len(q) + 1) /\ i - 1 \in 0..Len(q)
    BY <1>1
  <2>2. \A j \in 1..(i - 1) : j \in 1..Len(q) /\ q[j] \in Slots
    BY <1>1
  <2> QED
    BY <1>1, <2>1, <2>2
<1>3. v \in Seq(Slots) /\ ToSet(v) \subseteq ToSet(q)
  BY Later
<1>4. RemoveAt(q, i) = u \o v
  BY DEF RemoveAt
<1>5. DOMAIN u = 1..(i - 1)
  BY <1>2, LenProperties
<1> HIDE DEF u, v
<1>6. ToSet(u) \subseteq ToSet(q)
  <2>1. \A j \in DOMAIN u : j \in DOMAIN q /\ u[j] = q[j]
    BY <1>1, <1>2, <1>5
  <2> QED
    BY <2>1 DEF ToSet
<1>7. u \o v \in Seq(Slots) /\ ToSet(u \o v) = ToSet(u) \cup ToSet(v)
  BY <1>2, <1>3, Concatenated
<1> QED
  BY <1>3, <1>4, <1>6, <1>7

\* A Destroy event is over.
LEMMA ReturnCleans ==
  ASSUME TypeInv, Return, Head(stack).k = "destroy"
  PROVE  Head(stack).s \in Slots /\ pool'[Head(stack).s].cleaned > 0
<1>1. CleanUp(Head(stack).s) /\ Head(stack).s \in Slots
  BY Returns
<1> QED
  BY <1>1, CleanUpDoes DEF TypeInv

\* Frames only end when their handler returns; everyone else's stay.
LEMMA OthersEnd ==
  ASSUME TypeInv, ShapeInv, [Next]_vars, Active' # {}, NEW t \in Slots
  PROVE  ~Ended(t) /\ ~Slept(t)
<1>0. StackType /\ FramesInv /\ ClearFrames
  BY DEF TypeInv, ShapeInv
<1>1. stack' # <<>>
  <2> SUFFICES ASSUME stack' = <<>> PROVE FALSE
    OBVIOUS
  <2> QED
    BY DEF Active, ToSet
<1>2. ~Slept(t) /\ ~Reaping
  BY <1>1 DEF Slept, LeaveRoom, Reaping, EndStepEnds, RoomStartEnds, LoopOver
<1>3. ASSUME Return, Head(stack).k = "clear" PROVE FALSE
  <2>1. stack # <<>> /\ stack' = Tail(stack)
    BY <1>3 DEF Return
  <2>2. 1 \in DOMAIN stack /\ stack[1].k = "clear"
    BY <1>0, <1>3, <2>1, Top
  <2>3. Len(stack) = 1
    BY <1>0, <2>2 DEF ClearFrames
  <2> QED
    BY <1>0, <1>1, <2>1, <2>3, Popped
<1> QED
  BY <1>2, <1>3 DEF Ended

LEMMA MarkedKept == ASSUME TypeInv, ShapeInv, MarkedInv, NoOverflow, [Next]_vars PROVE MarkedInv'
<1>0. PoolType /\ StackType /\ FramesInv /\ 0 \in Objects \cup {0}
  BY DEF TypeInv
<1>1. ASSUME NEW s \in Slots, ~IsFree(s)', pool'[s].marked
      PROVE  pool'[s].cleaned > 0 \/ \E f \in Active' : f.k = "destroy" /\ f.s = s
  <2>1. CASE SameMark(s) /\ ~IsFree(s)
    <3>1. CASE pool[s].cleaned > 0
      BY <2>1, <3>1 DEF SameMark
    <3>2. CASE ~(pool[s].cleaned > 0)
      <4>1. PICK f \in Active : f.k = "destroy" /\ f.s = s
        BY <1>1, <2>1, <3>2 DEF MarkedInv, SameMark
      <4>2. CASE f \in Active'
        BY <4>1, <4>2
      <4>3. CASE Return /\ f = Head(stack)
        BY <4>1, <4>3, ReturnCleans
      <4> QED
        BY <4>2, <4>3, FramesMove
    <3> QED
      BY <3>1, <3>2
  <2>2. CASE Born(s)
    BY <1>1, <2>2, BirthDoes DEF Born
  <2>3. CASE Condemned(s)
    <3>1. Push("destroy", s, 0) /\ "destroy" \in Kinds
      BY <2>3 DEF Condemned, OpDestroy, Kinds
    <3> DEFINE f == [k |-> "destroy", s |-> s, to |-> 0]
    <3>2. Active' = {f} \cup Active
      BY <1>0, <3>1, PushActive
    <3>3. f.k = "destroy" /\ f.s = s
      OBVIOUS
    <3> HIDE DEF f
    <3> QED
      BY <3>2, <3>3
  <2>4. CASE Tidied(s)
    BY <2>4 DEF Tidied
  <2>5. Effect(s)
    BY Effects
  <2>6. \/ SameMark(s) /\ ~IsFree(s)
        \/ Born(s) \/ Condemned(s) \/ Tidied(s)
    <3>1. SameLife(s) => ~IsFree(s)
      BY <1>1, SameExists
    <3>2. Exists(s) \/ Asleep(s) => ~IsFree(s)
      BY DEF Exists, Asleep, IsFree
    <3>3. ~Ended(s)
      BY <1>1 DEF Ended
    <3>4. Slept(s) => Exists(s)
      BY DEF Slept, Sleepers
    <3>5. Woke(s) => Asleep(s)
      BY DEF Woke, Woken, Asleep
    <3> QED
      BY <2>5, <3>1, <3>2, <3>3, <3>4, <3>5, Zenon DEF Effect, SameAll, Changed, Switched, Alarmed, Slept, Moves, Woke
  <2> QED
    BY <2>1, <2>2, <2>3, <2>4, <2>6
<1>2. ASSUME NEW f \in Active', f.k = "clear" PROVE Exists(f.s)' /\ pool'[f.s].cleaned > 0
  <2> DEFINE t == f.s
  <2>0. f.s \in Slots
    <3>1. StackType' /\ FramesInv'
      BY StepType DEF TypeInv
    <3>2. \A i \in DOMAIN stack' : stack'[i].k # "code" => stack'[i].s \in Slots
      BY <3>1 DEF FramesInv
    <3>3. \E i \in DOMAIN stack' : f = stack'[i]
      BY <1>2 DEF Active, ToSet
    <3> QED
      BY <1>2, <3>2, <3>3
  <2>1. CASE f \in Active
    <3>1. Exists(t) /\ pool[t].cleaned > 0
      BY <1>2, <2>1 DEF MarkedInv
    <3>2. ~Ended(t) /\ ~Slept(t)
      BY <2>0, OthersEnd
    <3>3. ~Born(t)
      BY <3>1, BirthDoes DEF Born, Exists, IsFree
    <3>4. ~Woke(t)
      BY <3>1 DEF Woke, Woken, Exists
    <3>5. Effect(t)
      BY <2>0, Effects
    <3>6. SameLife(t) \/ Switched(t)
      BY <3>2, <3>3, <3>4, <3>5, Zenon DEF Effect, SameAll, Condemned, Tidied, Changed, Alarmed, Moves
    <3>7. Exists(t)'
      BY <3>1, <3>6, SameExists DEF Switched
    <3>8. SameMark(t) \/ pool'[t].cleaned = pool[t].cleaned \/ pool'[t].cleaned > 0
      BY <3>2, <3>3, <3>4, <3>5, Zenon DEF Effect, SameAll, Condemned, Tidied, Changed, Switched, Alarmed, Moves
    <3> QED
      BY <3>1, <3>7, <3>8 DEF SameMark
  <2>2. CASE f \notin Active
    <3>1. ClearOne /\ f.s = Least(Leaving)
      BY <1>2, <2>2, FramesMove DEF Opened
    <3>2. CleanUp(f.s) /\ f.s \in Leaving
      BY <3>1, LeavingType DEF ClearOne
    <3>3. pool'[f.s].cleaned > 0 /\ SameLife(f.s)
      BY <1>0, <2>0, <3>2, CleanUpDoes
    <3> QED
      BY <3>2, <3>3, SameExists DEF Leaving
  <2> QED
    BY <2>1, <2>2
<1> QED
  BY <1>1, <1>2 DEF MarkedInv

\* Only the change of room puts instances to sleep.
LEMMA FallsAsleep ==
  ASSUME TypeInv, ShapeInv, [Next]_vars, NoOverflow, NEW t \in Slots, Asleep(t)', ~Asleep(t)
  PROVE  Slept(t)
<1>1. Effect(t)
  BY Effects
<1>2. ~SameLife(t)
  BY SameExists
<1>3. ~Born(t) /\ ~Ended(t) /\ ~Switched(t) /\ ~Woke(t)
  BY BirthDoes DEF Born, Ended, Switched, Asleep, IsFree, Exists, Woke, Woken
<1> QED
  BY <1>1, <1>2, <1>3, Zenon DEF Effect, SameAll, Condemned, Tidied, Changed, Alarmed, Moves

LEMMA DrawList ==
  ASSUME TypeInv, [Next]_vars, pc' = "draw"
  PROVE  /\ UNCHANGED pool \/ pc = "draw"
         /\ \/ todo' = Ascending({s \in 0..(count - 1) : Running(s)}) /\ UNCHANGED pool
            \/ pc = "draw" /\ ToSet(todo') \subseteq ToSet(todo)
<1>1. CASE pc = "draw" /\ todo' = todo
  BY <1>1
<1>2. CASE DrawOne
  <2>1. PICK i \in DOMAIN todo : todo' = RemoveAt(todo, i)
    BY <1>2 DEF DrawOne
  <2>2. todo \in Seq(Slots)
    BY DEF TypeInv, LoopType
  <2> QED
    BY <1>2, <2>1, <2>2, Removed DEF DrawOne
<1>3. CASE FinishStep
  BY <1>3 DEF FinishStep
<1>4. CASE Operation \/ Return \/ UNCHANGED vars
  <2>1. UNCHANGED <<pc, todo>>
    BY <1>4 DEF Operation, OpCreate, OpDestroy, OpChange, OpDeactivate, OpActivate, OpAlarm, OpRoom, Return, loop, vars
  <2> QED
    BY <1>1, <2>1
<1>5. CASE Engine /\ ~DrawOne /\ ~FinishStep
  <2>1. after # "draw"
    BY DEF TypeInv, MoveType
  <2>2. FALSE
    BY <1>5, <2>1 DEF Engine, StartFrame, Dispatch, NextGroup, PhaseEnds, EndStepEnds, EndFrame, DrawEnds,
         CommitRequest, CannotStore, LeaveRoom, ClearOne, EnterRoom, RestoreRoom, PlaceOne, PlacesEnd, CreationCode,
         CreationCodeEnds, RoomStartEnds, MoveAgain, ResumeFrame, EndMovedFrame, StartMove, EnterPhase, Grouped,
         StepPhases
  <2> QED
    BY <2>2
<1> QED
  BY <1>2, <1>3, <1>4, <1>5 DEF Next

LEMMA AwakeKept == ASSUME TypeInv, ShapeInv, AwakeInv, NoOverflow, [Next]_vars PROVE AwakeInv'
<1>0. PoolType /\ StackType /\ FramesInv /\ LoopType
  BY DEF TypeInv
<1>1. ASSUME NEW t \in Slots, Active' # {}, ~Asleep(t) PROVE ~Asleep(t)'
  BY <1>1, FallsAsleep, OthersEnd
<1>2. ASSUME NEW f \in Active', f.s \in Slots PROVE ~Asleep(f.s)'
  <2>1. CASE f \in Active
    BY <1>1, <1>2, <2>1 DEF AwakeInv
  <2>2. CASE Opened(f)
    <3>1. CASE f.k = "create" /\ Births /\ f.s = Alloc
      BY <3>1, BirthDoes DEF Asleep
    <3>2. CASE OpDestroy(f.s) \/ Running(f.s) \/ Exists(f.s)
      <4>1. ~Asleep(f.s)
        BY <3>2 DEF OpDestroy, Running, Exists, Asleep
      <4> QED
        BY <1>1, <1>2, <4>1
    <3>3. CASE Return /\ f.s = Head(stack).s
      <4>1. Head(stack) \in Active
        BY <3>3, ReturnActive
      <4>2. ~Asleep(f.s)
        BY <1>2, <3>3, <4>1 DEF AwakeInv
      <4> QED
        BY <1>1, <1>2, <4>2
    <3>4. CASE DrawOne /\ f.s \in ToSet(todo)
      <4>1. ~Asleep(f.s)
        BY <3>4 DEF AwakeInv, DrawOne
      <4> QED
        BY <1>1, <1>2, <4>1
    <3>5. CASE ClearOne /\ f.s = Least(Leaving)
      <4>1. f.s \in Leaving
        BY <3>5, LeavingType DEF ClearOne
      <4>2. ~Asleep(f.s)
        BY <4>1 DEF Leaving, Exists, Asleep
      <4> QED
        BY <1>1, <1>2, <4>2
    <3>6. ~(f.k = "code" /\ f.s = NoSlot)
      BY <1>2, Numbers
    <3> QED
      BY <2>2, <3>1, <3>2, <3>3, <3>4, <3>5, <3>6 DEF Opened
  <2> QED
    BY <2>1, <2>2, FramesMove
<1>3. ASSUME pc' = "draw", NEW s \in ToSet(todo') PROVE ~Asleep(s)'
  <2>1. s \in Slots
    <3>1. todo' \in Seq(Slots)
      BY StepType DEF TypeInv, LoopType
    <3> QED
      BY <1>3, <3>1, Members
  <2>2. CASE todo' = Ascending({x \in 0..(count - 1) : Running(x)}) /\ UNCHANGED pool
    <3> DEFINE S == {x \in 0..(count - 1) : Running(x)}
    <3>1. S \subseteq Slots
      <4>1. count \in 0..Cap
        BY DEF TypeInv, BookType
      <4> QED
        BY <4>1, Below
    <3>2. ToSet(Ascending(S)) = S
      BY <3>1, SlotSets
    <3>3. Running(s)
      BY <1>3, <2>2, <3>2
    <3> QED
      BY <2>2, <3>3 DEF Running, Asleep
  <2>3. CASE pc = "draw" /\ ToSet(todo') \subseteq ToSet(todo)
    <3>1. ~Asleep(s)
      BY <1>3, <2>3 DEF AwakeInv
    <3>2. ~LeaveRoom
      BY <2>3 DEF LeaveRoom
    <3> QED
      BY <2>1, <3>1, <3>2, FallsAsleep DEF Slept
  <2> QED
    BY <1>3, <2>2, <2>3, DrawList
<1> QED
  BY <1>2, <1>3 DEF AwakeInv

LEMMA LivesInit == ASSUME Init PROVE MarkedInv /\ AwakeInv
<1>0. PICK gone \in SUBSET (1..Len(Placed[room])) : Opening(gone)
  BY FirstRoom
<1>1. \A s \in Slots : ~pool[s].marked
  BY <1>0, FreeIs DEF Opening
<1>2. Active = {} /\ pc = "idle"
  BY NoneActive DEF Init
<1> QED
  BY <1>1, <1>2 DEF MarkedInv, AwakeInv

LEMMA EndsClean == ASSUME TypeInv, ShapeInv, MarkedInv, [Next]_vars PROVE EachCleaned
<1> SUFFICES ASSUME NEW s \in Slots, ~IsFree(s), IsFree(s)' PROVE pool[s].cleaned > 0
  BY DEF EachCleaned
<1>1. CASE Reaping /\ s \in Doomed
  <2>1. Active = {}
    BY <1>1, NoneActive DEF Reaping, EndStepEnds, RoomStartEnds, LoopOver
  <2> QED
    BY <1>1, <2>1 DEF MarkedInv, Doomed
<1>2. CASE Return /\ Head(stack).k = "clear" /\ s = Head(stack).s
  BY <1>2, ReturnActive DEF MarkedInv
<1> QED
  BY <1>1, <1>2, Ends

LEMMA SleepsOn == ASSUME TypeInv, ShapeInv, AwakeInv, NoOverflow, [Next]_vars PROVE DormantKept
<1>1. ASSUME NEW s \in Slots, ~Asleep(s), Asleep(s)' PROVE pool'[s].wasOff <=> pool[s].st = "off"
  BY <1>1, FallsAsleep DEF Slept
<1>2. ASSUME NEW s \in Slots, Asleep(s)
      PROVE  /\ <<pool'[s].id, pool'[s].obj, pool'[s].alarm>> = <<pool[s].id, pool[s].obj, pool[s].alarm>>
             /\ \/ Asleep(s)'
                \/ room = pool[s].owner /\ pool'[s].st = (IF pool[s].wasOff THEN "off" ELSE "live")
  <2>0. pool[s] \in Inst /\ pool'[s] \in Inst
    BY StepType DEF TypeInv, PoolType
  <2>1. ~Born(s)
    BY <1>2, BirthDoes DEF Born, Asleep, IsFree
  <2>2. ~Ended(s)
    BY <1>2, ReturnActive DEF Ended, Doomed, Asleep, AwakeInv
  <2>3. ~Changed(s) /\ ~Switched(s) /\ ~Slept(s) /\ ~Moves(s)
    BY <1>2 DEF Changed, Switched, Slept, Sleepers, Moves, Running, Exists, Asleep
  <2>4. ~Alarmed(s)
    <3>1. ~Running(s)
      BY <1>2 DEF Running, Asleep
    <3>2. ~(OpAlarm /\ s = Self)
      <4> SUFFICES ASSUME OpAlarm, s = Self PROVE FALSE
        OBVIOUS
      <4>1. Head(stack) \in Active
        <5>1. StackType /\ FramesInv /\ stack # <<>>
          BY DEF TypeInv, OpAlarm, Acts
        <5> QED
          BY <5>1, TopActive
      <4> QED
        BY <1>2, <4>1 DEF AwakeInv, Self
    <3> QED
      BY <3>1, <3>2 DEF Alarmed
  <2>5. SameName(s) /\ SameKind(s) /\ SameAlarm(s) /\ (SameLife(s) \/ Woke(s))
    <3>1. Effect(s)
      BY Effects
    <3> QED
      BY <2>1, <2>2, <2>3, <2>4, <3>1, Zenon DEF Effect, SameAll, Condemned, Tidied, Woke
  <2>6. pool'[s].id = pool[s].id /\ pool'[s].obj = pool[s].obj /\ pool'[s].alarm = pool[s].alarm
    BY <2>0, <2>5 DEF SameName, SameKind, SameAlarm, Inst
  <2>7. SameLife(s) => Asleep(s)'
    BY <1>2, SameExists
  <2>8. Woke(s) => room = pool[s].owner /\ pool'[s].st = (IF pool[s].wasOff THEN "off" ELSE "live")
    BY DEF Woke, Woken
  <2> QED
    BY <2>5, <2>6, <2>7, <2>8
<1> QED
  BY <1>1, <1>2 DEF DormantKept, Asleep

\* No instance disappears without its Clean Up event, and a dormant one keeps its slot, identity and alarm
\* until its own room wakes it, as active or deactivated as it left, for any pool that does not overflow.
THEOREM Lives == ASSUME NoOverflow PROVE Spec => LivesKept
<1>1. Init => TypeInv /\ ShapeInv /\ MarkedInv /\ AwakeInv
  BY InitType, ShapeInit, LivesInit
<1>2. TypeInv /\ ShapeInv /\ MarkedInv /\ AwakeInv /\ [Next]_vars => (TypeInv /\ ShapeInv /\ MarkedInv /\ AwakeInv)'
  BY StepType, ShapeKept, MarkedKept, AwakeKept
<1>3. TypeInv /\ ShapeInv /\ MarkedInv /\ AwakeInv /\ [Next]_vars => [EachCleaned /\ DormantKept]_pool
  BY EndsClean, SleepsOn
<1> QED
  BY <1>1, <1>2, <1>3, PTL DEF Spec, LivesKept

-----------------------------------------------------------------------------
(* Who gets an event of a phase.                                           *)

\* The watermarks, and the instances created in the phase, or in its group in classic formats: their ids lie
\* above the phase's mark, and no classic group has collected one.
NewInv ==
  /\ firstId <= mark /\ mark <= nextId
  /\ pc \in StepPhases => \A s \in born : ~IsFree(s) /\ pool[s].id >= mark
  /\ Classic /\ pc \in StepPhases => \A s \in ToSet(todo) : ~IsFree(s) /\ s \notin born

\* Within the phases of a step nobody ends.
LEMMA StepKeeps ==
  ASSUME TypeInv, ShapeInv, [Next]_vars, pc \in StepPhases, pc' \in StepPhases, NEW t \in Slots, ~IsFree(t)
  PROVE  ~IsFree(t)'
<1> SUFFICES ASSUME IsFree(t)' PROVE FALSE
  OBVIOUS
<1>1. ~Reaping
  BY DEF Reaping, EndStepEnds, RoomStartEnds, EnterPhase, StepPhases
<1>2. Return /\ Head(stack).k = "clear"
  BY <1>1, Ends
<1>3. stack # <<>> /\ StackType /\ FramesInv
  BY <1>2, Returns DEF TypeInv
<1>4. 1 \in DOMAIN stack /\ stack[1].k = "clear"
  BY <1>2, <1>3, Top
<1>5. pc = "clear"
  BY <1>4 DEF ShapeInv, ClearFrames
<1> QED
  BY <1>5 DEF StepPhases

LEMMA CollectedRun ==
  ASSUME BookType, NEW o \in Objects
  PROVE  \A s \in ToSet(Collected(o)) : s \in Slots /\ Running(s) /\ s \in ToSet(list[o])
<1> DEFINE q == list[o]
           R == {s \in Slots : Running(s)}
<1>1. q \in Seq(Slots)
  BY DEF BookType
<1> HIDE DEF q
<1>2. Reverse(q) \in Seq(Slots) /\ ToSet(Reverse(q)) = ToSet(q)
  BY <1>1, Reversed
<1>3. ToSet(Sift(Reverse(q), R)) = ToSet(Reverse(q)) \cap R
  BY <1>2, Sifted
<1>4. Collected(o) = Sift(Reverse(q), R)
  BY DEF Collected, q
<1> QED
  BY <1>2, <1>3, <1>4 DEF q

LEMMA EnterNew ==
  ASSUME TypeInv, NewInv, NEW ph, NEW n, EnterPhase(ph, n), UNCHANGED nextId, firstId' \in {firstId, nextId},
         UNCHANGED pool \/ ph \notin StepPhases
  PROVE  NewInv'
<1>1. pc' = ph /\ mark' = nextId /\ born' = {}
      /\ todo' \in {Collected(Head(Ascending(Objects))), <<>>}
  BY DEF EnterPhase
<1>2. firstId \in Nat /\ mark \in Nat /\ nextId \in Nat
  BY DEF TypeInv, LoopType, BookType
<1>3. firstId' <= mark' /\ mark' <= nextId'
  BY <1>1, <1>2 DEF NewInv
<1>4. ASSUME pc' \in StepPhases, NEW s \in ToSet(todo') PROVE ~IsFree(s)'
  <2>1. UNCHANGED pool
    BY <1>1, <1>4
  <2>2. ToSet(<<>>) = {}
    BY DEF ToSet
  <2>3. todo' = Collected(Head(Ascending(Objects)))
    BY <1>1, <1>4, <2>2
  <2>4. Head(Ascending(Objects)) \in Objects
    BY GroupList
  <2>5. Running(s)
    BY <1>4, <2>3, <2>4, CollectedRun DEF TypeInv
  <2> QED
    BY <2>1, <2>5 DEF Running, IsFree
<1> QED
  BY <1>1, <1>3, <1>4 DEF NewInv

\* A step inside a phase that creates nobody.
LEMMA StayNew ==
  ASSUME TypeInv, ShapeInv, NewInv, [Next]_vars, pc' = pc, UNCHANGED <<policy, mark, firstId, nextId, born>>,
         Survivors, pc \in StepPhases => ToSet(todo') \subseteq ToSet(todo)
  PROVE  NewInv'
<1>1. firstId' <= mark' /\ mark' <= nextId'
  BY DEF NewInv
<1>2. ASSUME pc \in StepPhases, NEW s \in Slots, ~IsFree(s) PROVE ~IsFree(s)' /\ pool'[s].id = pool[s].id
  <2>1. ~IsFree(s)'
    BY <1>2, StepKeeps
  <2> QED
    BY <2>1 DEF Survivors, SameName
<1>3. born \subseteq Slots /\ ToSet(todo) \subseteq Slots
  <2>1. todo \in Seq(Slots) /\ born \subseteq Slots
    BY DEF TypeInv, LoopType, PastType
  <2> QED
    BY <2>1, Members
<1>4. pc' \in StepPhases => \A s \in born' : ~IsFree(s)' /\ pool'[s].id >= mark'
  <2> SUFFICES ASSUME pc \in StepPhases, NEW s \in born PROVE ~IsFree(s)' /\ pool'[s].id >= mark
    OBVIOUS
  <2>1. ~IsFree(s) /\ pool[s].id >= mark
    BY DEF NewInv
  <2> QED
    BY <1>2, <1>3, <2>1
<1>5. Classic' /\ pc' \in StepPhases => \A s \in ToSet(todo') : ~IsFree(s)' /\ s \notin born'
  <2> SUFFICES ASSUME Classic, pc \in StepPhases, NEW s \in ToSet(todo') PROVE ~IsFree(s)' /\ s \notin born
    BY DEF Classic
  <2>1. s \in ToSet(todo) /\ ~IsFree(s) /\ s \notin born
    BY DEF NewInv
  <2> QED
    BY <1>2, <1>3, <2>1
<1> QED
  BY <1>1, <1>4, <1>5 DEF NewInv

LEMMA CreateNew ==
  ASSUME TypeInv, ShapeInv, NewInv, NoOverflow, [Next]_vars, NEW o \in Objects, OpCreate(o)
  PROVE  NewInv'
<1>0. PoolType /\ BookType /\ nextId \in Nat /\ room \in Rooms /\ mark \in Nat /\ firstId \in Nat
      /\ FALSE \in BOOLEAN /\ born \subseteq Slots /\ todo \in Seq(Slots)
  BY DEF TypeInv, BookType, FlowType, LoopType, PastType
<1>1. /\ Create(Alloc, o, nextId, FALSE, room) /\ born' = born \cup {Alloc}
      /\ UNCHANGED <<policy, pc, mark, firstId, todo>> /\ (Full => "overflow" \in Habits)
  BY DEF OpCreate, flow, loop, May
<1>2. /\ Alloc \in Slots /\ \A t \in Slots : t # Alloc => SameAll(t)
      /\ pool'[Alloc].st = "live" /\ pool'[Alloc].id = nextId /\ nextId' = IdAfter(FALSE)
  BY <1>0, <1>1, CreateDoes
<1>3. IsFree(Alloc)
  BY <1>0, <1>1, AllocFree DEF ShapeInv, NoOverflow
<1>4. nextId' = nextId + 1
  BY <1>2 DEF IdAfter
<1>5. firstId' <= mark' /\ mark' <= nextId' /\ mark <= nextId
  BY <1>0, <1>1, <1>4 DEF NewInv
<1>6. \A t \in Slots : t = Alloc => ~IsFree(t)' /\ pool'[t].id >= mark
  <2>1. nextId >= mark
    BY <1>0, <1>5
  <2> QED
    BY <1>2, <2>1 DEF IsFree
<1>7. \A t \in Slots : ~IsFree(t) => ~IsFree(t)' /\ pool'[t].id = pool[t].id /\ t # Alloc
  BY <1>2, <1>3, SameExists DEF SameAll, SameName
<1>8. pc' \in StepPhases => \A s \in born' : ~IsFree(s)' /\ pool'[s].id >= mark'
  <2> SUFFICES ASSUME pc \in StepPhases, NEW s \in born' PROVE ~IsFree(s)' /\ pool'[s].id >= mark
    BY <1>1
  <2>1. CASE s = Alloc
    BY <1>2, <1>6, <2>1
  <2>2. CASE s # Alloc
    <3>1. s \in born /\ s \in Slots
      BY <1>0, <1>1, <2>2
    <3>2. ~IsFree(s) /\ pool[s].id >= mark
      BY <3>1 DEF NewInv
    <3> QED
      BY <1>7, <3>1, <3>2
  <2> QED
    BY <2>1, <2>2
<1>9. Classic' /\ pc' \in StepPhases => \A s \in ToSet(todo') : ~IsFree(s)' /\ s \notin born'
  <2> SUFFICES ASSUME Classic, pc \in StepPhases, NEW s \in ToSet(todo) PROVE ~IsFree(s)' /\ s \notin born'
    BY <1>1 DEF Classic
  <2>1. ~IsFree(s) /\ s \notin born
    BY DEF NewInv
  <2>2. s \in Slots
    BY <1>0, Members
  <2>3. s # Alloc /\ ~IsFree(s)'
    BY <1>7, <2>1, <2>2
  <2> QED
    BY <1>1, <2>1, <2>3
<1> QED
  BY <1>5, <1>8, <1>9 DEF NewInv

LEMMA GroupNew ==
  ASSUME TypeInv, NewInv, NextGroup
  PROVE  NewInv'
<1>0. /\ firstId \in Nat /\ mark \in Nat /\ nextId \in Nat /\ BookType
  BY DEF TypeInv, LoopType, BookType
<1>1. UNCHANGED <<pool, nextId, policy, pc, firstId>> /\ todo' = Collected(Head(Tail(groups)))
  BY DEF NextGroup, poolVars, flow
<1>2. CASE Classic
  <2>1. mark' = nextId /\ born' = {}
    BY <1>2 DEF NextGroup
  <2>2. Head(Tail(groups)) \in Objects
    <3>1. groups \in Seq(Objects) /\ Len(groups) > 1
      BY DEF TypeInv, LoopType, NextGroup
    <3> QED
      BY <3>1, GroupAfter
  <2>3. \A s \in ToSet(todo') : Running(s)
    BY <1>0, <1>1, <2>2, CollectedRun
  <2>4. \A s \in ToSet(todo') : ~IsFree(s)'
    BY <1>1, <2>3 DEF Running, IsFree
  <2>5. firstId' <= mark' /\ mark' <= nextId'
    BY <1>0, <1>1, <2>1 DEF NewInv
  <2> QED
    BY <2>1, <2>4, <2>5 DEF NewInv
<1>3. CASE ~Classic
  <2>1. UNCHANGED <<mark, born>> /\ ~Classic'
    BY <1>1, <1>3 DEF NextGroup, Classic
  <2> QED
    BY <1>1, <2>1 DEF NewInv, IsFree
<1> QED
  BY <1>2, <1>3

LEMMA NewKept == ASSUME TypeInv, ShapeInv, NewInv, NoOverflow, [Next]_vars PROVE NewInv'
<1>0. Waits /\ BookType /\ LoopType /\ firstId \in Nat /\ mark \in Nat /\ nextId \in Nat
  BY DEF TypeInv, ShapeInv, LoopType, BookType
<1>1. \/ Births
      \/ Survivors /\ UNCHANGED nextId
  BY <1>0, Fates
<1>2. ASSUME pc' \notin StepPhases, UNCHANGED <<mark, firstId>>, nextId' \in {nextId, nextId + 1} PROVE NewInv'
  BY <1>0, <1>2 DEF NewInv
<1>3. ASSUME UNCHANGED <<pool, policy, pc, mark, firstId, nextId, born, todo>> PROVE NewInv'
  BY <1>3 DEF NewInv, IsFree, Classic
<1>4. ASSUME UNCHANGED <<policy, pc, mark, firstId, nextId, born>>, ToSet(todo') \subseteq ToSet(todo),
             Survivors
      PROVE  NewInv'
  BY <1>4, StayNew
<1>5. ASSUME NEW o \in Objects, OpCreate(o) PROVE NewInv'
  BY <1>5, CreateNew
<1>6. CASE \/ \E t \in Slots : OpDestroy(t) \/ OpDeactivate(t) \/ OpActivate(t)
           \/ (\E o \in Objects, perform \in BOOLEAN : OpChange(o, perform)) \/ OpAlarm \/ Return
  <2>1. UNCHANGED <<policy, pc, mark, firstId, born, todo>>
    BY <1>6 DEF OpDestroy, OpDeactivate, OpActivate, OpChange, OpAlarm, Return, flow, loop, past
  <2>2. UNCHANGED nextId
    BY <1>6 DEF OpDestroy, OpDeactivate, OpActivate, OpChange, OpAlarm, Return, Mark, SetActive, ChangeBegin,
                ChangeQuietly, SetAlarm, CleanUp, Dispose, ChangeEnd, poolVars
  <2>3. Survivors
    <3>1. ~Births
      <4> SUFFICES ASSUME Births PROVE FALSE
        OBVIOUS
      <4>1. PICK o \in Objects, id \in Nat, b \in BOOLEAN :
              Create(Alloc, o, id, b, room) /\ (b => pc = "place") /\ (~b => id = nextId)
        BY DEF Births
      <4>2. nextId' = IdAfter(b)
        BY <4>1 DEF Create
      <4>3. b
        BY <1>0, <2>2, <4>2 DEF IdAfter
      <4>4. stack = <<>>
        BY <1>0, <4>1, <4>3 DEF Waits
      <4> QED
        BY <1>6, <4>4, Returns DEF OpDestroy, OpDeactivate, OpActivate, OpChange, OpAlarm, Acts
    <3> QED
      BY <1>1, <3>1
  <2> QED
    BY <1>4, <2>1, <2>2, <2>3
<1>7. ASSUME NEW r \in Rooms, OpRoom(r) PROVE NewInv'
  BY <1>3, <1>7 DEF OpRoom, poolVars, loop, past
<1>8. CASE Dispatch
  <2>1. UNCHANGED <<policy, pc, mark, firstId, born>> /\ UNCHANGED nextId
    BY <1>8 DEF Dispatch, flow, past, SetAlarm, poolVars
  <2>2. ToSet(todo') \subseteq ToSet(todo)
    <3>1. todo \in Seq(Slots)
      BY <1>0 DEF LoopType
    <3>2. CASE Collects
      <4>1. todo' = SubSeq(todo, Least(Due) + 1, Len(todo)) /\ Least(Due) \in DOMAIN todo
        BY <1>0, <1>8, <3>2, Dispatches, DueType
      <4> QED
        BY <3>1, <4>1, Later
    <3>3. CASE ~Collects
      BY <1>8, <3>3 DEF Dispatch
    <3> QED
      BY <3>2, <3>3
  <2>3. ~Births
    <3>1. stack = <<>> /\ (pc # "alarm" => UNCHANGED pool) /\ pc # "place"
      BY <1>8, Dispatches DEF StepPhases, poolVars
    <3> SUFFICES ASSUME Births PROVE FALSE
      OBVIOUS
    <3>2. PICK o \in Objects, id \in Nat, b \in BOOLEAN :
            Create(Alloc, o, id, b, room) /\ (b => pc = "place") /\ (~b => id = nextId)
      BY DEF Births
    <3>3. ~b /\ nextId' = IdAfter(b)
      BY <3>1, <3>2 DEF Create
    <3> QED
      BY <1>0, <2>1, <3>3 DEF IdAfter
  <2> QED
    BY <1>1, <1>4, <2>1, <2>2, <2>3
<1>9. CASE NextGroup
  BY <1>9, GroupNew
<1>10. CASE DrawOne \/ DrawEnds \/ ClearOne \/ CreationCode \/ PlacesEnd
  <2>1. pc' \notin StepPhases /\ UNCHANGED <<mark, firstId, nextId>>
    BY <1>10 DEF DrawOne, DrawEnds, ClearOne, CreationCode, PlacesEnd, CleanUp, poolVars, loop, StepPhases
  <2> QED
    BY <1>2, <2>1
<1>11. CASE PlaceOne
  <2>1. pc' \notin StepPhases /\ UNCHANGED <<mark, firstId>> /\ nextId' = IdAfter(TRUE)
    BY <1>11 DEF PlaceOne, Create, StepPhases
  <2> QED
    BY <1>2, <2>1 DEF IdAfter
<1>12. CASE EndFrame \/ EndMovedFrame
  <2>1. pc' = "draw" /\ mark' = 0 /\ firstId' = 0 /\ UNCHANGED nextId
    BY <1>12 DEF EndFrame, EndMovedFrame, FinishStep
  <2> QED
    BY <1>0, <2>1 DEF NewInv, StepPhases
<1>13. CASE StartFrame \/ ResumeFrame
  <2>1. PICK ph \in Phases : EnterPhase(ph, count) /\ firstId' = nextId /\ UNCHANGED <<pool, nextId>>
    <3>1. after # "finish" => after \in Phases
      BY DEF TypeInv, MoveType, Phases, StepPhases
    <3>2. "begin" \in Phases
      BY DEF Phases, StepPhases
    <3>3. CASE StartFrame
      BY <3>2, <3>3 DEF StartFrame, TakeSnapshot
    <3>4. CASE ResumeFrame
      BY <3>1, <3>4 DEF ResumeFrame, TakeSnapshot
    <3> QED
      BY <1>13, <3>3, <3>4
  <2> QED
    BY <2>1, EnterNew
<1>14. CASE PhaseEnds
  <2>1. \E ph \in StepPhases, n \in {base, count} : EnterPhase(ph, n)
    BY <1>14 DEF PhaseEnds, StepPhases
  <2>2. UNCHANGED <<pool, nextId, firstId>>
    BY <1>14 DEF PhaseEnds, poolVars
  <2> QED
    BY <2>1, <2>2, EnterNew
<1>15. CASE CommitRequest \/ MoveAgain \/ CannotStore \/ LeaveRoom \/ EnterRoom \/ RestoreRoom \/ CreationCodeEnds
            \/ Reaping
  <2>1. UNCHANGED <<nextId, firstId>>
    BY <1>15 DEF CommitRequest, MoveAgain, StartMove, CannotStore, LeaveRoom, EnterRoom, RestoreRoom,
                 CreationCodeEnds, Reaping, EndStepEnds, RoomStartEnds, poolVars, PutToSleep, Adopt, WakeUp, Reap,
                 ReapAndRebase
  <2>2. PICK ph \in {"leave", "settle", "clear", "place", "start", "reap"}, n \in {0, count} : EnterPhase(ph, n)
    BY <1>15 DEF CommitRequest, MoveAgain, StartMove, CannotStore, LeaveRoom, EnterRoom, RestoreRoom,
                 CreationCodeEnds, Reaping, EndStepEnds, RoomStartEnds
  <2>3. ph \notin StepPhases
    BY DEF StepPhases
  <2> QED
    BY <2>1, <2>2, <2>3, EnterNew
<1>16. CASE Still
  BY <1>3, <1>16 DEF Still, vars, poolVars, flow, loop, past
<1> QED
  BY <1>5, <1>6, <1>7, <1>8, <1>9, <1>10, <1>11, <1>12, <1>13, <1>14, <1>15, <1>16, Steps DEF Turn

LEMMA NewInit == ASSUME Init PROVE NewInv
<1>1. firstId = 0 /\ mark = 0 /\ pc = "idle" /\ nextId \in Nat
  BY FirstFreeId DEF Init
<1> QED
  BY <1>1 DEF NewInv, StepPhases

LEMMA NewbornsWait == ASSUME TypeInv, NewInv PROVE NewbornWaits
<1> SUFFICES ASSUME Dispatch, pc \in {"begin", "alarm", "step", "end"}, ~(policy = "live" /\ pc = "step"),
                    Head(stack').s \in born
             PROVE  FALSE
  BY DEF NewbornWaits
<1>0. BookType /\ LoopType /\ StackType /\ PoolType /\ firstId \in Nat /\ mark \in Nat
  BY DEF TypeInv, LoopType
<1> DEFINE r == Recipient
<1>1. r \in Slots /\ Receives(r) /\ Push("event", r, 0) /\ (Collects => Least(Due) \in DOMAIN todo /\ r = todo[Least(Due)])
  BY <1>0, DueType, Dispatches
<1>2. Head(stack').s = r
  <2>1. [k |-> "event", s |-> r, to |-> 0] \in Frame
    BY <1>1, FrameOf DEF Kinds
  <2> QED
    BY <1>0, <1>1, <2>1, Pushed
<1>3. pool[r].id >= mark /\ pool[r].id \in Nat
  BY <1>0, <1>1, <1>2 DEF NewInv, StepPhases, PoolType, Inst
<1>4. ~InPhase(r)
  BY <1>0, <1>3 DEF InPhase
<1>5. policy = "snapshot" => ~InSnapshot(r)
  BY <1>0, <1>3 DEF InSnapshot, NewInv
<1>6. policy \in {"classic", "live", "snapshot"}
  BY FrameAssumption DEF TypeInv, FlowType
<1>7. Classic /\ pc \in {"begin", "step", "end"}
  BY <1>1, <1>4, <1>5, <1>6 DEF Receives, Classic
<1>8. r \in ToSet(todo)
  <2>1. Collects
    BY <1>7 DEF Collects, Grouped
  <2> QED
    BY <1>0, <1>1, <2>1 DEF ToSet
<1> QED
  BY <1>2, <1>7, <1>8 DEF NewInv, StepPhases

\* Newborns wait for the next phase, or group, and classic rooms fall silent when another is asked for, for any
\* pool that does not overflow.
THEOREM EventsAsPrescribed == ASSUME NoOverflow PROVE Spec => RightEvents
<1>1. Init => TypeInv /\ ShapeInv /\ NewInv
  BY InitType, ShapeInit, NewInit
<1>2. TypeInv /\ ShapeInv /\ NewInv /\ [Next]_vars => (TypeInv /\ ShapeInv /\ NewInv)'
  BY StepType, ShapeKept, NewKept
<1>3. ClassicStopsAtRequest
  BY DEF ClassicStopsAtRequest, Dispatch, Ready, Interrupted
<1>4. TypeInv /\ NewInv => [NewbornWaits /\ ClassicStopsAtRequest]_vars
  BY <1>3, NewbornsWait
<1> QED
  BY <1>1, <1>2, <1>4, PTL DEF Spec, RightEvents

-----------------------------------------------------------------------------
(* The two indexes beside the pool.                                        *)

\* No event code ends an instance in the middle of its change, or changes it again.
NoDeath == "die in change" \notin Habits
NoNest == "change in change" \notin Habits

Changes == {f \in Active : f.k = "change"}

\* An instance in the middle of a change is counted as what it becomes and is in no list.
Counts(s, o) == Exists(s) /\ IF Changing(s) THEN \E f \in Changes : f.s = s /\ o \in Family[f.to]
                                            ELSE o \in Family[pool[s].obj]
Shelved(s, o) == Exists(s) /\ ~Changing(s) /\ pool[s].obj = o
Tally == [o \in Objects |-> {s \in Slots : Counts(s, o)}]
Shelf == [o \in Objects |-> {s \in Slots : Shelved(s, o)}]

\* Who is in the middle of a change runs, and changes once at a time.
OneChange == \A i, j \in DOMAIN stack :
               stack[i].k = "change" /\ stack[j].k = "change" /\ stack[i].s = stack[j].s => i = j
ChangeInv == OneChange /\ \A f \in Changes : Running(f.s)

CountInv == \A o \in Objects : alive[o] = Cardinality(Tally[o])
ListInv == \A o \in Objects : ToSet(list[o]) = Shelf[o] /\ IsInjective(list[o])

LEMMA ChangingIs ==
  /\ \A s : Changing(s) <=> \E f \in Changes : f.s = s
  /\ \A s : Changing(s)' <=> \E f \in Changes' : f.s = s
<1>1. \A s : Changing(s) <=> \E i \in DOMAIN stack : stack[i].k = "change" /\ stack[i].s = s
  BY Zenon DEF Changing
<1>2. Active = {stack[i] : i \in DOMAIN stack}
  BY DEF Active, ToSet
<1>3. \A s : Changing(s)' <=> \E i \in DOMAIN stack' : stack'[i].k = "change" /\ stack'[i].s = s
  BY Zenon DEF Changing
<1>4. Active' = {stack'[i] : i \in DOMAIN stack'}
  BY DEF Active, ToSet
<1> QED
  BY <1>1, <1>2, <1>3, <1>4 DEF Changes

\* One more, and one less, in every family of an object.
LEMMA OneMore ==
  ASSUME NEW a \in [Objects -> Int], NEW o, NEW p \in Objects, NEW S, S \subseteq Slots, NEW s \in Slots,
         a[p] = Cardinality(S), s \notin S
  PROVE  /\ p \in Family[o] => Adjusted(a, o, 1)[p] = Cardinality(S \cup {s})
         /\ p \notin Family[o] => Adjusted(a, o, 1)[p] = Cardinality(S)
<1>1. IsFiniteSet(S) /\ Cardinality(S) \in Nat
  BY SlotSets
<1>2. Cardinality(S \cup {s}) = Cardinality(S) + 1
  BY <1>1, FS_AddElement
<1>3. Adjusted(a, o, 1)[p] = IF p \in Family[o] THEN a[p] + 1 ELSE a[p]
  BY DEF Adjusted
<1> QED
  BY <1>1, <1>2, <1>3

LEMMA OneLess ==
  ASSUME NEW a \in [Objects -> Int], NEW o, NEW p \in Objects, NEW S, S \subseteq Slots, NEW s \in Slots,
         a[p] = Cardinality(S), s \in S <=> p \in Family[o]
  PROVE  Adjusted(a, o, -1)[p] = Cardinality(S \ {s})
<1>1. IsFiniteSet(S) /\ Cardinality(S) \in Nat
  BY SlotSets
<1>2. CASE s \in S
  <2>1. Cardinality(S \ {s}) = Cardinality(S) - 1
    BY <1>1, <1>2, FS_RemoveElement
  <2>2. Adjusted(a, o, -1)[p] = a[p] + (-1)
    BY <1>2 DEF Adjusted
  <2> QED
    BY <1>1, <2>1, <2>2
<1>3. CASE s \notin S
  <2>1. S \ {s} = S
    BY <1>3
  <2>2. Adjusted(a, o, -1)[p] = a[p]
    BY <1>3 DEF Adjusted
  <2> QED
    BY <2>1, <2>2
<1> QED
  BY <1>2, <1>3

\* Taking some out of a set of slots, and putting others in.
LEMMA SomeLess ==
  ASSUME NEW S, S \subseteq Slots, NEW D, D \subseteq S
  PROVE  Cardinality(S \ D) = Cardinality(S) - Cardinality(D)
<1>1. IsFiniteSet(S) /\ Cardinality(S) \in Nat
  BY SlotSets
<1>2. D \subseteq Slots
  OBVIOUS
<1>3. IsFiniteSet(D) /\ Cardinality(D) \in Nat
  BY <1>2, SlotSets
<1>4. S \cap D = D
  OBVIOUS
<1> QED
  BY <1>1, <1>3, <1>4, FS_Difference

LEMMA SomeMore ==
  ASSUME NEW S, S \subseteq Slots, NEW D, D \subseteq Slots, S \cap D = {}
  PROVE  Cardinality(S \cup D) = Cardinality(S) + Cardinality(D)
<1>1. IsFiniteSet(S) /\ Cardinality(S) \in Nat
  BY SlotSets
<1>2. IsFiniteSet(D) /\ Cardinality(D) \in Nat
  BY SlotSets
<1>3. Cardinality(S \cap D) = 0
  BY FS_EmptySet
<1>4. Cardinality(S \cup D) = Cardinality(S) + Cardinality(D) - Cardinality(S \cap D)
  BY <1>1, <1>2, FS_Union
<1>5. \A m, n \in Nat : m + n - 0 = m + n
  OBVIOUS
<1> QED
  BY <1>1, <1>2, <1>3, <1>4, <1>5

LEMMA LinkedIs ==
  ASSUME NEW l \in [Objects -> Seq(Slots)], NEW s \in Slots, NEW o, NEW p \in Objects,
         IsInjective(l[p]), p = o => s \notin ToSet(l[p])
  PROVE  /\ ToSet(Linked(l, s, o)[p]) = IF p = o THEN ToSet(l[p]) \cup {s} ELSE ToSet(l[p])
         /\ IsInjective(Linked(l, s, o)[p])
<1>1. CASE p = o
  <2> DEFINE q == l[p]
             h == <<s>>
  <2>1. Linked(l, s, o)[p] = h \o q
    BY <1>1 DEF Linked
  <2>2. q \in Seq(Slots)
    OBVIOUS
  <2>3. h \in Seq(Slots) /\ ToSet(h) = {s} /\ IsInjective(h)
    BY Single
  <2>4. IsInjective(q) /\ s \notin ToSet(q)
    BY <1>1
  <2> HIDE DEF q, h
  <2>5. ToSet(h) \cap ToSet(q) = {}
    BY <2>3, <2>4
  <2>6. ToSet(h \o q) = ToSet(h) \cup ToSet(q)
    BY <2>2, <2>3, Concatenated
  <2>7. IsInjective(h \o q)
    BY <2>2, <2>3, <2>4, <2>5, Concatenated
  <2>8. ToSet(Linked(l, s, o)[p]) = ToSet(q) \cup {s} /\ IsInjective(Linked(l, s, o)[p])
    BY <2>1, <2>3, <2>6, <2>7
  <2> QED
    BY <1>1, <2>8 DEF q
<1>2. CASE p # o
  BY <1>2 DEF Linked
<1> QED
  BY <1>1, <1>2

LEMMA UnlinkedIs ==
  ASSUME NEW l \in [Objects -> Seq(Slots)], NEW s \in Slots, NEW o, NEW p \in Objects, IsInjective(l[p])
  PROVE  /\ ToSet(Unlinked(l, s, o)[p]) = IF p = o THEN ToSet(l[p]) \ {s} ELSE ToSet(l[p])
         /\ IsInjective(Unlinked(l, s, o)[p])
<1>1. CASE p = o
  <2> DEFINE q == l[p]
             S == Slots \ {s}
  <2>1. Unlinked(l, s, o)[p] = Sift(q, S)
    BY <1>1 DEF Unlinked
  <2>2. q \in Seq(Slots)
    OBVIOUS
  <2> HIDE DEF q
  <2>3. ToSet(q) \subseteq Slots
    BY <2>2, Members
  <2>4. ToSet(q) \cap S = ToSet(q) \ {s}
    BY <2>3
  <2> HIDE DEF S
  <2>5. ToSet(Sift(q, S)) = ToSet(q) \cap S
    BY <2>2, Sifted
  <2>6. IsInjective(q) => IsInjective(Sift(q, S))
    BY <2>2, Sifted
  <2> QED
    BY <1>1, <2>1, <2>4, <2>5, <2>6 DEF q
<1>2. CASE p # o
  BY <1>2 DEF Unlinked
<1> QED
  BY <1>1, <1>2

LEMMA ChangesMove ==
  ASSUME TypeInv, ShapeInv, [Next]_vars
  PROVE  /\ \A f \in Changes' : f \in Changes \/ (Running(f.s) /\ f.s \in Slots /\ UNCHANGED pool)
         /\ \A f \in Changes : f \in Changes' \/ (Return /\ f = Head(stack))
<1>1. /\ \A f \in Active' : f \in Active \/ Opened(f)
      /\ \A f \in Active : f \in Active' \/ (Return /\ f = Head(stack))
  BY FramesMove
<1>2. Changes' = {f \in Active' : f.k = "change"}
  BY DEF Changes
<1>3. \A f \in Changes' : Opened(f) => Running(f.s) /\ f.s \in Slots /\ UNCHANGED pool
  BY <1>2 DEF Opened
<1> QED
  BY <1>1, <1>2, <1>3 DEF Changes

LEMMA PushOneChange ==
  ASSUME StackType, OneChange, NEW k \in Kinds, NEW s \in Slots \cup {NoSlot}, NEW o \in Objects \cup {0}, Push(k, s, o),
         k = "change" => ~Changing(s)
  PROVE  OneChange'
<1>1. [k |-> k, s |-> s, to |-> o] \in Frame
  BY FrameOf
<1>2. /\ Len(stack) \in Nat /\ DOMAIN stack' = 1..(Len(stack) + 1) /\ DOMAIN stack = 1..Len(stack)
      /\ stack'[1].k = k /\ stack'[1].s = s
      /\ \A i \in DOMAIN stack' : i # 1 => i - 1 \in DOMAIN stack /\ stack'[i] = stack[i - 1]
  BY <1>1, Pushed
<1> SUFFICES ASSUME NEW i \in DOMAIN stack', NEW j \in DOMAIN stack', stack'[i].k = "change", stack'[j].k = "change",
                    stack'[i].s = stack'[j].s
             PROVE  i = j
  BY DEF OneChange
<1>3. ASSUME NEW m \in DOMAIN stack', m # 1, stack'[m].k = "change" PROVE Changing(stack'[m].s)
  BY <1>2, <1>3 DEF Changing
<1>4. CASE i = 1
  BY <1>2, <1>3, <1>4
<1>5. CASE j = 1
  BY <1>2, <1>3, <1>5
<1>6. CASE i # 1 /\ j # 1
  <2>1. i - 1 = j - 1
    BY <1>2, <1>6 DEF OneChange
  <2>2. i \in Int /\ j \in Int
    BY <1>2
  <2> QED
    BY <2>1, <2>2
<1> QED
  BY <1>4, <1>5, <1>6

LEMMA ReturnOneChange == ASSUME TypeInv, OneChange, Return PROVE OneChange'
<1> DEFINE f == Head(stack)
<1>0. StackType /\ FramesInv
  BY DEF TypeInv
<1>1. /\ stack # <<>>
      /\ \/ stack' = Tail(stack)
         \/ \E k \in {"cleanup", "create"} : f.s \in Slots /\ stack' = <<[f EXCEPT !.k = k]>> \o Tail(stack)
  BY Returns
<1>2. CASE stack' = Tail(stack)
  <2>1. /\ \A i \in DOMAIN stack' : i + 1 \in DOMAIN stack /\ stack'[i] = stack[i + 1]
        /\ DOMAIN stack' = 1..(Len(stack) - 1) /\ Len(stack) \in Nat
    BY <1>0, <1>1, <1>2, Popped
  <2> SUFFICES ASSUME NEW i \in DOMAIN stack', NEW j \in DOMAIN stack', stack'[i].k = "change",
                      stack'[j].k = "change", stack'[i].s = stack'[j].s
               PROVE  i = j
    BY DEF OneChange
  <2>2. i + 1 = j + 1
    BY <2>1 DEF OneChange
  <2>3. i \in Int /\ j \in Int
    BY <2>1
  <2> QED
    BY <2>2, <2>3
<1>3. CASE \E k \in {"cleanup", "create"} : f.s \in Slots /\ stack' = <<[f EXCEPT !.k = k]>> \o Tail(stack)
  <2>1. PICK k \in {"cleanup", "create"} : f.s \in Slots /\ stack' = <<[f EXCEPT !.k = k]>> \o Tail(stack)
    BY <1>3
  <2>2. k \in Kinds \ {"code", "change"} /\ Head(stack).s \in Slots
        /\ stack' = <<[Head(stack) EXCEPT !.k = k]>> \o Tail(stack)
    BY <2>1 DEF Kinds
  <2>3. DOMAIN stack' = DOMAIN stack /\ stack'[1].k = k /\ \A i \in DOMAIN stack : i # 1 => stack'[i] = stack[i]
    BY <1>0, <1>1, <2>2, SwapType
  <2> SUFFICES ASSUME NEW i \in DOMAIN stack', NEW j \in DOMAIN stack', stack'[i].k = "change",
                      stack'[j].k = "change", stack'[i].s = stack'[j].s
               PROVE  i = j
    BY DEF OneChange
  <2>4. i # 1 /\ j # 1
    BY <2>1, <2>3
  <2>5. stack'[i] = stack[i] /\ stack'[j] = stack[j]
    BY <2>3, <2>4
  <2> QED
    BY <2>3, <2>5 DEF OneChange
<1> QED
  BY <1>1, <1>2, <1>3

LEMMA EmptyOneChange == ASSUME stack' = <<>> PROVE OneChange'
BY DEF OneChange

LEMMA OneChangeKept == ASSUME TypeInv, ShapeInv, OneChange, NoNest, [Next]_vars PROVE OneChange'
<1>0. BookType /\ StackType /\ Waits /\ 0 \in Objects \cup {0} /\ LoopType
  BY DEF TypeInv, ShapeInv
<1>1. ASSUME UNCHANGED stack PROVE OneChange'
  BY <1>1 DEF OneChange
<1>2. ASSUME NEW k \in Kinds \ {"change"}, NEW s \in Slots \cup {NoSlot}, NEW o \in Objects \cup {0}, Push(k, s, o)
      PROVE  OneChange'
  BY <1>0, <1>2, PushOneChange
<1>3. ASSUME NEW o \in Objects, OpCreate(o) PROVE OneChange'
  <2>1. Alloc \in Slots /\ Push("create", Alloc, o) /\ "create" \in Kinds \ {"change"}
    BY <1>0, <1>3, AllocType DEF OpCreate, Kinds
  <2> QED
    BY <1>2, <2>1
<1>4. ASSUME NEW t \in Slots, OpDestroy(t) PROVE OneChange'
  <2>1. Push("destroy", t, 0) /\ "destroy" \in Kinds \ {"change"}
    BY <1>4 DEF OpDestroy, Kinds
  <2> QED
    BY <1>0, <1>2, <2>1
<1>5. ASSUME NEW o \in Objects, NEW perform \in BOOLEAN, OpChange(o, perform) PROVE OneChange'
  <2>1. CASE perform
    <3>1. Push("change", Self, o) /\ Self \in Slots /\ ~Changing(Self) /\ "change" \in Kinds
      BY <1>5, <2>1, SelfSlot DEF OpChange, Acts, May, NoNest, Kinds
    <3> QED
      BY <1>0, <3>1, PushOneChange
  <2>2. CASE ~perform
    BY <1>1, <1>5, <2>2 DEF OpChange
  <2> QED
    BY <2>1, <2>2
<1>6. CASE \/ \E t \in Slots : OpDeactivate(t) \/ OpActivate(t)
           \/ OpAlarm \/ (\E r \in Rooms : OpRoom(r)) \/ NextGroup \/ PlaceOne \/ Still
  BY <1>1, <1>6 DEF OpDeactivate, OpActivate, OpAlarm, OpRoom, NextGroup, PlaceOne, Still, vars
<1>7. CASE Return
  BY <1>7, ReturnOneChange
<1>8. CASE Dispatch
  <2>1. Recipient \in Slots /\ Push("event", Recipient, 0) /\ "event" \in Kinds \ {"change"}
    BY <1>0, <1>8, DueType, Dispatches DEF Kinds
  <2> QED
    BY <1>0, <1>2, <2>1
<1>9. CASE DrawOne
  <2>1. PICK i \in DOMAIN todo : Push("event", todo[i], 0)
    BY <1>9 DEF DrawOne
  <2>2. todo[i] \in Slots
    <3>1. todo \in Seq(Slots)
      BY DEF TypeInv, LoopType
    <3> QED
      BY <3>1, <2>1, Members
  <2>3. "event" \in Kinds \ {"change"}
    BY DEF Kinds
  <2> QED
    BY <1>0, <1>2, <2>1, <2>2, <2>3
<1>10. CASE ClearOne
  <2>1. Least(Leaving) \in Slots /\ Push("clear", Least(Leaving), 0) /\ "clear" \in Kinds \ {"change"}
    BY <1>10, LeavingType DEF ClearOne, Kinds
  <2> QED
    BY <1>0, <1>2, <2>1
<1>11. CASE CreationCode
  <2>1. Push("code", NoSlot, 0) /\ "code" \in Kinds \ {"change"} /\ NoSlot \in Slots \cup {NoSlot}
    BY <1>11 DEF CreationCode, Kinds
  <2> QED
    BY <1>0, <1>2, <2>1
<1>12. CASE Turn
  BY <1>0, <1>12, TurnDoes, EmptyOneChange
<1>13. CASE Reaping \/ LeaveRoom \/ EnterRoom \/ RestoreRoom
  BY <1>1, <1>13 DEF Reaping, EndStepEnds, RoomStartEnds, LeaveRoom, EnterRoom, RestoreRoom
<1> QED
  BY <1>3, <1>4, <1>5, <1>6, <1>7, <1>8, <1>9, <1>10, <1>11, <1>12, <1>13, Steps

LEMMA ChangeKept ==
  ASSUME TypeInv, ShapeInv, ChangeInv, NoNest, NoDeath, NoOverflow, [Next]_vars
  PROVE  ChangeInv'
<1>1. OneChange'
  BY OneChangeKept DEF ChangeInv
<1>2. \A f \in Changes' : Running(f.s)'
  <2> SUFFICES ASSUME NEW f \in Changes' PROVE Running(f.s)'
    OBVIOUS
  <2> DEFINE t == f.s
  <2>1. f \in Changes \/ (Running(t) /\ t \in Slots /\ UNCHANGED pool)
    BY ChangesMove
  <2>2. ASSUME Running(t), t \in Slots, UNCHANGED pool PROVE Running(t)'
    BY <2>2 DEF Running
  <2>3. ASSUME f \in Changes PROVE Running(t)'
    <3>1. StackType /\ FramesInv /\ f \in Active /\ f.k = "change"
      BY <2>3 DEF TypeInv, Changes
    <3>2. t \in Slots
      BY <3>1, FrameIs
    <3>3. Running(t) /\ Changing(t)
      BY <2>3, ChangingIs DEF ChangeInv
    <3>4. Active' # {}
      BY DEF Changes
    <3> HIDE DEF t
    <3>5. Effect(t) /\ ~Ended(t) /\ ~Slept(t)
      BY <3>2, <3>4, Effects, OthersEnd
    <3>6. ASSUME SameLife(t), SameMark(t) PROVE Running(t)'
      BY <3>3, <3>6 DEF SameLife, SameMark, Running
    <3>7. ASSUME SameLife(t), pool'[t].marked <=> pool[t].marked PROVE Running(t)'
      BY <3>3, <3>7 DEF SameLife, Running
    <3>8. CASE Born(t)
      <4>1. IsFree(t)
        BY <3>8, BirthDoes DEF Born
      <4> QED
        BY <3>3, <4>1 DEF Running, IsFree
    <3>9. CASE Condemned(t)
      BY <3>3, <3>9 DEF Condemned, OpDestroy, May, NoDeath
    <3>10. CASE Switched(t)
      BY <3>3, <3>10 DEF Switched, OpDeactivate, OpActivate, May, NoDeath, Running
    <3>11. CASE Woke(t)
      BY <3>3, <3>11 DEF Woke, Woken, Running
    <3>12. CASE SameAll(t) \/ Changed(t) \/ Alarmed(t) \/ Moves(t)
      BY <3>6, <3>12 DEF SameAll, Changed, Alarmed, Moves
    <3>13. CASE Tidied(t)
      BY <3>7, <3>13 DEF Tidied
    <3> QED
      BY <3>5, <3>8, <3>9, <3>10, <3>11, <3>12, <3>13 DEF Effect
  <2> QED
    BY <2>1, <2>2, <2>3
<1> QED
  BY <1>1, <1>2 DEF ChangeInv

SameCount(t) == \A o \in Objects : Counts(t, o)' <=> Counts(t, o)
SameShelf(t) == \A o \in Objects : Shelved(t, o)' <=> Shelved(t, o)

LEMMA Entries ==
  ASSUME NEW o \in Objects
  PROVE  /\ Tally[o] \subseteq Slots /\ \A t \in Slots : t \in Tally[o] <=> Counts(t, o)
         /\ Tally'[o] \subseteq Slots /\ \A t \in Slots : t \in Tally'[o] <=> Counts(t, o)'
         /\ Shelf[o] \subseteq Slots /\ \A t \in Slots : t \in Shelf[o] <=> Shelved(t, o)
         /\ Shelf'[o] \subseteq Slots /\ \A t \in Slots : t \in Shelf'[o] <=> Shelved(t, o)'
BY DEF Tally, Shelf

\* An instance that neither comes nor goes, nor begins or ends a change, keeps its place in both.
LEMMA EntryStays ==
  ASSUME NEW t \in Slots, Exists(t)' <=> Exists(t), SameKind(t), \A f : f.s = t => (f \in Changes' <=> f \in Changes)
  PROVE  SameCount(t) /\ SameShelf(t)
<1>1. Changing(t)' <=> Changing(t)
  BY ChangingIs
<1>2. \A o : (\E f \in Changes' : f.s = t /\ o \in Family[f.to]) <=> (\E f \in Changes : f.s = t /\ o \in Family[f.to])
  OBVIOUS
<1>3. pool'[t].obj = pool[t].obj
  BY DEF SameKind
<1> QED
  BY <1>1, <1>2, <1>3 DEF SameCount, SameShelf, Counts, Shelved

LEMMA CountStays ==
  ASSUME CountInv, UNCHANGED alive, \A t \in Slots : SameCount(t)
  PROVE  CountInv'
<1>1. ASSUME NEW o \in Objects PROVE Tally'[o] = Tally[o]
  BY Entries DEF SameCount
<1> QED
  BY <1>1 DEF CountInv

LEMMA ListStays ==
  ASSUME ListInv, UNCHANGED list, \A t \in Slots : SameShelf(t)
  PROVE  ListInv'
<1>1. ASSUME NEW o \in Objects PROVE Shelf'[o] = Shelf[o]
  BY Entries DEF SameShelf
<1> QED
  BY <1>1 DEF ListInv

\* An instance comes, goes, or changes its object.
LEMMA CountJoins ==
  ASSUME BookType, CountInv, NEW s \in Slots, NEW o, alive' = Adjusted(alive, o, 1),
         \A t \in Slots : t # s => SameCount(t),
         \A p \in Objects : ~Counts(s, p) /\ (Counts(s, p)' <=> p \in Family[o])
  PROVE  CountInv'
<1>1. alive \in [Objects -> Int]
  BY DEF BookType
<1> SUFFICES ASSUME NEW p \in Objects PROVE alive'[p] = Cardinality(Tally'[p])
  BY DEF CountInv
<1> DEFINE S == Tally[p]
<1>2. S \subseteq Slots /\ s \notin S /\ alive[p] = Cardinality(S)
  BY Entries DEF CountInv
<1>3. Tally'[p] = IF p \in Family[o] THEN S \cup {s} ELSE S
  <2>1. \A t \in Slots : t # s => (t \in Tally'[p] <=> t \in S)
    BY Entries DEF SameCount
  <2>2. s \in Tally'[p] <=> p \in Family[o]
    BY Entries
  <2>3. Tally'[p] \subseteq Slots
    BY Entries
  <2> HIDE DEF S
  <2> QED
    BY <1>2, <2>1, <2>2, <2>3
<1> HIDE DEF S
<1>4. /\ p \in Family[o] => Adjusted(alive, o, 1)[p] = Cardinality(S \cup {s})
      /\ p \notin Family[o] => Adjusted(alive, o, 1)[p] = Cardinality(S)
  BY <1>1, <1>2, OneMore
<1> QED
  BY <1>3, <1>4

LEMMA CountLeaves ==
  ASSUME BookType, CountInv, NEW s \in Slots, NEW o, alive' = Adjusted(alive, o, -1),
         \A t \in Slots : t # s => SameCount(t),
         \A p \in Objects : ~Counts(s, p)' /\ (Counts(s, p) <=> p \in Family[o])
  PROVE  CountInv'
<1>1. alive \in [Objects -> Int]
  BY DEF BookType
<1> SUFFICES ASSUME NEW p \in Objects PROVE alive'[p] = Cardinality(Tally'[p])
  BY DEF CountInv
<1> DEFINE S == Tally[p]
<1>2. S \subseteq Slots /\ (s \in S <=> p \in Family[o]) /\ alive[p] = Cardinality(S)
  BY Entries DEF CountInv
<1>3. /\ Tally'[p] \subseteq Slots /\ s \notin Tally'[p]
      /\ \A t \in Slots : t # s => (t \in Tally'[p] <=> t \in S)
  BY Entries DEF SameCount
<1> HIDE DEF S
<1>4. Tally'[p] = S \ {s}
  BY <1>2, <1>3
<1>5. Adjusted(alive, o, -1)[p] = Cardinality(S \ {s})
  BY <1>1, <1>2, OneLess
<1> QED
  BY <1>4, <1>5

LEMMA CountBecomes ==
  ASSUME BookType, CountInv, NEW s \in Slots, NEW q, NEW o, alive' = Adjusted(Adjusted(alive, q, -1), o, 1),
         \A t \in Slots : t # s => SameCount(t),
         \A p \in Objects : (Counts(s, p)' <=> p \in Family[o]) /\ (Counts(s, p) <=> p \in Family[q])
  PROVE  CountInv'
<1>1. alive \in [Objects -> Int]
  BY DEF BookType
<1> SUFFICES ASSUME NEW p \in Objects PROVE alive'[p] = Cardinality(Tally'[p])
  BY DEF CountInv
<1> DEFINE S == Tally[p]
<1>2. S \subseteq Slots /\ (p \in Family[q] => s \in S) /\ alive[p] = Cardinality(S)
  BY Entries DEF CountInv
<1>3. s \in S => p \in Family[q]
  BY Entries
<1>4. /\ Tally'[p] \subseteq Slots /\ (s \in Tally'[p] <=> p \in Family[o])
      /\ \A t \in Slots : t # s => (t \in Tally'[p] <=> t \in S)
  BY Entries DEF SameCount
<1> HIDE DEF S
<1> DEFINE R == S \ {s}
           a == Adjusted(alive, q, -1)
<1>5. s \in S <=> p \in Family[q]
  BY <1>2, <1>3
<1>6. a[p] = Cardinality(R)
  BY <1>1, <1>2, <1>5, OneLess
<1>7. R \subseteq Slots /\ s \notin R
  BY <1>2
<1>8. Tally'[p] = IF p \in Family[o] THEN R \cup {s} ELSE R
  BY <1>2, <1>4
<1>9. a \in [Objects -> Int]
  BY <1>1, AdjustedType
<1> HIDE DEF R, a
<1>10. /\ p \in Family[o] => Adjusted(a, o, 1)[p] = Cardinality(R \cup {s})
       /\ p \notin Family[o] => Adjusted(a, o, 1)[p] = Cardinality(R)
  BY <1>6, <1>7, <1>9, OneMore
<1> QED
  BY <1>8, <1>10 DEF a

LEMMA ListJoins ==
  ASSUME BookType, ListInv, NEW s \in Slots, NEW o, list' = Linked(list, s, o),
         \A t \in Slots : t # s => SameShelf(t),
         \A p \in Objects : ~Shelved(s, p) /\ (Shelved(s, p)' <=> p = o)
  PROVE  ListInv'
<1>1. list \in [Objects -> Seq(Slots)]
  BY DEF BookType
<1> SUFFICES ASSUME NEW p \in Objects PROVE ToSet(list'[p]) = Shelf'[p] /\ IsInjective(list'[p])
  BY DEF ListInv
<1>2. ToSet(list[p]) = Shelf[p] /\ IsInjective(list[p]) /\ s \notin Shelf[p]
  BY Entries DEF ListInv
<1>3. Shelf'[p] = IF p = o THEN Shelf[p] \cup {s} ELSE Shelf[p]
  <2> DEFINE T == Shelf'[p]
             S == Shelf[p]
  <2>1. \A t \in Slots : t # s => (t \in T <=> t \in S)
    BY Entries DEF SameShelf
  <2>2. s \in T <=> p = o
    BY Entries
  <2>3. T \subseteq Slots /\ S \subseteq Slots /\ s \notin S
    BY Entries
  <2> HIDE DEF S, T
  <2>4. T = IF p = o THEN S \cup {s} ELSE S
    BY <2>1, <2>2, <2>3
  <2> QED
    BY <2>4 DEF S, T
<1>0. p = o => s \notin ToSet(list[p])
  BY <1>2
<1>4. /\ ToSet(Linked(list, s, o)[p]) = IF p = o THEN ToSet(list[p]) \cup {s} ELSE ToSet(list[p])
      /\ IsInjective(Linked(list, s, o)[p])
  BY <1>0, <1>1, <1>2, LinkedIs
<1>5. IsInjective(Linked(list, s, o)[p])
  BY <1>4
<1> QED
  BY <1>2, <1>3, <1>4, <1>5

LEMMA ListLeaves ==
  ASSUME BookType, ListInv, NEW s \in Slots, NEW o, list' = Unlinked(list, s, o),
         \A t \in Slots : t # s => SameShelf(t),
         \A p \in Objects : ~Shelved(s, p)' /\ (Shelved(s, p) => p = o)
  PROVE  ListInv'
<1>1. list \in [Objects -> Seq(Slots)]
  BY DEF BookType
<1> SUFFICES ASSUME NEW p \in Objects PROVE ToSet(list'[p]) = Shelf'[p] /\ IsInjective(list'[p])
  BY DEF ListInv
<1>2. ToSet(list[p]) = Shelf[p] /\ IsInjective(list[p])
  BY Entries DEF ListInv
<1>3. Shelf'[p] = IF p = o THEN Shelf[p] \ {s} ELSE Shelf[p]
  <2> DEFINE T == Shelf'[p]
             S == Shelf[p]
  <2>1. \A t \in Slots : t # s => (t \in T <=> t \in S)
    BY Entries DEF SameShelf
  <2>2. s \in T <=> FALSE
    BY Entries
  <2>3. T \subseteq Slots /\ S \subseteq Slots /\ (s \in S => p = o)
    BY Entries
  <2> HIDE DEF S, T
  <2>4. T = IF p = o THEN S \ {s} ELSE S
    BY <2>1, <2>2, <2>3
  <2> QED
    BY <2>4 DEF S, T
<1>4. /\ ToSet(Unlinked(list, s, o)[p]) = IF p = o THEN ToSet(list[p]) \ {s} ELSE ToSet(list[p])
      /\ IsInjective(Unlinked(list, s, o)[p])
  BY <1>1, <1>2, UnlinkedIs
<1>5. IsInjective(Unlinked(list, s, o)[p])
  BY <1>4
<1> QED
  BY <1>2, <1>3, <1>4, <1>5

LEMMA ListBecomes ==
  ASSUME BookType, ListInv, NEW s \in Slots, NEW q, NEW o, list' = Linked(Unlinked(list, s, q), s, o),
         \A t \in Slots : t # s => SameShelf(t),
         \A p \in Objects : (Shelved(s, p)' <=> p = o) /\ (Shelved(s, p) => p = q)
  PROVE  ListInv'
<1>1. list \in [Objects -> Seq(Slots)]
  BY DEF BookType
<1> SUFFICES ASSUME NEW p \in Objects PROVE ToSet(list'[p]) = Shelf'[p] /\ IsInjective(list'[p])
  BY DEF ListInv
<1> DEFINE l == Unlinked(list, s, q)
<1>2. ToSet(list[p]) = Shelf[p] /\ IsInjective(list[p])
  BY Entries DEF ListInv
<1>3. s \in Shelf[p] => p = q
  BY Entries
<1>4. /\ ToSet(l[p]) = IF p = q THEN ToSet(list[p]) \ {s} ELSE ToSet(list[p])
      /\ IsInjective(l[p])
  BY <1>1, <1>2, UnlinkedIs
<1>5. IsInjective(l[p])
  BY <1>4
<1>6. l \in [Objects -> Seq(Slots)]
  BY <1>1, UnlinkedType
<1>7. s \notin ToSet(l[p])
  BY <1>2, <1>3, <1>4
<1>8. Shelf'[p] = IF p = o THEN (Shelf[p] \ {s}) \cup {s} ELSE Shelf[p] \ {s}
  <2> DEFINE T == Shelf'[p]
             S == Shelf[p]
  <2>1. \A t \in Slots : t # s => (t \in T <=> t \in S)
    BY Entries DEF SameShelf
  <2>2. s \in T <=> p = o
    BY Entries
  <2>3. T \subseteq Slots /\ S \subseteq Slots
    BY Entries
  <2> HIDE DEF S, T
  <2>4. T = IF p = o THEN (S \ {s}) \cup {s} ELSE S \ {s}
    BY <2>1, <2>2, <2>3
  <2> QED
    BY <2>4 DEF S, T
<1>9. ToSet(l[p]) = Shelf[p] \ {s}
  BY <1>2, <1>3, <1>4
<1> HIDE DEF l
<1>10. /\ ToSet(Linked(l, s, o)[p]) = IF p = o THEN ToSet(l[p]) \cup {s} ELSE ToSet(l[p])
       /\ IsInjective(Linked(l, s, o)[p])
  BY <1>5, <1>6, <1>7, LinkedIs
<1>11. IsInjective(Linked(l, s, o)[p])
  BY <1>10
<1>12. list' = Linked(l, s, o)
  BY DEF l
<1> QED
  BY <1>8, <1>9, <1>10, <1>11, <1>12

LEMMA IndexStays ==
  ASSUME CountInv, ListInv, UNCHANGED <<alive, list>>, Changes' = Changes,
         \A t \in Slots : (Exists(t)' <=> Exists(t)) /\ SameKind(t)
  PROVE  CountInv' /\ ListInv'
<1>1. \A t \in Slots : SameCount(t) /\ SameShelf(t)
  BY EntryStays
<1> QED
  BY <1>1, CountStays, ListStays

\* With no change under way, everyone is counted and listed as what the pool says.
LEMMA Settled ==
  ASSUME Changes = {}
  PROVE  \A s, o : /\ Counts(s, o) <=> Exists(s) /\ o \in Family[pool[s].obj]
                   /\ Shelved(s, o) <=> Exists(s) /\ pool[s].obj = o
BY ChangingIs DEF Counts, Shelved

LEMMA SettledNext ==
  ASSUME Changes' = {}
  PROVE  \A s, o : /\ Counts(s, o)' <=> Exists(s)' /\ o \in Family[pool'[s].obj]
                   /\ Shelved(s, o)' <=> Exists(s)' /\ pool'[s].obj = o
BY ChangingIs DEF Counts, Shelved

\* A set of instances leaves, and a set of instances comes back, between changes.
LEMMA GroupLeaves ==
  ASSUME BookType, CountInv, ListInv, NEW S, S \subseteq Slots, Without(S), Changes = {}, Changes' = {},
         \A t \in S : Exists(t) /\ ~Exists(t)',
         \A t \in Slots : t \notin S => (Exists(t)' <=> Exists(t)) /\ SameKind(t)
  PROVE  CountInv' /\ ListInv'
<1>0. /\ \A s, o : /\ Counts(s, o) <=> Exists(s) /\ o \in Family[pool[s].obj]
                   /\ Shelved(s, o) <=> Exists(s) /\ pool[s].obj = o
      /\ \A s, o : /\ Counts(s, o)' <=> Exists(s)' /\ o \in Family[pool'[s].obj]
                   /\ Shelved(s, o)' <=> Exists(s)' /\ pool'[s].obj = o
  BY Settled, SettledNext
<1>1. ASSUME NEW o \in Objects PROVE alive'[o] = Cardinality(Tally'[o])
  <2> DEFINE D == {s \in S : o \in Family[pool[s].obj]}
             T == Tally[o]
             N == Tally'[o]
  <2>1. alive'[o] = alive[o] - Cardinality(D)
    BY DEF Without
  <2>2. T \subseteq Slots /\ N \subseteq Slots /\ alive[o] = Cardinality(T)
    BY Entries DEF CountInv
  <2>3. \A t \in Slots : t \in D => t \in T /\ t \notin N
    BY <1>0, Entries
  <2>4. \A t \in Slots : t \notin D => (t \in N <=> t \in T)
    <3> TAKE t \in Slots
    <3>1. CASE t \in S
      BY <1>0, <3>1, Entries
    <3>2. CASE t \notin S
      BY <1>0, <3>2, Entries DEF SameKind
    <3> QED
      BY <3>1, <3>2
  <2>5. D \subseteq Slots
    OBVIOUS
  <2> HIDE DEF D, T, N
  <2>6. D \subseteq T /\ N = T \ D
    BY <2>2, <2>3, <2>4, <2>5
  <2>7. Cardinality(T \ D) = Cardinality(T) - Cardinality(D)
    BY <2>2, <2>6, SomeLess
  <2> QED
    BY <2>1, <2>2, <2>6, <2>7 DEF N
<1>2. ASSUME NEW o \in Objects PROVE ToSet(list'[o]) = Shelf'[o] /\ IsInjective(list'[o])
  <2> DEFINE D == {s \in S : pool[s].obj = o}
             q == list[o]
             T == Shelf[o]
             N == Shelf'[o]
             R == Slots \ D
  <2>1. list'[o] = Sift(q, R)
    BY DEF Without
  <2>2. q \in Seq(Slots)
    BY DEF BookType
  <2>3. T \subseteq Slots /\ N \subseteq Slots /\ ToSet(q) = T /\ IsInjective(q)
    BY Entries DEF ListInv
  <2>4. \A t \in Slots : t \in D => t \in T /\ t \notin N
    BY <1>0, Entries
  <2>5. \A t \in Slots : t \notin D => (t \in N <=> t \in T)
    <3> TAKE t \in Slots
    <3>1. CASE t \in S
      BY <1>0, <3>1, Entries
    <3>2. CASE t \notin S
      BY <1>0, <3>2, Entries DEF SameKind
    <3> QED
      BY <3>1, <3>2
  <2> HIDE DEF q, T, N, D
  <2>6. N = T \cap R
    BY <2>3, <2>4, <2>5
  <2> HIDE DEF R
  <2>7. ToSet(Sift(q, R)) = ToSet(q) \cap R /\ (IsInjective(q) => IsInjective(Sift(q, R)))
    BY <2>2, Sifted
  <2> QED
    BY <2>1, <2>3, <2>6, <2>7 DEF N
<1> QED
  BY <1>1, <1>2 DEF CountInv, ListInv

LEMMA GroupReturns ==
  ASSUME TypeInv, CountInv, ListInv, NEW r, WakeUp(r), Changes = {}, Changes' = {}
  PROVE  CountInv' /\ ListInv'
<1> DEFINE S == Woken(r)
<1>0. BookType /\ PoolType
  BY DEF TypeInv
<1>1. \A s, o : /\ Counts(s, o) <=> Exists(s) /\ o \in Family[pool[s].obj]
                /\ Shelved(s, o) <=> Exists(s) /\ pool[s].obj = o
  BY Settled
<1>2. \A s, o : /\ Counts(s, o)' <=> Exists(s)' /\ o \in Family[pool'[s].obj]
                /\ Shelved(s, o)' <=> Exists(s)' /\ pool'[s].obj = o
  BY SettledNext
<1>3. S \subseteq Slots /\ \A t \in S : ~Exists(t)
  BY <1>0, UpTo DEF Woken, Exists
<1>4. \A t \in Slots : pool'[t].obj = pool[t].obj /\ (t \in S => Exists(t)') /\ (t \notin S => (Exists(t)' <=> Exists(t)))
  <2> TAKE t \in Slots
  <2>1. /\ SameKind(t)
        /\ t \in Woken(r) => pool'[t].st = IF pool[t].wasOff THEN "off" ELSE "live"
        /\ t \notin Woken(r) => SameAll(t)
    BY <1>0, WakeDoes
  <2> QED
    BY <2>1 DEF SameKind, SameAll, SameLife, Exists
<1> HIDE DEF S
<1>5. ASSUME NEW o \in Objects PROVE alive'[o] = Cardinality(Tally'[o])
  <2> DEFINE D == {s \in S : o \in Family[pool[s].obj]}
             T == Tally[o]
             N == Tally'[o]
  <2>1. alive'[o] = alive[o] + Cardinality(D)
    BY DEF WakeUp, S
  <2>2. T \subseteq Slots /\ N \subseteq Slots /\ alive[o] = Cardinality(T)
    BY Entries DEF CountInv
  <2>3. \A t \in Slots : t \in D => t \notin T /\ t \in N
    BY <1>1, <1>2, <1>3, <1>4, Entries
  <2>4. \A t \in Slots : t \notin D => (t \in N <=> t \in T)
    BY <1>1, <1>2, <1>3, <1>4, Entries
  <2>5. D \subseteq Slots
    BY <1>3
  <2> HIDE DEF D, T, N
  <2>6. T \cap D = {} /\ N = T \cup D
    BY <2>2, <2>3, <2>4, <2>5
  <2>7. Cardinality(T \cup D) = Cardinality(T) + Cardinality(D)
    BY <2>2, <2>5, <2>6, SomeMore
  <2> QED
    BY <2>1, <2>2, <2>6, <2>7 DEF N
<1>6. ASSUME NEW o \in Objects PROVE ToSet(list'[o]) = Shelf'[o] /\ IsInjective(list'[o])
  <2> DEFINE D == {s \in S : pool[s].obj = o}
             q == list[o]
             T == Shelf[o]
             N == Shelf'[o]
             a == Ascending(D)
             v == Reverse(a)
  <2>1. list'[o] = v \o q
    BY DEF WakeUp, S
  <2>2. q \in Seq(Slots)
    BY <1>0 DEF BookType
  <2>3. T \subseteq Slots /\ N \subseteq Slots /\ ToSet(q) = T /\ IsInjective(q)
    BY Entries DEF ListInv
  <2>4. \A t \in Slots : t \in D => t \notin T /\ t \in N
    BY <1>1, <1>2, <1>3, <1>4, Entries
  <2>5. \A t \in Slots : t \notin D => (t \in N <=> t \in T)
    BY <1>1, <1>2, <1>3, <1>4, Entries
  <2>6. D \subseteq Slots
    BY <1>3
  <2> HIDE DEF q, T, N, D
  <2>7. T \cap D = {} /\ N = D \cup T
    BY <2>3, <2>4, <2>5, <2>6
  <2>8. a \in Seq(Slots) /\ ToSet(a) = D /\ IsInjective(a)
    BY <2>6, SlotSets
  <2> HIDE DEF a
  <2>9. v \in Seq(Slots) /\ ToSet(v) = ToSet(a) /\ (IsInjective(a) => IsInjective(v))
    BY <2>8, Reversed
  <2> HIDE DEF v
  <2>10. ToSet(v) \cap ToSet(q) = {}
    BY <2>3, <2>7, <2>8, <2>9
  <2>11. /\ ToSet(v \o q) = ToSet(v) \cup ToSet(q)
         /\ IsInjective(v) /\ IsInjective(q) /\ ToSet(v) \cap ToSet(q) = {} => IsInjective(v \o q)
    BY <2>2, <2>9, Concatenated
  <2> QED
    BY <2>1, <2>3, <2>7, <2>8, <2>9, <2>10, <2>11 DEF N
<1> QED
  BY <1>5, <1>6 DEF CountInv, ListInv

\* One instance changes its entries, no other.
LEMMA OthersStay ==
  ASSUME NEW s, \A t \in Slots : t # s => pool'[t] = pool[t], \A f : f.s # s => (f \in Changes' <=> f \in Changes)
  PROVE  \A t \in Slots : t # s => SameCount(t) /\ SameShelf(t)
<1> TAKE t \in Slots
<1> SUFFICES ASSUME t # s PROVE SameCount(t) /\ SameShelf(t)
  OBVIOUS
<1>1. (Exists(t)' <=> Exists(t)) /\ SameKind(t)
  BY DEF Exists, SameKind
<1>2. \A f : f.s = t => (f \in Changes' <=> f \in Changes)
  OBVIOUS
<1> QED
  BY <1>1, <1>2, EntryStays

LEMMA CreateIndex ==
  ASSUME TypeInv, ShapeInv, ChangeInv, CountInv, ListInv, NEW o \in Objects, NEW id \in Nat, NEW b \in BOOLEAN,
         NEW w \in Rooms, Create(Alloc, o, id, b, w), ~Full, Changes' = Changes
  PROVE  CountInv' /\ ListInv'
<1> DEFINE s == Alloc
<1>0. PoolType /\ BookType /\ Beyond
  BY DEF TypeInv, ShapeInv
<1>1. s \in Slots /\ IsFree(s)
  BY <1>0, AllocFree
<1>2. /\ \A t \in Slots : t # s => pool'[t] = pool[t]
      /\ pool'[s].st = "live" /\ pool'[s].obj = o
  BY <1>0, CreateDoes
<1>3. alive' = Adjusted(alive, o, 1) /\ list' = Linked(list, s, o)
  BY DEF Create
<1> HIDE DEF s
<1>4. ~Changing(s) /\ ~Exists(s)
  BY <1>1, ChangingIs DEF ChangeInv, Running, IsFree, Exists
<1>5. \A x : (x = s => Exists(x)' /\ ~Changing(x)')
  BY <1>2, <1>4, ChangingIs DEF Exists
<1>6. \A t \in Slots : t # s => SameCount(t) /\ SameShelf(t)
  BY <1>2, OthersStay
<1>7. \A x \in Slots : x = s => \A p \in Objects : /\ ~Counts(x, p) /\ (Counts(x, p)' <=> p \in Family[o])
                                                  /\ ~Shelved(x, p) /\ (Shelved(x, p)' <=> p = o)
  BY <1>2, <1>4, <1>5 DEF Counts, Shelved
<1>8. PICK x \in Slots : x = s
  BY <1>1
<1>9. /\ \A p \in Objects : ~Counts(x, p) /\ (Counts(x, p)' <=> p \in Family[o])
      /\ \A p \in Objects : ~Shelved(x, p) /\ (Shelved(x, p)' <=> p = o)
  BY <1>7, <1>8
<1>10. (\A t \in Slots : t # x => SameCount(t)) /\ (\A t \in Slots : t # x => SameShelf(t))
  BY <1>6, <1>8
<1>11. alive' = Adjusted(alive, o, 1) /\ list' = Linked(list, x, o)
  BY <1>3, <1>8
<1>12. CountInv'
  BY <1>0, <1>9, <1>10, <1>11, CountJoins
<1>13. ListInv'
  BY <1>0, <1>9, <1>10, <1>11, ListJoins
<1> QED
  BY <1>12, <1>13

\* The counts move with the Destroy event, the instance leaves its list.
LEMMA BeginIndex ==
  ASSUME TypeInv, CountInv, ListInv, NEW s \in Slots, NEW o \in Objects, ChangeBegin(s, o), Push("change", s, o),
         Running(s), ~Changing(s)
  PROVE  CountInv' /\ ListInv'
<1> DEFINE q == pool[s].obj
           f == [k |-> "change", s |-> s, to |-> o]
<1>0. PoolType /\ BookType /\ StackType
  BY DEF TypeInv
<1>1. /\ alive' = Adjusted(Adjusted(alive, q, -1), o, 1)
      /\ list' = Unlinked(list, s, q)
      /\ UNCHANGED pool
  BY DEF ChangeBegin
<1>2. Changes' = Changes \cup {f}
  <2>1. "change" \in Kinds
    BY DEF Kinds
  <2>2. Active' = {f} \cup Active
    BY <1>0, <2>1, PushActive
  <2>3. f.k = "change"
    OBVIOUS
  <2> HIDE DEF f
  <2> QED
    BY <2>2, <2>3 DEF Changes
<1>3. f.s = s /\ f.to = o
  OBVIOUS
<1> HIDE DEF f
<1>4. \A t \in Slots : t # s => SameCount(t) /\ SameShelf(t)
  <2>1. \A g : g.s # s => (g \in Changes' <=> g \in Changes)
    BY <1>2, <1>3
  <2> QED
    BY <1>1, <2>1, OthersStay
<1>5. Exists(s) /\ Exists(s)'
  BY <1>1 DEF Running, Exists
<1>6. Changing(s)' /\ \A g \in Changes' : g.s = s => g = f
  BY <1>2, <1>3, ChangingIs
<1>7. \A p \in Objects : (Counts(s, p)' <=> p \in Family[o]) /\ (Counts(s, p) <=> p \in Family[q])
  BY <1>2, <1>3, <1>5, <1>6 DEF Counts
<1>8. \A p \in Objects : ~Shelved(s, p)' /\ (Shelved(s, p) => p = q)
  BY <1>6 DEF Shelved
<1> HIDE DEF q
<1>9. (\A t \in Slots : t # s => SameCount(t)) /\ (\A t \in Slots : t # s => SameShelf(t))
  BY <1>4
<1>10. CountInv'
  BY <1>0, <1>1, <1>7, <1>9, CountBecomes
<1>11. ListInv'
  BY <1>0, <1>1, <1>8, <1>9, ListLeaves
<1> QED
  BY <1>10, <1>11

LEMMA QuietIndex ==
  ASSUME TypeInv, CountInv, ListInv, NEW s \in Slots, NEW o \in Objects, ChangeQuietly(s, o), UNCHANGED stack,
         Running(s), ~Changing(s)
  PROVE  CountInv' /\ ListInv'
<1> DEFINE q == pool[s].obj
<1>0. PoolType /\ BookType
  BY DEF TypeInv
<1>1. /\ alive' = Adjusted(Adjusted(alive, q, -1), o, 1)
      /\ list' = Linked(Unlinked(list, s, q), s, o)
      /\ pool' = [pool EXCEPT ![s].obj = o]
  BY DEF ChangeQuietly
<1>2. Changes' = Changes
  BY DEF Changes, Active
<1>3. /\ \A t \in Slots : t # s => pool'[t] = pool[t]
      /\ pool'[s].obj = o /\ SameLife(s)
  <2>1. \A t \in Slots : t # s => pool'[t] = pool[t]
    BY <1>0, <1>1 DEF PoolType
  <2> QED
    BY <1>0, <1>1, <2>1, BecomeDoes
<1>4. \A t \in Slots : t # s => SameCount(t) /\ SameShelf(t)
  BY <1>2, <1>3, OthersStay
<1>5. Exists(s) /\ Exists(s)' /\ ~Changing(s)'
  BY <1>2, <1>3, ChangingIs, SameExists DEF Running, Exists
<1>7. \A p \in Objects : (Counts(s, p)' <=> p \in Family[o]) /\ (Counts(s, p) <=> p \in Family[q])
  BY <1>3, <1>5 DEF Counts
<1>8. \A p \in Objects : (Shelved(s, p)' <=> p = o) /\ (Shelved(s, p) => p = q)
  BY <1>3, <1>5 DEF Shelved
<1> HIDE DEF q
<1>9. (\A t \in Slots : t # s => SameCount(t)) /\ (\A t \in Slots : t # s => SameShelf(t))
  BY <1>4
<1>10. CountInv'
  BY <1>0, <1>1, <1>7, <1>9, CountBecomes
<1>11. ListInv'
  BY <1>0, <1>1, <1>8, <1>9, ListBecomes
<1> QED
  BY <1>10, <1>11

\* The innermost change ends: no other frame is of its instance.
LEMMA EndedChange ==
  ASSUME TypeInv, ShapeInv, ChangeInv, NoNest, Return, Head(stack).k = "change"
  PROVE  Head(stack) \in Changes /\ Changes' = Changes \ {Head(stack)} /\ \A f \in Changes : f.s = Head(stack).s => f = Head(stack)
<1> DEFINE h == Head(stack)
<1>0. StackType /\ FramesInv /\ stack # <<>>
  BY DEF TypeInv, Return
<1>1. h \in Changes /\ \A f \in Changes' : f \in Changes
  <2>1. h \in Active /\ \A f \in Active' : f \in Active \/ f.k \in {"cleanup", "create"}
    BY ReturnActive
  <2> QED
    BY <2>1 DEF Changes
<1>2. \A f \in Changes : f # h => f \in Changes'
  <2>1. \A f \in Active : f \in Active' \/ f = h
    BY ReturnActive
  <2> QED
    BY <2>1 DEF Changes
<1>3. h = stack[1] /\ 1 \in DOMAIN stack
  BY <1>0, Top
<1>4. ASSUME NEW f \in Changes, f.s = h.s PROVE f = h
  <2>1. PICK i \in DOMAIN stack : f = stack[i]
    BY Frames DEF Changes
  <2>2. i = 1
    BY <1>3, <1>4, <2>1 DEF ChangeInv, OneChange, Changes
  <2> QED
    BY <1>3, <2>1, <2>2
<1>5. h \notin Changes'
  <2> SUFFICES ASSUME h \in Changes' PROVE FALSE
    OBVIOUS
  <2>1. PICK i \in DOMAIN stack' : h = stack'[i] /\ stack'[i].k = "change"
    BY DEF Changes, Active, ToSet
  <2>2. \/ stack' = Tail(stack)
        \/ h.s \in Slots /\ stack' = <<[h EXCEPT !.k = "create"]>> \o Tail(stack)
    BY Returns
  <2>3. CASE stack' = Tail(stack)
    <3>1. i + 1 \in DOMAIN stack /\ stack'[i] = stack[i + 1] /\ i \in 1..(Len(stack) - 1) /\ Len(stack) \in Nat
      BY <1>0, <2>1, <2>3, Popped
    <3>2. i + 1 = 1
      BY <1>3, <2>1, <3>1 DEF ChangeInv, OneChange
    <3> QED
      BY <3>1, <3>2
  <2>4. CASE h.s \in Slots /\ stack' = <<[h EXCEPT !.k = "create"]>> \o Tail(stack)
    <3>1. "create" \in Kinds \ {"code", "change"}
      BY DEF Kinds
    <3>2. DOMAIN stack' = DOMAIN stack /\ stack'[1].k = "create" /\ \A j \in DOMAIN stack : j # 1 => stack'[j] = stack[j]
      BY <1>0, <2>4, <3>1, SwapType
    <3>3. i # 1 /\ stack[i] = h
      BY <2>1, <3>2
    <3> QED
      BY <1>3, <2>1, <3>2, <3>3 DEF ChangeInv, OneChange
  <2> QED
    BY <2>2, <2>3, <2>4
<1> QED
  BY <1>1, <1>2, <1>4, <1>5

LEMMA EndIndex ==
  ASSUME TypeInv, ShapeInv, ChangeInv, CountInv, ListInv, NoNest, Return, Head(stack).k = "change"
  PROVE  CountInv' /\ ListInv'
<1> DEFINE h == Head(stack)
           s == h.s
           o == h.to
<1>0. PoolType /\ BookType
  BY DEF TypeInv
<1>1. ChangeEnd(s, o) /\ s \in Slots /\ o \in Objects
  BY Returns
<1>2. h \in Changes /\ Changes' = Changes \ {h} /\ \A f \in Changes : f.s = s => f = h
  BY EndedChange
<1>3. Running(s)
  BY <1>2 DEF ChangeInv
<1>4. pool' = [pool EXCEPT ![s].obj = o] /\ list' = Linked(list, s, o) /\ UNCHANGED alive
  BY <1>1, <1>3 DEF ChangeEnd
<1>5. /\ \A t \in Slots : t # s => pool'[t] = pool[t]
      /\ pool'[s].obj = o /\ SameLife(s)
  <2>1. \A t \in Slots : t # s => pool'[t] = pool[t]
    BY <1>0, <1>4 DEF PoolType
  <2> QED
    BY <1>0, <1>1, <1>4, <2>1, BecomeDoes
<1>6. \A t \in Slots : t # s => SameCount(t) /\ SameShelf(t)
  <2>1. \A f : f.s # s => (f \in Changes' <=> f \in Changes)
    BY <1>2
  <2> HIDE DEF s
  <2> QED
    BY <1>5, <2>1, OthersStay
<1>7. \A x \in Slots : x = s => /\ Exists(x) /\ Exists(x)' /\ Changing(x) /\ ~Changing(x)'
                                /\ pool'[x].obj = o
  <2> HIDE DEF h, o
  <2> QED
    BY <1>1, <1>2, <1>3, <1>5, ChangingIs, SameExists DEF Running, Exists
<1>8. PICK x \in Slots : x = s
  BY <1>1
<1>9. /\ \A p \in Objects : Counts(x, p)' <=> p \in Family[o]
      /\ \A p \in Objects : Counts(x, p) <=> p \in Family[o]
      /\ \A p \in Objects : ~Shelved(x, p) /\ (Shelved(x, p)' <=> p = o)
  <2>1. \A p \in Objects : Counts(x, p)' <=> p \in Family[o]
    BY <1>7, <1>8 DEF Counts
  <2>2. \A p \in Objects : Counts(x, p) <=> p \in Family[o]
    BY <1>2, <1>7, <1>8 DEF Counts
  <2>3. \A p \in Objects : ~Shelved(x, p) /\ (Shelved(x, p)' <=> p = o)
    BY <1>7, <1>8 DEF Shelved
  <2> QED
    BY <2>1, <2>2, <2>3
<1> HIDE DEF s, o
<1>10. \A t \in Slots : SameCount(t)
  BY <1>6, <1>8, <1>9 DEF SameCount
<1>11. CountInv'
  BY <1>4, <1>10, CountStays
<1>12. (\A t \in Slots : t # x => SameShelf(t)) /\ list' = Linked(list, x, o)
  BY <1>4, <1>6, <1>8
<1>13. \A p \in Objects : ~Shelved(x, p) /\ (Shelved(x, p)' <=> p = o)
  BY <1>9
<1>14. ListInv'
  BY <1>0, <1>12, <1>13, ListJoins
<1> QED
  BY <1>11, <1>14

LEMMA ReturnIndex ==
  ASSUME TypeInv, ShapeInv, ChangeInv, MarkedInv, CountInv, ListInv, NoNest, Return
  PROVE  CountInv' /\ ListInv'
<1> DEFINE h == Head(stack)
<1>0. PoolType /\ BookType /\ StackType /\ FramesInv /\ stack # <<>>
  BY DEF TypeInv, Return
<1>1. h.k # "change" => Changes' = Changes
  <2>1. /\ \A f \in Active : f \in Active' \/ f = h
        /\ \A f \in Active' : f \in Active \/ f.k \in {"cleanup", "create"}
    BY ReturnActive
  <2> QED
    BY <2>1 DEF Changes
<1>2. CASE h.k = "destroy"
  <2>1. CleanUp(h.s) /\ h.s \in Slots
    BY <1>2, Returns
  <2> HIDE DEF h
  <2>2. \A t \in Slots : SameLife(t) /\ SameKind(t)
    BY <1>0, <2>1, CleanUpDoes
  <2>3. \A t \in Slots : (Exists(t)' <=> Exists(t)) /\ SameKind(t)
    BY <2>2, SameExists
  <2>4. UNCHANGED <<alive, list>>
    BY <2>1 DEF CleanUp
  <2> QED
    BY <1>1, <1>2, <2>3, <2>4, IndexStays
<1>3. CASE h.k = "clear"
  <2> DEFINE s == h.s
             o == pool[s].obj
  <2>1. Dispose(s) /\ s \in Slots /\ stack' = Tail(stack)
    BY <1>3, Returns
  <2>2. h = stack[1] /\ 1 \in DOMAIN stack /\ Len(stack) \in Nat /\ DOMAIN stack = 1..Len(stack)
    BY <1>0, Top
  <2>3. 1 = Len(stack)
    BY <1>3, <2>2 DEF ShapeInv, ClearFrames
  <2>4. \A f \in Active : f = h
    <3> TAKE f \in Active
    <3>1. PICK i \in DOMAIN stack : f = stack[i]
      BY Frames
    <3>2. DOMAIN stack = 1..1
      BY <2>2, <2>3
    <3>3. i = 1
      BY <3>2
    <3> QED
      BY <2>2, <3>1, <3>3
  <2>5. Changes = {} /\ Changes' = {}
    BY <1>1, <1>3, <2>4 DEF Changes
  <2>6. Exists(s)
    <3>1. h \in Active
      BY ReturnActive
    <3> QED
      BY <1>3, <3>1 DEF MarkedInv
  <2>7. \A p \in Objects : Counts(s, p) <=> p \in Family[o]
    BY <2>5, <2>6, Settled
  <2>8. \A p \in Objects : Shelved(s, p) => p = o
    BY <2>5, <2>6, Settled
  <2>9. alive' = Adjusted(alive, o, -1) /\ list' = Unlinked(list, s, o)
    BY <2>1 DEF Dispose
  <2>10. pool'[s].st = "free" /\ \A t \in Slots : t # s => pool'[t] = pool[t]
    <3> HIDE DEF s
    <3> QED
      BY <1>0, <2>1, DisposeDoes, FreeIs
  <2> HIDE DEF s, o
  <2>11. \A x \in Slots : x = s => \A p \in Objects : ~Counts(x, p)' /\ ~Shelved(x, p)'
    BY <2>10 DEF Counts, Shelved, Exists
  <2>12. \A t \in Slots : t # s => SameCount(t) /\ SameShelf(t)
    BY <2>5, <2>10, OthersStay
  <2>13. PICK x \in Slots : x = s
    BY <2>1
  <2>14. (\A t \in Slots : t # x => SameCount(t)) /\ (\A t \in Slots : t # x => SameShelf(t))
    BY <2>12, <2>13
  <2>15. alive' = Adjusted(alive, o, -1) /\ list' = Unlinked(list, x, o)
    BY <2>9, <2>13
  <2>16. /\ \A p \in Objects : ~Counts(x, p)' /\ (Counts(x, p) <=> p \in Family[o])
         /\ \A p \in Objects : ~Shelved(x, p)' /\ (Shelved(x, p) => p = o)
    BY <2>7, <2>8, <2>11, <2>13
  <2>17. CountInv'
    BY <1>0, <2>14, <2>15, <2>16, CountLeaves
  <2>18. ListInv'
    BY <1>0, <2>14, <2>15, <2>16, ListLeaves
  <2> QED
    BY <2>17, <2>18
<1>4. CASE h.k = "change"
  BY <1>4, EndIndex
<1>5. CASE h.k \notin {"destroy", "clear", "change"}
  <2>1. UNCHANGED poolVars
    BY <1>5, Returns
  <2>2. UNCHANGED <<alive, list>> /\ \A t \in Slots : (Exists(t)' <=> Exists(t)) /\ SameKind(t)
    BY <2>1 DEF poolVars, Exists, SameKind
  <2> QED
    BY <1>1, <1>5, <2>2, IndexStays
<1> QED
  BY <1>2, <1>3, <1>4, <1>5

LEMMA IndexKept ==
  ASSUME TypeInv, ShapeInv, ChangeInv, MarkedInv, CountInv, ListInv, NoNest, NoOverflow, [Next]_vars
  PROVE  CountInv' /\ ListInv'
<1>0. PoolType /\ BookType /\ StackType /\ FramesInv /\ LoopType /\ Waits /\ room \in Rooms /\ nextId \in Nat
      /\ 0 \in Objects \cup {0}
  BY DEF TypeInv, ShapeInv, FlowType, BookType
<1>1. ASSUME UNCHANGED stack PROVE Changes' = Changes
  BY <1>1 DEF Changes, Active
<1>2. ASSUME NEW k \in Kinds \ {"change"}, NEW s \in Slots \cup {NoSlot}, Push(k, s, 0) PROVE Changes' = Changes
  <2> DEFINE f == [k |-> k, s |-> s, to |-> 0]
  <2>1. Active' = {f} \cup Active
    BY <1>0, <1>2, PushActive
  <2>2. f.k # "change"
    OBVIOUS
  <2> HIDE DEF f
  <2> QED
    BY <2>1, <2>2 DEF Changes
<1>3. ASSUME UNCHANGED <<pool, alive, list>>, Changes' = Changes PROVE CountInv' /\ ListInv'
  <2>1. \A t \in Slots : (Exists(t)' <=> Exists(t)) /\ SameKind(t)
    BY <1>3 DEF Exists, SameKind
  <2> QED
    BY <1>3, <2>1, IndexStays
<1>4. ASSUME \A t \in Slots : SameLife(t) /\ SameKind(t), UNCHANGED <<alive, list>>, Changes' = Changes
      PROVE  CountInv' /\ ListInv'
  <2>1. \A t \in Slots : (Exists(t)' <=> Exists(t)) /\ SameKind(t)
    BY <1>4, SameExists
  <2> QED
    BY <1>4, <2>1, IndexStays
<1>5. ASSUME NEW o \in Objects, OpCreate(o) PROVE CountInv' /\ ListInv'
  <2>1. Create(Alloc, o, nextId, FALSE, room) /\ ~Full
    BY <1>5 DEF OpCreate, May, NoOverflow
  <2>2. Changes' = Changes
    <3> DEFINE f == [k |-> "create", s |-> Alloc, to |-> o]
    <3>1. "create" \in Kinds /\ Alloc \in Slots /\ Push("create", Alloc, o)
      BY <1>0, <1>5, AllocType DEF Kinds, OpCreate
    <3>2. Active' = {f} \cup Active
      BY <1>0, <3>1, PushActive
    <3>3. f.k # "change"
      OBVIOUS
    <3> HIDE DEF f
    <3> QED
      BY <3>2, <3>3 DEF Changes
  <2> QED
    BY <1>0, <2>1, <2>2, CreateIndex
<1>6. ASSUME NEW t \in Slots, OpDestroy(t) PROVE CountInv' /\ ListInv'
  <2>1. Mark(t) /\ Push("destroy", t, 0) /\ "destroy" \in Kinds \ {"change"}
    BY <1>6 DEF OpDestroy, Kinds
  <2>2. \A x \in Slots : SameLife(x) /\ SameKind(x)
    BY <1>0, <2>1, MarkDoes
  <2>3. UNCHANGED <<alive, list>>
    BY <2>1 DEF Mark
  <2>4. Changes' = Changes
    BY <1>2, <2>1
  <2> QED
    BY <1>4, <2>2, <2>3, <2>4
<1>7. ASSUME NEW o \in Objects, NEW perform \in BOOLEAN, OpChange(o, perform) PROVE CountInv' /\ ListInv'
  <2>1. Self \in Slots /\ Running(Self) /\ ~Changing(Self)
    BY <1>7, SelfSlot DEF OpChange, Acts, May, NoNest
  <2>2. CASE perform
    <3>1. ChangeBegin(Self, o) /\ Push("change", Self, o)
      BY <1>7, <2>2 DEF OpChange
    <3> QED
      BY <2>1, <3>1, BeginIndex
  <2>3. CASE ~perform
    <3>1. ChangeQuietly(Self, o) /\ UNCHANGED stack
      BY <1>7, <2>3 DEF OpChange
    <3> QED
      BY <2>1, <3>1, QuietIndex
  <2> QED
    BY <2>2, <2>3
<1>8. ASSUME NEW t \in Slots, OpDeactivate(t) \/ OpActivate(t) PROVE CountInv' /\ ListInv'
  <2>1. PICK st \in {"live", "off"} : SetActive(t, st)
    BY <1>8 DEF OpDeactivate, OpActivate
  <2>2. Exists(t)
    BY <1>8 DEF OpDeactivate, OpActivate, Running, Exists
  <2>3. /\ \A x \in Slots : SameKind(x) /\ (x # t => SameAll(x))
        /\ pool'[t].st = st
    BY <1>0, <2>1, SetActiveDoes
  <2>4. \A x \in Slots : (Exists(x)' <=> Exists(x)) /\ SameKind(x)
    <3> TAKE x \in Slots
    <3>1. CASE x = t
      BY <2>2, <2>3, <3>1 DEF Exists
    <3>2. CASE x # t
      BY <2>3, <3>2, SameExists DEF SameAll
    <3> QED
      BY <3>1, <3>2
  <2>5. UNCHANGED <<alive, list>> /\ Changes' = Changes
    BY <1>1, <1>8, <2>1 DEF SetActive, OpDeactivate, OpActivate
  <2> QED
    BY <2>4, <2>5, IndexStays
<1>9. CASE OpAlarm
  <2>1. SetAlarm(Self, TRUE) /\ Self \in Slots /\ UNCHANGED stack
    BY <1>9, SelfSlot DEF OpAlarm, Acts
  <2>2. \A x \in Slots : SameLife(x) /\ SameKind(x)
    BY <1>0, <2>1, SetAlarmDoes
  <2>3. UNCHANGED <<alive, list>>
    BY <2>1 DEF SetAlarm
  <2> QED
    BY <1>1, <1>4, <2>1, <2>2, <2>3
<1>10. CASE (\E r \in Rooms : OpRoom(r)) \/ NextGroup \/ Still
  <2>1. UNCHANGED <<pool, alive, list>> /\ UNCHANGED stack
    BY <1>10 DEF OpRoom, NextGroup, Still, vars, poolVars
  <2> QED
    BY <1>1, <1>3, <2>1
<1>11. CASE Return
  BY <1>11, ReturnIndex
<1>12. CASE Dispatch
  <2>1. /\ Recipient \in Slots /\ Push("event", Recipient, 0) /\ "event" \in Kinds \ {"change"}
        /\ SetAlarm(Recipient, FALSE) \/ UNCHANGED poolVars
    BY <1>0, <1>12, DueType, Dispatches DEF Kinds
  <2>2. Changes' = Changes
    BY <1>2, <2>1
  <2>3. CASE SetAlarm(Recipient, FALSE)
    <3>1. \A x \in Slots : SameLife(x) /\ SameKind(x)
      BY <1>0, <2>1, <2>3, SetAlarmDoes
    <3>2. UNCHANGED <<alive, list>>
      BY <2>3 DEF SetAlarm
    <3> QED
      BY <1>4, <2>2, <3>1, <3>2
  <2>4. CASE UNCHANGED poolVars
    BY <1>3, <2>2, <2>4 DEF poolVars
  <2> QED
    BY <2>1, <2>3, <2>4
<1>13. CASE DrawOne
  <2>1. PICK i \in DOMAIN todo : Push("event", todo[i], 0)
    BY <1>13 DEF DrawOne
  <2>2. todo[i] \in Slots
    <3>1. todo \in Seq(Slots)
      BY <1>0 DEF LoopType
    <3> QED
      BY <3>1, <2>1, Members
  <2>3. "event" \in Kinds \ {"change"}
    BY DEF Kinds
  <2>4. Changes' = Changes
    BY <1>2, <2>1, <2>2, <2>3
  <2> QED
    BY <1>3, <1>13, <2>4 DEF DrawOne, poolVars
<1>14. CASE ClearOne
  <2>1. Least(Leaving) \in Slots /\ CleanUp(Least(Leaving)) /\ Push("clear", Least(Leaving), 0)
        /\ "clear" \in Kinds \ {"change"}
    BY <1>14, LeavingType DEF ClearOne, Kinds
  <2>2. \A x \in Slots : SameLife(x) /\ SameKind(x)
    BY <1>0, <2>1, CleanUpDoes
  <2>3. UNCHANGED <<alive, list>>
    BY <2>1 DEF CleanUp
  <2>4. Changes' = Changes
    BY <1>2, <2>1
  <2> QED
    BY <1>4, <2>2, <2>3, <2>4
<1>15. CASE CreationCode
  <2>1. Push("code", NoSlot, 0) /\ "code" \in Kinds \ {"change"} /\ NoSlot \in Slots \cup {NoSlot}
    BY <1>15 DEF CreationCode, Kinds
  <2>2. Changes' = Changes
    BY <1>2, <2>1
  <2> QED
    BY <1>3, <1>15, <2>2 DEF CreationCode, poolVars
<1>16. CASE PlaceOne
  <2> DEFINE p == Placed[room][at + 1]
  <2>1. /\ p.obj \in Objects /\ p.id \in Nat \ {0} /\ Create(Alloc, p.obj, p.id, TRUE, room)
        /\ (Full => "overflow" \in Habits) /\ UNCHANGED stack
    BY <1>16, Places
  <2>2. ~Full
    BY <2>1 DEF NoOverflow
  <2> HIDE DEF p
  <2>3. p.id \in Nat /\ TRUE \in BOOLEAN
    BY <2>1
  <2>4. Changes' = Changes
    BY <1>1, <2>1
  <2> QED
    BY <1>0, <2>1, <2>2, <2>3, <2>4, CreateIndex
<1>17. CASE Turn
  <2>1. UNCHANGED stack /\ UNCHANGED <<pool, alive, list>>
    BY <1>0, <1>17, TurnDoes
  <2> QED
    BY <1>1, <1>3, <2>1
<1>18. CASE Reaping
  <2>1. stack = <<>> /\ UNCHANGED stack
    BY <1>18 DEF Reaping, EndStepEnds, RoomStartEnds, LoopOver
  <2>2. Changes = {} /\ Changes' = {}
    BY <1>1, <2>1, NoneActive DEF Changes
  <2>3. Without(Doomed) /\ (Reap \/ ReapAndRebase)
    BY <1>18 DEF Reaping, EndStepEnds, RoomStartEnds, Reap, ReapAndRebase
  <2>4. \A t \in Slots : /\ t \in Doomed => IsFree(t)' /\ Exists(t)
                         /\ t \notin Doomed => SameAll(t)
    BY <1>0, <2>3, ReapDoes
  <2>5. Doomed \subseteq Slots
    BY <1>0, UpTo DEF Doomed
  <2>6. \A t \in Doomed : Exists(t) /\ ~Exists(t)'
    BY <2>4, <2>5 DEF Exists, IsFree
  <2>7. \A t \in Slots : t \notin Doomed => (Exists(t)' <=> Exists(t)) /\ SameKind(t)
    BY <2>4, SameExists DEF SameAll
  <2> QED
    BY <1>0, <2>2, <2>3, <2>5, <2>6, <2>7, GroupLeaves
<1>19. CASE LeaveRoom
  <2>1. stack = <<>> /\ UNCHANGED stack /\ (PutToSleep(room) \/ UNCHANGED poolVars)
    BY <1>19 DEF LeaveRoom, LoopOver
  <2>2. Changes = {} /\ Changes' = {}
    BY <1>1, <2>1, NoneActive DEF Changes
  <2>3. CASE UNCHANGED poolVars
    BY <1>3, <2>2, <2>3 DEF poolVars
  <2>4. CASE PutToSleep(room)
    <3> DEFINE S == Sleepers(room)
    <3>1. \A t \in Slots : /\ SameKind(t)
                           /\ t \in S => pool'[t].st = "dormant"
                           /\ t \notin S => SameAll(t)
      BY <1>0, <2>4, SleepDoes
    <3>2. S \subseteq Slots /\ Without(S) /\ \A t \in S : Exists(t)
      BY <1>0, <2>4, UpTo DEF Sleepers, PutToSleep
    <3> HIDE DEF S
    <3>3. \A t \in S : Exists(t) /\ ~Exists(t)'
      BY <3>1, <3>2 DEF Exists
    <3>4. \A t \in Slots : t \notin S => (Exists(t)' <=> Exists(t)) /\ SameKind(t)
      BY <3>1, SameExists DEF SameAll
    <3> QED
      BY <1>0, <2>2, <3>2, <3>3, <3>4, GroupLeaves
  <2> QED
    BY <2>1, <2>3, <2>4
<1>20. CASE EnterRoom
  <2>1. Adopt(target) /\ UNCHANGED stack
    BY <1>20 DEF EnterRoom
  <2>2. \A t \in Slots : SameLife(t) /\ SameKind(t)
    BY <1>0, <2>1, AdoptDoes
  <2>3. UNCHANGED <<alive, list>>
    BY <2>1 DEF Adopt
  <2> QED
    BY <1>1, <1>4, <2>1, <2>2, <2>3
<1>21. CASE RestoreRoom
  <2>1. stack = <<>> /\ UNCHANGED stack /\ WakeUp(room)
    BY <1>0, <1>21 DEF RestoreRoom, Waits
  <2>2. Changes = {} /\ Changes' = {}
    BY <1>1, <2>1, NoneActive DEF Changes
  <2> QED
    BY <2>1, <2>2, GroupReturns
<1> QED
  BY <1>5, <1>6, <1>7, <1>8, <1>9, <1>10, <1>11, <1>12, <1>13, <1>14, <1>15, <1>16, <1>17, <1>18, <1>19,
     <1>20, <1>21, Steps

LEMMA IndexInit == ASSUME Init PROVE ChangeInv /\ CountInv /\ ListInv
<1>0. PICK gone \in SUBSET (1..Len(Placed[room])) : Opening(gone)
  BY FirstRoom
<1> DEFINE n == Len(Placed[room])
           here == (1..n) \ gone
<1>1. stack = <<>>
  BY DEF Init
<1>2. Changes = {}
  BY <1>1, NoneActive DEF Changes
<1>3. ChangeInv
  BY <1>1, <1>2 DEF ChangeInv, OneChange
<1>4. \A s, o : /\ Counts(s, o) <=> Exists(s) /\ o \in Family[pool[s].obj]
                /\ Shelved(s, o) <=> Exists(s) /\ pool[s].obj = o
  BY <1>2, Settled
<1>5. /\ room \in Rooms
      /\ \A s \in Slots : /\ s + 1 \in here => pool[s].st = "live" /\ pool[s].obj = Placed[room][s + 1].obj
                          /\ s + 1 \notin here => pool[s] = Free
      /\ alive = [o \in Objects |-> Cardinality({i \in here : o \in Family[Placed[room][i].obj]})]
      /\ list = [o \in Objects |->
                  Reverse(Ascending({s \in Slots : s + 1 \in here /\ Placed[room][s + 1].obj = o}))]
  BY <1>0 DEF Opening
<1>6. n \in 0..Cap /\ Cap \in Nat \ {0}
  BY <1>5, PlacedType, Numbers
<1>7. here \subseteq 1..n /\ IsFiniteSet(here)
  <2>1. IsFiniteSet(1..n)
    BY <1>6, FS_Interval
  <2>2. here \in SUBSET (1..n)
    OBVIOUS
  <2> HIDE DEF here
  <2> QED
    BY <2>1, <2>2, FS_Subset
<1>8. \A i \in here : i - 1 \in Slots /\ (i - 1) + 1 = i
  BY <1>6, <1>7 DEF Slots
<1> HIDE DEF here, n
<1>9. \A s \in Slots : Exists(s) <=> s + 1 \in here
  BY <1>5, FreeIs DEF Exists
<1>10. ASSUME NEW o \in Objects PROVE alive[o] = Cardinality(Tally[o])
  <2> DEFINE A == {i \in here : o \in Family[Placed[room][i].obj]}
             T == Tally[o]
             f == [i \in A |-> i - 1]
  <2>1. alive[o] = Cardinality(A)
    BY <1>5
  <2>2. IsFiniteSet(A)
    BY <1>7, FS_Subset
  <2>3. \A i \in A : i - 1 \in T
    <3> TAKE i \in A
    <3>1. i - 1 \in Slots /\ (i - 1) + 1 = i /\ i \in here
      BY <1>8
    <3>2. Exists(i - 1) /\ pool[i - 1].obj = Placed[room][i].obj
      BY <1>5, <1>9, <3>1
    <3> QED
      BY <1>4, <3>1, <3>2, Entries
  <2>4. \A s \in T : s + 1 \in A /\ (s + 1) - 1 = s
    <3> TAKE s \in T
    <3>1. s \in Slots /\ Counts(s, o)
      BY Entries
    <3>2. s + 1 \in here /\ pool[s].obj = Placed[room][s + 1].obj /\ s \in Nat
      BY <1>4, <1>5, <1>9, <3>1, Numbers
    <3> QED
      BY <1>4, <3>1, <3>2
  <2>5. \A i \in A : i \in Int
    <3>1. \A i \in here : i \in 1..n
      BY <1>7
    <3> QED
      BY <1>6, <3>1
  <2> HIDE DEF A, T
  <2>6. f \in [A -> T]
    BY <2>3
  <2>7. \A i, j \in A : f[i] = f[j] => i = j
    BY <2>5
  <2>8. \A s \in T : \E i \in A : f[i] = s
    BY <2>4
  <2> HIDE DEF f
  <2>9. f \in Bijection(A, T)
    BY <2>6, <2>7, <2>8 DEF Bijection, Injection, Surjection, IsInjective
  <2>10. Cardinality(A) = Cardinality(T)
    <3>1. ExistsBijection(A, T)
      BY <2>9 DEF ExistsBijection
    <3> QED
      BY <2>2, <3>1, FS_Bijection
  <2> QED
    BY <2>1, <2>10 DEF T
<1>11. ASSUME NEW o \in Objects PROVE ToSet(list[o]) = Shelf[o] /\ IsInjective(list[o])
  <2> DEFINE D == {s \in Slots : s + 1 \in here /\ Placed[room][s + 1].obj = o}
             a == Ascending(D)
  <2>1. list[o] = Reverse(a)
    BY <1>5
  <2>2. D = Shelf[o]
    <3>1. \A s \in Slots : s \in D <=> Shelved(s, o)
      BY <1>4, <1>5, <1>9
    <3> QED
      BY <3>1, Entries
  <2>3. D \subseteq Slots
    OBVIOUS
  <2> HIDE DEF D
  <2>4. a \in Seq(Slots) /\ ToSet(a) = D /\ IsInjective(a)
    BY <2>3, SlotSets
  <2> HIDE DEF a
  <2>5. ToSet(Reverse(a)) = ToSet(a) /\ (IsInjective(a) => IsInjective(Reverse(a)))
    BY <2>4, Reversed
  <2> QED
    BY <2>1, <2>2, <2>4, <2>5
<1> QED
  BY <1>3, <1>10, <1>11 DEF CountInv, ListInv

LEMMA Exact == ASSUME TypeInv, CountInv, ListInv PROVE IndexesExact
<1> SUFFICES ASSUME Undisturbed, NEW o \in Objects
             PROVE  /\ alive[o] = Cardinality(Family0(o))
                    /\ ToSet(list[o]) = {s \in Slots : Exists(s) /\ pool[s].obj = o}
                    /\ Len(list[o]) = Cardinality(ToSet(list[o]))
  BY DEF IndexesExact
<1>1. Changes = {}
  <2> SUFFICES ASSUME NEW f \in Changes PROVE FALSE
    OBVIOUS
  <2>1. PICK i \in DOMAIN stack : f = stack[i]
    BY Frames DEF Changes
  <2> QED
    BY <2>1 DEF Undisturbed, Changes
<1>2. \A s, p : /\ Counts(s, p) <=> Exists(s) /\ p \in Family[pool[s].obj]
                /\ Shelved(s, p) <=> Exists(s) /\ pool[s].obj = p
  BY <1>1, Settled
<1>3. Tally[o] = Family0(o)
  BY <1>2 DEF Tally, Family0
<1>4. Shelf[o] = {s \in Slots : Exists(s) /\ pool[s].obj = o}
  BY <1>2 DEF Shelf
<1>5. list[o] \in Seq(Slots)
  BY DEF TypeInv, BookType
<1>6. Len(list[o]) = Cardinality(ToSet(list[o]))
  BY <1>5, CountedOnce DEF ListInv
<1> QED
  BY <1>3, <1>4, <1>6 DEF CountInv, ListInv

\* Between changes the counts of the families and the lists of the objects agree with the pool, for any pool
\* that does not overflow and any event code that neither ends nor changes an instance during its change.
THEOREM Indexes == ASSUME NoOverflow, NoDeath, NoNest PROVE Spec => []IndexesExact
<1>1. Init => TypeInv /\ ShapeInv /\ MarkedInv /\ ChangeInv /\ CountInv /\ ListInv
  BY InitType, ShapeInit, LivesInit, IndexInit
<1>2. /\ TypeInv /\ ShapeInv /\ MarkedInv /\ ChangeInv /\ CountInv /\ ListInv /\ [Next]_vars
      => (TypeInv /\ ShapeInv /\ MarkedInv /\ ChangeInv /\ CountInv /\ ListInv)'
  BY StepType, ShapeKept, MarkedKept, ChangeKept, IndexKept
<1>3. TypeInv /\ CountInv /\ ListInv => IndexesExact
  BY Exact
<1> QED
  BY <1>1, <1>2, <1>3, PTL DEF Spec
=============================================================================
