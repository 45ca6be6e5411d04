---------------------------- MODULE OrderLemmas ----------------------------
(***************************************************************************)
(* Numbers have a least one among them, finitely many have a greatest, and *)
(* an enumeration of a finite set without repetition reaches all of it.    *)
(* The proofs about the other modules use these for what the code takes    *)
(* the first, the smallest or the largest of, or puts in an order.         *)
(***************************************************************************)
EXTENDS Integers, Sequences, FiniteSets, FiniteSetsExt, Functions,
        WellFoundedInduction, FiniteSetTheorems, TLAPS

\* Numbers have a least one among them,
LEMMA LeastNumber ==
  ASSUME NEW S \in SUBSET Nat, S # {} PROVE \E x \in S : \A y \in S : x <= y
<1>1. IsWellFoundedOn(OpToRel(<, Nat), Nat)
  BY NatLessThanWellFounded
<1>2. PICK x \in S : \A y \in S : <<y, x>> \notin OpToRel(<, Nat)
  BY <1>1, WFMin
<1>3. \A y \in S : ~(y < x)
  BY <1>2 DEF OpToRel
<1> QED
  BY <1>3

\* which Min takes;
LEMMA MinIsLeast ==
  ASSUME NEW S \in SUBSET Nat, S # {} PROVE Min(S) \in S /\ \A y \in S : Min(S) <= y
BY LeastNumber DEF Min

\* of two numbers, one of them.
LEMMA MinOfTwo ==
  ASSUME NEW a \in Nat, NEW b \in Nat
  PROVE  Min({a, b}) \in Nat /\ Min({a, b}) = IF a <= b THEN a ELSE b
<1>1. Min({a, b}) \in {a, b} /\ \A y \in {a, b} : Min({a, b}) <= y
  BY MinIsLeast
<1> QED
  BY <1>1

\* Finitely many numbers have a greatest: take one with the fewest above it.
LEMMA MaxIsGreatest ==
  ASSUME NEW S \in SUBSET Nat, S # {}, IsFiniteSet(S)
  PROVE  Max(S) \in S /\ \A y \in S : y <= Max(S)
<1> DEFINE Above(x) == {y \in S : y > x}
           Sizes == {Cardinality(Above(x)) : x \in S}
<1>1. \A x \in S : IsFiniteSet(Above(x)) /\ Cardinality(Above(x)) \in Nat
  <2> TAKE x \in S
  <2>1. Above(x) \in SUBSET S
    OBVIOUS
  <2> QED
    BY <2>1, FS_Subset, FS_CardinalityType
<1>2. PICK x \in S : \A y \in S : Cardinality(Above(x)) <= Cardinality(Above(y))
  <2>1. Sizes \in SUBSET Nat /\ Sizes # {}
    BY <1>1
  <2>2. PICK n \in Sizes : \A m \in Sizes : n <= m
    <3> HIDE DEF Sizes
    <3> QED
      BY <2>1, LeastNumber
  <2> QED
    BY <2>2
<1>3. \A y \in S : y <= x
  <2> SUFFICES ASSUME NEW y \in S, y > x PROVE FALSE
    OBVIOUS
  <2>1. Above(y) \in SUBSET Above(x) /\ Above(y) # Above(x)
    <3>1. \A z \in S : z > y => z > x
      OBVIOUS
    <3>2. y \in Above(x) /\ y \notin Above(y)
      OBVIOUS
    <3> QED
      BY <3>1, <3>2
  <2>2. Cardinality(Above(y)) <= Cardinality(Above(x))
        /\ (Cardinality(Above(x)) = Cardinality(Above(y)) => Above(x) = Above(y))
    <3> HIDE DEF Above
    <3> QED
      BY <1>1, <2>1, FS_Subset
  <2> QED
    BY <1>1, <1>2, <2>1, <2>2
<1>4. \E z \in S : \A y \in S : z >= y
  BY <1>3
<1> QED
  BY <1>4 DEF Max

\* Whoever counts a finite set without repetition counts all of it.
LEMMA CountingReachesAll ==
  ASSUME NEW S, IsFiniteSet(S), NEW at \in [1..Cardinality(S) -> S], IsInjective(at)
  PROVE  /\ Cardinality(S) \in Nat
         /\ {at[i] : i \in 1..Cardinality(S)} = S
<1>1. Cardinality(S) \in Nat
  BY FS_CardinalityType
<1>2. at \in Injection(1..Cardinality(S), S)
  BY DEF Injection, IsInjective
<1>3. Cardinality(1..Cardinality(S)) = Cardinality(S)
  BY <1>1, FS_Interval
<1>4. at \in Surjection(1..Cardinality(S), S)
  BY <1>2, <1>3, FS_Injection
<1> QED
  BY <1>1, <1>4 DEF Surjection

\* What is made element by element is a sequence.
LEMMA MadeIsSequence ==
  ASSUME NEW S, NEW n \in Nat, NEW f, f = [i \in 1..n |-> f[i]], \A i \in 1..n : f[i] \in S
  PROVE  f \in Seq(S) /\ Len(f) = n /\ DOMAIN f = 1..n
<1>1. f \in [1..n -> S]
  OBVIOUS
<1> QED
  BY <1>1
-----------------------------------------------------------------------------
(* Quotients rise with what is divided.                                    *)

LEMMA Division ==
  ASSUME NEW a \in Int, NEW d \in Nat \ {0}
  PROVE  /\ a \div d \in Int /\ a % d \in 0..(d - 1)
         /\ a = d * (a \div d) + (a % d)
OBVIOUS

LEMMA ProductRises ==
  ASSUME NEW a \in Int, NEW b \in Int, NEW k \in Nat, a <= b
  PROVE  k * a <= k * b
OBVIOUS

\* A quotient that is smaller by one leaves room for the divisor.
LEMMA QuotientRises ==
  ASSUME NEW a \in Int, NEW b \in Int, NEW d \in Nat \ {0}, a <= b
  PROVE  a \div d <= b \div d /\ (a \div d = b \div d => a % d <= b % d)
<1> DEFINE i == a \div d
           j == b \div d
<1>1. i \in Int /\ j \in Int /\ a % d \in 0..(d - 1) /\ b % d \in 0..(d - 1)
      /\ a = d * i + (a % d) /\ b = d * j + (b % d)
  BY Division
<1> HIDE DEF i, j
<1>2. ASSUME j < i PROVE FALSE
  <2>1. d * (j + 1) <= d * i
    BY <1>1, <1>2, ProductRises
  <2>2. d * (j + 1) = d * j + d
    BY <1>1
  <2> QED
    BY <1>1, <2>1, <2>2
<1> QED
  BY <1>1, <1>2 DEF i, j

-----------------------------------------------------------------------------
(* Orders of a finite set.                                                 *)

StrictOrder(S, R) ==
  /\ \A x \in S : <<x, x>> \notin R
  /\ \A x, y, z \in S : <<x, y>> \in R /\ <<y, z>> \in R => <<x, z>> \in R
  /\ \A x, y \in S : x = y \/ <<x, y>> \in R \/ <<y, x>> \in R
Predecessors(S, R, x) == {y \in S : <<y, x>> \in R}

\* An element comes after fewer than all, and after more than what it comes after does.
LEMMA PredecessorsAreCounted ==
  ASSUME NEW S, IsFiniteSet(S), NEW R, StrictOrder(S, R)
  PROVE  /\ Cardinality(S) \in Nat
         /\ \A x \in S : Cardinality(Predecessors(S, R, x)) \in 0..(Cardinality(S) - 1)
         /\ \A x, y \in S : <<x, y>> \in R =>
               Cardinality(Predecessors(S, R, x)) < Cardinality(Predecessors(S, R, y))
<1>1. Cardinality(S) \in Nat
  BY FS_CardinalityType
<1>2. ASSUME NEW x \in S
      PROVE  /\ IsFiniteSet(Predecessors(S, R, x)) /\ Cardinality(Predecessors(S, R, x)) \in Nat
             /\ Cardinality(Predecessors(S, R, x)) < Cardinality(S)
  <2>1. Predecessors(S, R, x) \in SUBSET S /\ x \notin Predecessors(S, R, x)
    BY DEF Predecessors, StrictOrder
  <2>2. IsFiniteSet(Predecessors(S, R, x)) /\ Cardinality(Predecessors(S, R, x)) <= Cardinality(S)
        /\ Cardinality(S) # Cardinality(Predecessors(S, R, x))
    BY <2>1, FS_Subset
  <2> QED
    BY <1>1, <2>2, FS_CardinalityType
<1>3. ASSUME NEW x \in S, NEW y \in S, <<x, y>> \in R
      PROVE  Cardinality(Predecessors(S, R, x)) < Cardinality(Predecessors(S, R, y))
  <2>1. Predecessors(S, R, x) \in SUBSET Predecessors(S, R, y)
    BY <1>3 DEF Predecessors, StrictOrder
  <2>2. x \in Predecessors(S, R, y) /\ x \notin Predecessors(S, R, x)
    BY <1>3 DEF Predecessors, StrictOrder
  <2>3. Cardinality(Predecessors(S, R, x)) <= Cardinality(Predecessors(S, R, y))
        /\ Cardinality(Predecessors(S, R, y)) # Cardinality(Predecessors(S, R, x))
    BY <1>2, <2>1, <2>2, FS_Subset
  <2> QED
    BY <1>2, <2>3
<1>4. \A x \in S : Cardinality(Predecessors(S, R, x)) \in 0..(Cardinality(S) - 1)
  BY <1>1, <1>2
<1> QED
  BY <1>1, <1>3, <1>4

\* Every place of the order is somebody's.
LEMMA PlaceIsTaken ==
  ASSUME NEW S, IsFiniteSet(S), NEW R, StrictOrder(S, R), NEW i \in 1..Cardinality(S)
  PROVE  \E x \in S : Cardinality(Predecessors(S, R, x)) = i - 1
<1> DEFINE place == [x \in S |-> Cardinality(Predecessors(S, R, x)) + 1]
<1>1. Cardinality(S) \in Nat
  BY FS_CardinalityType
<1>2. place \in [S -> 1..Cardinality(S)]
  BY <1>1, PredecessorsAreCounted
<1>3. \A x, y \in S : place[x] = place[y] => x = y
  <2> SUFFICES ASSUME NEW x \in S, NEW y \in S, x # y PROVE place[x] # place[y]
    OBVIOUS
  <2>1. <<x, y>> \in R \/ <<y, x>> \in R
    BY DEF StrictOrder
  <2> QED
    BY <2>1, PredecessorsAreCounted
<1>4. place \in Injection(S, 1..Cardinality(S))
  <2> HIDE DEF place
  <2> QED
    BY <1>2, <1>3 DEF Injection, IsInjective
<1>5. place \in Surjection(S, 1..Cardinality(S))
  <2> HIDE DEF place
  <2> QED
    BY <1>1, <1>4, FS_Injection, FS_Interval
<1>6. PICK x \in S : place[x] = i
  BY <1>5 DEF Surjection
<1> QED
  BY <1>1, <1>6, PredecessorsAreCounted

\* What puts at each place an element with that many before it lists the set in order.
Lists(f, S) ==
  /\ Cardinality(S) \in Nat /\ f \in [1..Cardinality(S) -> S] /\ IsInjective(f)
  /\ \A x \in S : \E i \in 1..Cardinality(S) : f[i] = x
Ordered(f, S, R) ==
  /\ Lists(f, S)
  /\ \A i, j \in 1..Cardinality(S) : i < j => <<f[i], f[j]>> \in R

LEMMA PlacesAreOrdered ==
  ASSUME NEW S, IsFiniteSet(S), NEW R, StrictOrder(S, R), NEW f,
         f = [i \in 1..Cardinality(S) |-> f[i]],
         \A i \in 1..Cardinality(S) :
            f[i] \in S /\ Cardinality(Predecessors(S, R, f[i])) = i - 1
  PROVE  Ordered(f, S, R)
<1>1. Cardinality(S) \in Nat
  BY FS_CardinalityType
<1>2. f \in [1..Cardinality(S) -> S]
  OBVIOUS
<1>3. \A i, j \in 1..Cardinality(S) : f[i] = f[j] => i = j
  OBVIOUS
<1>4. IsInjective(f)
  BY <1>2, <1>3 DEF IsInjective
<1>5. \A x \in S : \E i \in 1..Cardinality(S) : f[i] = x
  <2>1. {f[i] : i \in 1..Cardinality(S)} = S
    BY <1>2, <1>4, CountingReachesAll
  <2> QED
    BY <2>1
<1>6. ASSUME NEW i \in 1..Cardinality(S), NEW j \in 1..Cardinality(S), i < j
      PROVE  <<f[i], f[j]>> \in R
  <2>1. f[i] \in S /\ f[j] \in S /\ f[i] # f[j]
    BY <1>2, <1>3, <1>6
  <2>2. <<f[i], f[j]>> \in R \/ <<f[j], f[i]>> \in R
    BY <2>1 DEF StrictOrder
  <2>3. <<f[j], f[i]>> \in R => Cardinality(Predecessors(S, R, f[j])) < Cardinality(Predecessors(S, R, f[i]))
    BY <2>1, PredecessorsAreCounted
  <2> QED
    BY <1>6, <2>2, <2>3
<1> QED
  BY <1>1, <1>2, <1>4, <1>5, <1>6 DEF Ordered, Lists
=============================================================================
