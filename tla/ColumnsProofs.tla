--------------------------- MODULE ColumnsProofs ---------------------------
(***************************************************************************)
(* Proofs about Columns, for files of any columns over any texts, every    *)
(* sequence of corrections and any bounds.                                 *)
(***************************************************************************)
EXTENDS Columns, OrderLemmas, FunctionTheorems, SequenceTheorems

-----------------------------------------------------------------------------
(* Sets in order, the places of a sequence, sorted numbers.                *)

LessThan == {p \in Int \X Int : p[1] < p[2]}

LEMMA PlacesInOrder ==
  ASSUME NEW P \in SUBSET Int, IsFiniteSet(P)
  PROVE  Ordered(InOrder(P, <), P, LessThan)
<1> DEFINE f == InOrder(P, <)
<1>1. StrictOrder(P, LessThan)
  <2>1. \A x, y \in P : <<x, y>> \in LessThan <=> x < y
    BY DEF LessThan
  <2> QED
    BY <2>1 DEF StrictOrder
<1>2. \A x \in P : Predecessors(P, LessThan, x) = {y \in P : y < x}
  BY DEF Predecessors, LessThan
<1>3. f = [i \in 1..Cardinality(P) |->
             CHOOSE x \in P : Cardinality({y \in P : y < x}) = i - 1]
  BY DEF InOrder
<1>4. ASSUME NEW i \in 1..Cardinality(P)
      PROVE  f[i] \in P /\ Cardinality(Predecessors(P, LessThan, f[i])) = i - 1
  <2>1. f[i] = CHOOSE x \in P : Cardinality({y \in P : y < x}) = i - 1
    BY <1>3
  <2>2. \E x \in P : Cardinality({y \in P : y < x}) = i - 1
    <3>1. \E x \in P : Cardinality(Predecessors(P, LessThan, x)) = i - 1
      BY <1>1, PlaceIsTaken
    <3> QED
      BY <1>2, <3>1
  <2>3. f[i] \in P /\ Cardinality({y \in P : y < f[i]}) = i - 1
    <3> HIDE DEF f
    <3> QED
      BY <2>1, <2>2
  <2> QED
    BY <1>2, <2>3
<1>5. f = [i \in 1..Cardinality(P) |-> f[i]]
  BY <1>3
<1>6. Ordered(f, P, LessThan)
  <2> HIDE DEF f
  <2> QED
    BY <1>1, <1>4, <1>5, PlacesAreOrdered
<1> QED
  BY <1>6

LEMMA CountTo ==
  ASSUME NEW n \in Nat
  PROVE  IsFiniteSet(1..n) /\ Cardinality(1..n) = n
BY FS_Interval

\* What takes the elements of a sequence at some of its places, in their order.
Picks(t, s, P, at) ==
  /\ Lists(at, P) /\ Len(t) = Cardinality(P)
  /\ \A i, j \in 1..Len(t) : i < j => at[i] < at[j]
  /\ \A i \in 1..Len(t) : t[i] = s[at[i]]

LEMMA PlacesAreFinite ==
  ASSUME NEW A, NEW s \in Seq(A), NEW P \in SUBSET DOMAIN s
  PROVE  /\ P \in SUBSET Int /\ IsFiniteSet(P) /\ Cardinality(P) \in Nat
         /\ Cardinality(P) <= Len(s)
         /\ DOMAIN s = 1..Len(s) /\ Len(s) \in Nat
<1>1. DOMAIN s = 1..Len(s) /\ Len(s) \in Nat
  OBVIOUS
<1>2. IsFiniteSet(1..Len(s)) /\ Cardinality(1..Len(s)) = Len(s)
  BY <1>1, CountTo
<1>3. IsFiniteSet(P) /\ Cardinality(P) <= Len(s)
  BY <1>1, <1>2, FS_Subset
<1> QED
  BY <1>1, <1>3, FS_CardinalityType

LEMMA PickedIs ==
  ASSUME NEW A, NEW s \in Seq(A), NEW P \in SUBSET DOMAIN s
  PROVE  /\ Picked(s, P) \in Seq(A)
         /\ \E at : Picks(Picked(s, P), s, P, at)
<1> DEFINE at == InOrder(P, <)
           t == Picked(s, P)
           n == Cardinality(P)
<1>1. P \in SUBSET Int /\ IsFiniteSet(P) /\ n \in Nat /\ DOMAIN s = 1..Len(s)
  BY PlacesAreFinite
<1>2. Ordered(at, P, LessThan)
  BY <1>1, PlacesInOrder
<1>3. Lists(at, P) /\ at \in [1..n -> P]
  BY <1>2 DEF Ordered, Lists
<1>4. \A i, j \in 1..n : i < j => at[i] < at[j]
  <2>1. \A i, j \in 1..n : i < j => <<at[i], at[j]>> \in LessThan
    BY <1>2 DEF Ordered
  <2> HIDE DEF at, n
  <2> QED
    BY <2>1 DEF LessThan
<1>5. t = [i \in 1..n |-> s[at[i]]]
  BY DEF Picked
<1> HIDE DEF at, t, n
<1>6. \A i \in 1..n : s[at[i]] \in A
  BY <1>1, <1>3
<1>7. t \in Seq(A) /\ Len(t) = n
  <2>1. t \in [1..n -> A]
    BY <1>5, <1>6
  <2> QED
    BY <1>1, <2>1
<1>8. Picks(t, s, P, at)
  BY <1>3, <1>4, <1>5, <1>7 DEF Picks, n
<1> QED
  BY <1>7, <1>8 DEF t

\* A sequence of numbers from the least to the greatest.
Rising(s) == s \in Seq(Int) /\ \A i, j \in 1..Len(s) : i <= j => s[i] <= s[j]

LEMMA SortedIsRising ==
  ASSUME NEW s \in Seq(Int)
  PROVE  /\ Rising(Sorted(s)) /\ Len(Sorted(s)) = Len(s)
         /\ \E at : /\ Lists(at, DOMAIN s)
                    /\ \A i \in 1..Len(s) : Sorted(s)[i] = s[at[i]]
<1> DEFINE S == DOMAIN s
           R == {p \in S \X S : s[p[1]] < s[p[2]] \/ (s[p[1]] = s[p[2]] /\ p[1] < p[2])}
           at == InOrder(S, LAMBDA i, j : s[i] < s[j] \/ (s[i] = s[j] /\ i < j))
           t == Sorted(s)
<1>1. S = 1..Len(s) /\ Len(s) \in Nat /\ IsFiniteSet(S) /\ Cardinality(S) = Len(s)
  <2>1. S = 1..Len(s) /\ Len(s) \in Nat
    OBVIOUS
  <2> QED
    BY <2>1, FS_Interval
<1>2. \A i \in S : s[i] \in Int
  OBVIOUS
<1>3. StrictOrder(S, R)
  <2>1. \A i, j \in S : <<i, j>> \in R <=> (s[i] < s[j] \/ (s[i] = s[j] /\ i < j))
    OBVIOUS
  <2> HIDE DEF R
  <2> QED
    BY <1>1, <1>2, <2>1 DEF StrictOrder
<1>4. \A j \in S : Predecessors(S, R, j) = {i \in S : s[i] < s[j] \/ (s[i] = s[j] /\ i < j)}
  BY DEF Predecessors
<1>5. at = [k \in 1..Cardinality(S) |->
              CHOOSE j \in S : Cardinality({i \in S : s[i] < s[j] \/ (s[i] = s[j] /\ i < j)}) = k - 1]
  BY DEF InOrder
<1>6. ASSUME NEW k \in 1..Cardinality(S)
      PROVE  at[k] \in S /\ Cardinality(Predecessors(S, R, at[k])) = k - 1
  <2>1. at[k] = CHOOSE j \in S : Cardinality({i \in S : s[i] < s[j] \/ (s[i] = s[j] /\ i < j)}) = k - 1
    BY <1>5
  <2>2. \E j \in S : Cardinality({i \in S : s[i] < s[j] \/ (s[i] = s[j] /\ i < j)}) = k - 1
    <3>1. \E j \in S : Cardinality(Predecessors(S, R, j)) = k - 1
      <4> HIDE DEF S, R
      <4> QED
        BY <1>1, <1>3, PlaceIsTaken
    <3> HIDE DEF R, S
    <3> QED
      BY <1>4, <3>1
  <2>3. at[k] \in S /\ Cardinality({i \in S : s[i] < s[at[k]] \/ (s[i] = s[at[k]] /\ i < at[k])}) = k - 1
    <3> HIDE DEF at, S
    <3> QED
      BY <2>1, <2>2
  <2> HIDE DEF at, R, S
  <2> QED
    BY <1>4, <2>3
<1>7. at = [k \in 1..Cardinality(S) |-> at[k]]
  BY <1>5
<1>8. Ordered(at, S, R)
  <2> HIDE DEF at, R, S
  <2> QED
    BY <1>1, <1>3, <1>6, <1>7, PlacesAreOrdered
<1>9. t = [k \in DOMAIN s |-> s[at[k]]]
  BY DEF Sorted
<1> HIDE DEF at, S, t
<1>10. Lists(at, S) /\ at \in [1..Len(s) -> S]
  BY <1>1, <1>8 DEF Ordered, Lists
<1>11. t = [k \in 1..Len(s) |-> s[at[k]]] /\ \A k \in 1..Len(s) : s[at[k]] \in Int
  BY <1>2, <1>9, <1>10
<1>12. t \in Seq(Int) /\ Len(t) = Len(s)
  <2>1. t \in [1..Len(s) -> Int]
    BY <1>11
  <2> QED
    BY <1>1, <2>1
<1>13. ASSUME NEW i \in 1..Len(s), NEW j \in 1..Len(s), i <= j PROVE t[i] <= t[j]
  <2>1. CASE i = j
    BY <2>1, <1>11
  <2>2. CASE i < j
    <3>1. <<at[i], at[j]>> \in R
      BY <1>1, <1>8, <2>2 DEF Ordered
    <3>2. s[at[i]] < s[at[j]] \/ s[at[i]] = s[at[j]]
      BY <3>1
    <3> QED
      BY <1>11, <3>2
  <2> QED
    BY <1>13, <2>1, <2>2
<1>14. Rising(t)
  BY <1>12, <1>13 DEF Rising
<1> QED
  BY <1>10, <1>11, <1>12, <1>14 DEF S, t

-----------------------------------------------------------------------------
(* The texts of a column and what they read as.                            *)

HasValue(column) == {i \in DOMAIN column : Present(column[i])}
Shaped(texts, shapes) == {i \in DOMAIN texts : texts[i].shape \in shapes}

LEMMA TextIsOfColumn ==
  ASSUME NEW column \in Seq(Cell), NEW i \in HasValue(column)
  PROVE  column[i].text \in Text
<1>1. column[i] \in Cell /\ Present(column[i])
  BY DEF HasValue
<1> QED
  BY <1>1 DEF Cell, Present

\* The texts are those of the rows that hold one.
LEMMA TrimmedIsTexts ==
  ASSUME NEW column \in Seq(Cell)
  PROVE  /\ Trimmed(column) \in Seq(Text)
         /\ Len(Trimmed(column)) = Cardinality(HasValue(column))
         /\ \E at : /\ Lists(at, HasValue(column))
                    /\ \A i \in 1..Len(Trimmed(column)) :
                          Trimmed(column)[i] = column[at[i]].text
<1> DEFINE P == HasValue(column)
           picked == Picked(column, P)
           t == Trimmed(column)
<1>1. P \in SUBSET DOMAIN column
  BY DEF HasValue
<1>2. picked \in Seq(Cell) /\ \E at : Picks(picked, column, P, at)
  BY <1>1, PickedIs
<1>3. PICK at : Picks(picked, column, P, at)
  BY <1>2
<1>4. t = [i \in DOMAIN picked |-> picked[i].text]
  BY DEF Trimmed, TextsOf, Kept, HasValue
<1>5. P \subseteq DOMAIN column /\ Cardinality(P) \in Nat
  BY <1>1, PlacesAreFinite
<1>6. \A i \in P : column[i].text \in Text
  BY TextIsOfColumn
<1> HIDE DEF P, picked, t
<1>7. Lists(at, P) /\ at \in [1..Cardinality(P) -> P] /\ Len(picked) = Cardinality(P)
      /\ \A i \in 1..Len(picked) : picked[i] = column[at[i]]
  BY <1>3 DEF Picks, Lists
<1>8. DOMAIN picked = 1..Cardinality(P)
  BY <1>2, <1>7
<1>9. t = [i \in 1..Cardinality(P) |-> column[at[i]].text]
  BY <1>4, <1>7, <1>8
<1>10. \A i \in 1..Cardinality(P) : column[at[i]].text \in Text
  BY <1>6, <1>7
<1>11. t \in [1..Cardinality(P) -> Text]
  BY <1>9, <1>10
<1>12. t \in Seq(Text) /\ Len(t) = Cardinality(P)
  BY <1>5, <1>11
<1> QED
  BY <1>7, <1>9, <1>12 DEF P, t

\* Reading the texts at some places as numbers gives as many, in order.
LEMMA ReadIsRising ==
  ASSUME NEW texts \in Seq(Text), NEW P \in SUBSET DOMAIN texts
  PROVE  LET s == Sorted(Reading(Picked(texts, P)))
         IN  Rising(s) /\ Len(s) = Cardinality(P)
<1> DEFINE read == Picked(texts, P)
           at == Reading(read)
<1>1. read \in Seq(Text) /\ Len(read) = Cardinality(P)
  BY PickedIs DEF Picks
<1>2. \A i \in 1..Len(read) : read[i].at \in Int
  <2>1. \A i \in 1..Len(read) : read[i] \in Text
    BY <1>1
  <2> QED
    BY <2>1, CellsAssumption
<1>3. at \in Seq(Int) /\ Len(at) = Len(read)
  <2> HIDE DEF read
  <2>1. at \in [1..Len(read) -> Int] /\ Len(read) \in Nat
    BY <1>1, <1>2 DEF Reading
  <2> QED
    BY <2>1
<1> HIDE DEF at
<1>4. Rising(Sorted(at)) /\ Len(Sorted(at)) = Len(at)
  BY <1>3, SortedIsRising
<1> QED
  BY <1>1, <1>3, <1>4 DEF at

LEMMA NumbersAreRising ==
  ASSUME NEW column \in Seq(Cell)
  PROVE  /\ Rising(Numbers(column))
         /\ Len(Numbers(column)) = Cardinality(Shaped(Trimmed(column), {"integer", "decimal"}))
<1> DEFINE texts == Trimmed(column)
           P == {i \in DOMAIN texts : Numeric(texts[i])}
<1>1. texts \in Seq(Text)
  BY TrimmedIsTexts
<1>2. P = Shaped(texts, {"integer", "decimal"})
  BY DEF Shaped, Numeric
<1>3. Numbers(column) = Sorted(Reading(Picked(texts, P)))
  BY DEF Numbers, Kept
<1>4. P \in SUBSET DOMAIN texts
  OBVIOUS
<1> HIDE DEF texts, P
<1>5. Rising(Numbers(column)) /\ Len(Numbers(column)) = Cardinality(P)
  BY <1>1, <1>3, <1>4, ReadIsRising
<1> QED
  BY <1>2, <1>5 DEF texts

LEMMA MomentsAreRising ==
  ASSUME NEW column \in Seq(Cell)
  PROVE  /\ Rising(Moments(column))
         /\ Len(Moments(column)) = Cardinality(Shaped(Trimmed(column), {"date", "datetime"}))
<1> DEFINE texts == Trimmed(column)
           P == {i \in DOMAIN texts : Dated(texts[i])}
<1>1. texts \in Seq(Text)
  BY TrimmedIsTexts
<1>2. P = Shaped(texts, {"date", "datetime"})
  BY DEF Shaped, Dated
<1>3. Moments(column) = Sorted(Reading(Picked(texts, P)))
  BY DEF Moments, Kept
<1>4. P \in SUBSET DOMAIN texts
  OBVIOUS
<1> HIDE DEF texts, P
<1>5. Rising(Moments(column)) /\ Len(Moments(column)) = Cardinality(P)
  BY <1>1, <1>3, <1>4, ReadIsRising
<1> QED
  BY <1>2, <1>5 DEF texts

LEMMA ShapedIsFinite ==
  ASSUME NEW texts \in Seq(Text), NEW shapes
  PROVE  /\ Shaped(texts, shapes) \in SUBSET DOMAIN texts /\ IsFiniteSet(Shaped(texts, shapes))
         /\ Cardinality(Shaped(texts, shapes)) \in 0..Len(texts)
         /\ Cardinality(Shaped(texts, shapes)) = Len(texts)
               <=> \A i \in DOMAIN texts : texts[i].shape \in shapes
<1>1. Shaped(texts, shapes) \in SUBSET DOMAIN texts
  BY DEF Shaped
<1>2. IsFiniteSet(Shaped(texts, shapes)) /\ Cardinality(Shaped(texts, shapes)) \in 0..Len(texts)
  BY <1>1, PlacesAreFinite
<1>3. DOMAIN texts \in SUBSET DOMAIN texts /\ IsFiniteSet(DOMAIN texts)
      /\ Cardinality(DOMAIN texts) = Len(texts)
  <2>1. Len(texts) \in Nat /\ DOMAIN texts = 1..Len(texts)
    OBVIOUS
  <2> QED
    BY <2>1, CountTo
<1>4. Cardinality(Shaped(texts, shapes)) = Len(texts) <=> Shaped(texts, shapes) = DOMAIN texts
  BY <1>1, <1>3, FS_Subset
<1> QED
  BY <1>1, <1>2, <1>4 DEF Shaped

LEMMA ShapesAddUp ==
  ASSUME NEW texts \in Seq(Text), NEW a, NEW b, a # b
  PROVE  Cardinality(Shaped(texts, {a, b}))
            = Cardinality(Shaped(texts, {a})) + Cardinality(Shaped(texts, {b}))
<1> DEFINE A == Shaped(texts, {a})
           B == Shaped(texts, {b})
<1>1. IsFiniteSet(A) /\ IsFiniteSet(B) /\ Cardinality(A) \in Nat /\ Cardinality(B) \in Nat
  BY ShapedIsFinite
<1>2. A \cap B = {} /\ A \cup B = Shaped(texts, {a, b})
  BY DEF Shaped
<1> HIDE DEF A, B
<1>3. Cardinality(A \cup B) = Cardinality(A) + Cardinality(B) - Cardinality(A \cap B)
  BY <1>1, FS_Union
<1>4. Cardinality(A \cup B) = Cardinality(A) + Cardinality(B)
  <2>1. Cardinality(A \cap B) = 0
    BY <1>2, FS_EmptySet
  <2> QED
    BY <1>1, <1>3, <2>1
<1> QED
  BY <1>2, <1>4 DEF A, B

\* The scan counts what the queries of the surfaces read.
LEMMA StatisticsCount ==
  ASSUME NEW column \in Seq(Cell)
  PROVE  LET s == Statistics(column)
             texts == Trimmed(column)
         IN  /\ s.total = Len(column) /\ s.non_null = Len(texts)
             /\ s.integer_like \in Nat /\ s.decimal_like \in Nat
             /\ s.integer_like + s.decimal_like = Len(Numbers(column))
             /\ s.date_like \in Nat /\ s.datetime_like \in Nat
             /\ s.date_like + s.datetime_like = Len(Moments(column))
             /\ s.boolean_like = Cardinality(Shaped(texts, {"truth"}))
             /\ Len(Numbers(column)) <= Len(texts) /\ Len(Moments(column)) <= Len(texts)
<1> DEFINE s == Statistics(column)
           texts == Trimmed(column)
<1>1. texts \in Seq(Text)
  BY TrimmedIsTexts
<1>2. s.total = Len(column) /\ s.non_null = Len(texts)
  BY DEF Statistics, Scan
<1>3. /\ s.integer_like = Cardinality(Shaped(texts, {"integer"}))
      /\ s.decimal_like = Cardinality(Shaped(texts, {"decimal"}))
      /\ s.boolean_like = Cardinality(Shaped(texts, {"truth"}))
      /\ s.date_like = Cardinality(Shaped(texts, {"date"}))
      /\ s.datetime_like = Cardinality(Shaped(texts, {"datetime"}))
  <2>1. \A x : Shaped(texts, {x}) = {i \in DOMAIN texts : texts[i].shape = x}
    BY DEF Shaped
  <2>2. Shaped(texts, {"date"}) = {i \in DOMAIN texts : texts[i].shape \in {"date"}}
    BY DEF Shaped
  <2> HIDE DEF texts
  <2> QED
    BY <2>1, <2>2 DEF Statistics, Scan, HowMany, texts
<1> HIDE DEF s, texts
<1>4. \A x : Cardinality(Shaped(texts, x)) \in 0..Len(texts)
  BY <1>1, ShapedIsFinite
<1>5. Cardinality(Shaped(texts, {"integer", "decimal"}))
         = Cardinality(Shaped(texts, {"integer"})) + Cardinality(Shaped(texts, {"decimal"}))
  BY <1>1, ShapesAddUp
<1>6. Cardinality(Shaped(texts, {"date", "datetime"}))
         = Cardinality(Shaped(texts, {"date"})) + Cardinality(Shaped(texts, {"datetime"}))
  BY <1>1, ShapesAddUp
<1>7. Len(Numbers(column)) = Cardinality(Shaped(texts, {"integer", "decimal"}))
      /\ Len(Moments(column)) = Cardinality(Shaped(texts, {"date", "datetime"}))
  BY NumbersAreRising, MomentsAreRising DEF texts
<1>8. Len(texts) \in Nat
  BY <1>1
<1> QED
  BY <1>2, <1>3, <1>4, <1>5, <1>6, <1>7, <1>8 DEF s, texts

-----------------------------------------------------------------------------
(* The inductive invariant: a contract has a type for every column, and    *)
(* what nobody corrected is still what was inferred from the file.         *)

Typed ==
  /\ file \in Files
  /\ contract \in [version : 1..MaxVersion, types : [DOMAIN file -> LogicalType],
                   confidence : [DOMAIN file -> 0..10], overridden : SUBSET DOMAIN file]
Inferred ==
  \A c \in DOMAIN file \ contract.overridden :
     LET read == Infer(Statistics(file[c]))
     IN  contract.types[c] = read.logical_type /\ contract.confidence[c] = read.confidence
IInv == (file = <<>> /\ contract = NoContract) \/ (Typed /\ Inferred)

LEMMA FileIsColumns ==
  ASSUME NEW f \in Files
  PROVE  /\ f \in Seq(Seq(Cell)) /\ f # <<>> /\ DOMAIN f = 1..Len(f) /\ Len(f) \in Nat
         /\ \A c \in DOMAIN f : f[c] \in Seq(Cell) /\ Len(f[c]) = Len(f[1])
<1>1. f \in Seq(Seq(Cell)) /\ f # <<>> /\ \A c \in DOMAIN f : Len(f[c]) = Len(f[1])
  BY ColumnsAssumption
<1>2. DOMAIN f = 1..Len(f) /\ Len(f) \in Nat /\ \A c \in DOMAIN f : f[c] \in Seq(Cell)
  BY <1>1
<1> QED
  BY <1>1, <1>2

LEMMA InferenceIsTyped ==
  \A s : Infer(s).logical_type \in LogicalType /\ Infer(s).confidence \in 0..10
BY DEF Infer, LogicalType, NumericConfidence, TextConfidence

LEMMA InitIsFine == Init => IInv
BY DEF Init, IInv

LEMMA UploadIsFine ==
  ASSUME IInv, NEW f \in Files, Upload(f) PROVE IInv'
<1>1. file' = f /\ contract' = BuildColumns(f)
  BY DEF Upload
<1>2. f \in Files
  OBVIOUS
<1> DEFINE types == [c \in DOMAIN f |-> Infer(Statistics(f[c])).logical_type]
           sure == [c \in DOMAIN f |-> Infer(Statistics(f[c])).confidence]
<1>3. contract' = [version |-> 1, types |-> types, confidence |-> sure, overridden |-> {}]
  BY <1>1 DEF BuildColumns
<1>4. types \in [DOMAIN f -> LogicalType] /\ sure \in [DOMAIN f -> 0..10]
  BY InferenceIsTyped
<1>5. Inferred'
  BY <1>1, <1>3 DEF Inferred
<1> HIDE DEF types, sure
<1>6. Typed'
  BY <1>1, <1>3, <1>4, ColumnsAssumption DEF Typed
<1> QED
  BY <1>5, <1>6 DEF IInv

LEMMA OverrideIsFine ==
  ASSUME IInv, NEW c \in DOMAIN file, NEW type \in LogicalType, Override(c, type) PROVE IInv'
<1>1. file # <<>> /\ file' = file /\ contract.version < MaxVersion
      /\ contract' = [version |-> contract.version + 1,
                      types |-> [contract.types EXCEPT ![c] = type],
                      confidence |-> [contract.confidence EXCEPT ![c] = 10],
                      overridden |-> contract.overridden \cup {c}]
  BY DEF Override
<1>2. Typed /\ Inferred
  BY <1>1 DEF IInv
<1>3. Typed'
  BY <1>1, <1>2, ColumnsAssumption DEF Typed
<1>4. Inferred'
  <2> SUFFICES ASSUME NEW d \in DOMAIN file \ (contract.overridden \cup {c})
               PROVE  /\ contract.types[d]' = Infer(Statistics(file[d])).logical_type
                      /\ contract.confidence[d]' = Infer(Statistics(file[d])).confidence
    BY <1>1 DEF Inferred
  <2>1. /\ contract.types[d] = Infer(Statistics(file[d])).logical_type
        /\ contract.confidence[d] = Infer(Statistics(file[d])).confidence
    BY <1>2 DEF Inferred
  <2>2. contract.types[d]' = contract.types[d] /\ contract.confidence[d]' = contract.confidence[d]
    BY <1>1, <1>2 DEF Typed
  <2> QED
    BY <2>1, <2>2
<1> QED
  BY <1>3, <1>4 DEF IInv

LEMMA StepIsFine == IInv /\ [Next]_vars => IInv'
<1> SUFFICES ASSUME IInv, [Next]_vars PROVE IInv'
  OBVIOUS
<1>1. ASSUME NEW f \in Files, Upload(f) PROVE IInv'
  BY <1>1, UploadIsFine
<1>2. ASSUME NEW c \in DOMAIN file, NEW type \in LogicalType, Override(c, type) PROVE IInv'
  BY <1>2, OverrideIsFine
<1>3. CASE UNCHANGED vars
  <2>1. file' = file /\ contract' = contract
    BY <1>3 DEF vars
  <2> QED
    BY <2>1 DEF IInv, Typed, Inferred
<1> QED
  BY <1>1, <1>2, <1>3 DEF Next

(* However the columns are corrected, the contract keeps a type for each,  *)
(* and what nobody corrected is still what was inferred from the file.     *)
THEOREM InductiveInvariant == Spec => []IInv
<1>1. Init => IInv
  BY InitIsFine
<1>2. IInv /\ [Next]_vars => IInv'
  BY StepIsFine
<1> QED
  BY <1>1, <1>2, PTL DEF Spec


-----------------------------------------------------------------------------
(* What a card shows, by its kind, and a panel, by the type.               *)

LEMMA KindIsOne ==
  ASSUME NEW column, NEW type \in LogicalType
  PROVE  Kind(column, type) \in {"empty", "constant"} \cup LogicalType
BY DEF Kind

LEMMA CardShows ==
  ASSUME NEW column, NEW type \in LogicalType
  PROVE  LET card == Card(column, type)
             kind == Kind(column, type)
         IN  /\ card.kind = kind /\ card.total = Len(column)
             /\ card.present = Len(Trimmed(column)) /\ card.distinct = Distinct(column)
             /\ kind = "numerical" =>
                  /\ card.conforming = Len(Numbers(column)) /\ card.low = Least(Numbers(column))
                  /\ card.middle = Median2(Numbers(column))
                  /\ card.high = Greatest(Numbers(column))
                  /\ card.bins = CardBins(Numbers(column))
             /\ kind = "date" =>
                  /\ card.conforming = Len(Moments(column)) /\ card.low = Least(Moments(column))
                  /\ card.high = Greatest(Moments(column))
                  /\ card.bins = CardBins(Moments(column))
             /\ kind \notin {"numerical", "date"} => card.bins = <<>>
             /\ kind = "boolean" =>
                  card.conforming = Says(column, "true") + Says(column, "false")
             /\ kind = "categorical" =>
                  /\ card.top = TopValues(column, TOP_N)
                  /\ card.others_count = OthersCount(column, TopValues(column, TOP_N))
                  /\ card.others_distinct = OthersDistinct(column, TopValues(column, TOP_N))
<1> DEFINE s == Scalars(column)
           kind == Kind(column, type)
           card == Card(column, type)
<1>1. kind \in {"empty", "constant"} \cup LogicalType
  BY KindIsOne
<1>2. /\ s.present = Len(Trimmed(column)) /\ s.distinct = Distinct(column)
      /\ s.numbers = Len(Numbers(column)) /\ s.minimum = Least(Numbers(column))
      /\ s.median = Median2(Numbers(column)) /\ s.maximum = Greatest(Numbers(column))
      /\ s.moments = Len(Moments(column)) /\ s.earliest = Least(Moments(column))
      /\ s.latest = Greatest(Moments(column))
      /\ s.true_count = Says(column, "true") /\ s.false_count = Says(column, "false")
  BY DEF Scalars
<1> DEFINE plain == ColumnProfile(kind, Len(column), s)
           top == IF kind \in {"categorical", "constant"} THEN TopValues(column, TOP_N) ELSE <<>>
<1>3. card =
        CASE kind = "empty" -> plain
         [] kind = "constant" -> [plain EXCEPT !.top = <<Head(top)>>]
         [] kind = "numerical" ->
              [plain EXCEPT !.conforming = s.numbers, !.low = s.minimum, !.middle = s.median,
                           !.high = s.maximum, !.bins = CardBins(Numbers(column))]
         [] kind = "date" ->
              [plain EXCEPT !.conforming = s.moments, !.low = s.earliest, !.high = s.latest,
                           !.bins = CardBins(Moments(column))]
         [] kind = "boolean" ->
              [plain EXCEPT !.conforming = s.true_count + s.false_count,
                           !.top = <<[value |-> "true", count |-> s.true_count],
                                     [value |-> "false", count |-> s.false_count]>>]
         [] kind = "categorical" ->
              [plain EXCEPT !.conforming = s.present, !.top = top,
                           !.others_count = OthersCount(column, top),
                           !.others_distinct = OthersDistinct(column, top)]
         [] kind = "text" ->
              [plain EXCEPT !.conforming = s.present, !.low = s.length_min,
                           !.middle = s.length_median, !.high = s.length_max,
                           !.samples = Samples(column)]
  BY DEF Card
<1>4. plain = [kind |-> kind, total |-> Len(column), present |-> s.present,
               distinct |-> s.distinct, conforming |-> None, bins |-> <<>>, low |-> None,
               middle |-> None, high |-> None, top |-> <<>>, others_count |-> 0,
               others_distinct |-> 0, samples |-> <<>>]
  BY DEF ColumnProfile
<1> HIDE DEF s, kind, card, top, plain
<1>5. CASE kind = "empty"
  <2>1. card = plain
    BY <1>3, <1>5
  <2> QED
    BY <1>2, <1>4, <1>5, <2>1 DEF card, kind
<1>6. CASE kind = "constant"
  <2>1. card = [plain EXCEPT !.top = <<Head(top)>>]
    BY <1>3, <1>6
  <2> QED
    BY <1>2, <1>4, <1>6, <2>1 DEF card, kind
<1>7. CASE kind = "numerical"
  <2>1. card = [plain EXCEPT !.conforming = s.numbers, !.low = s.minimum, !.middle = s.median,
                             !.high = s.maximum, !.bins = CardBins(Numbers(column))]
    BY <1>3, <1>7
  <2> QED
    BY <1>2, <1>4, <1>7, <2>1 DEF card, kind
<1>8. CASE kind = "date"
  <2>1. card = [plain EXCEPT !.conforming = s.moments, !.low = s.earliest, !.high = s.latest,
                             !.bins = CardBins(Moments(column))]
    BY <1>3, <1>8
  <2> QED
    BY <1>2, <1>4, <1>8, <2>1 DEF card, kind
<1>9. CASE kind = "boolean"
  <2>1. card = [plain EXCEPT !.conforming = s.true_count + s.false_count,
                             !.top = <<[value |-> "true", count |-> s.true_count],
                                       [value |-> "false", count |-> s.false_count]>>]
    BY <1>3, <1>9
  <2> QED
    BY <1>2, <1>4, <1>9, <2>1 DEF card, kind
<1>10. CASE kind = "categorical"
  <2>1. card = [plain EXCEPT !.conforming = s.present, !.top = top,
                             !.others_count = OthersCount(column, top),
                             !.others_distinct = OthersDistinct(column, top)]
    BY <1>3, <1>10
  <2>2. top = TopValues(column, TOP_N)
    BY <1>10 DEF top
  <2> QED
    BY <1>2, <1>4, <1>10, <2>1, <2>2 DEF card, kind
<1>11. CASE kind = "text"
  <2>1. card = [plain EXCEPT !.conforming = s.present, !.low = s.length_min,
                             !.middle = s.length_median, !.high = s.length_max,
                             !.samples = Samples(column)]
    BY <1>3, <1>11
  <2> QED
    BY <1>2, <1>4, <1>11, <2>1 DEF card, kind
<1> QED
  BY <1>1, <1>5, <1>6, <1>7, <1>8, <1>9, <1>10, <1>11 DEF LogicalType

LEMMA PanelShows ==
  ASSUME NEW column, NEW type \in LogicalType
  PROVE  LET panel == Panel(column, type)
             done == panel.completeness
             block == panel.block
         IN  /\ done.present = Len(Trimmed(column)) /\ done.total = Len(column)
             /\ done.nulls = HowMany(column, LAMBDA c : c = Null)
             /\ done.empty = HowMany(column, LAMBDA c : c = Blank)
             /\ panel.distinct = Distinct(column) /\ panel.presence = Presence(column)
             /\ Trimmed(column) # <<>> =>
                  /\ type = "numerical" => block = NumericStats(column)
                  /\ type = "categorical" => block = CategoricalStats(column)
                  /\ type = "date" => block = DateStats(column)
                  /\ type = "boolean" => block = BooleanStats(column)
                  /\ type = "text" => block = TextStats(column)
<1> DEFINE panel == Panel(column, type)
<1>1. /\ panel.completeness = Completeness(column, type) /\ panel.block = Block(column, type)
      /\ panel.distinct = Distinct(column) /\ panel.presence = Presence(column)
  BY DEF Panel
<1>2. LET done == Completeness(column, type)
      IN /\ done.present = Len(Trimmed(column)) /\ done.total = Len(column)
         /\ done.nulls = HowMany(column, LAMBDA c : c = Null)
         /\ done.empty = HowMany(column, LAMBDA c : c = Blank)
  BY DEF Completeness
<1>3. Trimmed(column) # <<>> =>
         /\ type = "numerical" => Block(column, type) = NumericStats(column)
         /\ type = "categorical" => Block(column, type) = CategoricalStats(column)
         /\ type = "date" => Block(column, type) = DateStats(column)
         /\ type = "boolean" => Block(column, type) = BooleanStats(column)
         /\ type = "text" => Block(column, type) = TextStats(column)
  BY DEF Block
<1> HIDE DEF panel
<1> QED
  BY <1>1, <1>2, <1>3 DEF panel

-----------------------------------------------------------------------------
(* A type the system inferred is one that every value has.                 *)

LEMMA ShareOfAll ==
  ASSUME NEW n \in Nat \ {0} PROVE Share(n, n) = 10000
<1>1. n \div 2 \in 0..(n - 1)
  OBVIOUS
<1> DEFINE r == n \div 2
<1> HIDE DEF r
<1>2. (10000 * n + r) \div n = 10000
  BY <1>1 DEF r
<1> QED
  BY <1>2 DEF Share, r

\* Two kinds of places that exclude each other and leave none out are all of them.
LEMMA PartsAddUp ==
  ASSUME NEW S, IsFiniteSet(S), NEW A, NEW B, A \cup B = S, A \cap B = {}
  PROVE  /\ IsFiniteSet(A) /\ IsFiniteSet(B)
         /\ Cardinality(A) \in Nat /\ Cardinality(B) \in Nat
         /\ Cardinality(A) + Cardinality(B) = Cardinality(S)
<1>1. A \in SUBSET S /\ B \in SUBSET S
  OBVIOUS
<1>2. IsFiniteSet(A) /\ IsFiniteSet(B) /\ Cardinality(A) \in Nat /\ Cardinality(B) \in Nat
  BY <1>1, FS_Subset, FS_CardinalityType
<1>3. Cardinality(A \cup B) = Cardinality(A) + Cardinality(B) - Cardinality(A \cap B)
  BY <1>2, FS_Union
<1>4. Cardinality(A \cap B) = 0
  BY FS_EmptySet
<1> QED
  BY <1>2, <1>3, <1>4

LEMMA SaysAddUp ==
  ASSUME NEW column \in Seq(Cell),
         \A i \in DOMAIN Trimmed(column) : Trimmed(column)[i].shape = "truth"
  PROVE  BooleanStats(column).other_count = 0
<1> DEFINE texts == Trimmed(column)
           A == {i \in DOMAIN texts : texts[i].says = "true"}
           B == {i \in DOMAIN texts : texts[i].says = "false"}
<1>1. texts \in Seq(Text) /\ DOMAIN texts = 1..Len(texts) /\ Len(texts) \in Nat
  BY TrimmedIsTexts
<1>2. \A i \in DOMAIN texts : texts[i].says \in {"true", "false"}
  <2>1. \A i \in DOMAIN texts : texts[i] \in Text
    BY <1>1
  <2> QED
    BY <2>1, CellsAssumption
<1>3. A \cup B = DOMAIN texts /\ A \cap B = {}
  BY <1>2
<1>4. Says(column, "true") = Cardinality(A) /\ Says(column, "false") = Cardinality(B)
  BY DEF Says, HowMany
<1>5. IsFiniteSet(DOMAIN texts) /\ Cardinality(DOMAIN texts) = Len(texts)
  <2> HIDE DEF texts
  <2> QED
    BY <1>1, CountTo
<1>6. BooleanStats(column).other_count
         = Len(texts) - Says(column, "true") - Says(column, "false")
  BY DEF BooleanStats
<1> HIDE DEF texts, A, B
<1>7. Cardinality(A) \in Nat /\ Cardinality(B) \in Nat
      /\ Cardinality(A) + Cardinality(B) = Len(texts)
  BY <1>3, <1>5, PartsAddUp
<1> QED
  BY <1>1, <1>4, <1>6, <1>7

\* What the inference concludes, it has counted.
LEMMA InferredFits ==
  ASSUME NEW column \in Seq(Cell)
  PROVE  LET s == Statistics(column)
             read == Infer(s)
             texts == Trimmed(column)
         IN  /\ texts = <<>> <=> s.non_null = 0
             /\ read.confidence = 0 <=> texts = <<>>
             /\ read.logical_type \in Declared =>
                   texts # <<>> /\ ConformingCount(s, read.logical_type) = s.non_null
             /\ read.logical_type = "numerical" => Len(Numbers(column)) = Len(texts)
             /\ read.logical_type = "date" => Len(Moments(column)) = Len(texts)
             /\ read.logical_type = "boolean" =>
                   \A i \in DOMAIN texts : texts[i].shape = "truth"
<1> DEFINE s == Statistics(column)
           read == Infer(s)
           texts == Trimmed(column)
<1>1. texts \in Seq(Text) /\ Len(texts) \in Nat /\ (Len(texts) = 0 <=> texts = <<>>)
  BY TrimmedIsTexts
<1>2. /\ s.non_null = Len(texts)
      /\ s.integer_like \in Nat /\ s.decimal_like \in Nat
      /\ s.integer_like + s.decimal_like = Len(Numbers(column))
      /\ s.date_like \in Nat /\ s.datetime_like \in Nat
      /\ s.date_like + s.datetime_like = Len(Moments(column))
      /\ s.boolean_like = Cardinality(Shaped(texts, {"truth"}))
      /\ Len(Numbers(column)) <= Len(texts) /\ Len(Moments(column)) <= Len(texts)
  BY StatisticsCount
<1>3. Cardinality(Shaped(texts, {"truth"})) = Len(texts)
         => \A i \in DOMAIN texts : texts[i].shape = "truth"
  BY <1>1, ShapedIsFinite
<1> HIDE DEF s, texts, read
<1>4. NumericConfidence(s) # 0 /\ TextConfidence(s) # 0
  BY DEF NumericConfidence, TextConfidence
<1>5. read.confidence = 0 <=> s.non_null = 0
  BY <1>4 DEF read, Infer
<1>6. read.logical_type = "numerical" =>
         s.non_null # 0 /\ s.integer_like + s.decimal_like = s.non_null
  BY DEF read, Infer
<1>7. read.logical_type = "boolean" => s.non_null # 0 /\ s.boolean_like = s.non_null
  BY DEF read, Infer
<1>8. read.logical_type = "date" =>
         s.non_null # 0 /\ (s.datetime_like = s.non_null \/ s.date_like = s.non_null)
  BY DEF read, Infer
<1>9. /\ ConformingCount(s, "numerical") = s.integer_like + s.decimal_like
      /\ ConformingCount(s, "boolean") = s.boolean_like
      /\ ConformingCount(s, "date") = s.date_like + s.datetime_like
  BY DEF ConformingCount
<1>10. read.logical_type = "date" => s.date_like + s.datetime_like = s.non_null
  <2>1. Len(Moments(column)) \in Nat
    BY <1>2
  <2> QED
    BY <1>1, <1>2, <1>8, <2>1
<1>11. read.logical_type \in Declared =>
         texts # <<>> /\ ConformingCount(s, read.logical_type) = s.non_null
  BY <1>1, <1>2, <1>6, <1>7, <1>9, <1>10, <1>8 DEF Declared
<1> QED
  BY <1>1, <1>2, <1>3, <1>5, <1>6, <1>7, <1>10, <1>11 DEF s, texts, read

LEMMA TypesFit == IInv => InferredTypesFit
<1> SUFFICES ASSUME IInv, NEW c \in DOMAIN file \ contract.overridden
             PROVE  LET type == contract.types[c]
                        card == Card(file[c], type)
                        panel == Panel(file[c], type)
                    IN  /\ type \in Declared => TypeFinding(c, Statistics(file[c]), type, 10000) = {}
                        /\ type \in {"numerical", "date"} =>
                              panel.block.conforming = panel.completeness.present
                        /\ type = "boolean" => panel.block.other_count = 0
                        /\ contract.confidence[c] = 0 <=> card.kind = "empty"
  BY DEF InferredTypesFit, Cards, Panels
<1> DEFINE column == file[c]
           s == Statistics(column)
           texts == Trimmed(column)
           type == contract.types[c]
<1>1. Typed /\ Inferred
  BY DEF IInv
<1>2. column \in Seq(Cell)
  BY <1>1, FileIsColumns DEF Typed
<1>3. type = Infer(s).logical_type /\ contract.confidence[c] = Infer(s).confidence
  BY <1>1 DEF Inferred
<1>4. type \in LogicalType
  BY <1>3, InferenceIsTyped
<1>5. /\ texts \in Seq(Text) /\ Len(texts) \in Nat
      /\ s.non_null = Len(texts)
  BY <1>2, TrimmedIsTexts, StatisticsCount
<1> HIDE DEF column, s, texts, type
<1>6. /\ contract.confidence[c] = 0 <=> texts = <<>>
      /\ type \in Declared => texts # <<>> /\ ConformingCount(s, type) = s.non_null
      /\ type = "numerical" => Len(Numbers(column)) = Len(texts)
      /\ type = "date" => Len(Moments(column)) = Len(texts)
      /\ type = "boolean" => \A i \in DOMAIN texts : texts[i].shape = "truth"
  BY <1>2, <1>3, InferredFits DEF s, texts
<1>7. ASSUME type \in Declared PROVE TypeFinding(c, s, type, 10000) = {}
  <2>1. s.non_null \in Nat \ {0}
    BY <1>5, <1>6, <1>7
  <2>2. Share(ConformingCount(s, type), s.non_null) = 10000
    BY <1>6, <1>7, <2>1, ShareOfAll
  <2> QED
    BY <1>7, <2>1, <2>2 DEF TypeFinding
<1>8. Panel(column, type).completeness.present = Len(texts)
  BY <1>4, PanelShows DEF texts
<1>9. ASSUME type = "numerical" PROVE Panel(column, type).block.conforming = Len(texts)
  <2>1. texts # <<>> /\ Len(Numbers(column)) = Len(texts)
    BY <1>6, <1>9 DEF Declared
  <2>2. Panel(column, type).block = NumericStats(column)
    BY <1>4, <1>9, <2>1, PanelShows DEF texts
  <2>3. NumericStats(column).conforming = Len(Numbers(column))
    <3>1. Numbers(column) # <<>>
      BY <1>5, <2>1
    <3> QED
      BY <3>1 DEF NumericStats
  <2> QED
    BY <2>1, <2>2, <2>3
<1>10. ASSUME type = "date" PROVE Panel(column, type).block.conforming = Len(texts)
  <2>1. texts # <<>> /\ Len(Moments(column)) = Len(texts)
    BY <1>6, <1>10 DEF Declared
  <2>2. Panel(column, type).block = DateStats(column)
    BY <1>4, <1>10, <2>1, PanelShows DEF texts
  <2>3. DateStats(column).conforming = Len(Moments(column))
    BY DEF DateStats
  <2> QED
    BY <2>1, <2>2, <2>3
<1>11. ASSUME type = "boolean" PROVE Panel(column, type).block.other_count = 0
  <2>1. texts # <<>>
    BY <1>6, <1>11 DEF Declared
  <2>2. Panel(column, type).block = BooleanStats(column)
    BY <1>4, <1>11, <2>1, PanelShows DEF texts
  <2> QED
    BY <1>2, <1>6, <1>11, <2>2, SaysAddUp DEF texts
<1>12. Card(column, type).kind = "empty" <=> texts = <<>>
  <2>1. Card(column, type).kind = Kind(column, type)
    BY <1>4, CardShows
  <2> QED
    BY <1>4, <2>1 DEF Kind, texts, LogicalType
<1> QED
  BY <1>6, <1>7, <1>8, <1>9, <1>10, <1>11, <1>12 DEF column, s, type

(* No value of a column contradicts the type inferred for it, in any of the *)
(* places that count the values of a type.                                 *)
THEOREM InferredTypesHold == Spec => []InferredTypesFit
<1>1. IInv => InferredTypesFit
  BY TypesFit
<1> QED
  BY <1>1, InductiveInvariant, PTL

-----------------------------------------------------------------------------
(* Quotients and quantiles.                                                *)

\* The place before a quantile, and what of the way to the next place is left.
PlaceAt(s, p, d) == ((Len(s) - 1) * p) \div d
Way(s, p, d) == ((Len(s) - 1) * p) % d

LEMMA PlaceOfQuantile ==
  ASSUME NEW s, Rising(s), s # <<>>, NEW d \in Nat \ {0}, NEW p \in 0..d
  PROVE  /\ PlaceAt(s, p, d) \in 0..(Len(s) - 1) /\ Way(s, p, d) \in 0..(d - 1)
         /\ PlaceAt(s, p, d) = Len(s) - 1 => Way(s, p, d) = 0
         /\ Len(s) \in Nat \ {0}
<1> DEFINE n == Len(s) - 1
           i == PlaceAt(s, p, d)
           over == Way(s, p, d)
<1>1. n \in Nat
  BY DEF Rising
<1>2. Len(s) \in Nat \ {0}
  BY DEF Rising
<1> HIDE DEF n
<1>3. n * p \in Int /\ 0 <= n * p /\ n * p <= n * d
  BY <1>1
<1>4. i \in Int /\ over \in 0..(d - 1) /\ n * p = d * i + over
  BY <1>3, Division DEF n, PlaceAt, Way
<1> HIDE DEF i, over
<1>5. 0 <= i
  <2> SUFFICES ASSUME i <= -1 PROVE FALSE
    BY <1>4
  <2>1. d * i <= d * (-1)
    BY <1>4, ProductRises
  <2> QED
    BY <1>3, <1>4, <2>1
<1>6. i <= n
  <2> SUFFICES ASSUME n + 1 <= i PROVE FALSE
    BY <1>1, <1>4
  <2>1. d * (n + 1) <= d * i
    BY <1>1, <1>4, ProductRises
  <2>2. d * (n + 1) = n * d + d
    BY <1>1
  <2> QED
    BY <1>1, <1>3, <1>4, <2>1, <2>2
<1>7. i = n => over = 0
  BY <1>1, <1>3, <1>4
<1> QED
  BY <1>2, <1>4, <1>5, <1>6, <1>7 DEF n, i, over

LEMMA QuantileIsBetween ==
  ASSUME NEW s, Rising(s), s # <<>>, NEW d \in Nat \ {0}, NEW p \in 0..d
  PROVE  LET i == PlaceAt(s, p, d)
             over == Way(s, p, d)
         IN  /\ Quantile(s, p, d) \in Int
             /\ i = Len(s) - 1 => Quantile(s, p, d) = d * s[i + 1]
             /\ i < Len(s) - 1 =>
                   /\ Quantile(s, p, d) = d * s[i + 1] + over * (s[i + 2] - s[i + 1])
                   /\ d * s[i + 1] <= Quantile(s, p, d) /\ Quantile(s, p, d) <= d * s[i + 2]
<1> DEFINE i == PlaceAt(s, p, d)
           over == Way(s, p, d)
<1>1. /\ i \in 0..(Len(s) - 1) /\ over \in 0..(d - 1)
      /\ i = Len(s) - 1 => over = 0
      /\ Len(s) \in Nat \ {0}
  BY PlaceOfQuantile
<1>2. \A k \in 1..Len(s) : s[k] \in Int
  BY DEF Rising
<1>3. Quantile(s, p, d) = d * s[i + 1] + (IF over = 0 THEN 0 ELSE over * (s[i + 2] - s[i + 1]))
  BY DEF Quantile, PlaceAt, Way
<1> HIDE DEF i, over
<1>4. i + 1 \in 1..Len(s) /\ s[i + 1] \in Int
  BY <1>1, <1>2
<1>5. CASE i = Len(s) - 1
  BY <1>1, <1>3, <1>4, <1>5 DEF i, over
<1>6. CASE i < Len(s) - 1
  <2> DEFINE a == s[i + 1]
             b == s[i + 2]
  <2>1. a \in Int /\ b \in Int /\ a <= b
    <3>1. i + 2 \in 1..Len(s) /\ i + 1 <= i + 2
      BY <1>1, <1>6
    <3> QED
      BY <1>2, <1>4, <3>1 DEF Rising
  <2>2. Quantile(s, p, d) = d * a + (IF over = 0 THEN 0 ELSE over * (b - a))
    BY <1>3
  <2> HIDE DEF a, b
  <2>3. Quantile(s, p, d) = d * a + over * (b - a)
    BY <1>1, <2>1, <2>2
  <2>4. 0 <= over * (b - a) /\ over * (b - a) <= d * (b - a)
    BY <1>1, <2>1
  <2>5. d * (b - a) = d * b - d * a
    BY <2>1
  <2>6. d * a \in Int /\ d * b \in Int /\ over * (b - a) \in Int
    BY <1>1, <2>1
  <2> HIDE DEF i, over
  <2>7. d * a <= Quantile(s, p, d) /\ Quantile(s, p, d) <= d * b
    BY <2>3, <2>4, <2>5, <2>6
  <2> QED
    BY <1>6, <2>3, <2>6, <2>7 DEF a, b, i, over
<1> QED
  BY <1>1, <1>5, <1>6

\* A greater share has the greater quantile.
LEMMA QuantilesRise ==
  ASSUME NEW s, Rising(s), s # <<>>, NEW d \in Nat \ {0},
         NEW p \in 0..d, NEW q \in 0..d, p <= q
  PROVE  Quantile(s, p, d) <= Quantile(s, q, d)
<1> DEFINE n == Len(s) - 1
           i == PlaceAt(s, p, d)
           j == PlaceAt(s, q, d)
           P == Quantile(s, p, d)
           Q == Quantile(s, q, d)
<1>1. n \in Nat /\ Len(s) = n + 1
  BY PlaceOfQuantile
<1>2. /\ i \in 0..n /\ Way(s, p, d) \in 0..(d - 1) /\ P \in Int
      /\ j \in 0..n /\ Way(s, q, d) \in 0..(d - 1) /\ Q \in Int
  BY PlaceOfQuantile, QuantileIsBetween
<1>3. i <= j /\ (i = j => Way(s, p, d) <= Way(s, q, d))
  <2> DEFINE x == n * p
             y == n * q
  <2>1. x \in Int /\ y \in Int /\ x <= y
    <3> HIDE DEF n
    <3> QED
      BY <1>1
  <2>2. i = x \div d /\ j = y \div d /\ Way(s, p, d) = x % d /\ Way(s, q, d) = y % d
    BY DEF PlaceAt, Way
  <2> HIDE DEF x, y, i, j
  <2> QED
    BY <2>1, <2>2, QuotientRises
<1>4. \A k \in 1..(n + 1) : s[k] \in Int
  BY <1>1 DEF Rising
<1>5. \A k, l \in 1..(n + 1) : k <= l => s[k] <= s[l]
  BY <1>1 DEF Rising
<1>6. /\ i = n => P = d * s[i + 1]
      /\ i < n => /\ P = d * s[i + 1] + Way(s, p, d) * (s[i + 2] - s[i + 1])
                  /\ d * s[i + 1] <= P /\ P <= d * s[i + 2]
  BY QuantileIsBetween
<1>7. /\ j = n => Q = d * s[j + 1]
      /\ j < n => /\ Q = d * s[j + 1] + Way(s, q, d) * (s[j + 2] - s[j + 1])
                  /\ d * s[j + 1] <= Q /\ Q <= d * s[j + 2]
  BY QuantileIsBetween
<1> HIDE DEF n, i, j, P, Q
<1>8. CASE i = j
  <2>1. CASE i = n
    <3>1. P = Q
      BY <1>6, <1>7, <1>8, <2>1
    <3> QED
      BY <1>2, <3>1 DEF P, Q
  <2>2. CASE i < n
    <3> DEFINE a == s[i + 1]
               b == s[i + 2]
               u == Way(s, p, d)
               v == Way(s, q, d)
    <3>1. a \in Int /\ b \in Int /\ a <= b
      <4>1. i + 1 \in 1..(n + 1) /\ i + 2 \in 1..(n + 1) /\ i + 1 <= i + 2
        BY <1>1, <1>2, <2>2
      <4> QED
        BY <1>4, <1>5, <4>1
    <3>2. u \in Nat /\ v \in Nat /\ u <= v
      BY <1>2, <1>3, <1>8
    <3>3. P = d * a + u * (b - a) /\ Q = d * a + v * (b - a)
      BY <1>6, <1>7, <1>8, <2>2
    <3> HIDE DEF a, b, u, v
    <3>4. u * (b - a) <= v * (b - a)
      BY <3>1, <3>2
    <3>5. u * (b - a) \in Int /\ v * (b - a) \in Int /\ d * a \in Int
      BY <3>1, <3>2
    <3> QED
      BY <3>3, <3>4, <3>5 DEF P, Q
  <2> QED
    BY <1>1, <1>2, <2>1, <2>2
<1>9. CASE i < j
  <2> DEFINE a == s[i + 2]
             b == s[j + 1]
  <2>1. a \in Int /\ b \in Int /\ a <= b
    <3>1. i + 2 \in 1..(n + 1) /\ j + 1 \in 1..(n + 1) /\ i + 2 <= j + 1
      BY <1>1, <1>2, <1>9
    <3> QED
      BY <1>4, <1>5, <3>1
  <2>2. P <= d * a
    BY <1>1, <1>2, <1>6, <1>9
  <2>3. d * b <= Q
    BY <1>1, <1>2, <1>7, <2>1
  <2> HIDE DEF a, b
  <2>4. d * a <= d * b /\ d * a \in Int /\ d * b \in Int
    BY <2>1, ProductRises
  <2> QED
    BY <1>2, <2>2, <2>3, <2>4 DEF P, Q
<1> QED
  BY <1>2, <1>3, <1>8, <1>9

-----------------------------------------------------------------------------
(* The surfaces count the same.                                            *)

\* A fence has its lower end first.
LEMMA FenceIsOpen ==
  ASSUME NEW s, Rising(s), s # <<>>
  PROVE  LET fence == Fence(s, IQR_K)
             a == Quantile(s, 1, 4)
             b == Quantile(s, 3, 4)
         IN  /\ a \in Int /\ b \in Int /\ a <= b
             /\ fence.low = 2 * a - 3 * (b - a) /\ fence.high = 2 * b + 3 * (b - a)
             /\ fence.low \in Int /\ fence.high \in Int /\ fence.low <= fence.high
<1> DEFINE a == Quantile(s, 1, 4)
           b == Quantile(s, 3, 4)
<1>1. a \in Int /\ b \in Int /\ a <= b
  <2>1. 4 \in Nat \ {0} /\ 1 \in 0..4 /\ 3 \in 0..4 /\ 1 <= 3
    OBVIOUS
  <2> QED
    BY <2>1, QuantileIsBetween, QuantilesRise
<1>2. Fence(s, IQR_K).low = 2 * a - 3 * (b - a) /\ Fence(s, IQR_K).high = 2 * b + 3 * (b - a)
  BY DEF Fence, IQR_K
<1> HIDE DEF a, b
<1> QED
  BY <1>1, <1>2 DEF a, b

\* Below the fence and above it are other numbers.
LEMMA OutliersAddUp ==
  ASSUME NEW s, Rising(s), s # <<>>
  PROVE  LET fence == Fence(s, IQR_K)
         IN  HowMany(s, LAMBDA x : 8 * x < fence.low) + HowMany(s, LAMBDA x : 8 * x > fence.high)
                = Outside(s, fence)
<1> DEFINE fence == Fence(s, IQR_K)
           A == {i \in DOMAIN s : 8 * s[i] < fence.low}
           B == {i \in DOMAIN s : 8 * s[i] > fence.high}
           C == {i \in DOMAIN s : 8 * s[i] < fence.low \/ 8 * s[i] > fence.high}
<1>1. \A i \in DOMAIN s : s[i] \in Int
  BY DEF Rising
<1>2. fence.low \in Int /\ fence.high \in Int /\ fence.low <= fence.high
  BY FenceIsOpen
<1>3. /\ HowMany(s, LAMBDA x : 8 * x < fence.low) = Cardinality(A)
      /\ HowMany(s, LAMBDA x : 8 * x > fence.high) = Cardinality(B)
      /\ Outside(s, fence) = Cardinality(C)
  BY DEF HowMany, Outside
<1> HIDE DEF fence
<1>4. A \cup B = C /\ A \cap B = {}
  BY <1>1, <1>2
<1>5. IsFiniteSet(C)
  BY PlacesAreFinite DEF Rising
<1> HIDE DEF A, B, C
<1>6. Cardinality(A) + Cardinality(B) = Cardinality(C)
  BY <1>4, <1>5, PartsAddUp
<1> QED
  BY <1>3, <1>6 DEF fence

LEMMA BinsAgree ==
  ASSUME NEW s, Rising(s), CardBins(s) # IndexError
  PROVE  CardBins(s) = PanelBins(s, N_BINS)
<1>1. N_BINS \in Nat /\ N_BINS >= 2
  BY FiguresAssumption
<1>2. CASE s = <<>>
  BY <1>2 DEF CardBins, PanelBins
<1>3. CASE s # <<>>
  <2>1. CardBins(s) = Histogram(s, N_BINS)
    BY <1>3 DEF CardBins
  <2>2. ~(Len(BinEdges(s, N_BINS)) < N_BINS + 1)
    BY <1>3 DEF CardBins
  <2>3. Head(s) \in Int /\ Last(s) \in Int
    BY <1>3 DEF Rising, Last
  <2>4. ASSUME Last(s) <= Head(s) PROVE FALSE
    <3>1. BinEdges(s, N_BINS) = <<Head(s), Head(s) + 1>>
      BY <2>4 DEF BinEdges
    <3>2. Len(BinEdges(s, N_BINS)) = 2
      BY <3>1
    <3> QED
      BY <1>1, <2>2, <3>2
  <2>5. Head(s) # Last(s)
    BY <2>3, <2>4
  <2> QED
    BY <1>3, <2>1, <2>5 DEF PanelBins
<1> QED
  BY <1>2, <1>3

\* A row holds a text, or is null, or is blank.
LEMMA RowsAddUp ==
  ASSUME NEW column \in Seq(Cell)
  PROVE  /\ HowMany(column, LAMBDA c : c = Null) \in Nat
         /\ HowMany(column, LAMBDA c : c = Blank) \in Nat
         /\ Len(Trimmed(column)) \in Nat
         /\ Len(Trimmed(column)) + HowMany(column, LAMBDA c : c = Null)
               + HowMany(column, LAMBDA c : c = Blank) = Len(column)
<1> DEFINE S == DOMAIN column
           A == HasValue(column)
           B == {i \in S : column[i] = Null}
           C == {i \in S : column[i] = Blank}
<1>1. IsFiniteSet(S) /\ Cardinality(S) = Len(column) /\ Len(column) \in Nat
  <2>1. S = 1..Len(column) /\ Len(column) \in Nat
    OBVIOUS
  <2> QED
    BY <2>1, CountTo
<1>2. A \cup (B \cup C) = S /\ A \cap (B \cup C) = {} /\ B \cap C = {}
  <2>1. A = {i \in S : column[i] # Null /\ column[i] # Blank}
    BY DEF HasValue, Present
  <2> QED
    BY <2>1, CellsAssumption
<1>3. HowMany(column, LAMBDA c : c = Null) = Cardinality(B)
      /\ HowMany(column, LAMBDA c : c = Blank) = Cardinality(C)
  BY DEF HowMany
<1>4. Len(Trimmed(column)) = Cardinality(A)
  BY TrimmedIsTexts
<1> HIDE DEF S, A, B, C
<1>5. /\ IsFiniteSet(B \cup C) /\ Cardinality(A) \in Nat
      /\ Cardinality(A) + Cardinality(B \cup C) = Cardinality(S)
  BY <1>1, <1>2, PartsAddUp
<1>6. /\ Cardinality(B) \in Nat /\ Cardinality(C) \in Nat
      /\ Cardinality(B) + Cardinality(C) = Cardinality(B \cup C)
  BY <1>2, <1>5, PartsAddUp
<1> QED
  BY <1>1, <1>3, <1>4, <1>5, <1>6

LEMMA NumbersAgree ==
  ASSUME IInv, NEW c \in DOMAIN file, Card(file[c], contract.types[c]).kind = "numerical"
  PROVE  LET card == Card(file[c], contract.types[c])
             block == Panel(file[c], contract.types[c]).block
         IN  /\ <<card.conforming, card.low, card.middle, card.high>>
                   = <<block.conforming, block.low, block.median, block.high>>
             /\ card.bins # IndexError => card.bins = block.bins
             /\ OutlierScan(file, contract.types, c, IQR_K, None, None).outliers
                   = block.outlier_count
<1> DEFINE column == file[c]
           type == contract.types[c]
           card == Card(column, type)
           block == Panel(column, type).block
           s == Numbers(column)
           fence == Fence(s, IQR_K)
<1>1. column \in Seq(Cell) /\ type \in LogicalType
  BY FileIsColumns DEF IInv, Typed
<1>2. card.kind = Kind(column, type)
  BY <1>1, CardShows
<1>3. type = "numerical" /\ Trimmed(column) # <<>>
  BY <1>1, <1>2 DEF Kind, LogicalType
<1>4. block = NumericStats(column)
  BY <1>1, <1>3, PanelShows
<1>5. /\ card.conforming = Len(s) /\ card.low = Least(s) /\ card.middle = Median2(s)
      /\ card.high = Greatest(s) /\ card.bins = CardBins(s)
  BY <1>1, <1>2, CardShows
<1>6. Rising(s)
  BY <1>1, NumbersAreRising
<1>7. OutlierScan(file, contract.types, c, IQR_K, None, None)
        = IF s = <<>> THEN [scanned |-> 0, outliers |-> 0]
          ELSE [scanned |-> Len(s),
                outliers |-> HowMany(s, LAMBDA x : 8 * x < fence.low)
                             + HowMany(s, LAMBDA x : 8 * x > fence.high)]
  BY <1>3 DEF OutlierScan
<1> HIDE DEF column, type, card, block, s, fence
<1>8. CASE s = <<>>
  <2>1. block = NoNumbers
    BY <1>4, <1>8 DEF NumericStats, s
  <2>2. /\ block.conforming = 0 /\ block.low = None /\ block.median = None /\ block.high = None
        /\ block.bins = <<>> /\ block.outlier_count = 0
    BY <2>1 DEF NoNumbers
  <2>3. Len(s) = 0 /\ Least(s) = None /\ Median2(s) = None /\ Greatest(s) = None
        /\ CardBins(s) = <<>>
    BY <1>8 DEF Least, Median2, Greatest, CardBins
  <2>4. OutlierScan(file, contract.types, c, IQR_K, None, None).outliers = 0
    BY <1>7, <1>8
  <2> QED
    BY <1>5, <2>2, <2>3, <2>4 DEF card, block, column, type
<1>9. CASE s # <<>>
  <2>1. /\ block.conforming = Len(s) /\ block.median = Median2(s) /\ block.low = Head(s)
        /\ block.high = Last(s) /\ block.bins = PanelBins(s, N_BINS)
        /\ block.outlier_count = Outside(s, fence)
    BY <1>4, <1>9 DEF NumericStats, s, fence
  <2>2. Least(s) = Head(s) /\ Greatest(s) = Last(s)
    BY <1>9 DEF Least, Greatest
  <2>3. OutlierScan(file, contract.types, c, IQR_K, None, None).outliers = Outside(s, fence)
    BY <1>6, <1>7, <1>9, OutliersAddUp DEF fence, HowMany
  <2>4. card.bins # IndexError => card.bins = block.bins
    BY <1>5, <1>6, <2>1, BinsAgree
  <2> QED
    BY <1>5, <2>1, <2>2, <2>3, <2>4 DEF card, block, column, type
<1> QED
  BY <1>8, <1>9

LEMMA FiguresHold ==
  ASSUME IInv, NEW c \in DOMAIN file
  PROVE  FiguresAgree(c, Card(file[c], contract.types[c]), Panel(file[c], contract.types[c]))
<1> DEFINE column == file[c]
           type == contract.types[c]
           card == Card(column, type)
           panel == Panel(column, type)
           block == panel.block
<1>1. column \in Seq(Cell) /\ type \in LogicalType
  BY FileIsColumns DEF IInv, Typed
<1>2. /\ card.kind = Kind(column, type) /\ card.total = Len(column)
      /\ card.present = Len(Trimmed(column)) /\ card.distinct = Distinct(column)
  BY <1>1, CardShows
<1>3. /\ panel.completeness.present = Len(Trimmed(column)) /\ panel.distinct = Distinct(column)
      /\ panel.completeness.nulls = HowMany(column, LAMBDA x : x = Null)
      /\ panel.completeness.empty = HowMany(column, LAMBDA x : x = Blank)
  BY <1>1, PanelShows
<1>4. Valued(c) <=> Trimmed(column) # <<>>
  BY DEF Valued
<1>5. Kind(column, type) \in LogicalType => type = Kind(column, type) /\ Trimmed(column) # <<>>
  BY DEF Kind, LogicalType
<1> HIDE DEF column, type, card, panel, block
<1>6. card.present + panel.completeness.nulls + panel.completeness.empty = card.total
  BY <1>1, <1>2, <1>3, RowsAddUp
<1>7. card.kind = "numerical" =>
         /\ <<card.conforming, card.low, card.middle, card.high>>
               = <<block.conforming, block.low, block.median, block.high>>
         /\ card.bins # IndexError => card.bins = block.bins
         /\ OutlierScan(file, contract.types, c, IQR_K, None, None).outliers
               = block.outlier_count
  BY NumbersAgree DEF card, block, panel, column, type
<1>8. card.kind = "date" => <<card.conforming, card.low, card.high>>
                               = <<block.conforming, block.earliest, block.latest>>
  <2> SUFFICES ASSUME card.kind = "date"
               PROVE  <<card.conforming, card.low, card.high>>
                         = <<block.conforming, block.earliest, block.latest>>
    OBVIOUS
  <2>1. Kind(column, type) = "date" /\ type = "date" /\ Trimmed(column) # <<>>
    BY <1>2, <1>5 DEF LogicalType
  <2>2. block = DateStats(column)
    BY <1>1, <2>1, PanelShows DEF block, panel
  <2>3. /\ card.conforming = Len(Moments(column)) /\ card.low = Least(Moments(column))
        /\ card.high = Greatest(Moments(column))
    BY <1>1, <2>1, CardShows DEF card
  <2>4. /\ block.conforming = Len(Moments(column)) /\ block.earliest = Least(Moments(column))
        /\ block.latest = Greatest(Moments(column))
    BY <2>2 DEF DateStats
  <2> QED
    BY <2>3, <2>4
<1>9. card.kind = "categorical" =>
         <<card.top, card.others_count, card.others_distinct>>
            = <<block.top, block.others_count, block.others_distinct>>
  <2> SUFFICES ASSUME card.kind = "categorical"
               PROVE  <<card.top, card.others_count, card.others_distinct>>
                         = <<block.top, block.others_count, block.others_distinct>>
    OBVIOUS
  <2>1. Kind(column, type) = "categorical" /\ type = "categorical" /\ Trimmed(column) # <<>>
    BY <1>2, <1>5 DEF LogicalType
  <2>2. block = CategoricalStats(column)
    BY <1>1, <2>1, PanelShows DEF block, panel
  <2> DEFINE top == TopValues(column, TOP_N)
  <2>3. /\ card.top = top /\ card.others_count = OthersCount(column, top)
        /\ card.others_distinct = OthersDistinct(column, top)
    BY <1>1, <2>1, CardShows DEF card
  <2>4. /\ block.top = top /\ block.others_count = OthersCount(column, top)
        /\ block.others_distinct = OthersDistinct(column, top)
    BY <2>2 DEF CategoricalStats
  <2> QED
    BY <2>3, <2>4
<1>10. card.kind = "boolean" => card.conforming = block.true_count + block.false_count
  <2> SUFFICES ASSUME card.kind = "boolean"
               PROVE  card.conforming = block.true_count + block.false_count
    OBVIOUS
  <2>1. Kind(column, type) = "boolean" /\ type = "boolean" /\ Trimmed(column) # <<>>
    BY <1>2, <1>5 DEF LogicalType
  <2>2. block = BooleanStats(column)
    BY <1>1, <2>1, PanelShows DEF block, panel
  <2>3. card.conforming = Says(column, "true") + Says(column, "false")
    BY <1>1, <2>1, CardShows DEF card
  <2>4. block.true_count = Says(column, "true") /\ block.false_count = Says(column, "false")
    BY <2>2 DEF BooleanStats
  <2> QED
    BY <2>3, <2>4
<1> QED
  BY <1>2, <1>3, <1>6, <1>7, <1>8, <1>9, <1>10
  DEF FiguresAgree, column, type, card, panel, block

\* The words and the digits of a column are what reads as true or false.
LEMMA WordsAndDigits ==
  ASSUME NEW column \in Seq(Cell)
  PROVE  Statistics(column).boolean_like
            = Says(column, "true") + Says(column, "false")
              - HowMany(Trimmed(column),
                        LAMBDA t : t.shape = "integer" /\ t.says # "neither")
<1> DEFINE texts == Trimmed(column)
           A == {i \in DOMAIN texts : texts[i].says = "true"}
           B == {i \in DOMAIN texts : texts[i].says = "false"}
           W == Shaped(texts, {"truth"})
           D == {i \in DOMAIN texts : texts[i].shape = "integer" /\ texts[i].says # "neither"}
<1>1. texts \in Seq(Text)
  BY TrimmedIsTexts
<1>2. /\ Says(column, "true") = Cardinality(A) /\ Says(column, "false") = Cardinality(B)
      /\ HowMany(texts, LAMBDA t : t.shape = "integer" /\ t.says # "neither")
            = Cardinality(D)
  BY DEF Says, HowMany
<1>3. Statistics(column).boolean_like = Cardinality(W)
  BY StatisticsCount
<1>4. \A i \in DOMAIN texts :
        LET t == texts[i]
        IN  /\ t.says \in {"true", "false", "neither"}
            /\ t.shape = "truth" => t.says # "neither"
            /\ t.says # "neither" => t.shape \in {"truth", "integer"}
  <2>1. \A i \in DOMAIN texts : texts[i] \in Text
    BY <1>1
  <2> QED
    BY <2>1, CellsAssumption
<1>5. A \cup B = W \cup D /\ A \cap B = {} /\ W \cap D = {}
  BY <1>4 DEF Shaped
<1>6. A \cup B \in SUBSET DOMAIN texts
  OBVIOUS
<1> HIDE DEF texts, A, B, W, D
<1>7. IsFiniteSet(A \cup B)
  BY <1>1, <1>6, PlacesAreFinite
<1>8. /\ Cardinality(A) \in Nat /\ Cardinality(B) \in Nat
      /\ Cardinality(A) + Cardinality(B) = Cardinality(A \cup B)
  BY <1>5, <1>7, PartsAddUp
<1>9. /\ Cardinality(W) \in Nat /\ Cardinality(D) \in Nat
      /\ Cardinality(W) + Cardinality(D) = Cardinality(A \cup B)
  <2>1. IsFiniteSet(W \cup D)
    BY <1>5, <1>7
  <2> QED
    BY <1>5, <2>1, PartsAddUp
<1> QED
  BY <1>2, <1>3, <1>8, <1>9 DEF texts

\* What the panel counts of the numbers and the moments of a column.
LEMMA ReadingsAreCounted ==
  ASSUME NEW column
  PROVE  /\ NumericStats(column).conforming = Len(Numbers(column))
         /\ DateStats(column).conforming = Len(Moments(column))
         /\ TextStats(column).numeric = Len(Numbers(column))
         /\ TextStats(column).dateish = Len(Moments(column))
         /\ BooleanStats(column).true_count = Says(column, "true")
         /\ BooleanStats(column).false_count = Says(column, "false")
<1>1. NumericStats(column).conforming = Len(Numbers(column))
  <2>1. CASE Numbers(column) = <<>>
    <3>1. NumericStats(column) = NoNumbers
      BY <2>1 DEF NumericStats
    <3> QED
      BY <2>1, <3>1 DEF NoNumbers
  <2>2. CASE Numbers(column) # <<>>
    BY <2>2 DEF NumericStats
  <2> QED
    BY <2>1, <2>2
<1>2. DateStats(column).conforming = Len(Moments(column))
  BY DEF DateStats
<1>3. /\ TextStats(column).numeric = Len(Numbers(column))
      /\ TextStats(column).dateish = Len(Moments(column))
  BY DEF TextStats
<1>4. /\ BooleanStats(column).true_count = Says(column, "true")
      /\ BooleanStats(column).false_count = Says(column, "false")
  BY DEF BooleanStats
<1> QED
  BY <1>1, <1>2, <1>3, <1>4

\* What the consistency report finds of a declared type.
LEMMA TypeFindingIs ==
  ASSUME NEW types, NEW f \in TypeConsistency(file, types, 10000),
         types[f.subject] \in Declared
  PROVE  LET s == Statistics(file[f.subject])
         IN  /\ f.conforming = ConformingCount(s, types[f.subject])
             /\ f.odd = s.non_null - f.conforming
<1>1. PICK k \in DOMAIN file : f \in TypeFinding(k, Statistics(file[k]), types[k], 10000)
  BY DEF TypeConsistency
<1> DEFINE s == Statistics(file[k])
           type == types[k]
<1>2. f \in TypeFinding(k, s, type, 10000)
  BY <1>1
<1> HIDE DEF s, type
<1>3. f.subject = k
  BY <1>2 DEF TypeFinding
<1>4. type \in Declared
  BY <1>3 DEF type
<1>5. /\ f.conforming = ConformingCount(s, type)
      /\ f.odd = s.non_null - ConformingCount(s, type)
  BY <1>2, <1>4 DEF TypeFinding
<1> QED
  BY <1>3, <1>5 DEF s, type

LEMMA TypesHold ==
  ASSUME IInv, NEW c \in DOMAIN file
  PROVE  TypesAgree(c, Panel(file[c], contract.types[c]))
<1> DEFINE column == file[c]
           type == contract.types[c]
           panel == Panel(column, type)
           block == panel.block
           s == Statistics(column)
           read == IF type = "boolean" THEN block.true_count + block.false_count - Digits(c)
                   ELSE block.conforming
<1>1. column \in Seq(Cell) /\ type \in LogicalType
  BY FileIsColumns DEF IInv, Typed
<1>2. SUFFICES ASSUME Valued(c)
      PROVE  /\ type \in Declared =>
                   /\ ConformingCount(s, type) = read
                   /\ \A f \in TypeConsistency(file, contract.types, 10000) :
                         f.subject = c =>
                            /\ f.conforming = read
                            /\ f.odd = panel.completeness.present - read
             /\ type = "text" => <<block.numeric, block.dateish>>
                                   = <<ConformingCount(s, "numerical"),
                                       ConformingCount(s, "date")>>
  BY DEF TypesAgree
<1>3. Trimmed(column) # <<>> /\ panel.completeness.present = Len(Trimmed(column))
  BY <1>1, <1>2, PanelShows DEF Valued
<1>4. /\ s.non_null = Len(Trimmed(column))
      /\ s.integer_like + s.decimal_like = Len(Numbers(column))
      /\ s.date_like + s.datetime_like = Len(Moments(column))
  BY <1>1, StatisticsCount
<1>5. s.boolean_like = Says(column, "true") + Says(column, "false") - Digits(c)
  BY <1>1, WordsAndDigits DEF Digits
<1>6. /\ type = "numerical" => block = NumericStats(column)
      /\ type = "date" => block = DateStats(column)
      /\ type = "boolean" => block = BooleanStats(column)
      /\ type = "text" => block = TextStats(column)
  BY <1>1, <1>3, PanelShows
<1>7. /\ type = "numerical" => block.conforming = Len(Numbers(column))
      /\ type = "date" => block.conforming = Len(Moments(column))
      /\ type = "boolean" => /\ block.true_count = Says(column, "true")
                             /\ block.false_count = Says(column, "false")
      /\ type = "text" => /\ block.numeric = Len(Numbers(column))
                          /\ block.dateish = Len(Moments(column))
  <2> HIDE DEF column, type, block
  <2> QED
    BY <1>6, ReadingsAreCounted
<1> HIDE DEF column, panel, block, s
<1>8. type \in Declared => ConformingCount(s, type) = read
  BY <1>4, <1>5, <1>7 DEF ConformingCount, Declared
<1>9. ASSUME type \in Declared, NEW f \in TypeConsistency(file, contract.types, 10000),
             f.subject = c
      PROVE  f.conforming = read /\ f.odd = panel.completeness.present - read
  <2>1. f.conforming = ConformingCount(s, type) /\ f.odd = s.non_null - f.conforming
    BY <1>9, TypeFindingIs DEF s, column
  <2> QED
    BY <1>3, <1>4, <1>8, <1>9, <2>1
<1>10. type = "text" => <<block.numeric, block.dateish>>
                         = <<ConformingCount(s, "numerical"), ConformingCount(s, "date")>>
  BY <1>4, <1>7 DEF ConformingCount
<1> QED
  BY <1>8, <1>9, <1>10

\* The cells that hold a text are as many as the texts, or more of them.
LEMMA CellsHoldTexts ==
  ASSUME NEW column \in Seq(Cell)
  PROVE  LET cells == {v \in ToSet(column) : Present(v)}
         IN  /\ Cardinality(cells) \in Nat /\ Distinct(column) \in Nat
             /\ Distinct(column) <= Cardinality(cells)
             /\ Cardinality(cells) <= Len(Trimmed(column))
             /\ Distinct(column) = Cardinality(cells)
                   <=> \A x, y \in cells : x.text = y.text => x = y
<1> DEFINE cells == {v \in ToSet(column) : Present(v)}
           texts == Trimmed(column)
           P == HasValue(column)
           text == [x \in cells |-> x.text]
           cell == [i \in P |-> column[i]]
<1>1. PICK at : /\ Lists(at, P) /\ Len(texts) = Cardinality(P)
                /\ \A i \in 1..Len(texts) : texts[i] = column[at[i]].text
  BY TrimmedIsTexts
<1>2. texts \in Seq(Text)
  BY TrimmedIsTexts
<1>3. cells = {column[i] : i \in P}
  BY DEF HasValue, ToSet
<1>4. IsFiniteSet(P) /\ Cardinality(P) \in Nat
  <2>1. P \in SUBSET DOMAIN column
    BY DEF HasValue
  <2> HIDE DEF P
  <2> QED
    BY <2>1, PlacesAreFinite
<1>5. cell \in Surjection(P, cells)
  <2> HIDE DEF P, cells
  <2> QED
    BY <1>3 DEF Surjection
<1>6. IsFiniteSet(cells) /\ Cardinality(cells) <= Cardinality(P) /\ Cardinality(cells) \in Nat
  <2> HIDE DEF P, cells, cell
  <2> QED
    BY <1>4, <1>5, FS_Surjection, FS_CardinalityType
<1>7. ToSet(texts) = {x.text : x \in cells}
  <2>1. ToSet(texts) = {texts[i] : i \in 1..Len(texts)}
    BY <1>2 DEF ToSet
  <2>2. \A i \in 1..Len(texts) : at[i] \in P
    BY <1>1 DEF Lists
  <2>3. \A k \in P : \E i \in 1..Len(texts) : at[i] = k
    BY <1>1 DEF Lists
  <2> HIDE DEF texts, P, cells
  <2> QED
    BY <1>1, <1>3, <2>1, <2>2, <2>3
<1>8. text \in Surjection(cells, ToSet(texts))
  <2> HIDE DEF texts, cells
  <2> QED
    BY <1>7 DEF Surjection
<1>9. /\ Cardinality(ToSet(texts)) \in Nat
      /\ Cardinality(ToSet(texts)) <= Cardinality(cells)
      /\ Cardinality(ToSet(texts)) = Cardinality(cells)
            <=> text \in Injection(cells, ToSet(texts))
  <2> HIDE DEF texts, cells, text
  <2> QED
    BY <1>6, <1>8, FS_Surjection, FS_CardinalityType
<1>10. text \in Injection(cells, ToSet(texts))
          <=> \A x, y \in cells : x.text = y.text => x = y
  <2>1. text \in [cells -> ToSet(texts)]
    BY <1>8 DEF Surjection
  <2>2. \A x \in cells : text[x] = x.text
    OBVIOUS
  <2>3. DOMAIN text = cells
    OBVIOUS
  <2> HIDE DEF texts, cells, text
  <2> QED
    BY <2>1, <2>2, <2>3 DEF Injection, IsInjective
<1>11. Distinct(column) = Cardinality(ToSet(texts))
  BY DEF Distinct
<1> HIDE DEF texts, cells, P, text, cell
<1> QED
  BY <1>1, <1>6, <1>9, <1>10, <1>11 DEF texts, cells

LEMMA DistinctsHold ==
  ASSUME IInv, NEW c \in DOMAIN file
  PROVE  DistinctsAgree(c, Panel(file[c], contract.types[c]))
<1> DEFINE column == file[c]
           type == contract.types[c]
           panel == Panel(column, type)
           s == Statistics(column)
           cells == {v \in ToSet(column) : Present(v)}
           report == Cardinalities(file, contract.types, MAX_LEVELS)
<1>1. column \in Seq(Cell) /\ type \in LogicalType
  BY FileIsColumns DEF IInv, Typed
<1> SUFFICES ASSUME NEW f \in report.findings, f.subject = c
    PROVE  /\ panel.distinct <= f.distinct
           /\ panel.distinct < f.distinct <=> StoredTwice(c)
           /\ panel.is_unique /\ panel.distinct > 1 => f.reason = "all_different"
  BY DEF DistinctsAgree
<1>2. /\ panel.distinct = Distinct(column)
      /\ panel.is_unique => panel.distinct = Len(Trimmed(column))
  BY <1>1, PanelShows DEF Panel, IsUnique
<1>3. s.distinct = Cardinality(cells) /\ s.non_null = Len(Trimmed(column))
  BY DEF Statistics, Scan
<1>4. /\ Cardinality(cells) \in Nat /\ Distinct(column) \in Nat
      /\ Distinct(column) <= Cardinality(cells)
      /\ Cardinality(cells) <= Len(Trimmed(column))
      /\ Distinct(column) = Cardinality(cells)
            <=> \A x, y \in cells : x.text = y.text => x = y
  BY <1>1, CellsHoldTexts
<1>5. StoredTwice(c) <=> ~\A x, y \in cells : x.text = y.text => x = y
  BY DEF StoredTwice
<1>6. /\ f.distinct = s.distinct
      /\ s.non_null > 1 /\ s.distinct = s.non_null => f.reason = "all_different"
  BY DEF Cardinalities
<1>7. Len(Trimmed(column)) \in Nat
  BY <1>1, TrimmedIsTexts
<1> HIDE DEF column, panel, s, cells, report
<1> QED
  BY <1>2, <1>3, <1>4, <1>5, <1>6, <1>7

LEMMA SurfacesHold == IInv => SurfacesAgree
BY FiguresHold, TypesHold, DistinctsHold DEF SurfacesAgree, Cards, Panels

(* Every surface counts the same values of a column: cards, panels and the *)
(* scan for outliers; for each declared type what a correction keeps and   *)
(* the consistency report finds, but for the 1s and 0s declared boolean;   *)
(* the cardinality report, but for texts stored in two ways.               *)
THEOREM SurfacesCountTheSame == Spec => []SurfacesAgree
<1>1. IInv => SurfacesAgree
  BY SurfacesHold
<1> QED
  BY <1>1, InductiveInvariant, PTL

-----------------------------------------------------------------------------
(* Sums of counts.                                                         *)

\* What the fold computes on the way: the sum over every set of places.
FoldsTo(n, t, f) ==
  f = [s \in SUBSET (1..n) |-> IF s = {} THEN 0 ELSE f[s \ {Max(s)}] + t[Max(s)].count]

LEMMA GreatestOfInterval ==
  ASSUME NEW n \in Nat, NEW s \in SUBSET (1..n), n \in s PROVE Max(s) = n
<1>1. \A y \in s : n >= y
  OBVIOUS
<1>2. Max(s) \in s /\ \A y \in s : Max(s) >= y
  BY <1>1 DEF Max
<1>3. Max(s) \in 1..n /\ Max(s) >= n
  BY <1>2
<1> QED
  BY <1>3

LEMMA FoldExists ==
  ASSUME NEW n \in Nat, NEW t
  PROVE  \E f : FoldsTo(n, t, f)
<1> DEFINE Without == {k \in Nat : ~(\E f : FoldsTo(k, t, f))}
<1> SUFFICES ASSUME Without # {} PROVE FALSE
  OBVIOUS
<1>1. PICK k \in Without : \A l \in Without : k <= l
  <2>1. Without \in SUBSET Nat
    OBVIOUS
  <2> HIDE DEF Without
  <2> QED
    BY <2>1, LeastNumber
<1>2. k # 0
  <2> SUFFICES ASSUME k = 0 PROVE FALSE
    OBVIOUS
  <2> DEFINE f == [s \in SUBSET (1..0) |-> 0]
  <2>1. \A s \in SUBSET (1..0) : s = {}
    OBVIOUS
  <2>2. FoldsTo(0, t, f)
    BY <2>1 DEF FoldsTo
  <2> QED
    BY <2>2
<1>3. PICK f : FoldsTo(k - 1, t, f)
  BY <1>1, <1>2
<1>4. k \in Nat \ {0}
  BY <1>2
<1> DEFINE g == [s \in SUBSET (1..k) |->
                   IF k \in s THEN f[s \ {k}] + t[k].count ELSE f[s]]
<1>5. ASSUME NEW s \in SUBSET (1..k)
      PROVE  g[s] = IF s = {} THEN 0 ELSE g[s \ {Max(s)}] + t[Max(s)].count
  <2>1. CASE k \in s
    <3>1. Max(s) = k
      BY <1>4, <2>1, GreatestOfInterval
    <3>2. s \ {k} \in SUBSET (1..k) /\ k \notin s \ {k}
      OBVIOUS
    <3>3. g[s] = f[s \ {k}] + t[k].count
      BY <2>1
    <3>4. g[s \ {k}] = f[s \ {k}]
      BY <3>2
    <3> QED
      BY <2>1, <3>1, <3>3, <3>4
  <2>2. CASE k \notin s
    <3>1. s \in SUBSET (1..(k - 1))
      BY <1>4, <2>2
    <3>2. g[s] = f[s]
      BY <2>2
    <3>3. f[s] = IF s = {} THEN 0 ELSE f[s \ {Max(s)}] + t[Max(s)].count
      BY <1>3, <3>1 DEF FoldsTo
    <3>4. s \ {Max(s)} \in SUBSET (1..k) /\ k \notin s \ {Max(s)}
      BY <2>2
    <3>5. g[s \ {Max(s)}] = f[s \ {Max(s)}]
      BY <3>4
    <3> QED
      BY <3>2, <3>3, <3>5
  <2> QED
    BY <2>1, <2>2
<1>6. g = [s \in SUBSET (1..k) |-> g[s]]
  OBVIOUS
<1>7. FoldsTo(k, t, g)
  <2> HIDE DEF g
  <2> QED
    BY <1>5, <1>6 DEF FoldsTo
<1> QED
  BY <1>7

\* The total of a sequence is the last of its running totals.
LEMMA TotalIsLast ==
  ASSUME NEW n \in Nat, NEW t, DOMAIN t = 1..n, \A i \in 1..n : t[i].count \in Nat
  PROVE  \E sum \in [0..n -> Nat] :
            /\ sum[0] = 0 /\ sum[n] = Total(t)
            /\ \A k \in 1..n : sum[k] = sum[k - 1] + t[k].count
<1> DEFINE iter[s \in SUBSET DOMAIN t] ==
              IF s = {} THEN 0 ELSE iter[s \ {Max(s)}] + t[Max(s)].count
<1>1. Total(t) = iter[DOMAIN t]
  BY DEF Total, FoldLeft, MapThenFoldSet
<1>2. FoldsTo(n, t, iter)
  <2>1. iter = CHOOSE f : FoldsTo(n, t, f)
    BY DEF FoldsTo
  <2> HIDE DEF iter
  <2> QED
    BY <2>1, FoldExists
<1> HIDE DEF iter
<1> DEFINE sum == [k \in 0..n |-> iter[1..k]]
<1>3. iter[{}] = 0
  BY <1>2 DEF FoldsTo
<1>4. ASSUME NEW k \in 1..n PROVE iter[1..k] = iter[1..(k - 1)] + t[k].count
  <2>1. 1..k \in SUBSET (1..n) /\ k \in 1..k /\ 1..k # {}
    <3>1. k \in Nat /\ 1 <= k /\ k <= n
      OBVIOUS
    <3>2. \A i \in 1..k : i \in 1..n
      BY <3>1
    <3>3. k \in 1..k
      BY <3>1
    <3> QED
      BY <3>2, <3>3
  <2>2. Max(1..k) = k
    BY GreatestOfInterval
  <2>3. (1..k) \ {k} = 1..(k - 1)
    OBVIOUS
  <2>4. iter[1..k] = iter[(1..k) \ {Max(1..k)}] + t[Max(1..k)].count
    BY <1>2, <2>1 DEF FoldsTo
  <2> QED
    BY <2>2, <2>3, <2>4
<1>5. \A k \in 0..n : iter[1..k] \in Nat
  <2> DEFINE Odd == {k \in 0..n : iter[1..k] \notin Nat}
  <2> SUFFICES ASSUME Odd # {} PROVE FALSE
    OBVIOUS
  <2>1. PICK k \in Odd : \A l \in Odd : k <= l
    <3>1. Odd \in SUBSET Nat
      OBVIOUS
    <3> HIDE DEF Odd
    <3> QED
      BY <3>1, LeastNumber
  <2>2. k # 0
    <3>1. 1..0 = {}
      OBVIOUS
    <3> QED
      BY <1>3, <2>1, <3>1
  <2>3. k \in 1..n /\ k - 1 \in 0..n /\ k - 1 \notin Odd
    BY <2>1, <2>2
  <2>4. iter[1..(k - 1)] \in Nat
    BY <2>3
  <2>5. iter[1..k] = iter[1..(k - 1)] + t[k].count
    BY <1>4, <2>3
  <2> QED
    BY <2>1, <2>3, <2>4, <2>5
<1>6. sum \in [0..n -> Nat]
  BY <1>5
<1>7. sum[0] = 0
  <2>1. 1..0 = {}
    OBVIOUS
  <2> QED
    BY <1>3, <2>1
<1>8. sum[n] = Total(t)
  BY <1>1
<1>9. ASSUME NEW k \in 1..n PROVE sum[k] = sum[k - 1] + t[k].count
  <2>1. k \in 0..n /\ k - 1 \in 0..n
    OBVIOUS
  <2> QED
    BY <1>4, <2>1
<1> HIDE DEF sum
<1> QED
  BY <1>6, <1>7, <1>8, <1>9

Runs(t, n, b) ==
  /\ b \in [0..n -> Nat] /\ b[0] = 0
  /\ \A k \in 1..n : b[k] = b[k - 1] + t[k].count

\* Whatever runs like the total of a sequence ends in it.
LEMMA RunningTotal ==
  ASSUME NEW n \in Nat, NEW t, DOMAIN t = 1..n, NEW b, Runs(t, n, b),
         \A k \in 1..n : t[k].count \in Nat
  PROVE  Total(t) = b[n]
<1>1. PICK sum \in [0..n -> Nat] :
         /\ sum[0] = 0 /\ sum[n] = Total(t)
         /\ \A k \in 1..n : sum[k] = sum[k - 1] + t[k].count
  BY TotalIsLast
<1> DEFINE Odd == {k \in 0..n : sum[k] # b[k]}
<1>2. Odd = {}
  <2> SUFFICES ASSUME Odd # {} PROVE FALSE
    OBVIOUS
  <2>1. PICK k \in Odd : \A l \in Odd : k <= l
    <3>1. Odd \in SUBSET Nat
      OBVIOUS
    <3> HIDE DEF Odd
    <3> QED
      BY <3>1, LeastNumber
  <2>2. k # 0
    BY <1>1, <2>1 DEF Runs
  <2>3. k \in 1..n /\ k - 1 \in 0..n /\ k - 1 \notin Odd
    BY <2>1, <2>2
  <2>4. sum[k - 1] = b[k - 1]
    BY <2>3
  <2>5. sum[k] = sum[k - 1] + t[k].count /\ b[k] = b[k - 1] + t[k].count
    BY <1>1, <2>3 DEF Runs
  <2> QED
    BY <2>1, <2>4, <2>5
<1>3. n \in 0..n /\ n \notin Odd
  BY <1>2
<1>4. sum[n] = b[n]
  BY <1>3
<1> QED
  BY <1>1, <1>4

\* What is sorted into the parts of a sequence is as much as the parts hold together.
Part(D, g, i) == {x \in D : g[x] = i}
LEMMA TotalOfParts ==
  ASSUME NEW n \in Nat, NEW t, DOMAIN t = 1..n, NEW D, IsFiniteSet(D), NEW g \in [D -> 1..n],
         \A i \in 1..n : t[i].count = Cardinality(Part(D, g, i))
  PROVE  Total(t) = Cardinality(D)
<1> DEFINE UpTo(k) == {x \in D : g[x] <= k}
           b == [k \in 0..n |-> Cardinality(UpTo(k))]
<1>1. ASSUME NEW S \in SUBSET D PROVE IsFiniteSet(S) /\ Cardinality(S) \in Nat
  BY FS_Subset, FS_CardinalityType
<1>2. \A i \in 1..n : t[i].count \in Nat
  <2> TAKE i \in 1..n
  <2>1. Part(D, g, i) \in SUBSET D
    BY DEF Part
  <2> QED
    BY <1>1, <2>1
<1>3. b \in [0..n -> Nat]
  <2>1. \A k \in 0..n : UpTo(k) \in SUBSET D
    OBVIOUS
  <2> HIDE DEF UpTo
  <2> QED
    BY <1>1, <2>1
<1>4. b[0] = 0
  <2>1. UpTo(0) = {}
    OBVIOUS
  <2> HIDE DEF UpTo
  <2>2. Cardinality(UpTo(0)) = 0
    BY <2>1, FS_EmptySet
  <2>3. 0 \in 0..n
    OBVIOUS
  <2> QED
    BY <2>2, <2>3
<1>5. ASSUME NEW k \in 1..n PROVE b[k] = b[k - 1] + t[k].count
  <2> DEFINE A == UpTo(k - 1)
             B == Part(D, g, k)
             C == UpTo(k)
  <2>1. A \cup B = C /\ A \cap B = {}
    <3>1. \A x \in D : g[x] \in Nat /\ (g[x] <= k <=> (g[x] <= k - 1 \/ g[x] = k))
                       /\ ~(g[x] <= k - 1 /\ g[x] = k)
      OBVIOUS
    <3> QED
      BY <3>1 DEF Part
  <2>2. IsFiniteSet(C)
    <3>1. C \in SUBSET D
      OBVIOUS
    <3> HIDE DEF C
    <3> QED
      BY <1>1, <3>1
  <2>3. t[k].count = Cardinality(B)
    OBVIOUS
  <2>4. b[k] = Cardinality(C) /\ b[k - 1] = Cardinality(A)
    <3>1. k \in 0..n /\ k - 1 \in 0..n
      OBVIOUS
    <3> HIDE DEF UpTo
    <3> QED
      BY <3>1
  <2> HIDE DEF A, B, C, b
  <2>5. Cardinality(A) + Cardinality(B) = Cardinality(C)
    BY <2>1, <2>2, PartsAddUp
  <2> QED
    BY <2>3, <2>4, <2>5
<1>6. b[n] = Cardinality(D)
  <2>1. UpTo(n) = D
    OBVIOUS
  <2> HIDE DEF UpTo
  <2> QED
    BY <2>1
<1> HIDE DEF b
<1>7. Runs(t, n, b)
  BY <1>3, <1>4, <1>5 DEF Runs
<1> QED
  BY <1>2, <1>6, <1>7, RunningTotal

\* The running total of a sequence, and of any part of it from the start.
LEMMA RunningOf ==
  ASSUME NEW n \in Nat, NEW t, DOMAIN t = 1..n, \A k \in 1..n : t[k].count \in Nat
  PROVE  \E b : Runs(t, n, b) /\ b[n] = Total(t)
<1>1. PICK sum \in [0..n -> Nat] :
         /\ sum[0] = 0 /\ sum[n] = Total(t)
         /\ \A k \in 1..n : sum[k] = sum[k - 1] + t[k].count
  BY TotalIsLast
<1> QED
  BY <1>1 DEF Runs

LEMMA TotalOfStart ==
  ASSUME NEW n \in Nat, NEW t, DOMAIN t = 1..n, NEW b, Runs(t, n, b),
         \A k \in 1..n : t[k].count \in Nat,
         NEW m \in 0..n, NEW u, DOMAIN u = 1..m, \A i \in 1..m : u[i] = t[i]
  PROVE  Total(u) = b[m]
<1> DEFINE a == [k \in 0..m |-> b[k]]
<1>1. \A k \in 0..m : k \in 0..n
  OBVIOUS
<1>2. \A k \in 1..m : k \in 1..n /\ k \in 0..m /\ k - 1 \in 0..m
  OBVIOUS
<1>3. Runs(u, m, a)
  <2>1. a \in [0..m -> Nat] /\ a[0] = 0
    BY <1>1 DEF Runs
  <2>2. ASSUME NEW k \in 1..m PROVE a[k] = a[k - 1] + u[k].count
    <3>1. a[k] = b[k] /\ a[k - 1] = b[k - 1] /\ u[k] = t[k] /\ b[k] = b[k - 1] + t[k].count
      BY <1>2 DEF Runs
    <3> QED
      BY <3>1
  <2> QED
    BY <2>1, <2>2 DEF Runs
<1>4. a[m] = b[m]
  OBVIOUS
<1>5. \A k \in 1..m : u[k].count \in Nat
  BY <1>2
<1> HIDE DEF a
<1>6. m \in Nat
  OBVIOUS
<1> QED
  BY <1>3, <1>4, <1>5, <1>6, RunningTotal

\* Where every part holds something, the running total grows with every part.
LEMMA RunningGrows ==
  ASSUME NEW n \in Nat, NEW t, NEW b, Runs(t, n, b),
         \A k \in 1..n : t[k].count \in Nat \ {0},
         NEW i \in 0..n, NEW j \in 0..n, i <= j
  PROVE  b[j] - b[i] >= j - i
<1> DEFINE Odd == {k \in i..n : ~(b[k] - b[i] >= k - i)}
<1>1. Odd = {}
  <2> SUFFICES ASSUME Odd # {} PROVE FALSE
    OBVIOUS
  <2>1. PICK k \in Odd : \A l \in Odd : k <= l
    <3>1. Odd \in SUBSET Nat
      OBVIOUS
    <3> HIDE DEF Odd
    <3> QED
      BY <3>1, LeastNumber
  <2>2. k # i
    BY <2>1 DEF Runs
  <2>3. k \in 1..n /\ k - 1 \in i..n /\ k - 1 \notin Odd
    BY <2>1, <2>2
  <2>4. b[k - 1] - b[i] >= k - 1 - i
    BY <2>3
  <2>5. b[k] = b[k - 1] + t[k].count /\ t[k].count \in Nat \ {0}
    <3> HIDE DEF Odd
    <3> QED
      BY <2>3 DEF Runs
  <2>6. b[k] \in Nat /\ b[k - 1] \in Nat /\ b[i] \in Nat
    BY <2>3 DEF Runs
  <2> QED
    BY <2>1, <2>3, <2>4, <2>5, <2>6
<1>2. j \in i..n /\ j \notin Odd
  BY <1>1
<1> QED
  BY <1>2

-----------------------------------------------------------------------------
(* Rankings.                                                               *)

LEMMA MaxOfTwo ==
  ASSUME NEW a \in Int, NEW b \in Int
  PROVE  Max({a, b}) \in Int /\ Max({a, b}) = IF a <= b THEN b ELSE a
<1> DEFINE S == {a, b}
<1>1. \E x \in S : \A y \in S : x >= y
  <2>1. CASE a <= b
    BY <2>1
  <2>2. CASE ~(a <= b)
    BY <2>2
  <2> QED
    BY <2>1, <2>2
<1>2. Max(S) \in S /\ \A y \in S : Max(S) >= y
  <2> HIDE DEF S
  <2> QED
    BY <1>1 DEF Max
<1> QED
  BY <1>2

LEMMA SmallerOfTwo ==
  ASSUME NEW a \in Int, NEW b \in Int
  PROVE  Min({a, b}) \in Int /\ Min({a, b}) = IF a <= b THEN a ELSE b
<1> DEFINE S == {a, b}
<1>1. \E x \in S : \A y \in S : x =< y
  <2>1. CASE a <= b
    BY <2>1
  <2>2. CASE ~(a <= b)
    BY <2>2
  <2> QED
    BY <2>1, <2>2
<1>2. Min(S) \in S /\ \A y \in S : Min(S) =< y
  <2> HIDE DEF S
  <2> QED
    BY <1>1 DEF Min
<1> QED
  BY <1>2

Holders(s, v) == {i \in DOMAIN s : s[i] = v}
Entries(s) == {[value |-> v, count |-> Cardinality(Holders(s, v))] : v \in ToSet(s)}
Ranks(t, s) ==
  /\ Len(t) = Cardinality(ToSet(s)) /\ Len(t) \in Nat /\ DOMAIN t = 1..Len(t)
  /\ \A i \in 1..Len(t) :
        /\ t[i].value \in ToSet(s) /\ t[i].count = Cardinality(Holders(s, t[i].value))
        /\ t[i].count \in Nat \ {0}
  /\ \A i, j \in 1..Len(t) : t[i].value = t[j].value => i = j
  /\ \A v \in ToSet(s) : \E i \in 1..Len(t) : t[i].value = v

LEMMA HoldersAreCounted ==
  ASSUME NEW A, NEW s \in Seq(A), NEW v
  PROVE  /\ IsFiniteSet(Holders(s, v)) /\ Cardinality(Holders(s, v)) \in Nat
         /\ v \in ToSet(s) => Cardinality(Holders(s, v)) # 0
<1>1. Holders(s, v) \in SUBSET DOMAIN s
  BY DEF Holders
<1>2. IsFiniteSet(Holders(s, v)) /\ Cardinality(Holders(s, v)) \in Nat
  BY <1>1, PlacesAreFinite
<1>3. v \in ToSet(s) => Holders(s, v) # {}
  BY DEF ToSet, Holders
<1> QED
  BY <1>2, <1>3, FS_EmptySet

LEMMA ValuesAreFinite ==
  ASSUME NEW A, NEW s \in Seq(A)
  PROVE  IsFiniteSet(ToSet(s)) /\ Cardinality(ToSet(s)) \in 0..Len(s)
<1> DEFINE f == [i \in DOMAIN s |-> s[i]]
<1>1. IsFiniteSet(DOMAIN s) /\ Cardinality(DOMAIN s) = Len(s) /\ Len(s) \in Nat
  <2>1. DOMAIN s = 1..Len(s) /\ Len(s) \in Nat
    OBVIOUS
  <2> QED
    BY <2>1, CountTo
<1>2. f \in Surjection(DOMAIN s, ToSet(s))
  BY DEF Surjection, ToSet
<1>3. IsFiniteSet(ToSet(s)) /\ Cardinality(ToSet(s)) <= Cardinality(DOMAIN s)
  <2> HIDE DEF f
  <2> QED
    BY <1>1, <1>2, FS_Surjection
<1> QED
  BY <1>1, <1>3, FS_CardinalityType

\* A set has as many elements as what it is mapped to one to one.
LEMMA MappedIsAsLarge ==
  ASSUME NEW S, NEW T, IsFiniteSet(S), NEW f \in [S -> T],
         \A x, y \in S : f[x] = f[y] => x = y, \A z \in T : \E x \in S : f[x] = z
  PROVE  IsFiniteSet(T) /\ Cardinality(T) = Cardinality(S)
<1>1. f \in Surjection(S, T)
  BY DEF Surjection
<1>2. f \in Injection(S, T)
  BY DEF Injection, IsInjective
<1> QED
  BY <1>1, <1>2, FS_Surjection

LEMMA EntriesAreValues ==
  ASSUME NEW A, NEW s \in Seq(A)
  PROVE  IsFiniteSet(Entries(s)) /\ Cardinality(Entries(s)) = Cardinality(ToSet(s))
<1> DEFINE f == [v \in ToSet(s) |-> [value |-> v, count |-> Cardinality(Holders(s, v))]]
<1>1. f \in [ToSet(s) -> Entries(s)]
  BY DEF Entries
<1>2. \A v, w \in ToSet(s) : f[v] = f[w] => v = w
  <2>1. \A v \in ToSet(s) : f[v].value = v
    OBVIOUS
  <2> HIDE DEF f
  <2> QED
    BY <2>1
<1>3. \A e \in Entries(s) : \E v \in ToSet(s) : f[v] = e
  BY DEF Entries
<1>4. IsFiniteSet(ToSet(s))
  BY ValuesAreFinite
<1> HIDE DEF f
<1> QED
  BY <1>1, <1>2, <1>3, <1>4, MappedIsAsLarge

\* What lists the entries of a sequence has one rank per value.
LEMMA ListIsRanking ==
  ASSUME NEW A, NEW s \in Seq(A), NEW t, Lists(t, Entries(s))
  PROVE  Ranks(t, s) /\ t \in Seq(Entries(s))
<1> DEFINE n == Cardinality(Entries(s))
<1>1. n \in Nat /\ t \in [1..n -> Entries(s)] /\ IsInjective(t)
      /\ \A e \in Entries(s) : \E i \in 1..n : t[i] = e
  BY DEF Lists
<1>2. n = Cardinality(ToSet(s))
  BY EntriesAreValues
<1> HIDE DEF n
<1>3. t \in Seq(Entries(s)) /\ Len(t) = n /\ DOMAIN t = 1..n
  BY <1>1
<1>4. ASSUME NEW e \in Entries(s)
      PROVE  /\ e.value \in ToSet(s) /\ e.count = Cardinality(Holders(s, e.value))
             /\ e.count \in Nat \ {0} /\ e = [value |-> e.value, count |-> e.count]
  <2>1. PICK v \in ToSet(s) : e = [value |-> v, count |-> Cardinality(Holders(s, v))]
    BY DEF Entries
  <2> QED
    BY <2>1, HoldersAreCounted
<1>5. \A i, j \in 1..n : t[i].value = t[j].value => i = j
  <2> SUFFICES ASSUME NEW i \in 1..n, NEW j \in 1..n, t[i].value = t[j].value PROVE i = j
    OBVIOUS
  <2>1. t[i] \in Entries(s) /\ t[j] \in Entries(s)
    BY <1>1
  <2>2. t[i] = t[j]
    BY <1>4, <2>1
  <2> QED
    BY <1>1, <2>2 DEF IsInjective
<1>6. ASSUME NEW v \in ToSet(s) PROVE \E i \in 1..n : t[i].value = v
  <2> DEFINE e == [value |-> v, count |-> Cardinality(Holders(s, v))]
  <2>1. e \in Entries(s) /\ e.value = v
    BY DEF Entries
  <2> HIDE DEF e
  <2> QED
    BY <1>1, <2>1
<1> QED
  BY <1>1, <1>2, <1>3, <1>4, <1>5, <1>6 DEF Ranks

\* The counts of a ranking add up to the sequence.
LEMMA RankingAddsUp ==
  ASSUME NEW A, NEW s \in Seq(A), NEW t, Ranks(t, s)
  PROVE  Total(t) = Len(s)
<1> DEFINE n == Len(t)
           g == [j \in DOMAIN s |-> CHOOSE i \in 1..n : t[i].value = s[j]]
<1>1. n \in Nat /\ DOMAIN t = 1..n
  BY DEF Ranks
<1>2. ASSUME NEW j \in DOMAIN s PROVE g[j] \in 1..n /\ t[g[j]].value = s[j]
  <2>1. s[j] \in ToSet(s)
    BY DEF ToSet
  <2>2. \E i \in 1..n : t[i].value = s[j]
    BY <2>1 DEF Ranks
  <2>3. g[j] = CHOOSE i \in 1..n : t[i].value = s[j]
    OBVIOUS
  <2> HIDE DEF g, n
  <2> QED
    BY <2>2, <2>3
<1>3. g \in [DOMAIN s -> 1..n]
  <2>1. g = [j \in DOMAIN s |-> g[j]]
    OBVIOUS
  <2> HIDE DEF g, n
  <2> QED
    BY <1>2, <2>1
<1> HIDE DEF g
<1>4. ASSUME NEW i \in 1..n PROVE t[i].count = Cardinality(Part(DOMAIN s, g, i))
  <2>1. \A j \in DOMAIN s : g[j] = i <=> s[j] = t[i].value
    BY <1>2 DEF Ranks
  <2>2. Part(DOMAIN s, g, i) = Holders(s, t[i].value)
    BY <2>1 DEF Holders, Part
  <2> QED
    BY <2>2 DEF Ranks
<1>5. IsFiniteSet(DOMAIN s) /\ Cardinality(DOMAIN s) = Len(s)
  <2>1. DOMAIN s = 1..Len(s) /\ Len(s) \in Nat
    OBVIOUS
  <2> QED
    BY <2>1, CountTo
<1> DEFINE D == DOMAIN s
<1> HIDE DEF n, D
<1>6. Total(t) = Cardinality(D)
  BY <1>1, <1>3, <1>4, <1>5, TotalOfParts DEF D
<1> QED
  BY <1>5, <1>6 DEF D

\* The first ranks and the others.
LEMMA OthersAreLeft ==
  ASSUME NEW A, NEW s \in Seq(A), NEW t, Ranks(t, s), NEW E, t \in Seq(E), NEW limit \in Nat
  PROVE  LET top == AtMost(t, limit)
         IN  /\ Len(top) = Min({limit, Len(t)}) /\ Len(top) \in 0..Len(t)
             /\ DOMAIN top = 1..Len(top) /\ \A i \in 1..Len(top) : top[i] = t[i]
             /\ Total(top) \in 0..Len(s)
             /\ Len(s) - Total(top) >= Above0(Cardinality(ToSet(s)) - Len(top))
             /\ Above0(Cardinality(ToSet(s)) - Len(top)) \in Nat
<1> DEFINE n == Len(t)
           m == Min({limit, n})
           top == AtMost(t, limit)
<1>1. n \in Nat /\ DOMAIN t = 1..n /\ n = Cardinality(ToSet(s))
      /\ \A k \in 1..n : t[k].count \in Nat \ {0}
  BY DEF Ranks
<1>2. m \in 0..n
  BY <1>1, SmallerOfTwo
<1>3. top = SubSeq(t, 1, m)
  BY DEF AtMost
<1> HIDE DEF top, m, n
<1>4. top \in Seq(E) /\ Len(top) = m /\ \A i \in 1..m : top[i] = t[i]
  BY <1>1, <1>2, <1>3, SubSeqProperties
<1>5. DOMAIN top = 1..m
  BY <1>4
<1>6. PICK b : Runs(t, n, b) /\ b[n] = Total(t)
  <2>1. \A k \in 1..n : t[k].count \in Nat
    BY <1>1
  <2> QED
    BY <1>1, <2>1, RunningOf
<1>7. Total(top) = b[m]
  <2>1. \A k \in 1..n : t[k].count \in Nat
    BY <1>1
  <2> QED
    BY <1>1, <1>2, <1>4, <1>5, <1>6, <2>1, TotalOfStart
<1>8. Total(t) = Len(s)
  BY RankingAddsUp
<1>9. b[n] - b[m] >= n - m /\ b[m] - b[0] >= m
  <2>1. n \in 0..n /\ 0 \in 0..n /\ m <= n /\ 0 <= m
    BY <1>1, <1>2
  <2> QED
    BY <1>1, <1>2, <1>6, <2>1, RunningGrows
<1>10. b[m] \in Nat /\ b[n] \in Nat /\ b[0] = 0
  <2>1. b \in [0..n -> Nat] /\ b[0] = 0
    BY <1>6 DEF Runs
  <2>2. n \in 0..n
    BY <1>1
  <2> QED
    BY <1>2, <2>1, <2>2
<1>11. Above0(n - m) = n - m
  BY <1>1, <1>2, MaxOfTwo DEF Above0
<1>12. Total(top) \in 0..Len(s) /\ Len(s) - Total(top) >= n - m
  <2>1. Len(s) = b[n]
    BY <1>6, <1>8
  <2> QED
    BY <1>1, <1>2, <1>7, <1>9, <1>10, <2>1
<1>13. Cardinality(ToSet(s)) - Len(top) = n - m /\ n - m \in Nat
  BY <1>1, <1>2, <1>4
<1> QED
  BY <1>1, <1>2, <1>4, <1>5, <1>11, <1>12, <1>13 DEF top, m, n

\* The commoner value first, of two as common the one that precedes.
ByCount(s, Q) ==
  {p \in Entries(s) \X Entries(s) :
     \/ p[1].count > p[2].count
     \/ p[1].count = p[2].count /\ <<p[1].value, p[2].value>> \in Q}

LEMMA ByCountIsStrict ==
  ASSUME NEW A, NEW s \in Seq(A), NEW Q, StrictOrder(ToSet(s), Q)
  PROVE  StrictOrder(Entries(s), ByCount(s, Q))
<1> DEFINE E == Entries(s)
           R == ByCount(s, Q)
<1>1. ASSUME NEW e \in E
      PROVE  e.value \in ToSet(s) /\ e.count \in Nat
             /\ e = [value |-> e.value, count |-> Cardinality(Holders(s, e.value))]
  <2>1. PICK v \in ToSet(s) : e = [value |-> v, count |-> Cardinality(Holders(s, v))]
    BY DEF Entries
  <2> QED
    BY <2>1, HoldersAreCounted
<1>2. \A a, b \in E : <<a, b>> \in R <=> \/ a.count > b.count
                                         \/ a.count = b.count /\ <<a.value, b.value>> \in Q
  BY DEF ByCount
<1>3. \A a, b \in E : a.value = b.value => a = b
  BY <1>1
<1> HIDE DEF E, R
<1>4. ASSUME NEW a \in E PROVE <<a, a>> \notin R
  <2>1. a.value \in ToSet(s) /\ a.count \in Nat
    BY <1>1
  <2>2. <<a.value, a.value>> \notin Q
    BY <2>1 DEF StrictOrder
  <2> QED
    BY <1>2, <2>1, <2>2
<1>5. ASSUME NEW a \in E, NEW b \in E PROVE a = b \/ <<a, b>> \in R \/ <<b, a>> \in R
  <2>1. /\ a.value \in ToSet(s) /\ a.count \in Nat
        /\ b.value \in ToSet(s) /\ b.count \in Nat
    BY <1>1
  <2>2. a.value = b.value \/ <<a.value, b.value>> \in Q \/ <<b.value, a.value>> \in Q
    BY <2>1 DEF StrictOrder
  <2> QED
    BY <1>2, <1>3, <2>1, <2>2
<1>6. ASSUME NEW a \in E, NEW b \in E, NEW c \in E, <<a, b>> \in R, <<b, c>> \in R
      PROVE  <<a, c>> \in R
  <2>1. a.count \in Nat /\ b.count \in Nat /\ c.count \in Nat
        /\ a.value \in ToSet(s) /\ b.value \in ToSet(s) /\ c.value \in ToSet(s)
    BY <1>1
  <2>2. (a.count > b.count \/ (a.count = b.count /\ <<a.value, b.value>> \in Q))
        /\ (b.count > c.count \/ (b.count = c.count /\ <<b.value, c.value>> \in Q))
    BY <1>2, <1>6
  <2>3. <<a.value, b.value>> \in Q /\ <<b.value, c.value>> \in Q => <<a.value, c.value>> \in Q
    BY <2>1 DEF StrictOrder
  <2>4. a.count > c.count \/ (a.count = c.count /\ <<a.value, c.value>> \in Q)
    BY <2>1, <2>2, <2>3
  <2> QED
    BY <1>2, <2>4
<1> QED
  BY <1>4, <1>5, <1>6 DEF StrictOrder, E, R

ByAlphabet == {p \in Text \X Text : Alphabetical(p[1], p[2])}

LEMMA AlphabetIsStrict ==
  ASSUME NEW V \in SUBSET Text PROVE StrictOrder(V, ByAlphabet)
<1>1. \A t, u \in Text : t.rank = u.rank => t = u
  BY CellsAssumption
<1>2. \A t \in Text : t.rank \in Int
  BY CellsAssumption
<1>3. \A t, u \in V : <<t, u>> \in ByAlphabet <=> t.rank < u.rank
  BY DEF ByAlphabet, Alphabetical
<1>4. \A t, u \in V : t.rank \in Int /\ (t.rank = u.rank => t = u)
  BY <1>1, <1>2
<1> QED
  BY <1>3, <1>4 DEF StrictOrder

\* The values of a column, ranked.
LEMMA TextsAreRanked ==
  ASSUME NEW s \in Seq(Text)
  PROVE  LET t == Tally(s, Alphabetical)
         IN  Ranks(t, s) /\ t \in Seq(Entries(s))
<1> DEFINE E == Entries(s)
           R == ByCount(s, ByAlphabet)
           t == Tally(s, Alphabetical)
           n == Cardinality(E)
           Before(a, b) == a.count > b.count \/ (a.count = b.count /\ Alphabetical(a.value, b.value))
<1>1. ToSet(s) \in SUBSET Text
  BY DEF ToSet
<1>2. StrictOrder(E, R)
  BY <1>1, AlphabetIsStrict, ByCountIsStrict
<1>3. IsFiniteSet(E)
  BY EntriesAreValues
<1>4. \A a, b \in E : <<a, b>> \in R <=> Before(a, b)
  <2>1. \A a \in E : a.value \in Text
    BY <1>1 DEF Entries
  <2>2. \A a, b \in E : Alphabetical(a.value, b.value) <=> <<a.value, b.value>> \in ByAlphabet
    BY <2>1 DEF ByAlphabet
  <2> QED
    BY <2>2 DEF ByCount
<1>5. \A b \in E : Predecessors(E, R, b) = {a \in E : Before(a, b)}
  BY <1>4 DEF Predecessors
<1>6. t = [i \in 1..n |-> CHOOSE b \in E : Cardinality({a \in E : Before(a, b)}) = i - 1]
  BY DEF Tally, InOrder, Entries, HowMany, Holders
<1>7. ASSUME NEW i \in 1..n PROVE t[i] \in E /\ Cardinality(Predecessors(E, R, t[i])) = i - 1
  <2>1. \E b \in E : Cardinality(Predecessors(E, R, b)) = i - 1
    <3> HIDE DEF E, R
    <3> QED
      BY <1>2, <1>3, PlaceIsTaken
  <2>2. \E b \in E : Cardinality({a \in E : Before(a, b)}) = i - 1
    <3> HIDE DEF E, R, Before
    <3> QED
      BY <1>5, <2>1
  <2>3. t[i] = CHOOSE b \in E : Cardinality({a \in E : Before(a, b)}) = i - 1
    <3> HIDE DEF t, E, Before
    <3> QED
      BY <1>6
  <2>4. t[i] \in E /\ Cardinality({a \in E : Before(a, t[i])}) = i - 1
    <3> HIDE DEF t, E, Before
    <3> QED
      BY <2>2, <2>3
  <2> HIDE DEF t, E, R, Before
  <2> QED
    BY <1>5, <2>4
<1>8. t = [i \in 1..n |-> t[i]]
  <2> HIDE DEF E, Before
  <2> QED
    BY <1>6
<1>9. Ordered(t, E, R)
  <2> HIDE DEF t, E, R, Before
  <2> QED
    BY <1>2, <1>3, <1>7, <1>8, PlacesAreOrdered DEF n
<1>10. Lists(t, E)
  BY <1>9 DEF Ordered
<1> HIDE DEF t
<1>11. Ranks(t, s) /\ t \in Seq(E)
  BY <1>10, ListIsRanking
<1> QED
  BY <1>11 DEF t

-----------------------------------------------------------------------------
(* Histograms, calendars and cycles.                                       *)

\* What puts every place of a sequence into a part holds them all.
LEMMA PartsHoldAll ==
  ASSUME NEW A, NEW s \in Seq(A), NEW n \in Nat, NEW g \in [DOMAIN s -> 0..(n - 1)],
         NEW t, DOMAIN t = 1..n,
         \A k \in 1..n : t[k].count = Cardinality(Part(DOMAIN s, g, k - 1))
  PROVE  Total(t) = Len(s)
<1> DEFINE D == DOMAIN s
           h == [i \in D |-> g[i] + 1]
<1>1. IsFiniteSet(D) /\ Cardinality(D) = Len(s)
  <2>1. DOMAIN s = 1..Len(s) /\ Len(s) \in Nat
    OBVIOUS
  <2> QED
    BY <2>1, CountTo
<1>2. h \in [D -> 1..n]
  OBVIOUS
<1>3. ASSUME NEW k \in 1..n PROVE t[k].count = Cardinality(Part(D, h, k))
  <2>1. \A i \in D : h[i] = k <=> g[i] = k - 1
    OBVIOUS
  <2>2. Part(D, h, k) = Part(DOMAIN s, g, k - 1)
    BY <2>1 DEF Part
  <2> QED
    BY <2>2
<1> HIDE DEF D, h
<1>4. Total(t) = Cardinality(D)
  BY <1>1, <1>2, <1>3, TotalOfParts
<1> QED
  BY <1>1, <1>4

LEMMA EndsOfRising ==
  ASSUME NEW s, Rising(s), s # <<>>
  PROVE  /\ Len(s) \in Nat \ {0} /\ DOMAIN s = 1..Len(s)
         /\ Head(s) = s[1] /\ Last(s) = s[Len(s)] /\ Head(s) \in Int /\ Last(s) \in Int
         /\ \A i \in 1..Len(s) : s[i] \in Int /\ Head(s) <= s[i] /\ s[i] <= Last(s)
         /\ Head(s) <= Last(s)
<1>1. s \in Seq(Int) /\ Len(s) \in Nat \ {0} /\ DOMAIN s = 1..Len(s)
  BY DEF Rising
<1>2. Head(s) = s[1] /\ Last(s) = s[Len(s)] /\ 1 \in 1..Len(s) /\ Len(s) \in 1..Len(s)
  BY <1>1 DEF Last
<1>3. \A i \in 1..Len(s) : s[i] \in Int
  BY <1>1
<1>4. \A i \in 1..Len(s) : 1 <= i /\ i <= Len(s)
  OBVIOUS
<1> QED
  BY <1>1, <1>2, <1>3, <1>4 DEF Rising

LEMMA QuotientIsPositive ==
  ASSUME NEW a \in Nat, NEW d \in Nat \ {0}
  PROVE  a \div d \in Nat
<1>1. 0 \div d <= a \div d
  BY QuotientRises
<1>2. 0 \div d = 0
  OBVIOUS
<1> QED
  BY <1>1, <1>2, Division

\* Every number of a histogram is in a bucket, the greatest in the last.
LEMMA HistogramHoldsAll ==
  ASSUME NEW s, Rising(s), s # <<>>, Head(s) # Last(s), NEW n \in Nat \ {0}
  PROVE  Total(Histogram(s, n)) = Len(s)
<1> DEFINE t == Histogram(s, n)
           g == [i \in DOMAIN s |-> Bucket(s[i], s, n)]
           low == Head(s)
           wide == Last(s) - Head(s)
<1>1. /\ low \in Int /\ wide \in Nat \ {0} /\ DOMAIN s = 1..Len(s)
      /\ \A i \in DOMAIN s : s[i] \in Int /\ low <= s[i]
  BY EndsOfRising
<1>2. ASSUME NEW i \in DOMAIN s PROVE g[i] \in 0..(n - 1)
  <2> DEFINE q == ((s[i] - low) * n) \div wide
  <2>1. g[i] = Min({q, n - 1})
    BY DEF Bucket
  <2>2. s[i] - low \in Nat
    BY <1>1
  <2>3. (s[i] - low) * n \in Nat
    BY <2>2
  <2> HIDE DEF low, wide, g
  <2>4. q \in Nat
    BY <1>1, <2>3, QuotientIsPositive
  <2> HIDE DEF q
  <2> QED
    BY <2>1, <2>4, SmallerOfTwo
<1>3. g \in [DOMAIN s -> 0..(n - 1)]
  <2>1. g = [i \in DOMAIN s |-> g[i]]
    OBVIOUS
  <2> HIDE DEF g
  <2> QED
    BY <1>2, <2>1
<1>4. DOMAIN t = 1..n
  BY DEF Histogram
<1>5. ASSUME NEW k \in 1..n PROVE t[k].count = Cardinality(Part(DOMAIN s, g, k - 1))
  BY DEF Histogram, HowMany, Part
<1> HIDE DEF t, g
<1>6. s \in Seq(Int)
  BY DEF Rising
<1> QED
  BY <1>3, <1>4, <1>5, <1>6, PartsHoldAll DEF t

LEMMA OneBinHoldsAll ==
  ASSUME NEW s, Rising(s)
  PROVE  Total(OneBin(s)) = Len(s)
<1> DEFINE t == OneBin(s)
           g == [i \in DOMAIN s |-> 0]
<1>1. s \in Seq(Int) /\ DOMAIN s = 1..Len(s) /\ Len(s) \in Nat
  BY DEF Rising
<1>2. DOMAIN t = 1..1 /\ t[1].count = Len(s)
  BY DEF OneBin
<1>3. g \in [DOMAIN s -> 0..(1 - 1)]
  OBVIOUS
<1>4. Part(DOMAIN s, g, 0) = DOMAIN s
  BY DEF Part
<1>5. Cardinality(DOMAIN s) = Len(s)
  BY <1>1, CountTo
<1> HIDE DEF t, g
<1>6. \A k \in 1..1 : t[k].count = Cardinality(Part(DOMAIN s, g, k - 1))
  <2>1. \A k \in 1..1 : k = 1 /\ k - 1 = 0
    OBVIOUS
  <2> QED
    BY <1>2, <1>4, <1>5, <2>1
<1>7. 1 \in Nat
  OBVIOUS
<1>8. Total(t) = Len(s)
  BY <1>1, <1>2, <1>3, <1>6, <1>7, PartsHoldAll
<1> QED
  BY <1>8 DEF t

LEMMA NothingAddsUp == Total(<<>>) = 0
<1> DEFINE t == <<>>
<1>1. DOMAIN t = 1..0 /\ \A i \in 1..0 : t[i].count \in Nat
  OBVIOUS
<1> HIDE DEF t
<1>2. Total(t) = 0
  BY <1>1, TotalIsLast
<1> QED
  BY <1>2 DEF t

LEMMA PanelBinsHoldAll ==
  ASSUME NEW s, Rising(s) PROVE Total(PanelBins(s, N_BINS)) = Len(s)
<1>1. N_BINS \in Nat \ {0}
  BY FiguresAssumption
<1>2. CASE s = <<>>
  BY <1>2, NothingAddsUp DEF PanelBins
<1>3. CASE s # <<>>
  BY <1>1, <1>3, OneBinHoldsAll, HistogramHoldsAll DEF PanelBins
<1> QED
  BY <1>2, <1>3

LEMMA CardBinsHoldAll ==
  ASSUME NEW s, Rising(s), CardBins(s) # IndexError PROVE Total(CardBins(s)) = Len(s)
BY BinsAgree, PanelBinsHoldAll

LEMMA MeasureBinsHoldAll ==
  ASSUME NEW s, Rising(s) PROVE Total(MeasureBins(s)) = Len(s)
<1>1. CASE s = <<>>
  BY <1>1, NothingAddsUp DEF MeasureBins
<1>2. CASE s # <<>> /\ Head(s) = Last(s)
  BY <1>2, OneBinHoldsAll DEF MeasureBins
<1>3. CASE s # <<>> /\ Head(s) # Last(s)
  <2> DEFINE n == Min({20, Last(s) - Head(s) + 1})
  <2>1. Last(s) - Head(s) + 1 \in Nat \ {0}
    BY <1>3, EndsOfRising
  <2>2. n \in Nat \ {0}
    <3> DEFINE a == Last(s) - Head(s) + 1
    <3> HIDE DEF a
    <3> QED
      BY <2>1, SmallerOfTwo DEF a
  <2>3. MeasureBins(s) = Histogram(s, n)
    BY <1>3 DEF MeasureBins
  <2> HIDE DEF n
  <2> QED
    BY <1>3, <2>2, <2>3, HistogramHoldsAll
<1> QED
  BY <1>1, <1>2, <1>3

\* The days, months and years of moments follow each other as the moments do.
Grains == {[m \in Int |-> DayOf(m)], [m \in Int |-> MonthOf(m)], [m \in Int |-> YearOf(m)]}
Follows(g) ==
  /\ g \in [Int -> Int]
  /\ \A a, b \in Int : a <= b => g[a] <= g[b]

LEMMA GrainsFollow == \A g \in Grains : Follows(g)
<1>1. {HoursPerDay, DaysPerMonth, MonthsPerYear} \subseteq Nat \ {0}
  BY FiguresAssumption
<1>2. \A m \in Int : DayOf(m) \in Int
  BY <1>1, Division DEF DayOf
<1>3. \A m \in Int : MonthOf(m) \in Int
  BY <1>1, <1>2, Division DEF MonthOf
<1>4. \A m \in Int : YearOf(m) \in Int
  BY <1>1, <1>3, Division DEF YearOf
<1>5. \A a, b \in Int : a <= b => DayOf(a) <= DayOf(b)
  BY <1>1, QuotientRises DEF DayOf
<1>6. \A a, b \in Int : a <= b => MonthOf(a) <= MonthOf(b)
  BY <1>1, <1>2, <1>5, QuotientRises DEF MonthOf
<1>7. \A a, b \in Int : a <= b => YearOf(a) <= YearOf(b)
  BY <1>1, <1>3, <1>6, QuotientRises DEF YearOf
<1> QED
  BY <1>2, <1>3, <1>4, <1>5, <1>6, <1>7 DEF Grains, Follows

\* The buckets of a grain from the first moment to the last hold every moment.
Buckets(t, s, g) ==
  /\ DOMAIN t = 1..(g[Last(s)] - g[Head(s)] + 1)
  /\ \A k \in DOMAIN t :
        t[k].count = Cardinality({i \in DOMAIN s : g[s[i]] = g[Head(s)] + k - 1})

LEMMA CalendarHoldsAll ==
  ASSUME NEW s, Rising(s), s # <<>>, NEW g, Follows(g), NEW t, Buckets(t, s, g)
  PROVE  Total(t) = Len(s)
<1> DEFINE low == g[Head(s)]
           high == g[Last(s)]
           n == high - low + 1
           at == [i \in DOMAIN s |-> g[s[i]]]
           h == [i \in DOMAIN s |-> at[i] - low]
<1>1. /\ s \in Seq(Int) /\ DOMAIN s = 1..Len(s)
      /\ Head(s) \in Int /\ Last(s) \in Int /\ Head(s) <= Last(s)
      /\ \A i \in DOMAIN s : s[i] \in Int /\ Head(s) <= s[i] /\ s[i] <= Last(s)
  BY EndsOfRising DEF Rising
<1>2. low \in Int /\ high \in Int /\ low <= high
  <2>1. \A a, b \in Int : g[a] \in Int /\ (a <= b => g[a] <= g[b])
    BY DEF Follows
  <2> QED
    BY <1>1, <2>1
<1>3. \A i \in DOMAIN s : at[i] \in low..high
  <2>1. \A a, b \in Int : g[a] \in Int /\ (a <= b => g[a] <= g[b])
    BY DEF Follows
  <2>2. \A i \in DOMAIN s : at[i] \in Int /\ low <= at[i] /\ at[i] <= high
    BY <1>1, <2>1
  <2> HIDE DEF low, high, at
  <2> QED
    BY <1>2, <2>2
<1>4. h \in [DOMAIN s -> 0..(n - 1)] /\ n \in Nat
  <2> HIDE DEF low, high, at
  <2>1. \A i \in DOMAIN s : at[i] - low \in 0..(n - 1)
    BY <1>2, <1>3
  <2> QED
    BY <1>2, <2>1
<1>5. DOMAIN t = 1..n
  BY DEF Buckets
<1>6. ASSUME NEW k \in 1..n PROVE t[k].count = Cardinality(Part(DOMAIN s, h, k - 1))
  <2>1. \A i \in DOMAIN s : h[i] = k - 1 <=> at[i] = low + k - 1
    <3> HIDE DEF low, high, at
    <3> QED
      BY <1>2, <1>3
  <2>2. Part(DOMAIN s, h, k - 1) = {i \in DOMAIN s : g[s[i]] = low + k - 1}
    BY <2>1 DEF Part
  <2> QED
    BY <1>5, <2>2 DEF Buckets
<1> HIDE DEF low, high, at, n, h
<1> QED
  BY <1>1, <1>4, <1>5, <1>6, PartsHoldAll

LEMMA CalendarsHoldAll ==
  ASSUME NEW s, Rising(s)
  PROVE  /\ Total(Calendar(s, DayOf)) = Len(s) /\ Total(Calendar(s, MonthOf)) = Len(s)
         /\ Total(Calendar(s, YearOf)) = Len(s)
<1>1. CASE s = <<>>
  BY <1>1, NothingAddsUp DEF Calendar
<1>2. CASE s # <<>>
  <2> DEFINE d == [m \in Int |-> DayOf(m)]
             m == [i \in Int |-> MonthOf(i)]
             y == [i \in Int |-> YearOf(i)]
  <2>1. Head(s) \in Int /\ Last(s) \in Int /\ \A i \in DOMAIN s : s[i] \in Int
    BY <1>2, EndsOfRising
  <2>2. Buckets(Calendar(s, DayOf), s, d)
    BY <1>2, <2>1 DEF Calendar, Buckets, HowMany
  <2>3. Buckets(Calendar(s, MonthOf), s, m)
    BY <1>2, <2>1 DEF Calendar, Buckets, HowMany
  <2>4. Buckets(Calendar(s, YearOf), s, y)
    BY <1>2, <2>1 DEF Calendar, Buckets, HowMany
  <2>5. Follows(d) /\ Follows(m) /\ Follows(y)
    BY GrainsFollow DEF Grains
  <2> HIDE DEF d, m, y
  <2> QED
    BY <1>2, <2>2, <2>3, <2>4, <2>5, CalendarHoldsAll
<1> QED
  BY <1>1, <1>2

\* The phases of a cycle hold every moment.
Phases(t, s, n, g) ==
  /\ g \in [DOMAIN s -> 0..(n - 1)] /\ DOMAIN t = 1..n
  /\ \A k \in 1..n : t[k].count = Cardinality(Part(DOMAIN s, g, k - 1))

LEMMA CyclesHoldAll ==
  ASSUME NEW s, Rising(s)
  PROVE  /\ Total(Cycle(s, DaysPerWeek, LAMBDA m : DayOf(m) % DaysPerWeek)) = Len(s)
         /\ Total(Cycle(s, MonthsPerYear, LAMBDA m : MonthOf(m) % MonthsPerYear)) = Len(s)
         /\ Total(Cycle(s, HoursPerDay, LAMBDA m : m % HoursPerDay)) = Len(s)
<1> DEFINE week == Cycle(s, DaysPerWeek, LAMBDA m : DayOf(m) % DaysPerWeek)
           year == Cycle(s, MonthsPerYear, LAMBDA m : MonthOf(m) % MonthsPerYear)
           day == Cycle(s, HoursPerDay, LAMBDA m : m % HoursPerDay)
           a == [i \in DOMAIN s |-> DayOf(s[i]) % DaysPerWeek]
           b == [i \in DOMAIN s |-> MonthOf(s[i]) % MonthsPerYear]
           c == [i \in DOMAIN s |-> s[i] % HoursPerDay]
<1>1. {HoursPerDay, DaysPerMonth, MonthsPerYear, DaysPerWeek} \subseteq Nat \ {0}
  BY FiguresAssumption
<1>2. s \in Seq(Int) /\ \A i \in DOMAIN s : s[i] \in Int
  BY DEF Rising
<1>3. \A i \in DOMAIN s : DayOf(s[i]) \in Int /\ MonthOf(s[i]) \in Int
  <2>1. \A m \in Int : DayOf(m) \in Int
    BY <1>1, Division DEF DayOf
  <2>2. \A m \in Int : MonthOf(m) \in Int
    BY <1>1, <2>1, Division DEF MonthOf
  <2> QED
    BY <1>2, <2>1, <2>2
<1>4. Phases(week, s, DaysPerWeek, a)
  <2>1. \A i \in DOMAIN s : DayOf(s[i]) % DaysPerWeek \in 0..(DaysPerWeek - 1)
    BY <1>1, <1>3, Division
  <2> QED
    BY <2>1 DEF Phases, Cycle, HowMany, Part
<1>5. Phases(year, s, MonthsPerYear, b)
  <2>1. \A i \in DOMAIN s : MonthOf(s[i]) % MonthsPerYear \in 0..(MonthsPerYear - 1)
    BY <1>1, <1>3, Division
  <2> QED
    BY <2>1 DEF Phases, Cycle, HowMany, Part
<1>6. Phases(day, s, HoursPerDay, c)
  <2>1. \A i \in DOMAIN s : s[i] % HoursPerDay \in 0..(HoursPerDay - 1)
    BY <1>1, <1>2, Division
  <2> QED
    BY <2>1 DEF Phases, Cycle, HowMany, Part
<1> HIDE DEF week, year, day, a, b, c
<1>7. \A t, g, n : n \in Nat /\ Phases(t, s, n, g) => Total(t) = Len(s)
  BY <1>2, PartsHoldAll DEF Phases
<1>8. Total(week) = Len(s) /\ Total(year) = Len(s) /\ Total(day) = Len(s)
  BY <1>1, <1>4, <1>5, <1>6, <1>7
<1> QED
  BY <1>8 DEF week, year, day

\* There are no more days with a moment than days.
LEMMA DaysAreInSpan ==
  ASSUME NEW s, Rising(s)
  PROVE  Cardinality({DayOf(m) : m \in ToSet(s)})
            <= IF s = <<>> THEN 0 ELSE DayOf(Last(s)) - DayOf(Head(s)) + 1
<1> DEFINE D == {DayOf(m) : m \in ToSet(s)}
<1>1. CASE s = <<>>
  <2>1. D = {}
    BY <1>1 DEF ToSet
  <2>2. Cardinality({}) = 0
    BY FS_EmptySet
  <2> QED
    BY <1>1, <2>1, <2>2
<1>2. CASE s # <<>>
  <2> DEFINE a == DayOf(Head(s))
             b == DayOf(Last(s))
             g == [m \in Int |-> DayOf(m)]
  <2>1. Follows(g)
    BY GrainsFollow DEF Grains
  <2>2. \A m \in Int : g[m] = DayOf(m)
    OBVIOUS
  <2>3. /\ Head(s) \in Int /\ Last(s) \in Int /\ Head(s) <= Last(s)
        /\ \A i \in DOMAIN s : s[i] \in Int /\ Head(s) <= s[i] /\ s[i] <= Last(s)
    BY <1>2, EndsOfRising
  <2> HIDE DEF g
  <2>4. a \in Int /\ b \in Int /\ a <= b
    BY <2>1, <2>2, <2>3 DEF Follows
  <2>5. \A i \in DOMAIN s : DayOf(s[i]) \in a..b
    BY <2>1, <2>2, <2>3, <2>4 DEF Follows
  <2>6. D \in SUBSET (a..b)
    BY <2>5 DEF ToSet
  <2> HIDE DEF D, a, b
  <2>7. IsFiniteSet(a..b) /\ Cardinality(a..b) = b - a + 1
    BY <2>4, FS_Interval
  <2>8. Cardinality(D) <= b - a + 1
    BY <2>6, <2>7, FS_Subset
  <2> QED
    BY <1>2, <2>8 DEF D, a, b
<1> QED
  BY <1>1, <1>2

\* The panel of a date draws every moment on every chart.
LEMMA DatesAreDrawn ==
  ASSUME NEW column \in Seq(Cell)
  PROVE  LET block == DateStats(column)
         IN  /\ \A chart \in {block.by_year, block.by_month, block.by_weekday,
                              block.by_month_of_year} : Total(chart) = block.conforming
             /\ \A chart \in {block.by_day, block.by_hour} :
                   chart = <<>> \/ Total(chart) = block.conforming
             /\ block.days_seen <= block.days_in_span
<1> DEFINE s == Moments(column)
           block == DateStats(column)
           days == Cardinality({DayOf(m) : m \in ToSet(s)})
           covered == IF s = <<>> THEN 0 ELSE DayOf(Last(s)) - DayOf(Head(s)) + 1
<1>1. Rising(s)
  BY MomentsAreRising
<1>2. /\ block.conforming = Len(s) /\ block.days_seen = days /\ block.days_in_span = covered
      /\ block.by_year = Calendar(s, YearOf) /\ block.by_month = Calendar(s, MonthOf)
      /\ block.by_day \in {Calendar(s, DayOf), <<>>}
      /\ block.by_weekday = Cycle(s, DaysPerWeek, LAMBDA m : DayOf(m) % DaysPerWeek)
      /\ block.by_month_of_year = Cycle(s, MonthsPerYear, LAMBDA m : MonthOf(m) % MonthsPerYear)
      /\ block.by_hour \in {Cycle(s, HoursPerDay, LAMBDA m : m % HoursPerDay), <<>>}
  BY DEF DateStats
<1> HIDE DEF block, s
<1>3. days <= covered
  BY <1>1, DaysAreInSpan
<1> HIDE DEF days, covered
<1> QED
  BY <1>1, <1>2, <1>3, CalendarsHoldAll, CyclesHoldAll DEF block

-----------------------------------------------------------------------------
(* The strip under the header.                                             *)

LEMMA QuotientIs ==
  ASSUME NEW a \in Int, NEW d \in Nat \ {0}, NEW q \in Int, NEW r \in 0..(d - 1), a = d * q + r
  PROVE  a \div d = q
<1> DEFINE i == a \div d
<1>1. i \in Int /\ a % d \in 0..(d - 1) /\ a = d * i + (a % d)
  BY Division
<1> HIDE DEF i
<1>2. ASSUME q < i PROVE FALSE
  <2>1. d * (q + 1) <= d * i
    BY <1>1, <1>2, ProductRises
  <2>2. d * (q + 1) = d * q + d
    OBVIOUS
  <2> QED
    BY <1>1, <2>1, <2>2
<1>3. ASSUME i < q PROVE FALSE
  <2>1. d * (i + 1) <= d * q
    BY <1>1, <1>3, ProductRises
  <2>2. d * (i + 1) = d * i + d
    BY <1>1
  <2> QED
    BY <1>1, <2>1, <2>2
<1> QED
  BY <1>1, <1>2, <1>3 DEF i

LEMMA CeilingOf ==
  ASSUME NEW a \in Nat, NEW b \in Nat \ {0}
  PROVE  CeilDiv(a, b) \in Nat /\ a <= b * CeilDiv(a, b) /\ b * CeilDiv(a, b) <= a + b - 1
<1> DEFINE c == CeilDiv(a, b)
           x == a + b - 1
<1>1. x \in Nat /\ c = x \div b
  BY DEF CeilDiv
<1> HIDE DEF c, x
<1>2. c \in Nat /\ x % b \in 0..(b - 1) /\ x = b * c + (x % b)
  <2>1. x \div b \in Nat
    BY <1>1, QuotientIsPositive
  <2>2. x % b \in 0..(b - 1) /\ x = b * (x \div b) + (x % b)
    BY <1>1, Division
  <2> QED
    BY <1>1, <2>1, <2>2
<1>3. b * c \in Nat
  BY <1>2
<1>4. b * c <= x /\ x <= b * c + b - 1
  BY <1>2, <1>3
<1> QED
  BY <1>2, <1>3, <1>4 DEF c, x

\* Runs of as many rows each, the last perhaps shorter.
LEMMA RowsHavePlaces ==
  ASSUME NEW n \in Nat, NEW size \in Nat \ {0}, NEW slots \in Nat,
         n <= size * slots, size * slots <= n + size - 1
  PROVE  /\ \A row \in 1..n : (row - 1) \div size \in 0..(slots - 1)
         /\ \A i \in 1..slots :
               /\ \E row \in 1..n : (row - 1) \div size = i - 1
               /\ \A row \in 1..n : (row - 1) \div size = i - 1
                                       => row \in (size * (i - 1) + 1)..(size * (i - 1) + size)
<1>1. ASSUME NEW row \in 1..n PROVE (row - 1) \div size \in 0..(slots - 1)
  <2> DEFINE x == row - 1
             q == x \div size
  <2>1. x \in 0..(n - 1)
    OBVIOUS
  <2> HIDE DEF x
  <2>2. q \in Nat /\ x % size \in 0..(size - 1) /\ x = size * q + (x % size)
    <3>1. q \in Nat
      BY <2>1, QuotientIsPositive
    <3>2. x % size \in 0..(size - 1) /\ x = size * q + (x % size)
      BY <2>1, Division
    <3> QED
      BY <3>1, <3>2
  <2> HIDE DEF q
  <2>3. ASSUME slots <= q PROVE FALSE
    <3>1. size * slots <= size * q
      BY <2>2, <2>3, ProductRises
    <3> QED
      BY <2>1, <2>2, <3>1
  <2> QED
    BY <2>2, <2>3 DEF q, x
<1>2. ASSUME NEW i \in 1..slots PROVE \E row \in 1..n : (row - 1) \div size = i - 1
  <2> DEFINE row == size * (i - 1) + 1
  <2>1. size * (i - 1) <= size * (slots - 1)
    BY ProductRises
  <2>2. size * (slots - 1) = size * slots - size
    OBVIOUS
  <2>3. size * (i - 1) \in Nat
    OBVIOUS
  <2>4. size * slots \in Nat
    OBVIOUS
  <2>5. row \in 1..n
    BY <2>1, <2>2, <2>3, <2>4
  <2>6. row - 1 = size * (i - 1) + 0
    BY <2>3
  <2> HIDE DEF row
  <2>7. (row - 1) \div size = i - 1
    BY <2>5, <2>6, QuotientIs
  <2> QED
    BY <2>5, <2>7
<1>3. ASSUME NEW i \in 1..slots, NEW row \in 1..n, (row - 1) \div size = i - 1
      PROVE  row \in (size * (i - 1) + 1)..(size * (i - 1) + size)
  <2> DEFINE x == row - 1
             low == size * (i - 1)
             r == x % size
  <2>1. x \in Nat /\ x = row - 1 /\ x \div size = i - 1
    BY <1>3
  <2> HIDE DEF x
  <2>2. r \in 0..(size - 1) /\ x = size * (x \div size) + r
    BY <2>1, Division
  <2>3. low \in Nat /\ x = low + r
    BY <2>1, <2>2
  <2> HIDE DEF low, r
  <2>4. row \in (low + 1)..(low + size)
    BY <2>1, <2>2, <2>3
  <2> QED
    BY <2>4 DEF low
<1> QED
  BY <1>1, <1>2, <1>3

LEMMA StripFits ==
  ASSUME NEW n \in Nat
  PROVE  LET size == Max({1, CeilDiv(n, MATRIX_SLOTS)})
             slots == CeilDiv(n, size)
         IN  /\ size \in Nat \ {0} /\ slots \in 0..MATRIX_SLOTS
             /\ n <= size * slots /\ size * slots <= n + size - 1
<1> DEFINE c == CeilDiv(n, MATRIX_SLOTS)
           size == Max({1, c})
           slots == CeilDiv(n, size)
<1>1. MATRIX_SLOTS \in Nat \ {0}
  BY FiguresAssumption
<1>2. c \in Nat /\ n <= MATRIX_SLOTS * c
  BY <1>1, CeilingOf
<1> HIDE DEF c
<1>3. size \in Nat \ {0} /\ c <= size
  BY <1>2, MaxOfTwo
<1> HIDE DEF size
<1>4. slots \in Nat /\ n <= size * slots /\ size * slots <= n + size - 1
  BY <1>3, CeilingOf
<1> HIDE DEF slots
<1>5. slots <= MATRIX_SLOTS
  <2> SUFFICES ASSUME MATRIX_SLOTS + 1 <= slots PROVE FALSE
    BY <1>1, <1>4
  <2>1. size * (MATRIX_SLOTS + 1) <= size * slots
    BY <1>1, <1>3, <1>4, ProductRises
  <2>2. size * (MATRIX_SLOTS + 1) = MATRIX_SLOTS * size + size
    BY <1>1, <1>3
  <2>3. MATRIX_SLOTS * c <= MATRIX_SLOTS * size
    BY <1>1, <1>2, <1>3, ProductRises
  <2>4. MATRIX_SLOTS * c \in Nat /\ MATRIX_SLOTS * size \in Nat /\ size * slots \in Nat
    BY <1>1, <1>2, <1>3, <1>4
  <2> QED
    BY <1>2, <1>3, <1>4, <2>1, <2>2, <2>3, <2>4
<1> QED
  BY <1>3, <1>4, <1>5 DEF c, size, slots

\* The strip draws every row, and every value, once; no slot is empty.
LEMMA StripHoldsAll ==
  ASSUME NEW column \in Seq(Cell)
  PROVE  LET strip == Presence(column)
         IN  /\ Total(strip.slots) = Len(column)
             /\ Total([i \in DOMAIN strip.slots |-> [count |-> strip.slots[i].present]])
                   = Len(Trimmed(column))
             /\ Len(strip.slots) <= MATRIX_SLOTS
             /\ \A i \in DOMAIN strip.slots : strip.slots[i].count \in 1..strip.rows_per_slot
<1> DEFINE n == Len(column)
           D == DOMAIN column
           H == HasValue(column)
           size == Max({1, CeilDiv(n, MATRIX_SLOTS)})
           slots == CeilDiv(n, size)
           at(row) == Min({(row - 1) \div size, slots - 1})
           rows(i) == {row \in D : at(row) = i - 1}
           strip == Presence(column)
           t == strip.slots
           u == [i \in DOMAIN t |-> [count |-> t[i].present]]
           g == [row \in D |-> at(row) + 1]
           h == [row \in H |-> at(row) + 1]
<1>1. /\ strip.rows_per_slot = size
      /\ t = [i \in 1..slots |->
                [count |-> Cardinality(rows(i)),
                 present |-> Cardinality({row \in rows(i) : Present(column[row])})]]
  BY DEF Presence
<1>2. n \in Nat /\ D = 1..n /\ H \in SUBSET D /\ IsFiniteSet(D) /\ Cardinality(D) = n
  <2>1. n \in Nat /\ D = 1..n
    OBVIOUS
  <2> QED
    BY <2>1, CountTo DEF HasValue
<1>3. IsFiniteSet(H) /\ Cardinality(H) = Len(Trimmed(column))
  <2>1. Cardinality(H) = Len(Trimmed(column))
    BY TrimmedIsTexts
  <2> HIDE DEF D, H
  <2> QED
    BY <1>2, <2>1, FS_Subset
<1>4. /\ size \in Nat \ {0} /\ slots \in 0..MATRIX_SLOTS
      /\ n <= size * slots /\ size * slots <= n + size - 1
  <2> HIDE DEF n
  <2> QED
    BY <1>2, StripFits
<1>5. MATRIX_SLOTS \in Nat
  BY FiguresAssumption
<1> HIDE DEF n, size, slots, D, H
<1>6. ASSUME NEW row \in D PROVE at(row) = (row - 1) \div size /\ at(row) \in 0..(slots - 1)
  <2> DEFINE q == (row - 1) \div size
  <2>1. q \in 0..(slots - 1)
    BY <1>2, <1>4, <1>5, RowsHavePlaces
  <2> HIDE DEF q
  <2>2. Min({q, slots - 1}) = q
    BY <1>4, <1>5, <2>1, SmallerOfTwo
  <2> QED
    BY <2>1, <2>2 DEF q
<1> HIDE DEF at
<1>7. \A i \in 1..slots : t[i].count = Cardinality(rows(i))
      /\ t[i].present = Cardinality({row \in rows(i) : Present(column[row])})
  <2> HIDE DEF t, rows
  <2> QED
    BY <1>1
<1>8. DOMAIN t = 1..slots /\ Len(t) = slots
  <2>1. slots \in Nat
    BY <1>4, <1>5
  <2> HIDE DEF t, rows
  <2> QED
    BY <1>1, <2>1
<1> HIDE DEF strip, t
<1>9. Total(t) = n
  <2>1. g \in [D -> 1..slots]
    BY <1>4, <1>5, <1>6
  <2>2. ASSUME NEW i \in 1..slots PROVE t[i].count = Cardinality(Part(D, g, i))
    <3>1. \A row \in D : g[row] = i <=> at(row) = i - 1
      BY <1>4, <1>5, <1>6
    <3>2. Part(D, g, i) = rows(i)
      BY <3>1 DEF Part
    <3> QED
      BY <1>7, <3>2
  <2>3. slots \in Nat
    BY <1>4, <1>5
  <2> HIDE DEF g
  <2>4. Total(t) = Cardinality(D)
    BY <1>2, <1>8, <2>1, <2>2, <2>3, TotalOfParts
  <2> QED
    BY <1>2, <2>4
<1>10. Total(u) = Cardinality(H)
  <2>1. h \in [H -> 1..slots]
    BY <1>2, <1>4, <1>5, <1>6
  <2>2. DOMAIN u = 1..slots /\ \A i \in 1..slots : u[i].count = t[i].present
    BY <1>8
  <2> HIDE DEF u
  <2>3. ASSUME NEW i \in 1..slots PROVE u[i].count = Cardinality(Part(H, h, i))
    <3>1. \A row \in H : h[row] = i <=> at(row) = i - 1
      BY <1>2, <1>4, <1>5, <1>6
    <3>2. Part(H, h, i) = {row \in rows(i) : Present(column[row])}
      <4>1. H = {row \in D : Present(column[row])}
        BY DEF H, D, HasValue
      <4> QED
        BY <3>1, <4>1 DEF Part
    <3> QED
      BY <1>7, <2>2, <3>2
  <2>4. slots \in Nat
    BY <1>4, <1>5
  <2> HIDE DEF h
  <2> QED
    BY <1>3, <2>1, <2>2, <2>3, <2>4, TotalOfParts
<1>11. ASSUME NEW i \in 1..slots PROVE t[i].count \in 1..size
  <2> DEFINE low == size * (i - 1)
             S == rows(i)
  <2> DEFINE At(row) == (row - 1) \div size
  <2>0. /\ \E row \in 1..n : At(row) = i - 1
        /\ \A row \in 1..n : At(row) = i - 1 => row \in (low + 1)..(low + size)
    <3>1. slots \in Nat
      BY <1>4, <1>5
    <3> QED
      BY <1>2, <1>4, <3>1, RowsHavePlaces
  <2>9. \A row \in D : at(row) = At(row)
    BY <1>6
  <2> HIDE DEF At, low
  <2>1. \E row \in D : at(row) = i - 1
    BY <1>2, <2>0, <2>9
  <2>2. \A row \in D : at(row) = i - 1 => row \in (low + 1)..(low + size)
    BY <1>2, <2>0, <2>9
  <2>3. low \in Nat
    BY <1>4, <1>5 DEF low
  <2>4. S # {} /\ S \in SUBSET ((low + 1)..(low + size))
    BY <2>1, <2>2
  <2>5. t[i].count = Cardinality(S)
    BY <1>7
  <2> HIDE DEF low, S
  <2>6. IsFiniteSet((low + 1)..(low + size)) /\ Cardinality((low + 1)..(low + size)) = size
    <3>1. low + 1 \in Int /\ low + size \in Int /\ low + 1 <= low + size
          /\ (low + size) - (low + 1) + 1 = size
      BY <1>4, <2>3
    <3> QED
      BY <3>1, FS_Interval
  <2>7. IsFiniteSet(S) /\ Cardinality(S) <= size
    BY <2>4, <2>6, FS_Subset
  <2>8. Cardinality(S) \in Nat /\ Cardinality(S) # 0
    BY <2>4, <2>7, FS_CardinalityType, FS_EmptySet
  <2> QED
    BY <1>4, <2>5, <2>7, <2>8
<1>12. Len(t) <= MATRIX_SLOTS
  BY <1>4, <1>5, <1>8
<1> QED
  BY <1>1, <1>3, <1>8, <1>9, <1>10, <1>11, <1>12 DEF n, t, u, strip

-----------------------------------------------------------------------------
(* Nothing is drawn twice or lost.                                         *)

\* The values at the top of a ranking and the others are all the values.
LEMMA TopsAreDrawn ==
  ASSUME NEW column \in Seq(Cell), NEW limit \in Nat
  PROVE  LET top == TopValues(column, limit)
         IN  /\ Total(top) \in 0..Len(Trimmed(column))
             /\ OthersCount(column, top) \in Nat
             /\ Total(top) + OthersCount(column, top) = Len(Trimmed(column))
             /\ OthersCount(column, top) >= OthersDistinct(column, top)
<1> DEFINE s == Trimmed(column)
           t == Tally(s, Alphabetical)
           top == AtMost(t, limit)
<1>1. s \in Seq(Text)
  BY TrimmedIsTexts
<1> HIDE DEF s
<1>2. Ranks(t, s) /\ t \in Seq(Entries(s))
  BY <1>1, TextsAreRanked
<1> HIDE DEF t
<1>3. Total(top) \in 0..Len(s)
      /\ Len(s) - Total(top) >= Above0(Cardinality(ToSet(s)) - Len(top))
  BY <1>1, <1>2, OthersAreLeft
<1>4. /\ TopValues(column, limit) = top
      /\ OthersCount(column, top) = Len(s) - Total(top)
      /\ OthersDistinct(column, top) = Above0(Cardinality(ToSet(s)) - Len(top))
  BY DEF TopValues, OthersCount, OthersDistinct, Distinct, t, s
<1> HIDE DEF top
<1>5. Len(s) \in Nat
  BY <1>1
<1>6. OthersCount(column, top) \in Nat /\ Total(top) + OthersCount(column, top) = Len(s)
  BY <1>3, <1>4, <1>5
<1> QED
  BY <1>3, <1>4, <1>6 DEF s

LEMMA CategoriesAreDrawn ==
  ASSUME NEW column \in Seq(Cell)
  PROVE  LET block == CategoricalStats(column)
         IN  /\ Total(block.top) + block.others_count = Len(Trimmed(column))
             /\ block.others_count >= block.others_distinct
<1> DEFINE top == TopValues(column, TOP_N)
           block == CategoricalStats(column)
<1>1. /\ block.top = top /\ block.others_count = OthersCount(column, top)
      /\ block.others_distinct = OthersDistinct(column, top)
  BY DEF CategoricalStats
<1>2. TOP_N \in Nat
  BY FiguresAssumption
<1> HIDE DEF block
<1> QED
  BY <1>1, <1>2, TopsAreDrawn DEF block

LEMMA BooleansAreDrawn ==
  ASSUME NEW column \in Seq(Cell)
  PROVE  BooleanStats(column).other_count \in 0..Len(Trimmed(column))
<1> DEFINE s == Trimmed(column)
           Y == {i \in DOMAIN s : s[i].says = "true"}
           N == {i \in DOMAIN s : s[i].says = "false"}
<1>1. s \in Seq(Text)
  BY TrimmedIsTexts
<1>2. BooleanStats(column).other_count = Len(s) - Cardinality(Y) - Cardinality(N)
  BY DEF BooleanStats, Says, HowMany
<1> HIDE DEF s
<1>3. IsFiniteSet(Y \cup N) /\ Cardinality(Y \cup N) <= Len(s) /\ Len(s) \in Nat
      /\ Cardinality(Y) \in Nat /\ Cardinality(N) \in Nat
  BY <1>1, PlacesAreFinite
<1>4. Y \cap N = {}
  OBVIOUS
<1>5. Cardinality(Y) + Cardinality(N) = Cardinality(Y \cup N)
  <2> HIDE DEF Y, N
  <2> QED
    BY <1>3, <1>4, PartsAddUp
<1> HIDE DEF Y, N
<1> QED
  BY <1>2, <1>3, <1>5 DEF s

LEMMA NumbersAreDrawn ==
  ASSUME NEW column \in Seq(Cell)
  PROVE  Total(NumericStats(column).bins) = NumericStats(column).conforming
<1> DEFINE s == Numbers(column)
           block == NumericStats(column)
<1>1. Rising(s)
  BY NumbersAreRising
<1>2. CASE s = <<>>
  <2>1. block.bins = <<>> /\ block.conforming = 0
    BY <1>2 DEF NumericStats, NoNumbers
  <2> QED
    BY <2>1, NothingAddsUp
<1>3. CASE s # <<>>
  <2>1. block.bins = PanelBins(s, N_BINS) /\ block.conforming = Len(s)
    BY <1>3 DEF NumericStats
  <2> HIDE DEF block, s
  <2> QED
    BY <1>1, <2>1, PanelBinsHoldAll DEF block
<1> QED
  BY <1>2, <1>3

-----------------------------------------------------------------------------
(* The words of a text.                                                    *)

\* What the flattening of a sequence of sequences computes on the way.
Flattens(n, ss, f) ==
  f = [i \in 1..n |-> IF i = 1 THEN ss[i] ELSE f[i - 1] \o ss[i]]

LEMMA FlattenExists ==
  ASSUME NEW n \in Nat, NEW ss
  PROVE  \E f : Flattens(n, ss, f)
<1> DEFINE Without == {k \in Nat : ~(\E f : Flattens(k, ss, f))}
<1> SUFFICES ASSUME Without # {} PROVE FALSE
  OBVIOUS
<1>1. PICK k \in Without : \A l \in Without : k <= l
  <2>1. Without \in SUBSET Nat
    OBVIOUS
  <2> HIDE DEF Without
  <2> QED
    BY <2>1, LeastNumber
<1>2. k # 0
  <2> SUFFICES ASSUME k = 0 PROVE FALSE
    OBVIOUS
  <2> DEFINE f == [i \in 1..0 |-> <<>>]
  <2>1. Flattens(0, ss, f)
    BY DEF Flattens
  <2> QED
    BY <2>1
<1>3. PICK f : Flattens(k - 1, ss, f)
  BY <1>1, <1>2
<1>4. k \in Nat \ {0}
  BY <1>2
<1> DEFINE g == [i \in 1..k |-> IF i = k THEN (IF k = 1 THEN ss[k] ELSE f[k - 1] \o ss[k]) ELSE f[i]]
<1>5. ASSUME NEW i \in 1..k PROVE g[i] = IF i = 1 THEN ss[i] ELSE g[i - 1] \o ss[i]
  <2>1. CASE i = k
    <3>1. CASE k = 1
      BY <2>1, <3>1
    <3>2. CASE k # 1
      <4>1. k - 1 \in 1..k /\ k - 1 # k
        BY <1>4, <3>2
      <4>2. g[k - 1] = f[k - 1]
        BY <4>1
      <4> QED
        BY <2>1, <3>2, <4>2
    <3> QED
      BY <3>1, <3>2
  <2>2. CASE i # k
    <3>1. i \in 1..(k - 1)
      BY <1>4, <2>2
    <3>2. f[i] = IF i = 1 THEN ss[i] ELSE f[i - 1] \o ss[i]
      BY <1>3, <3>1 DEF Flattens
    <3>3. i # 1 => i - 1 \in 1..k /\ i - 1 # k
      BY <3>1
    <3>4. g[i] = f[i] /\ (i # 1 => g[i - 1] = f[i - 1])
      BY <2>2, <3>3
    <3> QED
      BY <3>2, <3>4
  <2> QED
    BY <2>1, <2>2
<1>6. g = [i \in 1..k |-> g[i]]
  OBVIOUS
<1>7. Flattens(k, ss, g)
  <2> HIDE DEF g
  <2> QED
    BY <1>5, <1>6 DEF Flattens
<1> QED
  BY <1>7

\* The flattening is the last of the sequences joined so far.
Joins(n, ss, A, f) ==
  /\ f \in [0..n -> Seq(A)] /\ f[0] = <<>>
  /\ \A k \in 1..n : f[k] = f[k - 1] \o ss[k]

LEMMA FlattenJoins ==
  ASSUME NEW A, NEW ss \in Seq(Seq(A))
  PROVE  \E f : Joins(Len(ss), ss, A, f) /\ f[Len(ss)] = FlattenSeq(ss)
<1> DEFINE n == Len(ss)
<1>1. n \in Nat /\ \A i \in 1..n : ss[i] \in Seq(A)
  OBVIOUS
<1>2. CASE n = 0
  <2> DEFINE f == [k \in 0..n |-> <<>>]
  <2>1. FlattenSeq(ss) = <<>>
    BY <1>2 DEF FlattenSeq
  <2>2. Joins(n, ss, A, f) /\ f[n] = <<>>
    BY <1>2 DEF Joins
  <2> QED
    BY <2>1, <2>2
<1>3. CASE n # 0
  <2> DEFINE g[i \in 1..n] == IF i = 1 THEN ss[i] ELSE g[i - 1] \o ss[i]
             f == [k \in 0..n |-> IF k = 0 THEN <<>> ELSE g[k]]
  <2>1. FlattenSeq(ss) = g[n]
    BY <1>3 DEF FlattenSeq
  <2>2. \E h : Flattens(n, ss, h)
    BY <1>1, FlattenExists
  <2>3. g = CHOOSE h : Flattens(n, ss, h)
    BY DEF Flattens
  <2>4. Flattens(n, ss, g)
    <3> HIDE DEF g, n
    <3> QED
      BY <2>2, <2>3
  <2> HIDE DEF g, n
  <2>5. \A k \in 1..n : g[k] = IF k = 1 THEN ss[k] ELSE g[k - 1] \o ss[k]
    BY <2>4 DEF Flattens
  <2>6. f[0] = <<>> /\ \A k \in 1..n : f[k] = g[k]
    BY <1>1
  <2>7. f = [k \in 0..n |-> f[k]]
    OBVIOUS
  <2> HIDE DEF f
  <2>8. \A k \in 1..n : f[k] = f[k - 1] \o ss[k]
    <3> TAKE k \in 1..n
    <3>1. CASE k = 1
      <4>1. f[k - 1] = <<>> /\ f[k] = ss[k]
        BY <2>5, <2>6, <3>1
      <4> QED
        BY <1>1, <4>1, ConcatEmptySeq
    <3>2. CASE k # 1
      <4>1. k - 1 \in 1..n
        BY <1>1, <3>2
      <4> QED
        BY <2>5, <2>6, <3>2, <4>1
    <3> QED
      BY <3>1, <3>2
  <2> DEFINE Odd == {k \in 0..n : f[k] \notin Seq(A)}
  <2>9. Odd = {}
    <3> SUFFICES ASSUME Odd # {} PROVE FALSE
      OBVIOUS
    <3>1. PICK k \in Odd : \A l \in Odd : k <= l
      <4>1. Odd \in SUBSET Nat
        BY <1>1
      <4> HIDE DEF Odd
      <4> QED
        BY <4>1, LeastNumber
    <3>2. k # 0
      <4>1. <<>> \in Seq(A)
        OBVIOUS
      <4> QED
        BY <2>6, <3>1, <4>1
    <3>3. k \in 1..n /\ k - 1 \in 0..n /\ k - 1 \notin Odd
      BY <1>1, <3>1, <3>2
    <3>4. f[k - 1] \in Seq(A) /\ ss[k] \in Seq(A)
      BY <1>1, <3>3
    <3>5. f[k] \in Seq(A)
      BY <2>8, <3>3, <3>4, ConcatProperties
    <3> QED
      BY <3>1, <3>5
  <2>10. \A k \in 0..n : f[k] \in Seq(A)
    BY <2>9
  <2>11. Joins(n, ss, A, f)
    BY <2>6, <2>7, <2>8, <2>10 DEF Joins
  <2>12. f[n] = g[n]
    BY <1>1, <1>3, <2>6
  <2> QED
    BY <2>1, <2>11, <2>12 DEF n
<1> QED
  BY <1>2, <1>3

\* Where two sequences are joined, a value is held as often as in the two.
LEMMA HoldersOfJoin ==
  ASSUME NEW A, NEW a \in Seq(A), NEW b \in Seq(A), NEW v
  PROVE  Cardinality(Holders(a \o b, v)) = Cardinality(Holders(a, v)) + Cardinality(Holders(b, v))
<1> DEFINE n == Len(a)
           ab == a \o b
           L == Holders(a, v)
           M == Holders(b, v)
           N == {n + i : i \in M}
           f == [i \in M |-> n + i]
<1>1. n \in Nat /\ DOMAIN a = 1..n /\ DOMAIN b = 1..Len(b) /\ Len(b) \in Nat
  OBVIOUS
<1>2. ab \in Seq(A) /\ Len(ab) = n + Len(b)
      /\ \A i \in 1..(n + Len(b)) : ab[i] = IF i <= n THEN a[i] ELSE b[i - n]
  BY ConcatProperties
<1>3. DOMAIN ab = 1..(n + Len(b))
  <2> HIDE DEF ab, n
  <2> QED
    BY <1>1, <1>2
<1> HIDE DEF ab, n
<1>4. L \cup N = Holders(ab, v)
  <2>1. ASSUME NEW i \in L PROVE i \in Holders(ab, v)
    BY <1>1, <1>2, <1>3 DEF Holders
  <2>2. ASSUME NEW j \in M PROVE n + j \in Holders(ab, v)
    <3>1. j \in 1..Len(b) /\ b[j] = v
      BY <1>1 DEF Holders
    <3>2. n + j \in 1..(n + Len(b)) /\ ~(n + j <= n) /\ (n + j) - n = j
      BY <1>1, <3>1
    <3> QED
      BY <1>2, <1>3, <3>1, <3>2 DEF Holders
  <2>3. ASSUME NEW i \in Holders(ab, v) PROVE i \in L \cup N
    <3>1. i \in 1..(n + Len(b)) /\ ab[i] = v
      BY <1>3 DEF Holders
    <3>2. CASE i <= n
      <4>1. i \in 1..n /\ a[i] = v
        BY <1>1, <1>2, <3>1, <3>2
      <4> QED
        BY <1>1, <4>1 DEF Holders
    <3>3. CASE ~(i <= n)
      <4>1. i - n \in 1..Len(b) /\ b[i - n] = v /\ i = n + (i - n)
        BY <1>1, <1>2, <3>1, <3>3
      <4>2. i - n \in M
        BY <1>1, <4>1 DEF Holders
      <4> QED
        BY <4>1, <4>2
    <3> QED
      BY <3>2, <3>3
  <2> QED
    BY <2>1, <2>2, <2>3
<1>5. L \cap N = {}
  BY <1>1 DEF Holders
<1>6. IsFiniteSet(Holders(ab, v)) /\ IsFiniteSet(M)
  BY <1>2, HoldersAreCounted
<1>7. Cardinality(N) = Cardinality(M)
  <2>1. f \in [M -> N] /\ \A z \in N : \E x \in M : f[x] = z
    OBVIOUS
  <2>2. \A x, y \in M : f[x] = f[y] => x = y
    BY <1>1 DEF Holders
  <2> HIDE DEF f, N, M
  <2> QED
    BY <1>6, <2>1, <2>2, MappedIsAsLarge
<1> HIDE DEF L, M, N
<1>8. Cardinality(L) + Cardinality(N) = Cardinality(Holders(ab, v))
  BY <1>4, <1>5, <1>6, PartsAddUp
<1> QED
  BY <1>7, <1>8 DEF L, M, ab

\* The runs of a text, and of the texts of a column.
WordRuns(w) == [1..w -> Int]
RunsOf(t, w) == [i \in 1..Above0(Len(t.words) - w + 1) |-> SubSeq(t.words, i, i + w - 1)]
RunsPerText(texts, w) == [i \in DOMAIN texts |-> RunsOf(texts[i], w)]

LEMMA RunsAreWords ==
  ASSUME NEW t \in Text, NEW w \in Nat \ {0}
  PROVE  /\ RunsOf(t, w) \in Seq(WordRuns(w))
         /\ Len(RunsOf(t, w)) = Above0(Len(t.words) - w + 1)
         /\ Len(RunsOf(t, w)) \in Nat /\ t.words \in Seq(Int) /\ Len(t.words) \in Nat
         /\ \A i \in 1..Len(RunsOf(t, w)) :
               i + w - 1 \in 1..Len(t.words) /\ RunsOf(t, w)[i][1] = t.words[i]
<1> DEFINE words == t.words
           n == Above0(Len(words) - w + 1)
           r == RunsOf(t, w)
<1>1. words \in Seq(Int)
  BY CellsAssumption
<1> HIDE DEF words
<1>2. Len(words) \in Nat /\ \A i \in 1..Len(words) : words[i] \in Int
  BY <1>1
<1>3. n \in Nat /\ n = IF Len(words) - w + 1 >= 0 THEN Len(words) - w + 1 ELSE 0
  BY <1>2, MaxOfTwo DEF Above0
<1>4. r = [i \in 1..n |-> SubSeq(words, i, i + w - 1)]
  BY DEF RunsOf, words
<1> HIDE DEF n, r
<1>5. ASSUME NEW i \in 1..n
      PROVE  /\ SubSeq(words, i, i + w - 1) \in WordRuns(w)
             /\ SubSeq(words, i, i + w - 1)[1] = words[i]
             /\ i + w - 1 \in 1..Len(words)
  <2> DEFINE u == SubSeq(words, i, i + w - 1)
             k == i + w - 1
  <2>1. k \in 1..Len(words) /\ i <= k /\ i \in Int /\ k \in Int /\ k - i + 1 = w
    BY <1>2, <1>3
  <2>2. \A j \in i..k : words[j] \in Int
    BY <1>2, <2>1
  <2>3. u = SubSeq(words, i, k)
    OBVIOUS
  <2> HIDE DEF u, k
  <2>4. u \in Seq(Int) /\ Len(u) = w /\ \A j \in 1..w : u[j] = words[i + j - 1]
    BY <2>1, <2>2, <2>3, SubSeqProperties
  <2>5. u \in WordRuns(w)
    BY <2>4 DEF WordRuns
  <2>6. 1 \in 1..w /\ i + 1 - 1 = i
    OBVIOUS
  <2>7. u[1] = words[i]
    BY <2>4, <2>6
  <2> QED
    BY <2>1, <2>5, <2>7 DEF u, k
<1>6. r \in Seq(WordRuns(w)) /\ Len(r) = n
  BY <1>3, <1>4, <1>5
<1>7. \A i \in 1..n : r[i] = SubSeq(words, i, i + w - 1)
  BY <1>4
<1> QED
  BY <1>1, <1>2, <1>3, <1>5, <1>6, <1>7 DEF n, r, words

LEMMA GramsAreRuns ==
  ASSUME NEW column \in Seq(Cell), NEW w \in Nat \ {0}
  PROVE  LET ss == RunsPerText(Trimmed(column), w)
         IN  /\ ss \in Seq(Seq(WordRuns(w))) /\ Len(ss) = Len(Trimmed(column))
             /\ Grams(column, w) = FlattenSeq(ss) /\ Grams(column, w) \in Seq(WordRuns(w))
<1> DEFINE texts == Trimmed(column)
           ss == RunsPerText(texts, w)
<1>1. texts \in Seq(Text)
  BY TrimmedIsTexts
<1>2. Grams(column, w) = FlattenSeq(ss)
  BY DEF Grams, RunsPerText, RunsOf
<1> HIDE DEF texts
<1>3. \A i \in DOMAIN texts : RunsOf(texts[i], w) \in Seq(WordRuns(w))
  <2>1. \A i \in DOMAIN texts : texts[i] \in Text
    BY <1>1
  <2> QED
    BY <2>1, RunsAreWords
<1>4. ss \in Seq(Seq(WordRuns(w))) /\ Len(ss) = Len(texts)
  <2>1. DOMAIN texts = 1..Len(texts) /\ Len(texts) \in Nat
    BY <1>1
  <2>2. ss \in [1..Len(texts) -> Seq(WordRuns(w))]
    BY <1>3, <2>1 DEF RunsPerText
  <2> HIDE DEF ss
  <2> QED
    BY <2>1, <2>2
<1> HIDE DEF ss
<1>5. FlattenSeq(ss) \in Seq(WordRuns(w))
  <2>1. PICK f : Joins(Len(ss), ss, WordRuns(w), f) /\ f[Len(ss)] = FlattenSeq(ss)
    BY <1>4, FlattenJoins
  <2>2. Len(ss) \in 0..Len(ss)
    BY <1>4
  <2> QED
    BY <2>1, <2>2 DEF Joins
<1> QED
  BY <1>2, <1>4, <1>5 DEF ss, texts

\* In one text, and so in a column, a pair is no commoner than its first word.
LEMMA PairsInText ==
  ASSUME NEW t \in Text, NEW p
  PROVE  Cardinality(Holders(RunsOf(t, 2), p)) <= Cardinality(Holders(RunsOf(t, 1), <<p[1]>>))
<1> DEFINE r == RunsOf(t, 2)
           q == RunsOf(t, 1)
           words == t.words
<1>1. /\ r \in Seq(WordRuns(2)) /\ Len(r) = Above0(Len(words) - 2 + 1) /\ Len(r) \in Nat
      /\ \A i \in 1..Len(r) : i + 2 - 1 \in 1..Len(words) /\ r[i][1] = words[i]
  <2>1. 2 \in Nat \ {0}
    OBVIOUS
  <2> QED
    BY <2>1, RunsAreWords
<1>2. /\ q \in Seq(WordRuns(1)) /\ Len(q) = Above0(Len(words) - 1 + 1) /\ Len(q) \in Nat
      /\ words \in Seq(Int) /\ Len(words) \in Nat
      /\ \A i \in 1..Len(q) : q[i][1] = words[i]
  <2>1. 1 \in Nat \ {0}
    OBVIOUS
  <2> QED
    BY <2>1, RunsAreWords
<1> HIDE DEF r, q, words
<1>3. Len(q) = Len(words)
  BY <1>2, MaxOfTwo DEF Above0
<1>4. \A i \in 1..Len(q) : q[i] = <<words[i]>>
  <2> TAKE i \in 1..Len(q)
  <2>1. q[i] \in [1..1 -> Int] /\ q[i][1] = words[i]
    BY <1>2 DEF WordRuns
  <2> DEFINE x == q[i]
  <2> HIDE DEF x
  <2>2. x = <<x[1]>>
    BY <2>1 DEF x
  <2> QED
    BY <2>1, <2>2 DEF x
<1>5. Holders(r, p) \subseteq Holders(q, <<p[1]>>)
  <2> SUFFICES ASSUME NEW i \in Holders(r, p) PROVE i \in Holders(q, <<p[1]>>)
    OBVIOUS
  <2>1. i \in 1..Len(r) /\ r[i] = p
    BY <1>1 DEF Holders
  <2>2. i \in 1..Len(q) /\ words[i] = p[1]
    BY <1>1, <1>2, <1>3, <2>1
  <2>3. DOMAIN q = 1..Len(q)
    BY <1>2
  <2> QED
    BY <1>4, <2>2, <2>3 DEF Holders
<1>6. IsFiniteSet(Holders(q, <<p[1]>>))
  BY <1>2, HoldersAreCounted
<1> QED
  BY <1>5, <1>6, FS_Subset DEF r, q

LEMMA PairsInColumn ==
  ASSUME NEW column \in Seq(Cell), NEW p
  PROVE  Cardinality(Holders(Grams(column, 2), p)) <= Cardinality(Holders(Grams(column, 1), <<p[1]>>))
<1> DEFINE texts == Trimmed(column)
           n == Len(texts)
           pairs == RunsPerText(texts, 2)
           words == RunsPerText(texts, 1)
           w == <<p[1]>>
<1>1. texts \in Seq(Text) /\ n \in Nat /\ DOMAIN texts = 1..n
  BY TrimmedIsTexts
<1>2. /\ pairs \in Seq(Seq(WordRuns(2))) /\ Len(pairs) = n /\ Grams(column, 2) = FlattenSeq(pairs)
      /\ words \in Seq(Seq(WordRuns(1))) /\ Len(words) = n /\ Grams(column, 1) = FlattenSeq(words)
  <2>1. 1 \in Nat \ {0} /\ 2 \in Nat \ {0}
    OBVIOUS
  <2> QED
    BY <2>1, GramsAreRuns
<1>3. \A k \in 1..n : Cardinality(Holders(pairs[k], p)) <= Cardinality(Holders(words[k], w))
  <2> TAKE k \in 1..n
  <2>1. texts[k] \in Text /\ pairs[k] = RunsOf(texts[k], 2) /\ words[k] = RunsOf(texts[k], 1)
    BY <1>1 DEF RunsPerText
  <2> QED
    BY <2>1, PairsInText
<1> HIDE DEF texts, n, pairs, words, w
<1>4. PICK f : Joins(n, pairs, WordRuns(2), f) /\ f[n] = FlattenSeq(pairs)
  BY <1>2, FlattenJoins
<1>5. PICK g : Joins(n, words, WordRuns(1), g) /\ g[n] = FlattenSeq(words)
  BY <1>2, FlattenJoins
<1> DEFINE F(k) == Cardinality(Holders(f[k], p))
           G(k) == Cardinality(Holders(g[k], w))
           Odd == {k \in 0..n : ~(F(k) <= G(k))}
<1>6. \A k \in 0..n : F(k) \in Nat /\ G(k) \in Nat
  <2>1. \A k \in 0..n : f[k] \in Seq(WordRuns(2)) /\ g[k] \in Seq(WordRuns(1))
    BY <1>4, <1>5 DEF Joins
  <2> QED
    BY <2>1, HoldersAreCounted
<1>7. F(0) = 0 /\ G(0) = 0
  <2>1. f[0] = <<>> /\ g[0] = <<>>
    BY <1>4, <1>5 DEF Joins
  <2>2. \A v : Holders(<<>>, v) = {}
    BY DEF Holders
  <2> QED
    BY <2>1, <2>2, FS_EmptySet
<1>8. ASSUME NEW k \in 1..n
      PROVE  /\ F(k) = F(k - 1) + Cardinality(Holders(pairs[k], p))
             /\ G(k) = G(k - 1) + Cardinality(Holders(words[k], w))
             /\ Cardinality(Holders(pairs[k], p)) \in Nat
             /\ Cardinality(Holders(words[k], w)) \in Nat
  <2>1. k - 1 \in 0..n
    BY <1>1
  <2>2. f[k] = f[k - 1] \o pairs[k] /\ g[k] = g[k - 1] \o words[k]
    BY <1>4, <1>5 DEF Joins
  <2>3. f[k - 1] \in Seq(WordRuns(2)) /\ g[k - 1] \in Seq(WordRuns(1))
    BY <1>4, <1>5, <2>1 DEF Joins
  <2>4. pairs[k] \in Seq(WordRuns(2)) /\ words[k] \in Seq(WordRuns(1))
    BY <1>2
  <2>5. F(k) = F(k - 1) + Cardinality(Holders(pairs[k], p))
    BY <2>2, <2>3, <2>4, HoldersOfJoin
  <2>6. G(k) = G(k - 1) + Cardinality(Holders(words[k], w))
    BY <2>2, <2>3, <2>4, HoldersOfJoin
  <2> QED
    BY <2>4, <2>5, <2>6, HoldersAreCounted
<1> HIDE DEF F, G
<1>9. Odd = {}
  <2> SUFFICES ASSUME Odd # {} PROVE FALSE
    OBVIOUS
  <2>1. PICK k \in Odd : \A l \in Odd : k <= l
    <3>1. Odd \in SUBSET Nat
      BY <1>1
    <3> HIDE DEF Odd
    <3> QED
      BY <3>1, LeastNumber
  <2>2. k # 0
    BY <1>7, <2>1
  <2>3. k \in 1..n /\ k - 1 \in 0..n /\ k \in 0..n /\ k - 1 \notin Odd
    BY <1>1, <2>1, <2>2
  <2>4. F(k - 1) <= G(k - 1) /\ ~(F(k) <= G(k))
    BY <2>1, <2>3
  <2> HIDE DEF Odd
  <2>5. Cardinality(Holders(pairs[k], p)) <= Cardinality(Holders(words[k], w))
    BY <1>3, <2>3
  <2> QED
    BY <1>6, <1>8, <2>3, <2>4, <2>5
<1>10. F(n) <= G(n)
  <2>1. n \in 0..n
    BY <1>1
  <2> QED
    BY <1>9, <2>1
<1> QED
  BY <1>2, <1>4, <1>5, <1>10 DEF F, G, w

\* Runs of as many words each are in an order: that of the first words that differ.
ByWords(w) == {p \in WordRuns(w) \X WordRuns(w) : Lexical(p[1], p[2])}

LEMMA LexicalIsStrict ==
  ASSUME NEW w \in Nat \ {0}, NEW V \in SUBSET WordRuns(w)
  PROVE  StrictOrder(V, ByWords(w))
<1>1. \A a, b \in WordRuns(w) :
         <<a, b>> \in ByWords(w)
            <=> \E i \in 1..w : a[i] < b[i] /\ \A j \in 1..(i - 1) : a[j] = b[j]
  BY DEF ByWords, Lexical, WordRuns
<1>2. \A a \in WordRuns(w) : \A i \in 1..w : a[i] \in Int
  BY DEF WordRuns
<1>3. ASSUME NEW a \in WordRuns(w) PROVE <<a, a>> \notin ByWords(w)
  BY <1>1, <1>2
<1>4. ASSUME NEW a \in WordRuns(w), NEW b \in WordRuns(w), NEW c \in WordRuns(w),
             <<a, b>> \in ByWords(w), <<b, c>> \in ByWords(w)
      PROVE  <<a, c>> \in ByWords(w)
  <2>1. PICK i \in 1..w : a[i] < b[i] /\ \A j \in 1..(i - 1) : a[j] = b[j]
    BY <1>1, <1>4
  <2>2. PICK k \in 1..w : b[k] < c[k] /\ \A j \in 1..(k - 1) : b[j] = c[j]
    BY <1>1, <1>4
  <2>3. CASE i <= k
    <3>1. a[i] < c[i]
      <4>1. a[i] \in Int /\ b[i] \in Int /\ c[i] \in Int
        BY <1>2
      <4>2. b[i] <= c[i]
        <5>1. CASE i = k
          BY <2>2, <4>1, <5>1
        <5>2. CASE i # k
          <6>1. i \in 1..(k - 1)
            BY <2>3, <5>2
          <6> QED
            BY <2>2, <4>1, <6>1
        <5> QED
          BY <5>1, <5>2
      <4> QED
        BY <2>1, <4>1, <4>2
    <3>2. \A j \in 1..(i - 1) : a[j] = c[j]
      <4>1. \A j \in 1..(i - 1) : j \in 1..(k - 1)
        BY <2>3
      <4> QED
        BY <2>1, <2>2, <4>1
    <3> QED
      BY <1>1, <3>1, <3>2
  <2>4. CASE k < i
    <3>1. k \in 1..(i - 1)
      BY <2>4
    <3>2. a[k] < c[k]
      BY <2>1, <2>2, <3>1
    <3>3. \A j \in 1..(k - 1) : a[j] = c[j]
      <4>1. \A j \in 1..(k - 1) : j \in 1..(i - 1)
        BY <2>4
      <4> QED
        BY <2>1, <2>2, <4>1
    <3> QED
      BY <1>1, <3>2, <3>3
  <2> QED
    BY <2>3, <2>4
<1>5. ASSUME NEW a \in WordRuns(w), NEW b \in WordRuns(w), a # b
      PROVE  <<a, b>> \in ByWords(w) \/ <<b, a>> \in ByWords(w)
  <2> DEFINE D == {i \in 1..w : a[i] # b[i]}
  <2>1. D # {}
    BY <1>5 DEF WordRuns
  <2>2. PICK i \in D : \A j \in D : i <= j
    <3>1. D \in SUBSET Nat
      OBVIOUS
    <3> HIDE DEF D
    <3> QED
      BY <2>1, <3>1, LeastNumber
  <2>3. i \in 1..w /\ a[i] # b[i] /\ a[i] \in Int /\ b[i] \in Int
    BY <1>2, <2>2
  <2>4. \A j \in 1..(i - 1) : a[j] = b[j]
    <3>1. \A j \in 1..(i - 1) : j \in 1..w /\ ~(i <= j)
      BY <2>3
    <3> QED
      BY <2>2, <3>1
  <2>5. a[i] < b[i] \/ b[i] < a[i]
    BY <2>3
  <2>6. \A j \in 1..(i - 1) : b[j] = a[j]
    BY <2>4
  <2> HIDE DEF D
  <2> QED
    BY <1>1, <2>3, <2>4, <2>5, <2>6
<1>6. \A x \in V : x \in WordRuns(w)
  OBVIOUS
<1> QED
  BY <1>3, <1>4, <1>5, <1>6 DEF StrictOrder

\* The runs of words of a column, ranked.
LEMMA GramsAreRanked ==
  ASSUME NEW w \in Nat \ {0}, NEW s \in Seq(WordRuns(w))
  PROVE  LET t == Tally(s, Lexical)
         IN  Ranks(t, s) /\ t \in Seq(Entries(s))
<1> DEFINE E == Entries(s)
           R == ByCount(s, ByWords(w))
           t == Tally(s, Lexical)
           n == Cardinality(E)
           Before(a, b) == a.count > b.count \/ (a.count = b.count /\ Lexical(a.value, b.value))
<1>1. ToSet(s) \in SUBSET WordRuns(w)
  BY DEF ToSet
<1>2. StrictOrder(E, R)
  BY <1>1, LexicalIsStrict, ByCountIsStrict
<1>3. IsFiniteSet(E)
  BY EntriesAreValues
<1>4. \A a, b \in E : <<a, b>> \in R <=> Before(a, b)
  <2>1. \A a \in E : a.value \in WordRuns(w)
    BY <1>1 DEF Entries
  <2>2. \A a, b \in E : Lexical(a.value, b.value) <=> <<a.value, b.value>> \in ByWords(w)
    BY <2>1 DEF ByWords
  <2> QED
    BY <2>2 DEF ByCount
<1>5. \A b \in E : Predecessors(E, R, b) = {a \in E : Before(a, b)}
  BY <1>4 DEF Predecessors
<1>6. t = [i \in 1..n |-> CHOOSE b \in E : Cardinality({a \in E : Before(a, b)}) = i - 1]
  BY DEF Tally, InOrder, Entries, HowMany, Holders
<1>7. ASSUME NEW i \in 1..n PROVE t[i] \in E /\ Cardinality(Predecessors(E, R, t[i])) = i - 1
  <2>1. \E b \in E : Cardinality(Predecessors(E, R, b)) = i - 1
    <3> HIDE DEF E, R
    <3> QED
      BY <1>2, <1>3, PlaceIsTaken
  <2>2. \E b \in E : Cardinality({a \in E : Before(a, b)}) = i - 1
    <3> HIDE DEF E, R, Before
    <3> QED
      BY <1>5, <2>1
  <2>3. t[i] = CHOOSE b \in E : Cardinality({a \in E : Before(a, b)}) = i - 1
    <3> HIDE DEF t, E, Before
    <3> QED
      BY <1>6
  <2>4. t[i] \in E /\ Cardinality({a \in E : Before(a, t[i])}) = i - 1
    <3> HIDE DEF t, E, Before
    <3> QED
      BY <2>2, <2>3
  <2> HIDE DEF t, E, R, Before
  <2> QED
    BY <1>5, <2>4
<1>8. t = [i \in 1..n |-> t[i]]
  <2> HIDE DEF E, Before
  <2> QED
    BY <1>6
<1>9. Ordered(t, E, R)
  <2> HIDE DEF t, E, R, Before
  <2> QED
    BY <1>2, <1>3, <1>7, <1>8, PlacesAreOrdered DEF n
<1>10. Lists(t, E)
  BY <1>9 DEF Ordered
<1> HIDE DEF t
<1>11. Ranks(t, s) /\ t \in Seq(E)
  BY <1>10, ListIsRanking
<1> QED
  BY <1>11 DEF t

\* The words of a column, ranked, as many as a limit.
LEMMA TermsAreRanked ==
  ASSUME NEW column \in Seq(Cell), NEW w \in Nat \ {0}, NEW limit \in Nat
  PROVE  LET s == Grams(column, w)
             top == Terms(column, w, limit)
             n == Cardinality(ToSet(s))
         IN  /\ s \in Seq(WordRuns(w)) /\ n \in 0..Len(s) /\ (n = 0 <=> s = <<>>)
             /\ DOMAIN top = 1..Len(top) /\ Len(top) = Min({limit, n}) /\ Len(top) \in 0..n
             /\ \A i \in 1..Len(top) :
                   /\ top[i].value \in ToSet(s)
                   /\ top[i].count = Cardinality(Holders(s, top[i].value))
             /\ n <= limit => \A v \in ToSet(s) : \E i \in 1..Len(top) : top[i].value = v
<1> DEFINE s == Grams(column, w)
           t == Tally(s, Lexical)
           top == AtMost(t, limit)
           n == Cardinality(ToSet(s))
<1>1. s \in Seq(WordRuns(w))
  BY GramsAreRuns
<1>2. Terms(column, w, limit) = top
  BY DEF Terms
<1> HIDE DEF s
<1>3. Ranks(t, s) /\ t \in Seq(Entries(s))
  BY <1>1, GramsAreRanked
<1> HIDE DEF t
<1>4. /\ Len(top) = Min({limit, Len(t)}) /\ Len(top) \in 0..Len(t)
      /\ DOMAIN top = 1..Len(top) /\ \A i \in 1..Len(top) : top[i] = t[i]
  BY <1>1, <1>3, OthersAreLeft
<1>5. /\ Len(t) = n /\ n \in Nat
      /\ \A i \in 1..n : t[i].value \in ToSet(s) /\ t[i].count = Cardinality(Holders(s, t[i].value))
      /\ \A v \in ToSet(s) : \E i \in 1..n : t[i].value = v
  BY <1>3 DEF Ranks
<1>6. n \in 0..Len(s)
  BY <1>1, ValuesAreFinite
<1>7. n = 0 <=> s = <<>>
  <2>1. IsFiniteSet(ToSet(s))
    BY <1>1, ValuesAreFinite
  <2>2. n = 0 <=> ToSet(s) = {}
    BY <2>1, FS_EmptySet
  <2>3. DOMAIN s = 1..Len(s) /\ Len(s) \in Nat /\ (s = <<>> <=> Len(s) = 0)
    BY <1>1, EmptySeq
  <2>4. ToSet(s) = {} <=> DOMAIN s = {}
    BY DEF ToSet
  <2>5. ToSet(s) = {} <=> s = <<>>
    <3>1. \A k \in Nat : k # 0 => 1 \in 1..k
      OBVIOUS
    <3>2. \A k \in Nat : 1..k = {} <=> k = 0
      BY <3>1
    <3> QED
      BY <2>3, <2>4, <3>2
  <2> QED
    BY <2>2, <2>5
<1> HIDE DEF top, n
<1>8. \A i \in 1..Len(top) : i \in 1..n
  BY <1>4, <1>5
<1>9. n <= limit => Len(top) = n
  BY <1>4, <1>5, SmallerOfTwo
<1> QED
  BY <1>1, <1>2, <1>4, <1>5, <1>6, <1>7, <1>8, <1>9 DEF s, n

LEMMA AtMostIs ==
  ASSUME NEW s, Len(s) \in Nat, NEW n \in Nat
  PROVE  /\ Len(AtMost(s, n)) = Min({n, Len(s)}) /\ Len(AtMost(s, n)) \in Nat
         /\ AtMost(s, n) = <<>> <=> Len(AtMost(s, n)) = 0
<1> DEFINE m == Min({n, Len(s)})
           S == {s[i] : i \in 1..m}
<1>1. m \in Nat
  BY SmallerOfTwo
<1>2. AtMost(s, n) = SubSeq(s, 1, m)
  BY DEF AtMost
<1> HIDE DEF m
<1>3. 1 \in Int /\ m \in Int /\ \A i \in 1..m : s[i] \in S
  BY <1>1
<1> HIDE DEF S
<1>4. SubSeq(s, 1, m) \in Seq(S) /\ Len(SubSeq(s, 1, m)) = IF 1 <= m THEN m - 1 + 1 ELSE 0
  BY <1>3, SubSeqProperties
<1>5. Len(AtMost(s, n)) = m
  BY <1>1, <1>2, <1>4
<1>6. AtMost(s, n) = <<>> <=> Len(AtMost(s, n)) = 0
  BY <1>1, <1>2, <1>4, <1>5, EmptySeq
<1> QED
  BY <1>1, <1>5, <1>6 DEF m

\* Texts have a length each, and a number of words.
LEMMA MeasuresAreRising ==
  ASSUME NEW column \in Seq(Cell)
  PROVE  LET texts == Trimmed(column)
             counts == Sorted([i \in DOMAIN texts |-> Len(texts[i].words)])
         IN  /\ Rising(Lengths(column)) /\ Len(Lengths(column)) = Len(texts)
             /\ Rising(counts) /\ Len(counts) = Len(texts)
<1> DEFINE texts == Trimmed(column)
           lengths == [i \in DOMAIN texts |-> texts[i].length]
           words == [i \in DOMAIN texts |-> Len(texts[i].words)]
<1>1. Lengths(column) = Sorted(lengths)
  BY DEF Lengths
<1>2. texts \in Seq(Text)
  BY TrimmedIsTexts
<1> HIDE DEF texts
<1>3. DOMAIN texts = 1..Len(texts) /\ Len(texts) \in Nat
  BY <1>2
<1>4. \A i \in DOMAIN texts : texts[i].length \in Int /\ Len(texts[i].words) \in Int
  <2>1. \A t \in Text : t.length \in Nat /\ t.words \in Seq(Int)
    BY CellsAssumption
  <2>2. \A i \in DOMAIN texts : texts[i] \in Text
    BY <1>2
  <2> QED
    BY <2>1, <2>2
<1>5. lengths \in Seq(Int) /\ Len(lengths) = Len(texts)
  <2>1. lengths \in [1..Len(texts) -> Int]
    BY <1>3, <1>4
  <2> HIDE DEF lengths
  <2> QED
    BY <1>3, <2>1
<1>6. words \in Seq(Int) /\ Len(words) = Len(texts)
  <2>1. words \in [1..Len(texts) -> Int]
    BY <1>3, <1>4
  <2> HIDE DEF words
  <2> QED
    BY <1>3, <2>1
<1> HIDE DEF lengths, words
<1>7. Rising(Sorted(lengths)) /\ Len(Sorted(lengths)) = Len(texts)
  BY <1>5, SortedIsRising
<1>8. Rising(Sorted(words)) /\ Len(Sorted(words)) = Len(texts)
  BY <1>6, SortedIsRising
<1> QED
  BY <1>1, <1>7, <1>8 DEF words, texts

\* The panel of a text draws every text, and no pair without its first word.
LEMMA WordsAreDrawn ==
  ASSUME NEW column \in Seq(Cell)
  PROVE  LET words == ToSet(Terms(column, 1, Len(Grams(column, 1))))
             pairs == ToSet(Terms(column, 2, TOP_TERMS))
         IN  \A pair \in pairs : \E word \in words :
                word.value[1] = pair.value[1] /\ word.count >= pair.count
<1> DEFINE one == Grams(column, 1)
           two == Grams(column, 2)
           words == Terms(column, 1, Len(one))
           pairs == Terms(column, 2, TOP_TERMS)
<1>1. one \in Seq(WordRuns(1)) /\ Len(one) \in Nat
  <2>1. 1 \in Nat \ {0}
    OBVIOUS
  <2>2. one \in Seq(WordRuns(1))
    BY <2>1, GramsAreRuns
  <2> HIDE DEF one
  <2> QED
    BY <2>2
<1>2. TOP_TERMS \in Nat
  BY FiguresAssumption
<1>3. /\ DOMAIN words = 1..Len(words)
      /\ \A i \in 1..Len(words) : words[i].count = Cardinality(Holders(one, words[i].value))
      /\ \A v \in ToSet(one) : \E i \in 1..Len(words) : words[i].value = v
  <2> DEFINE L == Len(one)
             top == Terms(column, 1, L)
  <2>1. 1 \in Nat \ {0} /\ L \in Nat
    BY <1>1
  <2>2. words = top /\ Cardinality(ToSet(one)) \in 0..L
    BY <1>1, ValuesAreFinite
  <2> HIDE DEF L, words
  <2>3. Cardinality(ToSet(one)) <= L
    BY <2>1, <2>2
  <2>4. /\ DOMAIN top = 1..Len(top)
        /\ \A i \in 1..Len(top) : top[i].count = Cardinality(Holders(one, top[i].value))
        /\ \A v \in ToSet(one) : \E i \in 1..Len(top) : top[i].value = v
    BY <2>1, <2>3, TermsAreRanked
  <2> HIDE DEF top
  <2> QED
    BY <2>2, <2>4
<1>4. /\ DOMAIN pairs = 1..Len(pairs) /\ two \in Seq(WordRuns(2))
      /\ \A i \in 1..Len(pairs) :
            pairs[i].value \in ToSet(two) /\ pairs[i].count = Cardinality(Holders(two, pairs[i].value))
  <2>1. 2 \in Nat \ {0}
    OBVIOUS
  <2> QED
    BY <1>2, <2>1, TermsAreRanked
<1>5. \A p : Cardinality(Holders(two, p)) <= Cardinality(Holders(one, <<p[1]>>))
  BY PairsInColumn
<1> HIDE DEF one, two, words, pairs
<1>6. ASSUME NEW pair \in ToSet(pairs)
      PROVE  \E word \in ToSet(words) : word.value[1] = pair.value[1] /\ word.count >= pair.count
  <2> DEFINE v == <<pair.value[1]>>
  <2>1. pair.value \in ToSet(two) /\ pair.count = Cardinality(Holders(two, pair.value))
    <3>1. PICK i \in 1..Len(pairs) : pair = pairs[i]
      BY <1>4 DEF ToSet
    <3> QED
      BY <1>4, <3>1
  <2>2. Cardinality(Holders(two, pair.value)) # 0 /\ Cardinality(Holders(two, pair.value)) \in Nat
    BY <1>4, <2>1, HoldersAreCounted
  <2>3. Cardinality(Holders(one, v)) \in Nat
    BY <1>1, HoldersAreCounted
  <2>4. Cardinality(Holders(two, pair.value)) <= Cardinality(Holders(one, v))
    BY <1>5
  <2>5. v \in ToSet(one)
    <3>1. Cardinality(Holders(one, v)) # 0
      BY <2>2, <2>3, <2>4
    <3>2. Holders(one, v) # {}
      BY <3>1, FS_EmptySet
    <3> QED
      BY <3>2 DEF Holders, ToSet
  <2>6. PICK i \in 1..Len(words) : words[i].value = v
    BY <1>3, <2>5
  <2>7. words[i] \in ToSet(words) /\ words[i].count = Cardinality(Holders(one, v))
    BY <1>3, <2>6 DEF ToSet
  <2>8. words[i].value[1] = pair.value[1]
    BY <2>6
  <2>9. words[i].count >= pair.count
    BY <2>1, <2>2, <2>3, <2>4, <2>7
  <2> QED
    BY <2>7, <2>8, <2>9
<1> QED
  BY <1>6 DEF one, words, pairs

LEMMA TextsAreDrawn ==
  ASSUME NEW column \in Seq(Cell)
  PROVE  LET block == TextStats(column)
             present == Len(Trimmed(column))
         IN  /\ Total(block.length_bins) = present /\ Total(block.word_bins) = present
             /\ Total(block.top) + block.others_count = present
             /\ block.tokens_total = Len(Grams(column, 1))
             /\ block.top_words = <<>> <=> block.tokens_total = 0
             /\ block.top_pairs = Terms(column, 2, TOP_TERMS)
<1> DEFINE texts == Trimmed(column)
           block == TextStats(column)
           top == TopValues(column, TOP_VALUES)
           counts == Sorted([i \in DOMAIN texts |-> Len(texts[i].words)])
           cloud == Terms(column, 1, CLOUD_TERMS)
           tokens == Grams(column, 1)
<1>1. /\ block.length_bins = MeasureBins(Lengths(column)) /\ block.word_bins = MeasureBins(counts)
      /\ block.top = top /\ block.others_count = Above0(OthersCount(column, top))
      /\ block.tokens_total = Len(tokens) /\ block.top_words = AtMost(cloud, TOP_TERMS)
      /\ block.top_pairs = Terms(column, 2, TOP_TERMS)
  BY DEF TextStats, TokenTotals, RepeatedTexts
<1>2. TOP_TERMS \in Nat \ {0} /\ CLOUD_TERMS \in Nat \ {0} /\ TOP_VALUES \in Nat
      /\ CLOUD_TERMS >= TOP_TERMS
  BY FiguresAssumption
<1>3. Total(MeasureBins(Lengths(column))) = Len(texts) /\ Total(MeasureBins(counts)) = Len(texts)
  BY MeasuresAreRising, MeasureBinsHoldAll
<1>4. Total(top) + Above0(OthersCount(column, top)) = Len(texts)
  <2> DEFINE others == OthersCount(column, top)
  <2>1. others \in Nat /\ Total(top) + others = Len(texts)
    BY <1>2, TopsAreDrawn
  <2> HIDE DEF others
  <2>2. Above0(others) = others
    BY <2>1, MaxOfTwo DEF Above0
  <2> QED
    BY <2>1, <2>2 DEF others
<1>5. AtMost(cloud, TOP_TERMS) = <<>> <=> Len(tokens) = 0
  <2> DEFINE n == Cardinality(ToSet(tokens))
  <2>1. /\ tokens \in Seq(WordRuns(1)) /\ n \in 0..Len(tokens) /\ (n = 0 <=> tokens = <<>>)
        /\ Len(cloud) = Min({CLOUD_TERMS, n})
    <3>1. 1 \in Nat \ {0} /\ CLOUD_TERMS \in Nat
      BY <1>2
    <3> QED
      BY <3>1, TermsAreRanked
  <2> HIDE DEF cloud, tokens
  <2>2. Len(tokens) \in Nat /\ (tokens = <<>> <=> Len(tokens) = 0)
    BY <2>1, EmptySeq
  <2> HIDE DEF n
  <2>3. n \in Nat /\ (n = 0 <=> Len(tokens) = 0)
    BY <2>1, <2>2
  <2>4. Len(cloud) \in Nat /\ (Len(cloud) = 0 <=> n = 0)
    BY <1>2, <2>1, <2>3, SmallerOfTwo
  <2>5. Len(AtMost(cloud, TOP_TERMS)) = Min({TOP_TERMS, Len(cloud)})
        /\ (AtMost(cloud, TOP_TERMS) = <<>> <=> Len(AtMost(cloud, TOP_TERMS)) = 0)
    BY <1>2, <2>4, AtMostIs
  <2>6. Min({TOP_TERMS, Len(cloud)}) = 0 <=> Len(cloud) = 0
    BY <1>2, <2>4, SmallerOfTwo
  <2> QED
    BY <2>3, <2>4, <2>5, <2>6
<1> HIDE DEF block, top, counts, cloud, tokens, texts
<1> QED
  BY <1>1, <1>3, <1>4, <1>5 DEF block, tokens, texts

LEMMA DrawnHolds == IInv => EveryValueIsDrawn
<1> SUFFICES ASSUME IInv, NEW c \in DOMAIN file, NEW card \in Cards(c), NEW panel \in Panels(c)
             PROVE
            LET block == panel.block
                type == contract.types[c]
                present == panel.completeness.present
                strip == panel.presence
                Drawn(bins, n) == Total(bins) = n
            IN /\ Drawn(strip.slots, Len(file[c]))
               /\ Total([i \in DOMAIN strip.slots |-> [count |-> strip.slots[i].present]]) = present
               /\ Len(strip.slots) <= MATRIX_SLOTS
               /\ \A i \in DOMAIN strip.slots : strip.slots[i].count \in 1..strip.rows_per_slot
               /\ card.bins \notin {IndexError, <<>>} => Drawn(card.bins, card.conforming)
               /\ Valued(c) =>
                  CASE type = "numerical" -> Drawn(block.bins, block.conforming)
                    [] type = "date" ->
                         /\ \A chart \in {block.by_year, block.by_month, block.by_weekday,
                                          block.by_month_of_year} : Drawn(chart, block.conforming)
                         /\ \A chart \in {block.by_day, block.by_hour} :
                               chart = <<>> \/ Drawn(chart, block.conforming)
                         /\ block.days_seen <= block.days_in_span
                    [] type = "boolean" -> block.other_count \in 0..present
                    [] type = "categorical" ->
                         /\ Total(block.top) + block.others_count = present
                         /\ block.others_count >= block.others_distinct
                    [] type = "text" ->
                         /\ Drawn(block.length_bins, present) /\ Drawn(block.word_bins, present)
                         /\ Total(block.top) + block.others_count = present
                         /\ block.top_words = <<>> <=> block.tokens_total = 0
                         /\ \A words \in {ToSet(Terms(file[c], 1, block.tokens_total))},
                               pair \in ToSet(block.top_pairs) :
                               \E word \in words : /\ word.value[1] = pair.value[1]
                                                   /\ word.count >= pair.count
  BY DEF EveryValueIsDrawn
<1> DEFINE column == file[c]
           type == contract.types[c]
           block == panel.block
           present == Len(Trimmed(column))
<1>0. card = Card(column, type) /\ panel = Panel(column, type)
  BY DEF Cards, Panels
<1>1. column \in Seq(Cell) /\ type \in LogicalType
  <2>1. Typed
    BY DEF IInv
  <2>2. file \in Files /\ \A d \in DOMAIN file : file[d] \in Seq(Cell)
    BY <2>1, FileIsColumns DEF Typed
  <2> QED
    BY <2>1, <2>2 DEF Typed
<1>2. Valued(c) <=> Trimmed(column) # <<>>
  BY DEF Valued
<1> HIDE DEF column, type
<1>3. panel.completeness.present = present /\ panel.presence = Presence(column)
  BY <1>0, <1>1, PanelShows
<1>4. Valued(c) =>
         /\ type = "numerical" => block = NumericStats(column)
         /\ type = "categorical" => block = CategoricalStats(column)
         /\ type = "date" => block = DateStats(column)
         /\ type = "boolean" => block = BooleanStats(column)
         /\ type = "text" => block = TextStats(column)
  BY <1>0, <1>1, <1>2, PanelShows
<1>5. LET strip == panel.presence
      IN  /\ Total(strip.slots) = Len(column)
          /\ Total([i \in DOMAIN strip.slots |-> [count |-> strip.slots[i].present]]) = present
          /\ Len(strip.slots) <= MATRIX_SLOTS
          /\ \A i \in DOMAIN strip.slots : strip.slots[i].count \in 1..strip.rows_per_slot
  BY <1>1, <1>3, StripHoldsAll
<1>6. card.bins \notin {IndexError, <<>>} => Total(card.bins) = card.conforming
  <2> SUFFICES ASSUME card.bins \notin {IndexError, <<>>} PROVE Total(card.bins) = card.conforming
    OBVIOUS
  <2>1. card.kind \in {"numerical", "date"}
    BY <1>0, <1>1, CardShows
  <2>2. CASE card.kind = "numerical"
    <3>1. card.bins = CardBins(Numbers(column)) /\ card.conforming = Len(Numbers(column))
      BY <1>0, <1>1, <2>2, CardShows
    <3>2. Rising(Numbers(column))
      BY <1>1, NumbersAreRising
    <3> QED
      BY <3>1, <3>2, CardBinsHoldAll
  <2>3. CASE card.kind = "date"
    <3>1. card.bins = CardBins(Moments(column)) /\ card.conforming = Len(Moments(column))
      BY <1>0, <1>1, <2>3, CardShows
    <3>2. Rising(Moments(column))
      BY <1>1, MomentsAreRising
    <3> QED
      BY <3>1, <3>2, CardBinsHoldAll
  <2> QED
    BY <2>1, <2>2, <2>3
<1> HIDE DEF block, present
<1>7. Valued(c) /\ type = "numerical" => Total(block.bins) = block.conforming
  BY <1>1, <1>4, NumbersAreDrawn
<1>8. Valued(c) /\ type = "date" =>
         /\ \A chart \in {block.by_year, block.by_month, block.by_weekday,
                          block.by_month_of_year} : Total(chart) = block.conforming
         /\ \A chart \in {block.by_day, block.by_hour} :
               chart = <<>> \/ Total(chart) = block.conforming
         /\ block.days_seen <= block.days_in_span
  BY <1>1, <1>4, DatesAreDrawn
<1>9. Valued(c) /\ type = "boolean" => block.other_count \in 0..present
  BY <1>1, <1>4, BooleansAreDrawn DEF present
<1>10. Valued(c) /\ type = "categorical" =>
         /\ Total(block.top) + block.others_count = present
         /\ block.others_count >= block.others_distinct
  BY <1>1, <1>4, CategoriesAreDrawn DEF present
<1>11. Valued(c) /\ type = "text" =>
         /\ Total(block.length_bins) = present /\ Total(block.word_bins) = present
         /\ Total(block.top) + block.others_count = present
         /\ block.top_words = <<>> <=> block.tokens_total = 0
         /\ \A words \in {ToSet(Terms(column, 1, block.tokens_total))},
               pair \in ToSet(block.top_pairs) :
               \E word \in words : word.value[1] = pair.value[1] /\ word.count >= pair.count
  <2> SUFFICES ASSUME Valued(c), type = "text"
               PROVE  /\ Total(block.length_bins) = present /\ Total(block.word_bins) = present
                      /\ Total(block.top) + block.others_count = present
                      /\ block.top_words = <<>> <=> block.tokens_total = 0
                      /\ \A pair \in ToSet(block.top_pairs) :
                            \E word \in ToSet(Terms(column, 1, block.tokens_total)) :
                               word.value[1] = pair.value[1] /\ word.count >= pair.count
    OBVIOUS
  <2>1. block = TextStats(column)
    BY <1>4
  <2>2. /\ Total(block.length_bins) = present /\ Total(block.word_bins) = present
        /\ Total(block.top) + block.others_count = present
        /\ block.tokens_total = Len(Grams(column, 1))
        /\ block.top_words = <<>> <=> block.tokens_total = 0
        /\ block.top_pairs = Terms(column, 2, TOP_TERMS)
    BY <1>1, <2>1, TextsAreDrawn DEF present
  <2>3. \A pair \in ToSet(Terms(column, 2, TOP_TERMS)) :
           \E word \in ToSet(Terms(column, 1, Len(Grams(column, 1)))) :
              word.value[1] = pair.value[1] /\ word.count >= pair.count
    BY <1>1, WordsAreDrawn
  <2> QED
    BY <2>2, <2>3
<1>12. type \in {"numerical", "date", "boolean", "categorical", "text"}
  BY <1>1 DEF LogicalType
<1>13. Valued(c) =>
         CASE type = "numerical" -> Total(block.bins) = block.conforming
           [] type = "date" ->
                /\ \A chart \in {block.by_year, block.by_month,
                                 block.by_weekday, block.by_month_of_year} :
                      Total(chart) = block.conforming
                /\ \A chart \in {block.by_day, block.by_hour} :
                      chart = <<>> \/ Total(chart) = block.conforming
                /\ block.days_seen <= block.days_in_span
           [] type = "boolean" -> block.other_count \in 0..present
           [] type = "categorical" ->
                /\ Total(block.top) + block.others_count = present
                /\ block.others_count >= block.others_distinct
           [] type = "text" ->
                /\ Total(block.length_bins) = present
                /\ Total(block.word_bins) = present
                /\ Total(block.top) + block.others_count = present
                /\ block.top_words = <<>> <=> block.tokens_total = 0
                /\ \A words \in {ToSet(Terms(column, 1, block.tokens_total))},
                      pair \in ToSet(block.top_pairs) :
                      \E word \in words : /\ word.value[1] = pair.value[1]
                                          /\ word.count >= pair.count
  <2>1. CASE type = "numerical"
    BY <1>7, <2>1
  <2>2. CASE type = "date"
    BY <1>8, <2>2
  <2>3. CASE type = "boolean"
    BY <1>9, <2>3
  <2>4. CASE type = "categorical"
    BY <1>10, <2>4
  <2>5. CASE type = "text"
    BY <1>11, <2>5
  <2> QED
    BY <1>12, <2>1, <2>2, <2>3, <2>4, <2>5
<1> QED
  BY <1>3, <1>5, <1>6, <1>13 DEF column, type, block, present

(* No value is drawn twice or lost, on the card, the panel and its strip,  *)
(* for files of any size and every number of bins, slots and ranks.        *)
THEOREM DrawingsAreComplete == Spec => []EveryValueIsDrawn
<1>1. IInv => EveryValueIsDrawn
  BY DrawnHolds
<1> QED
  BY <1>1, InductiveInvariant, PTL

-----------------------------------------------------------------------------
(* Curves and marks reach their ends.                                      *)

\* The first and the last of numbers in order are the least and the greatest.
LEMMA EndsOfOrder ==
  ASSUME NEW P \in SUBSET Int, IsFiniteSet(P), NEW f, Ordered(f, P, LessThan), NEW x \in P
  PROVE  /\ Cardinality(P) \in Nat \ {0}
         /\ (\A y \in P : x <= y) => f[1] = x
         /\ (\A y \in P : y <= x) => f[Cardinality(P)] = x
<1> DEFINE n == Cardinality(P)
<1>1. /\ n \in Nat /\ f \in [1..n -> P] /\ \A y \in P : \E i \in 1..n : f[i] = y
      /\ \A i, j \in 1..n : i < j => <<f[i], f[j]>> \in LessThan
  BY DEF Ordered, Lists
<1> HIDE DEF n
<1>2. \A i, j \in 1..n : i < j => f[i] < f[j]
  <2>1. \A p \in LessThan : p[1] < p[2]
    BY DEF LessThan
  <2> QED
    BY <1>1, <2>1
<1>3. PICK k \in 1..n : f[k] = x
  BY <1>1
<1>4. n \in Nat \ {0} /\ 1 \in 1..n /\ n \in 1..n
  BY <1>1
<1>5. \A i \in 1..n : f[i] \in P /\ f[i] \in Int
  BY <1>1
<1>6. ASSUME \A y \in P : x <= y PROVE f[1] = x
  <2> SUFFICES ASSUME k # 1 PROVE FALSE
    BY <1>3
  <2>1. f[1] < f[k]
    BY <1>2, <1>4
  <2> QED
    BY <1>3, <1>4, <1>5, <1>6, <2>1
<1>7. ASSUME \A y \in P : y <= x PROVE f[n] = x
  <2> SUFFICES ASSUME k # n PROVE FALSE
    BY <1>3
  <2>1. f[k] < f[n]
    BY <1>2, <1>4
  <2> QED
    BY <1>3, <1>4, <1>5, <1>7, <2>1
<1> QED
  BY <1>4, <1>6, <1>7 DEF n

\* Between two places there are few multiples of a step.
LEMMA MultiplesAreFew ==
  ASSUME NEW e \in Nat \ {0}, NEW low \in Nat, NEW q \in Nat, NEW M,
         \A r \in M : r \in Nat /\ r % e = 0 /\ low < r /\ r <= low + e * q
  PROVE  IsFiniteSet(M) /\ Cardinality(M) <= q /\ Cardinality(M) \in Nat
<1> DEFINE h == low \div e
           T == (h + 1)..(h + q)
           f == [r \in M |-> r \div e]
<1>1. h \in Nat /\ low % e \in 0..(e - 1) /\ low = e * h + (low % e)
  <2>1. h \in Nat
    BY QuotientIsPositive
  <2>2. low % e \in 0..(e - 1) /\ low = e * h + (low % e)
    BY Division
  <2> QED
    BY <2>1, <2>2
<1>2. \A r \in M : f[r] \in Nat /\ r = e * f[r]
  <2> TAKE r \in M
  <2>1. r \in Nat /\ r % e = 0
    OBVIOUS
  <2>2. r \div e \in Nat
    BY <2>1, QuotientIsPositive
  <2>3. r = e * (r \div e) + (r % e)
    BY <2>1, Division
  <2> QED
    BY <2>1, <2>2, <2>3
<1>3. f \in [M -> Nat]
  <2>1. f = [r \in M |-> f[r]]
    OBVIOUS
  <2> HIDE DEF f
  <2> QED
    BY <1>2, <2>1
<1> HIDE DEF f, h
<1>4. ASSUME NEW r \in M PROVE f[r] \in T
  <2> DEFINE k == f[r]
  <2>1. k \in Nat /\ r = e * k /\ low < r /\ r <= low + e * q
    BY <1>2
  <2> HIDE DEF k
  <2>2. ASSUME k <= h PROVE FALSE
    <3>1. e * k <= e * h
      BY <1>1, <2>1, <2>2, ProductRises
    <3> QED
      BY <1>1, <2>1, <3>1
  <2>3. ASSUME h + q + 1 <= k PROVE FALSE
    <3>1. e * (h + q + 1) <= e * k
      BY <1>1, <2>1, <2>3, ProductRises
    <3>2. e * (h + q + 1) = e * h + e * q + e
      BY <1>1
    <3>3. e * h \in Nat /\ e * q \in Nat
      BY <1>1
    <3> QED
      BY <1>1, <2>1, <3>1, <3>2, <3>3
  <2> QED
    BY <1>1, <2>1, <2>2, <2>3 DEF k
<1>5. f \in Injection(M, T)
  <2>1. \A r, x \in M : f[r] = f[x] => r = x
    BY <1>2
  <2>2. f \in [M -> T]
    <3> HIDE DEF T
    <3> QED
      BY <1>3, <1>4
  <2> QED
    BY <2>1, <2>2 DEF Injection, IsInjective
<1>6. IsFiniteSet(T) /\ Cardinality(T) = q
  <2>1. h + 1 \in Int /\ h + q \in Int /\ (h + 1 > h + q => q = 0)
        /\ (h + q) - (h + 1) + 1 = q
    BY <1>1
  <2> QED
    BY <2>1, FS_Interval
<1> HIDE DEF T
<1> QED
  BY <1>5, <1>6, FS_Injection, FS_CardinalityType

\* A curve over ranks that include the last reaches all, and grows with every rank.
LEMMA CurveReaches ==
  ASSUME NEW A, NEW s \in Seq(A), NEW t, Ranks(t, s), NEW E, t \in Seq(E),
         NEW P \in SUBSET (1..Len(t)), Len(t) # 0 => Len(t) \in P
  PROVE  LET curve == Curve(t, P)
         IN  /\ Len(curve) = Cardinality(P)
             /\ curve # <<>> => Last(curve) = [rank |-> Cardinality(ToSet(s)), count |-> Len(s)]
             /\ \A i \in 2..Len(curve) : curve[i - 1].count < curve[i].count
<1> DEFINE n == Len(t)
           kept == InOrder(P, <)
           m == Cardinality(P)
           curve == Curve(t, P)
<1>1. n \in Nat /\ DOMAIN t = 1..n /\ n = Cardinality(ToSet(s))
      /\ \A k \in 1..n : t[k].count \in Nat \ {0}
  BY DEF Ranks
<1>2. Total(t) = Len(s)
  BY RankingAddsUp
<1> HIDE DEF n
<1>3. P \in SUBSET Int /\ IsFiniteSet(P)
  <2>1. IsFiniteSet(1..n)
    BY <1>1, CountTo
  <2>2. P \in SUBSET (1..n)
    BY DEF n
  <2>3. P \in SUBSET Int
    <3>1. \A i \in 1..n : i \in Int
      OBVIOUS
    <3> QED
      BY <2>2, <3>1
  <2>4. IsFiniteSet(P)
    BY <2>1, <2>2, FS_Subset
  <2> QED
    BY <2>3, <2>4
<1>4. Ordered(kept, P, LessThan)
  BY <1>3, PlacesInOrder
<1>5. curve = [i \in DOMAIN kept |-> [rank |-> kept[i], count |-> Total(SubSeq(t, 1, kept[i]))]]
  BY DEF Curve
<1> HIDE DEF kept, curve, m
<1>6. m \in Nat /\ kept \in [1..m -> P] /\ \A i, j \in 1..m : i < j => <<kept[i], kept[j]>> \in LessThan
  BY <1>4 DEF Ordered, Lists, m
<1>7. curve = [i \in 1..m |-> [rank |-> kept[i], count |-> Total(SubSeq(t, 1, kept[i]))]]
  BY <1>5, <1>6
<1>8. Len(curve) = m /\ curve \in Seq({curve[i] : i \in 1..m})
  <2>1. curve = [i \in 1..m |-> curve[i]]
    BY <1>7
  <2>2. \A i \in 1..m : curve[i] \in {curve[j] : j \in 1..m}
    OBVIOUS
  <2> QED
    BY <1>6, <2>1, <2>2, MadeIsSequence
<1>9. PICK b : Runs(t, n, b) /\ b[n] = Total(t)
  <2>1. \A k \in 1..n : t[k].count \in Nat
    BY <1>1
  <2> QED
    BY <1>1, <2>1, RunningOf
<1>10. ASSUME NEW k \in 1..n PROVE Total(SubSeq(t, 1, k)) = b[k]
  <2> DEFINE u == SubSeq(t, 1, k)
  <2>1. \A i \in 1..k : t[i] \in E
    BY <1>1
  <2>2. u \in Seq(E) /\ Len(u) = k /\ \A i \in 1..k : u[i] = t[i]
    BY <2>1, SubSeqProperties
  <2> HIDE DEF u
  <2>3. DOMAIN u = 1..k /\ k \in 0..n
    BY <2>2
  <2>4. \A j \in 1..n : t[j].count \in Nat
    BY <1>1
  <2>5. Total(u) = b[k]
    BY <1>1, <1>9, <2>2, <2>3, <2>4, TotalOfStart
  <2> QED
    BY <2>5 DEF u
<1>11. \A i \in 1..m : kept[i] \in 1..n
  BY <1>6 DEF n
<1>12. ASSUME NEW i \in 1..m
       PROVE  curve[i].rank = kept[i] /\ curve[i].count = b[kept[i]] /\ kept[i] \in 1..n
  BY <1>7, <1>10, <1>11
<1>13. ASSUME curve # <<>> PROVE Last(curve) = [rank |-> n, count |-> Len(s)]
  <2>1. m # 0
    BY <1>6, <1>8, <1>13, EmptySeq
  <2>2. n \in P
    <3>1. 1 \in 1..m
      BY <1>6, <2>1
    <3>2. n # 0
      BY <1>1, <1>11, <3>1
    <3> QED
      BY <3>2 DEF n
  <2>3. \A k \in P : k <= n
    BY <1>1 DEF n
  <2>4. kept[m] = n
    BY <1>3, <1>4, <2>2, <2>3, EndsOfOrder DEF m
  <2>5. m \in 1..m
    BY <1>6, <2>1
  <2>6. Last(curve) = curve[m]
    BY <1>8 DEF Last
  <2>7. curve[m] = [rank |-> kept[m], count |-> Total(SubSeq(t, 1, kept[m]))]
    BY <1>7, <2>5
  <2>8. n \in 1..n
    BY <1>12, <2>4, <2>5
  <2> QED
    BY <1>2, <1>9, <1>10, <2>4, <2>6, <2>7, <2>8
<1>14. ASSUME NEW i \in 2..m PROVE curve[i - 1].count < curve[i].count
  <2>1. i \in 1..m /\ i - 1 \in 1..m /\ i - 1 < i
    BY <1>6
  <2> DEFINE j == i - 1
  <2>2. j \in 1..m /\ j < i
    BY <2>1
  <2> HIDE DEF j
  <2>3. kept[j] < kept[i]
    <3>1. <<kept[j], kept[i]>> \in LessThan
      BY <1>6, <2>1, <2>2
    <3> QED
      BY <3>1 DEF LessThan
  <2>4. curve[i].count = b[kept[i]] /\ kept[i] \in 1..n
    BY <1>12, <2>1
  <2>5. curve[j].count = b[kept[j]] /\ kept[j] \in 1..n
    BY <1>12, <2>2
  <2>6. b[kept[i]] - b[kept[j]] >= kept[i] - kept[j]
    <3>1. kept[i] \in 0..n /\ kept[j] \in 0..n /\ kept[j] <= kept[i]
      BY <1>1, <2>3, <2>4, <2>5
    <3> QED
      BY <1>1, <1>9, <3>1, RunningGrows
  <2>7. b[kept[i]] \in Nat /\ b[kept[j]] \in Nat
    <3>1. b \in [0..n -> Nat] /\ kept[i] \in 0..n /\ kept[j] \in 0..n
      BY <1>9, <2>4, <2>5 DEF Runs
    <3> QED
      BY <3>1
  <2>8. b[kept[j]] < b[kept[i]]
    BY <2>3, <2>4, <2>5, <2>6, <2>7
  <2> QED
    BY <2>4, <2>5, <2>8 DEF j
<1> QED
  BY <1>1, <1>8, <1>13, <1>14 DEF curve, m

LEMMA UnionIsSmaller ==
  ASSUME NEW A, NEW B, IsFiniteSet(A), IsFiniteSet(B)
  PROVE  /\ IsFiniteSet(A \cup B) /\ Cardinality(A \cup B) \in Nat
         /\ Cardinality(A \cup B) <= Cardinality(A) + Cardinality(B)
<1>1. /\ IsFiniteSet(A \cup B)
      /\ Cardinality(A \cup B) = Cardinality(A) + Cardinality(B) - Cardinality(A \cap B)
  BY FS_Union
<1>2. IsFiniteSet(A \cap B)
  BY FS_Intersection
<1>3. Cardinality(A) \in Nat /\ Cardinality(B) \in Nat /\ Cardinality(A \cap B) \in Nat
      /\ Cardinality(A \cup B) \in Nat
  BY <1>1, <1>2, FS_CardinalityType
<1> QED
  BY <1>1, <1>3

\* The head, the steps after it and the last rank are few.
LEMMA KeptAreFew ==
  ASSUME NEW n \in Nat, NEW e \in Nat \ {0}, NEW head \in Nat, NEW q \in Nat, n <= head + e * q,
         NEW P \in SUBSET (1..n), \A r \in P : r <= head \/ r % e = 0 \/ r = n
  PROVE  Cardinality(P) <= head + q + 1 /\ Cardinality(P) \in Nat
<1> DEFINE H == 1..head
           M == {r \in 1..n : head < r /\ r % e = 0}
           L == {n}
<1>1. IsFiniteSet(H) /\ Cardinality(H) = head
  BY CountTo
<1>2. IsFiniteSet(M) /\ Cardinality(M) <= q /\ Cardinality(M) \in Nat
  <2>1. \A r \in 1..n : r \in Nat /\ r <= n
    OBVIOUS
  <2> DEFINE k == e * q
  <2>2. k \in Nat /\ n <= head + k
    OBVIOUS
  <2> HIDE DEF k
  <2>3. \A r \in 1..n : r <= head + k
    BY <2>1, <2>2
  <2>4. \A r \in M : r \in Nat /\ r % e = 0 /\ head < r /\ r <= head + e * q
    BY <2>1, <2>3 DEF k
  <2> HIDE DEF M
  <2> QED
    BY <2>4, MultiplesAreFew
<1>3. IsFiniteSet(L) /\ Cardinality(L) = 1
  BY FS_Singleton
<1>4. ASSUME NEW r \in P PROVE r \in (H \cup M) \cup L
  <2>1. r \in 1..n /\ (r <= head \/ r % e = 0 \/ r = n)
    OBVIOUS
  <2>2. CASE r <= head
    BY <2>1, <2>2
  <2>3. CASE ~(r <= head) /\ r % e = 0
    BY <2>1, <2>3
  <2>4. CASE r = n
    BY <2>4
  <2> QED
    BY <2>1, <2>2, <2>3, <2>4
<1> HIDE DEF H, M, L
<1>5. IsFiniteSet(H \cup M) /\ Cardinality(H \cup M) \in Nat /\ Cardinality(H \cup M) <= head + q
  <2>1. IsFiniteSet(H \cup M) /\ Cardinality(H \cup M) \in Nat
        /\ Cardinality(H \cup M) <= Cardinality(H) + Cardinality(M)
    BY <1>1, <1>2, UnionIsSmaller
  <2> QED
    BY <1>1, <1>2, <2>1
<1> DEFINE B == H \cup M
<1> HIDE DEF B
<1>6. IsFiniteSet(B \cup L) /\ Cardinality(B \cup L) \in Nat /\ Cardinality(B \cup L) <= head + q + 1
  <2>1. IsFiniteSet(B) /\ Cardinality(B) \in Nat /\ Cardinality(B) <= head + q
    BY <1>5 DEF B
  <2>2. IsFiniteSet(B \cup L) /\ Cardinality(B \cup L) \in Nat
        /\ Cardinality(B \cup L) <= Cardinality(B) + Cardinality(L)
    BY <1>3, <2>1, UnionIsSmaller
  <2> QED
    BY <1>3, <2>1, <2>2
<1>7. P \in SUBSET (B \cup L)
  BY <1>4 DEF B
<1>8. IsFiniteSet(P) /\ Cardinality(P) <= Cardinality(B \cup L)
  BY <1>6, <1>7, FS_Subset
<1> QED
  BY <1>6, <1>8, FS_CardinalityType

\* A sampled ranking ends at its last rank with everything counted, and is short.
LEMMA SampledReaches ==
  ASSUME NEW A, NEW s \in Seq(A), NEW t, Ranks(t, s), NEW E, t \in Seq(E)
  PROVE  LET curve == Sampled(t)
         IN  /\ curve # <<>> => Last(curve) = [rank |-> Cardinality(ToSet(s)), count |-> Len(s)]
             /\ \A i \in 2..Len(curve) : curve[i - 1].count < curve[i].count
             /\ Len(curve) <= CONCENTRATION_POINTS + 1
<1> DEFINE n == Len(t)
           head == CONCENTRATION_HEAD
           q == Max({1, CONCENTRATION_POINTS - head})
           a == Above0(n - head)
           c == CeilDiv(a, q)
           e == Max({1, c})
           P == {r \in 1..n : r <= head \/ r % e = 0 \/ r = n}
<1>1. n \in Nat
  BY DEF Ranks
<1>2. head \in Nat /\ q \in Nat \ {0} /\ head + q = CONCENTRATION_POINTS
  <2>1. CONCENTRATION_POINTS \in Nat \ {0}
        /\ CONCENTRATION_HEAD \in 0..(CONCENTRATION_POINTS - 1)
    BY FiguresAssumption
  <2> DEFINE d == CONCENTRATION_POINTS - head
  <2>2. d \in Nat \ {0} /\ head \in Nat /\ head + d = CONCENTRATION_POINTS
    BY <2>1
  <2> HIDE DEF d
  <2>3. Max({1, d}) = d
    BY <2>2, MaxOfTwo
  <2> QED
    BY <2>2, <2>3 DEF d
<1>3. Every(t) = e /\ Sampled(t) = Curve(t, P)
  BY DEF Every, Sampled
<1> HIDE DEF q, head
<1>4. a \in Nat /\ n <= head + a
  <2> DEFINE d == n - head
  <2>1. d \in Int /\ n = head + d
    BY <1>1, <1>2
  <2> HIDE DEF d
  <2>2. Max({0, d}) \in Int /\ Max({0, d}) = IF 0 <= d THEN d ELSE 0
    BY <2>1, MaxOfTwo
  <2>3. Max({0, d}) \in Nat /\ d <= Max({0, d})
    BY <2>1, <2>2
  <2>4. a = Max({0, d})
    BY DEF Above0, d
  <2> QED
    BY <1>1, <1>2, <2>1, <2>3, <2>4
<1> HIDE DEF a
<1>5. c \in Nat /\ a <= q * c
  BY <1>2, <1>4, CeilingOf
<1> HIDE DEF c
<1>6. e \in Nat \ {0} /\ c <= e
  BY <1>5, MaxOfTwo
<1> HIDE DEF e
<1>7. n <= head + e * q
  <2>1. q * c <= q * e /\ q * e = e * q /\ q * c \in Nat /\ q * e \in Nat
    BY <1>2, <1>5, <1>6, ProductRises
  <2> QED
    BY <1>1, <1>2, <1>4, <1>5, <2>1
<1>8. P \in SUBSET (1..n) /\ (n # 0 => n \in P) /\ \A r \in P : (r <= head \/ r % e = 0 \/ r = n)
  BY <1>1
<1> HIDE DEF P
<1>9. Cardinality(P) <= head + q + 1
  <2>1. q \in Nat
    BY <1>2
  <2> HIDE DEF n
  <2> QED
    BY <1>1, <1>2, <1>6, <1>7, <1>8, <2>1, KeptAreFew
<1>10. LET curve == Curve(t, P)
       IN  /\ Len(curve) = Cardinality(P)
           /\ curve # <<>> => Last(curve) = [rank |-> Cardinality(ToSet(s)), count |-> Len(s)]
           /\ \A i \in 2..Len(curve) : curve[i - 1].count < curve[i].count
  BY <1>8, CurveReaches
<1>11. head + q + 1 = CONCENTRATION_POINTS + 1
  BY <1>2
<1> QED
  BY <1>3, <1>9, <1>10, <1>11

\* The curve of a categorical column reaches all its values,
LEMMA CategoriesReach ==
  ASSUME NEW column \in Seq(Cell)
  PROVE  LET block == CategoricalStats(column)
             curve == block.concentration
         IN  /\ curve # <<>> =>
                  Last(curve) = [rank |-> Distinct(column), count |-> Len(Trimmed(column))]
             /\ \A i \in 2..Len(curve) : curve[i - 1].count < curve[i].count
             /\ Len(curve) <= CONCENTRATION_POINTS + 1
             /\ block.rare_categories <= Distinct(column)
<1> DEFINE s == Trimmed(column)
           t == Tally(s, Alphabetical)
           Rare == {i \in DOMAIN t : t[i].count < RARE_BELOW}
           block == CategoricalStats(column)
<1>1. s \in Seq(Text)
  BY TrimmedIsTexts
<1>2. /\ block.concentration = Sampled(t) /\ block.rare_categories = Cardinality(Rare)
      /\ Distinct(column) = Cardinality(ToSet(s))
  BY DEF CategoricalStats, HowMany, Distinct
<1> HIDE DEF s, block
<1>3. Ranks(t, s) /\ t \in Seq(Entries(s))
  BY <1>1, TextsAreRanked
<1> HIDE DEF t
<1>4. Rare \in SUBSET DOMAIN t
  OBVIOUS
<1> HIDE DEF Rare
<1>5. Cardinality(Rare) <= Len(t)
  BY <1>3, <1>4, PlacesAreFinite
<1>6. Len(t) = Cardinality(ToSet(s))
  BY <1>3 DEF Ranks
<1>7. LET curve == Sampled(t)
      IN  /\ curve # <<>> => Last(curve) = [rank |-> Cardinality(ToSet(s)), count |-> Len(s)]
          /\ \A i \in 2..Len(curve) : curve[i - 1].count < curve[i].count
          /\ Len(curve) <= CONCENTRATION_POINTS + 1
  BY <1>1, <1>3, SampledReaches
<1>8. block.rare_categories <= Distinct(column)
  BY <1>2, <1>5, <1>6
<1> QED
  BY <1>2, <1>7, <1>8 DEF s, block

\* and the curve of a text all its words.
LEMMA WordsReach ==
  ASSUME NEW column \in Seq(Cell)
  PROVE  LET block == TextStats(column)
             curve == block.vocabulary
         IN  /\ curve # <<>> =>
                  Last(curve) = [rank |-> block.tokens_distinct, count |-> block.tokens_total]
             /\ \A i \in 2..Len(curve) : curve[i - 1].count < curve[i].count
             /\ Len(curve) <= CONCENTRATION_POINTS + 1
<1> DEFINE s == Grams(column, 1)
           t == Tally(s, Lexical)
           block == TextStats(column)
<1>1. s \in Seq(WordRuns(1))
  BY GramsAreRuns
<1>2. /\ block.vocabulary = Sampled(t)
      /\ block.tokens_distinct = Cardinality(ToSet(s)) /\ block.tokens_total = Len(s)
  BY DEF TextStats, Vocabulary, TokenTotals
<1> HIDE DEF s, block
<1>3. Ranks(t, s) /\ t \in Seq(Entries(s))
  BY <1>1, GramsAreRanked
<1> HIDE DEF t
<1>4. LET curve == Sampled(t)
      IN  /\ curve # <<>> => Last(curve) = [rank |-> Cardinality(ToSet(s)), count |-> Len(s)]
          /\ \A i \in 2..Len(curve) : curve[i - 1].count < curve[i].count
          /\ Len(curve) <= CONCENTRATION_POINTS + 1
  BY <1>1, <1>3, SampledReaches
<1> QED
  BY <1>2, <1>4 DEF block

\* The first and the last of what is picked stand at the least and the greatest place.
LEMMA EndsOfPicked ==
  ASSUME NEW A, NEW s \in Seq(A), NEW P \in SUBSET DOMAIN s, NEW k \in P
  PROVE  LET t == Picked(s, P)
         IN  /\ t # <<>>
             /\ \E i \in P : Head(t) = s[i] /\ \A j \in P : i <= j
             /\ \E i \in P : Last(t) = s[i] /\ \A j \in P : j <= i
<1> DEFINE t == Picked(s, P)
           n == Len(t)
<1>1. t \in Seq(A)
  BY PickedIs
<1>2. PICK at : Picks(t, s, P, at)
  BY PickedIs
<1>3. DOMAIN s \in SUBSET Int
  BY PlacesAreFinite
<1> HIDE DEF t
<1>4. n \in Nat /\ n = Cardinality(P) /\ at \in [1..n -> P] /\ \A x \in P : \E i \in 1..n : at[i] = x
  BY <1>1, <1>2 DEF Picks, Lists
<1>5. /\ \A i, j \in 1..n : i < j => at[i] < at[j]
      /\ \A i \in 1..n : t[i] = s[at[i]]
  BY <1>2 DEF Picks
<1> HIDE DEF n
<1>6. n # 0 /\ 1 \in 1..n /\ n \in 1..n
  <2>1. PICK i \in 1..n : at[i] = k
    BY <1>4
  <2> QED
    BY <1>4, <2>1
<1>7. t # <<>>
  BY <1>1, <1>6, EmptySeq DEF n
<1>8. Head(t) = t[1] /\ Last(t) = t[n]
  BY <1>1, <1>7 DEF Last, n
<1>9. \A i \in 1..n : at[i] \in P /\ at[i] \in Int
  BY <1>3, <1>4
<1>10. \A j \in P : at[1] <= j
  <2> SUFFICES ASSUME NEW j \in P PROVE at[1] <= j
    OBVIOUS
  <2>1. PICK i \in 1..n : at[i] = j
    BY <1>4
  <2>2. 1 < i => at[1] < at[i]
    BY <1>5, <1>6
  <2> QED
    BY <1>6, <1>9, <2>1, <2>2
<1>11. \A j \in P : j <= at[n]
  <2> SUFFICES ASSUME NEW j \in P PROVE j <= at[n]
    OBVIOUS
  <2>1. PICK i \in 1..n : at[i] = j
    BY <1>4
  <2>2. i < n => at[i] < at[n]
    BY <1>5, <1>6
  <2>3. i < n \/ i = n
    BY <1>4
  <2> QED
    BY <1>6, <1>9, <2>1, <2>2, <2>3
<1>12. Head(t) = s[at[1]] /\ Last(t) = s[at[n]] /\ at[1] \in P /\ at[n] \in P
  BY <1>5, <1>6, <1>8, <1>9
<1> QED
  BY <1>7, <1>10, <1>11, <1>12 DEF t

\* Somebody is inside the fence: no column is all outliers.
LEMMA SomeoneInside ==
  ASSUME NEW s, Rising(s), s # <<>>
  PROVE  LET fence == Fence(s, IQR_K)
         IN  \E i \in 1..Len(s) : fence.low <= 8 * s[i] /\ 8 * s[i] <= fence.high
<1> DEFINE fence == Fence(s, IQR_K)
           n == Len(s)
           a == Quantile(s, 1, 4)
           b == Quantile(s, 3, 4)
           i == PlaceAt(s, 1, 4)
           j == PlaceAt(s, 3, 4)
<1>0. 4 \in Nat \ {0} /\ 1 \in 0..4 /\ 3 \in 0..4
  OBVIOUS
<1>1. /\ a \in Int /\ b \in Int /\ a <= b
      /\ fence.low = 2 * a - 3 * (b - a) /\ fence.high = 2 * b + 3 * (b - a)
  BY FenceIsOpen
<1>2. n \in Nat \ {0} /\ \A k \in 1..n : s[k] \in Int
  BY EndsOfRising
<1>3. \A k, l \in 1..n : k <= l => s[k] <= s[l]
  BY DEF Rising
<1>4. /\ i \in 0..(n - 1)
      /\ i = n - 1 => a = 4 * s[i + 1]
      /\ i < n - 1 => /\ a = 4 * s[i + 1] + Way(s, 1, 4) * (s[i + 2] - s[i + 1])
                      /\ 4 * s[i + 1] <= a /\ a <= 4 * s[i + 2]
  BY <1>0, PlaceOfQuantile, QuantileIsBetween
<1>5. /\ j \in 0..(n - 1)
      /\ j = n - 1 => b = 4 * s[j + 1]
      /\ j < n - 1 => /\ b = 4 * s[j + 1] + Way(s, 3, 4) * (s[j + 2] - s[j + 1])
                      /\ 4 * s[j + 1] <= b /\ b <= 4 * s[j + 2]
  BY <1>0, PlaceOfQuantile, QuantileIsBetween
<1>6. i = (n - 1) \div 4 /\ j = (3 * (n - 1)) \div 4
      /\ Way(s, 1, 4) = (n - 1) % 4 /\ Way(s, 3, 4) = (3 * (n - 1)) % 4
  BY <1>2 DEF PlaceAt, Way
<1> HIDE DEF fence, n, a, b, i, j
<1>7. CASE n = 1
  <2>1. i = 0 /\ j = 0 /\ 1 \in 1..n /\ s[1] \in Int
    BY <1>2, <1>4, <1>5, <1>7
  <2> DEFINE x == s[1]
  <2>2. x \in Int /\ a = 4 * x /\ b = 4 * x
    BY <1>4, <1>5, <1>7, <2>1
  <2> HIDE DEF x
  <2>3. fence.low = 8 * x /\ fence.high = 8 * x
    BY <1>1, <2>2
  <2>4. 8 * x \in Int
    BY <2>2
  <2>5. fence.low <= 8 * s[1] /\ 8 * s[1] <= fence.high
    BY <2>3, <2>4 DEF x
  <2> QED
    BY <2>1, <2>5 DEF fence, n
<1>8. CASE n = 2
  <2>1. i = 0 /\ j = 0 /\ Way(s, 1, 4) = 1 /\ Way(s, 3, 4) = 3
    BY <1>6, <1>8
  <2>2. 1 \in 1..n /\ 2 \in 1..n /\ s[1] \in Int /\ s[2] \in Int /\ s[1] <= s[2]
    BY <1>2, <1>3, <1>8
  <2>3. a = 4 * s[1] + (s[2] - s[1]) /\ b = 4 * s[1] + 3 * (s[2] - s[1])
    BY <1>4, <1>5, <1>8, <2>1, <2>2
  <2> DEFINE x == s[1]
             y == s[2]
  <2>4. x \in Int /\ y \in Int /\ x <= y /\ a = 4 * x + (y - x) /\ b = 4 * x + 3 * (y - x)
    BY <2>2, <2>3
  <2> HIDE DEF x, y
  <2>5. a = 3 * x + y /\ b = x + 3 * y /\ b - a = 2 * y - 2 * x
    BY <2>4
  <2>6. fence.low = 12 * x - 4 * y /\ fence.high = 12 * y - 4 * x
    BY <1>1, <2>4, <2>5
  <2>7. 12 * x - 4 * y <= 8 * x /\ 8 * x <= 12 * y - 4 * x
    BY <2>4
  <2>8. fence.low <= 8 * s[1] /\ 8 * s[1] <= fence.high
    BY <2>6, <2>7 DEF x
  <2> QED
    BY <2>2, <2>8 DEF fence, n
<1>9. CASE n >= 3
  <2>1. i + 2 \in 1..n /\ i + 1 <= j
    BY <1>2, <1>6, <1>9
  <2>2. i + 2 <= j + 1 /\ j + 1 \in 1..n /\ i < n - 1
    BY <1>2, <1>5, <2>1, <1>4
  <2>3. s[i + 2] \in Int /\ s[j + 1] \in Int /\ s[i + 2] <= s[j + 1]
    BY <1>2, <1>3, <2>1, <2>2
  <2>4. a <= 4 * s[i + 2] /\ 4 * s[j + 1] <= b
    BY <1>1, <1>2, <1>4, <1>5, <2>2, <2>3
  <2>5. fence.low <= 8 * s[i + 2] /\ 8 * s[i + 2] <= fence.high
    BY <1>1, <2>3, <2>4
  <2> QED
    BY <2>1, <2>5 DEF fence, n
<1> QED
  BY <1>2, <1>7, <1>8, <1>9

\* The whiskers stop inside the numbers, and at both ends only when nobody is outside.
LEMMA WhiskersReach ==
  ASSUME NEW s, Rising(s), s # <<>>
  PROVE  LET fence == Fence(s, IQR_K)
             w == Whiskers(s, fence)
         IN  /\ Head(s) <= w[1] /\ w[1] <= w[2] /\ w[2] <= Last(s)
             /\ Outside(s, fence) = 0 <=> w = <<Head(s), Last(s)>>
<1> DEFINE fence == Fence(s, IQR_K)
           n == Len(s)
           U == {i \in DOMAIN s : 8 * s[i] >= fence.low}
           D == {i \in DOMAIN s : 8 * s[i] <= fence.high}
           O == {i \in DOMAIN s : 8 * s[i] < fence.low \/ 8 * s[i] > fence.high}
           w == Whiskers(s, fence)
<1>1. /\ n \in Nat \ {0} /\ DOMAIN s = 1..n
      /\ Head(s) = s[1] /\ Last(s) = s[n]
      /\ \A i \in 1..n : s[i] \in Int /\ s[1] <= s[i] /\ s[i] <= s[n]
  BY EndsOfRising
<1>2. \A i, j \in 1..n : i <= j => s[i] <= s[j]
  BY DEF Rising
<1>3. fence.low \in Int /\ fence.high \in Int
  BY FenceIsOpen
<1>4. PICK k \in 1..n : fence.low <= 8 * s[k] /\ 8 * s[k] <= fence.high
  BY SomeoneInside
<1>5. s \in Seq(Int)
  BY DEF Rising
<1>6. Outside(s, fence) = Cardinality(O)
  BY DEF Outside, HowMany
<1>7. w = <<IF Picked(s, U) = <<>> THEN Head(s) ELSE Head(Picked(s, U)),
            IF Picked(s, D) = <<>> THEN Last(s) ELSE Last(Picked(s, D))>>
  BY DEF Whiskers, Kept
<1> HIDE DEF fence, n, w
<1>8. k \in U /\ k \in D /\ U \in SUBSET DOMAIN s /\ D \in SUBSET DOMAIN s
  BY <1>1, <1>3, <1>4
<1>9. PICK i \in U : Head(Picked(s, U)) = s[i] /\ \A x \in U : i <= x
  <2> HIDE DEF U, D
  <2> QED
    BY <1>5, <1>8, EndsOfPicked
<1>10. PICK j \in D : Last(Picked(s, D)) = s[j] /\ \A x \in D : x <= j
  <2> HIDE DEF U, D
  <2> QED
    BY <1>5, <1>8, EndsOfPicked
<1>11. w = <<s[i], s[j]>>
  <2>1. Picked(s, U) # <<>> /\ Picked(s, D) # <<>>
    <3> HIDE DEF U, D
    <3> QED
      BY <1>5, <1>8, EndsOfPicked
  <2> QED
    BY <1>7, <1>9, <1>10, <2>1
<1>12. i \in 1..n /\ j \in 1..n /\ i <= k /\ k <= j
       /\ 8 * s[i] >= fence.low /\ 8 * s[j] <= fence.high
  BY <1>1, <1>8, <1>9, <1>10
<1>13. s[1] <= s[i] /\ s[i] <= s[j] /\ s[j] <= s[n]
  <2>1. i <= j
    BY <1>12
  <2> QED
    BY <1>1, <1>2, <1>12, <2>1
<1>14. Outside(s, fence) = 0 <=> O = {}
  <2>1. IsFiniteSet(O)
    BY <1>5, PlacesAreFinite
  <2> HIDE DEF O
  <2> QED
    BY <1>6, <2>1, FS_EmptySet
<1>15. ASSUME O = {} PROVE s[i] = s[1] /\ s[j] = s[n]
  <2>1. 1 \in 1..n /\ n \in 1..n
    BY <1>1
  <2>2. 1 \in U /\ n \in D
    <3>1. ~(8 * s[1] < fence.low) /\ ~(8 * s[n] > fence.high)
      BY <1>1, <1>15, <2>1
    <3>2. 8 * s[1] \in Int /\ 8 * s[n] \in Int
      BY <1>1, <2>1
    <3>3. 8 * s[1] >= fence.low /\ 8 * s[n] <= fence.high
      BY <1>3, <3>1, <3>2
    <3> QED
      BY <1>1, <2>1, <3>3
  <2>3. i = 1 /\ j = n
    BY <1>1, <1>9, <1>10, <1>12, <2>2
  <2> QED
    BY <2>3
<1>16. ASSUME s[i] = s[1], s[j] = s[n] PROVE O = {}
  <2> SUFFICES ASSUME NEW x \in 1..n, 8 * s[x] < fence.low \/ 8 * s[x] > fence.high
               PROVE  FALSE
    BY <1>1
  <2>1. s[x] \in Int /\ s[1] <= s[x] /\ s[x] <= s[n] /\ s[1] \in Int /\ s[n] \in Int
    BY <1>1
  <2>2. 8 * s[1] >= fence.low /\ 8 * s[n] <= fence.high
    BY <1>12, <1>16
  <2> QED
    BY <1>3, <2>1, <2>2
<1>17. w = <<Head(s), Last(s)>> <=> s[i] = s[1] /\ s[j] = s[n]
  BY <1>1, <1>11
<1>18. Head(s) <= w[1] /\ w[1] <= w[2] /\ w[2] <= Last(s)
  BY <1>1, <1>11, <1>13
<1> QED
  BY <1>14, <1>15, <1>16, <1>17, <1>18 DEF w, fence

\* The cumulative distribution runs from the least to the greatest.
LEMMA DistributionReaches ==
  ASSUME NEW s, Rising(s), s # <<>>, NEW d \in Nat \ {0}
  PROVE  LET e == [i \in 1..(d + 1) |-> Quantile(s, i - 1, d)]
         IN  /\ e[1] = d * Head(s) /\ Last(e) = d * Last(s)
             /\ \A i \in 2..Len(e) : e[i - 1] <= e[i]
<1> DEFINE e == [i \in 1..(d + 1) |-> Quantile(s, i - 1, d)]
           n == Len(s)
<1>1. /\ n \in Nat \ {0} /\ Head(s) = s[1] /\ Last(s) = s[n]
      /\ \A i \in 1..n : s[i] \in Int
  BY EndsOfRising
<1> HIDE DEF n
<1>2. Len(e) = d + 1 /\ Last(e) = e[d + 1]
  <2>1. \A p \in 0..d : Quantile(s, p, d) \in Int
    BY QuantileIsBetween
  <2>2. \A i \in 1..(d + 1) : i - 1 \in 0..d
    OBVIOUS
  <2>3. e \in [1..(d + 1) -> Int]
    BY <2>1, <2>2
  <2> HIDE DEF e
  <2>4. e \in Seq(Int) /\ Len(e) = d + 1
    BY <2>3
  <2> QED
    BY <2>4 DEF Last
<1>3. e[1] = d * s[1]
  <2>1. 0 \in 0..d /\ 1 \in 1..(d + 1) /\ 1 - 1 = 0
    OBVIOUS
  <2>2. e[1] = Quantile(s, 0, d)
    BY <2>1
  <2>3. PlaceAt(s, 0, d) = 0 /\ Way(s, 0, d) = 0
    <3>1. (n - 1) * 0 = 0
      BY <1>1
    <3>2. 0 \div d = 0 /\ 0 % d = 0
      OBVIOUS
    <3> QED
      BY <3>1, <3>2 DEF PlaceAt, Way, n
  <2>4. /\ PlaceAt(s, 0, d) = n - 1 => Quantile(s, 0, d) = d * s[PlaceAt(s, 0, d) + 1]
        /\ PlaceAt(s, 0, d) < n - 1 =>
             Quantile(s, 0, d) = d * s[PlaceAt(s, 0, d) + 1]
                + Way(s, 0, d) * (s[PlaceAt(s, 0, d) + 2] - s[PlaceAt(s, 0, d) + 1])
    BY <2>1, QuantileIsBetween DEF n
  <2>5. CASE n = 1
    BY <2>2, <2>3, <2>4, <2>5
  <2>6. CASE n > 1
    <3> DEFINE x == s[1]
               y == s[2]
    <3>1. x \in Int /\ y \in Int
      BY <1>1, <2>6
    <3>2. Quantile(s, 0, d) = d * x + 0 * (y - x)
      BY <1>1, <2>3, <2>4, <2>6
    <3> HIDE DEF x, y
    <3>3. Quantile(s, 0, d) = d * x
      BY <3>1, <3>2
    <3> QED
      BY <2>2, <3>3 DEF x
  <2> QED
    BY <1>1, <2>5, <2>6
<1>4. e[d + 1] = d * s[n]
  <2>1. d \in 0..d /\ d + 1 \in 1..(d + 1) /\ (d + 1) - 1 = d /\ 0 \in 0..(d - 1)
    OBVIOUS
  <2>2. e[d + 1] = Quantile(s, d, d)
    BY <2>1
  <2> HIDE DEF e
  <2>3. PlaceAt(s, d, d) = n - 1
    <3> DEFINE x == (n - 1) * d
    <3>1. x \in Int /\ n - 1 \in Int /\ x = d * (n - 1) + 0
      BY <1>1
    <3>2. PlaceAt(s, d, d) = x \div d
      BY DEF PlaceAt, n
    <3> HIDE DEF x
    <3> QED
      BY <2>1, <3>1, <3>2, QuotientIs
  <2>4. PlaceAt(s, d, d) = n - 1 => Quantile(s, d, d) = d * s[PlaceAt(s, d, d) + 1]
    BY <2>1, QuantileIsBetween DEF n
  <2>5. (n - 1) + 1 = n
    BY <1>1
  <2> QED
    BY <2>2, <2>3, <2>4, <2>5
<1>5. ASSUME NEW i \in 2..(d + 1) PROVE e[i - 1] <= e[i]
  <2>1. i \in 1..(d + 1) /\ i - 1 \in 1..(d + 1)
    OBVIOUS
  <2>2. e[i] = Quantile(s, i - 1, d) /\ e[i - 1] = Quantile(s, (i - 1) - 1, d)
    BY <2>1
  <2>3. i - 1 \in 0..d /\ (i - 1) - 1 \in 0..d /\ (i - 1) - 1 <= i - 1
    OBVIOUS
  <2> HIDE DEF e
  <2> QED
    BY <2>2, <2>3, QuantilesRise
<1> QED
  BY <1>1, <1>2, <1>3, <1>4, <1>5 DEF e

\* Every so many places there are few places.
LEMMA StepsAreFew ==
  ASSUME NEW m \in Nat, NEW e \in Nat \ {0}, NEW q \in Nat, m <= e * q
  PROVE  LET M == {i \in 1..m : (i - 1) % e = 0}
         IN  IsFiniteSet(M) /\ Cardinality(M) <= q /\ Cardinality(M) \in Nat
<1> DEFINE M == {i \in 1..m : (i - 1) % e = 0}
           T == 0..(q - 1)
           f == [i \in M |-> (i - 1) \div e]
<1>1. \A i \in M : f[i] \in Nat /\ i - 1 = e * f[i] /\ i \in 1..m
  <2> TAKE i \in M
  <2> DEFINE x == i - 1
  <2>1. x \in Nat /\ x % e = 0 /\ f[i] = x \div e /\ i \in 1..m
    OBVIOUS
  <2> HIDE DEF x
  <2>2. x \div e \in Nat
    BY <2>1, QuotientIsPositive
  <2>3. x = e * (x \div e) + (x % e)
    BY <2>1, Division
  <2>4. x = e * (x \div e)
    BY <2>1, <2>2, <2>3
  <2> QED
    BY <2>1, <2>2, <2>4 DEF x
<1>2. f \in [M -> Nat]
  <2>1. f = [i \in M |-> f[i]]
    OBVIOUS
  <2> HIDE DEF f
  <2> QED
    BY <1>1, <2>1
<1> HIDE DEF f, M
<1>3. ASSUME NEW i \in M PROVE f[i] \in T
  <2> DEFINE k == f[i]
  <2>1. k \in Nat /\ i - 1 = e * k /\ i \in 1..m
    BY <1>1
  <2> HIDE DEF k
  <2>2. ASSUME q <= k PROVE FALSE
    <3>1. e * q <= e * k
      BY <2>1, <2>2, ProductRises
    <3>2. e * q \in Nat /\ e * k \in Nat
      BY <2>1
    <3> QED
      BY <2>1, <3>1, <3>2
  <2> QED
    BY <2>1, <2>2 DEF k
<1>4. f \in Injection(M, T)
  <2>1. \A i, j \in M : f[i] = f[j] => i = j
    BY <1>1
  <2>2. f \in [M -> T]
    <3> HIDE DEF T
    <3> QED
      BY <1>2, <1>3
  <2> QED
    BY <2>1, <2>2 DEF Injection, IsInjective
<1>5. IsFiniteSet(T) /\ Cardinality(T) = q
  BY FS_Interval
<1> HIDE DEF T
<1>6. IsFiniteSet(M) /\ Cardinality(M) <= q
  BY <1>4, <1>5, FS_Injection
<1>7. Cardinality(M) \in Nat
  BY <1>6, FS_CardinalityType
<1> QED
  BY <1>6, <1>7 DEF M

\* The marks of the rug include the least and the greatest, and are few.
LEMMA RugReaches ==
  ASSUME NEW s, Rising(s), s # <<>>
  PROVE  LET rug == Rug(s)
         IN  /\ rug[1].value = Head(s) /\ Last(rug).value = Last(s)
             /\ Len(rug) <= RUG_POINTS + 1
<1> DEFINE V == ToSet(s)
           m == Cardinality(V)
           marks == InOrder(V, <)
           c == CeilDiv(Len(marks), RUG_POINTS)
           e == Max({1, c})
           K == {i \in DOMAIN marks : (i - 1) % e = 0 \/ i = Len(marks)}
           kept == InOrder(K, <)
           q == Cardinality(K)
           rug == Rug(s)
<1>1. /\ Len(s) \in Nat \ {0} /\ DOMAIN s = 1..Len(s)
      /\ Head(s) = s[1] /\ Last(s) = s[Len(s)]
      /\ \A i \in 1..Len(s) : s[i] \in Int /\ Head(s) <= s[i] /\ s[i] <= Last(s)
  BY EndsOfRising
<1>2. s \in Seq(Int)
  BY DEF Rising
<1>3. /\ V \in SUBSET Int /\ IsFiniteSet(V)
      /\ Head(s) \in V /\ Last(s) \in V
      /\ \A v \in V : Head(s) <= v /\ v <= Last(s)
  <2>1. IsFiniteSet(V)
    BY <1>2, ValuesAreFinite
  <2>2. 1 \in 1..Len(s) /\ Len(s) \in 1..Len(s)
    BY <1>1
  <2>3. \A v \in V : \E i \in 1..Len(s) : v = s[i]
    BY <1>1 DEF ToSet
  <2>4. Head(s) \in V /\ Last(s) \in V
    BY <1>1, <2>2 DEF ToSet
  <2> HIDE DEF V
  <2> QED
    BY <1>1, <2>1, <2>3, <2>4
<1>4. Rug(s) = [i \in DOMAIN kept |-> [value |-> marks[kept[i]],
                                       count |-> HowMany(s, LAMBDA x : x = marks[kept[i]])]]
  BY DEF Rug
<1> HIDE DEF V
<1>5. Ordered(marks, V, LessThan)
  BY <1>3, PlacesInOrder
<1> HIDE DEF marks
<1>6. m \in Nat \ {0} /\ marks[1] = Head(s) /\ marks[m] = Last(s)
  BY <1>3, <1>5, EndsOfOrder
<1>7. marks \in [1..m -> V] /\ DOMAIN marks = 1..m /\ Len(marks) = m
  <2>1. marks \in [1..m -> V]
    BY <1>5 DEF Ordered, Lists
  <2> HIDE DEF m
  <2>2. marks \in Seq(V) /\ Len(marks) = m /\ DOMAIN marks = 1..m
    BY <1>6, <2>1
  <2> QED
    BY <2>1, <2>2
<1> HIDE DEF m
<1>8. RUG_POINTS \in Nat \ {0}
  BY FiguresAssumption
<1>9. c \in Nat /\ m <= RUG_POINTS * c
  BY <1>6, <1>7, <1>8, CeilingOf
<1> HIDE DEF c
<1>10. e \in Nat \ {0} /\ c <= e
  BY <1>9, MaxOfTwo
<1> HIDE DEF e
<1>11. m <= e * RUG_POINTS
  <2>1. RUG_POINTS * c <= RUG_POINTS * e /\ RUG_POINTS * e = e * RUG_POINTS
        /\ RUG_POINTS * c \in Nat /\ RUG_POINTS * e \in Nat
    BY <1>8, <1>9, <1>10, ProductRises
  <2> QED
    BY <1>6, <1>9, <2>1
<1>12. K = {i \in 1..m : (i - 1) % e = 0 \/ i = m}
  BY <1>7
<1>13. /\ K \in SUBSET Int /\ IsFiniteSet(K) /\ 1 \in K /\ m \in K
       /\ \A i \in K : 1 <= i /\ i <= m
  <2>1. K \in SUBSET (1..m)
    BY <1>12
  <2>2. IsFiniteSet(1..m)
    BY <1>6, CountTo
  <2>3. IsFiniteSet(K)
    BY <2>1, <2>2, FS_Subset
  <2>4. 0 % e = 0 /\ 1 - 1 = 0
    BY <1>10
  <2>5. 1 \in 1..m /\ m \in 1..m /\ 1..m \in SUBSET Int
    BY <1>6
  <2>6. 1 \in K /\ m \in K
    BY <1>12, <2>4, <2>5
  <2> HIDE DEF K
  <2> QED
    BY <1>6, <2>1, <2>3, <2>5, <2>6
<1>14. q <= RUG_POINTS + 1
  <2> DEFINE M == {i \in 1..m : (i - 1) % e = 0}
             L == {m}
  <2>1. IsFiniteSet(M) /\ Cardinality(M) <= RUG_POINTS /\ Cardinality(M) \in Nat
    BY <1>6, <1>8, <1>10, <1>11, StepsAreFew
  <2>2. IsFiniteSet(L) /\ Cardinality(L) = 1
    BY FS_Singleton
  <2>3. K \in SUBSET (M \cup L)
    BY <1>12
  <2> HIDE DEF M, L, K
  <2>4. IsFiniteSet(M \cup L) /\ Cardinality(M \cup L) \in Nat
        /\ Cardinality(M \cup L) <= Cardinality(M) + Cardinality(L)
    BY <2>1, <2>2, UnionIsSmaller
  <2>5. q \in Nat /\ q <= Cardinality(M \cup L)
    BY <1>13, <2>3, <2>4, FS_Subset, FS_CardinalityType
  <2> HIDE DEF q
  <2> QED
    BY <1>8, <2>1, <2>2, <2>4, <2>5
<1> HIDE DEF K
<1>15. Ordered(kept, K, LessThan)
  BY <1>13, PlacesInOrder
<1> HIDE DEF kept
<1>16. q \in Nat \ {0} /\ kept[1] = 1 /\ kept[q] = m
  BY <1>13, <1>15, EndsOfOrder
<1>17. DOMAIN kept = 1..q
  BY <1>15 DEF Ordered, Lists
<1> HIDE DEF q
<1>18. Len(rug) = q /\ rug[1].value = marks[kept[1]] /\ rug[q].value = marks[kept[q]]
  <2>1. rug = [i \in 1..q |-> [value |-> marks[kept[i]],
                               count |-> HowMany(s, LAMBDA x : x = marks[kept[i]])]]
    BY <1>4, <1>17
  <2>2. 1 \in 1..q /\ q \in 1..q
    BY <1>16
  <2>3. rug[1].value = marks[kept[1]] /\ rug[q].value = marks[kept[q]]
    BY <2>1, <2>2
  <2>4. rug = [i \in 1..q |-> rug[i]]
    BY <2>1
  <2> DEFINE R == {rug[i] : i \in 1..q}
  <2>5. \A i \in 1..q : rug[i] \in R
    OBVIOUS
  <2> HIDE DEF rug, R
  <2>6. Len(rug) = q
    BY <1>16, <2>4, <2>5, MadeIsSequence
  <2> QED
    BY <2>3, <2>6
<1> HIDE DEF rug
<1>19. Last(rug) = rug[q]
  BY <1>18 DEF Last
<1> QED
  BY <1>6, <1>14, <1>16, <1>18, <1>19 DEF rug

\* The panel of a column of numbers.
LEMMA NumbersReach ==
  ASSUME NEW column \in Seq(Cell), NumericStats(column).conforming > 0
  PROVE  LET block == NumericStats(column)
         IN  /\ block.ecdf[1] = ECDF_POINTS * block.low
             /\ Last(block.ecdf) = ECDF_POINTS * block.high
             /\ \A i \in 2..Len(block.ecdf) : block.ecdf[i - 1] <= block.ecdf[i]
             /\ block.rug[1].value = block.low /\ Last(block.rug).value = block.high
             /\ Len(block.rug) <= RUG_POINTS + 1
             /\ block.low <= block.whiskers[1] /\ block.whiskers[1] <= block.whiskers[2]
             /\ block.whiskers[2] <= block.high
             /\ block.outlier_count = 0 <=> block.whiskers = <<block.low, block.high>>
<1> DEFINE s == Numbers(column)
           fence == Fence(s, IQR_K)
           e == [i \in 1..(ECDF_POINTS + 1) |-> Quantile(s, i - 1, ECDF_POINTS)]
           block == NumericStats(column)
<1>1. Rising(s)
  BY NumbersAreRising
<1>2. s # <<>>
  <2> SUFFICES ASSUME s = <<>> PROVE FALSE
    OBVIOUS
  <2>1. block.conforming = 0
    BY DEF NumericStats, NoNumbers
  <2> QED
    BY <2>1
<1>3. /\ block.low = Head(s) /\ block.high = Last(s) /\ block.ecdf = e /\ block.rug = Rug(s)
      /\ block.whiskers = Whiskers(s, fence) /\ block.outlier_count = Outside(s, fence)
  BY <1>2 DEF NumericStats
<1>4. ECDF_POINTS \in Nat \ {0}
  BY FiguresAssumption
<1> HIDE DEF s, block
<1>5. /\ e[1] = ECDF_POINTS * Head(s) /\ Last(e) = ECDF_POINTS * Last(s)
      /\ \A i \in 2..Len(e) : e[i - 1] <= e[i]
  BY <1>1, <1>2, <1>4, DistributionReaches
<1>6. Rug(s)[1].value = Head(s) /\ Last(Rug(s)).value = Last(s) /\ Len(Rug(s)) <= RUG_POINTS + 1
  BY <1>1, <1>2, RugReaches
<1> DEFINE w == Whiskers(s, fence)
<1>7. /\ Head(s) <= w[1] /\ w[1] <= w[2] /\ w[2] <= Last(s)
      /\ Outside(s, fence) = 0 <=> w = <<Head(s), Last(s)>>
  BY <1>1, <1>2, WhiskersReach
<1> HIDE DEF e, w, fence
<1>8. block.whiskers = w
  BY <1>3 DEF w
<1> QED
  BY <1>3, <1>5, <1>6, <1>7, <1>8 DEF block

LEMMA CurvesHold == IInv => CurvesReachTheEnd
<1> SUFFICES ASSUME IInv, NEW c \in DOMAIN file, Valued(c), NEW panel \in Panels(c)
             PROVE
        LET block == panel.block
            type == contract.types[c]
            Reaches(curve, ranks, all) ==
                /\ curve # <<>> => Last(curve) = [rank |-> ranks, count |-> all]
                /\ \A i \in 2..Len(curve) : curve[i - 1].count < curve[i].count
                /\ Len(curve) <= CONCENTRATION_POINTS + 1
        IN CASE type = "categorical" ->
                  /\ Reaches(block.concentration, panel.distinct, panel.completeness.present)
                  /\ block.rare_categories <= panel.distinct
             [] type = "text" ->
                  Reaches(block.vocabulary, block.tokens_distinct, block.tokens_total)
             [] type = "numerical" /\ block.conforming > 0 ->
                  /\ block.ecdf[1] = ECDF_POINTS * block.low
                  /\ Last(block.ecdf) = ECDF_POINTS * block.high
                  /\ \A i \in 2..Len(block.ecdf) : block.ecdf[i - 1] <= block.ecdf[i]
                  /\ block.rug[1].value = block.low /\ Last(block.rug).value = block.high
                  /\ Len(block.rug) <= RUG_POINTS + 1
                  /\ block.low <= block.whiskers[1] /\ block.whiskers[1] <= block.whiskers[2]
                  /\ block.whiskers[2] <= block.high
                  /\ block.outlier_count = 0 <=> block.whiskers = <<block.low, block.high>>
             [] OTHER -> TRUE
  BY DEF CurvesReachTheEnd
<1> DEFINE column == file[c]
           type == contract.types[c]
           block == panel.block
           Reaches(curve, ranks, all) ==
                /\ curve # <<>> => Last(curve) = [rank |-> ranks, count |-> all]
                /\ \A i \in 2..Len(curve) : curve[i - 1].count < curve[i].count
                /\ Len(curve) <= CONCENTRATION_POINTS + 1
           Categories ==
                /\ Reaches(block.concentration, panel.distinct, panel.completeness.present)
                /\ block.rare_categories <= panel.distinct
           Words == Reaches(block.vocabulary, block.tokens_distinct, block.tokens_total)
           Marks ==
                /\ block.ecdf[1] = ECDF_POINTS * block.low
                /\ Last(block.ecdf) = ECDF_POINTS * block.high
                /\ \A i \in 2..Len(block.ecdf) : block.ecdf[i - 1] <= block.ecdf[i]
                /\ block.rug[1].value = block.low /\ Last(block.rug).value = block.high
                /\ Len(block.rug) <= RUG_POINTS + 1
                /\ block.low <= block.whiskers[1] /\ block.whiskers[1] <= block.whiskers[2]
                /\ block.whiskers[2] <= block.high
                /\ block.outlier_count = 0 <=> block.whiskers = <<block.low, block.high>>
<1>0. panel = Panel(column, type) /\ Trimmed(column) # <<>>
  BY DEF Panels, Valued
<1>1. column \in Seq(Cell) /\ type \in LogicalType
  <2>1. Typed
    BY DEF IInv
  <2>2. file \in Files /\ \A d \in DOMAIN file : file[d] \in Seq(Cell)
    BY <2>1, FileIsColumns DEF Typed
  <2> QED
    BY <2>1, <2>2 DEF Typed
<1> HIDE DEF column, type
<1>2. /\ panel.completeness.present = Len(Trimmed(column)) /\ panel.distinct = Distinct(column)
      /\ type = "numerical" => block = NumericStats(column)
      /\ type = "categorical" => block = CategoricalStats(column)
      /\ type = "text" => block = TextStats(column)
  BY <1>0, <1>1, PanelShows
<1> HIDE DEF block
<1>3. ASSUME type = "categorical" PROVE Categories
  BY <1>1, <1>2, <1>3, CategoriesReach
<1>4. ASSUME type = "text" PROVE Words
  BY <1>1, <1>2, <1>4, WordsReach
<1>5. ASSUME type = "numerical", block.conforming > 0 PROVE Marks
  <2>1. block = NumericStats(column) /\ NumericStats(column).conforming > 0
    BY <1>2, <1>5
  <2> QED
    BY <1>1, <2>1, NumbersReach
<1> HIDE DEF Categories, Words, Marks
<1>6. (CASE type = "categorical" -> Categories
         [] type = "text" -> Words
         [] type = "numerical" /\ block.conforming > 0 -> Marks
         [] OTHER -> TRUE)
  BY <1>3, <1>4, <1>5
<1> QED
  BY <1>6 DEF Categories, Words, Marks, type, block

(* A sampled curve keeps its two ends and never falls, for every column,   *)
(* every number of points and every step between them.                     *)
THEOREM CurvesAreComplete == Spec => []CurvesReachTheEnd
<1>1. IInv => CurvesReachTheEnd
  BY CurvesHold
<1> QED
  BY <1>1, InductiveInvariant, PTL

-----------------------------------------------------------------------------
(* The reports account for the rows.                                       *)

HolesOf(column) == {r \in DOMAIN column : ~Present(column[r])}
Gap(data, c) ==
  LET s == Statistics(data[c])
  IN  [subject |-> c, missing |-> s.total - s.non_null, present |-> s.non_null,
       missing_share |-> Share(s.total - s.non_null, s.total)]
Gaps(data) == {g \in {Gap(data, c) : c \in DOMAIN data} : g.missing > 0 /\ g.missing_share >= 0}

\* What a column misses is its rows without a value.
LEMMA HolesAreMissing ==
  ASSUME NEW column \in Seq(Cell)
  PROVE  /\ IsFiniteSet(HolesOf(column)) /\ Cardinality(HolesOf(column)) \in Nat
         /\ Statistics(column).total - Statistics(column).non_null = Cardinality(HolesOf(column))
         /\ Len(column) \in Nat /\ Len(Trimmed(column)) \in Nat
         /\ Len(Trimmed(column)) + Cardinality(HolesOf(column)) = Len(column)
<1> DEFINE S == DOMAIN column
           A == HasValue(column)
           B == HolesOf(column)
<1>1. IsFiniteSet(S) /\ Cardinality(S) = Len(column) /\ Len(column) \in Nat
  <2>1. S = 1..Len(column) /\ Len(column) \in Nat
    OBVIOUS
  <2> QED
    BY <2>1, CountTo
<1>2. A \cup B = S /\ A \cap B = {}
  BY DEF HasValue, HolesOf
<1>3. Cardinality(A) = Len(Trimmed(column))
  BY TrimmedIsTexts
<1>4. Statistics(column).total = Len(column) /\ Statistics(column).non_null = Len(Trimmed(column))
  BY StatisticsCount
<1> HIDE DEF A, B, S
<1>5. IsFiniteSet(B) /\ Cardinality(A) \in Nat /\ Cardinality(B) \in Nat
      /\ Cardinality(A) + Cardinality(B) = Cardinality(S)
  BY <1>1, <1>2, PartsAddUp
<1>6. Len(column) - Len(Trimmed(column)) = Cardinality(B)
  BY <1>1, <1>3, <1>5
<1> QED
  BY <1>1, <1>3, <1>4, <1>5, <1>6 DEF B

LEMMA ShareIsPositive ==
  ASSUME NEW part \in Nat, NEW whole \in Nat PROVE Share(part, whole) \in Nat
<1>1. CASE whole = 0
  BY <1>1 DEF Share
<1>2. CASE whole # 0
  <2> DEFINE h == whole \div 2
             x == 10000 * part + h
  <2>1. h \in Nat
    BY QuotientIsPositive
  <2> HIDE DEF h
  <2>2. x \in Nat
    BY <2>1
  <2>3. Share(part, whole) = x \div whole
    BY <1>2 DEF Share, h
  <2> HIDE DEF x
  <2> QED
    BY <1>2, <2>2, <2>3, QuotientIsPositive
<1> QED
  BY <1>1, <1>2

\* The report lists the columns with holes, each once.
LEMMA MissingIsListed ==
  ASSUME NEW data \in Files
  PROVE  LET holes == Missing(data, 0)
         IN  /\ ToSet(holes) = Gaps(data)
             /\ \A g \in Gaps(data) : g.subject \in DOMAIN data /\ g = Gap(data, g.subject)
             /\ \A c \in DOMAIN data : Gap(data, c).missing = Cardinality(HolesOf(data[c]))
             /\ \A c \in DOMAIN data :
                   Cardinality(HolesOf(data[c])) > 0 => Gap(data, c) \in Gaps(data)
<1> DEFINE E == Gaps(data)
           Before(f, g) == f.missing > g.missing \/ (f.missing = g.missing /\ f.subject < g.subject)
           R == {p \in E \X E : Before(p[1], p[2])}
           t == Missing(data, 0)
           n == Cardinality(E)
<1>1. DOMAIN data = 1..Len(data) /\ Len(data) \in Nat /\ \A c \in DOMAIN data : data[c] \in Seq(Cell)
  BY FileIsColumns
<1>2. ASSUME NEW c \in DOMAIN data
      PROVE  /\ Gap(data, c).subject = c
             /\ Gap(data, c).missing = Cardinality(HolesOf(data[c]))
             /\ Gap(data, c).missing \in Nat /\ Gap(data, c).missing_share \in Nat
  <2> DEFINE s == Statistics(data[c])
  <2>1. s.total - s.non_null \in Nat /\ s.total - s.non_null = Cardinality(HolesOf(data[c]))
        /\ s.total \in Nat
    BY <1>1, HolesAreMissing, StatisticsCount
  <2>2. Share(s.total - s.non_null, s.total) \in Nat
    <3> HIDE DEF s
    <3> QED
      BY <2>1, ShareIsPositive
  <2> QED
    BY <2>1, <2>2 DEF Gap
<1>3. \A g \in E : g.subject \in DOMAIN data /\ g = Gap(data, g.subject) /\ g.missing \in Nat
  BY <1>2 DEF Gaps
<1>4. \A c \in DOMAIN data : Cardinality(HolesOf(data[c])) > 0 => Gap(data, c) \in E
  <2> SUFFICES ASSUME NEW c \in DOMAIN data, Cardinality(HolesOf(data[c])) > 0
               PROVE  Gap(data, c) \in E
    OBVIOUS
  <2>1. Gap(data, c).missing > 0 /\ Gap(data, c).missing_share >= 0
    BY <1>2
  <2> QED
    BY <2>1 DEF Gaps
<1>5. IsFiniteSet(E)
  <2> DEFINE f == [g \in E |-> g.subject]
  <2>1. f \in [E -> DOMAIN data]
    BY <1>3
  <2>2. \A x, y \in E : f[x] = f[y] => x = y
    BY <1>3
  <2>3. IsFiniteSet(DOMAIN data)
    BY <1>1, CountTo
  <2> HIDE DEF E, f
  <2>4. f \in Injection(E, DOMAIN data)
    BY <2>1, <2>2 DEF Injection, IsInjective
  <2> QED
    BY <2>3, <2>4, FS_Injection
<1>6. StrictOrder(E, R)
  <2>1. \A f, g \in E : <<f, g>> \in R <=> Before(f, g)
    OBVIOUS
  <2>2. \A f \in E : f.missing \in Nat /\ f.subject \in Nat
    BY <1>1, <1>3
  <2>3. \A f, g \in E : f.subject = g.subject => f = g
    BY <1>3
  <2> HIDE DEF E, R
  <2>4. \A f \in E : ~Before(f, f)
    BY <2>2
  <2>5. \A f, g, h \in E : Before(f, g) /\ Before(g, h) => Before(f, h)
    BY <2>2
  <2>6. \A f, g \in E : f = g \/ Before(f, g) \/ Before(g, f)
    BY <2>2, <2>3
  <2> HIDE DEF Before
  <2> QED
    BY <2>1, <2>4, <2>5, <2>6 DEF StrictOrder
<1>7. \A b \in E : Predecessors(E, R, b) = {a \in E : Before(a, b)}
  <2>1. \A f, g \in E : <<f, g>> \in R <=> Before(f, g)
    OBVIOUS
  <2> HIDE DEF R, Before
  <2> QED
    BY <2>1 DEF Predecessors
<1>8. t = [i \in 1..n |-> CHOOSE b \in E : Cardinality({a \in E : Before(a, b)}) = i - 1]
  BY DEF Missing, InOrder, Gaps, Gap
<1>9. ASSUME NEW i \in 1..n PROVE t[i] \in E /\ Cardinality(Predecessors(E, R, t[i])) = i - 1
  <2>1. \E b \in E : Cardinality(Predecessors(E, R, b)) = i - 1
    <3> HIDE DEF E, R
    <3> QED
      BY <1>5, <1>6, PlaceIsTaken
  <2>2. \E b \in E : Cardinality({a \in E : Before(a, b)}) = i - 1
    <3> HIDE DEF E, R, Before
    <3> QED
      BY <1>7, <2>1
  <2>3. t[i] = CHOOSE b \in E : Cardinality({a \in E : Before(a, b)}) = i - 1
    <3> HIDE DEF t, E, Before
    <3> QED
      BY <1>8
  <2>4. t[i] \in E /\ Cardinality({a \in E : Before(a, t[i])}) = i - 1
    <3> HIDE DEF t, E, Before
    <3> QED
      BY <2>2, <2>3
  <2> HIDE DEF t, E, R, Before
  <2> QED
    BY <1>7, <2>4
<1>10. t = [i \in 1..n |-> t[i]]
  <2> HIDE DEF E, Before
  <2> QED
    BY <1>8
<1>11. Lists(t, E)
  <2> HIDE DEF t, E, R, Before
  <2>1. Ordered(t, E, R)
    BY <1>5, <1>6, <1>9, <1>10, PlacesAreOrdered DEF n
  <2> QED
    BY <2>1 DEF Ordered
<1>12. ToSet(t) = E
  <2> HIDE DEF t, E
  <2>1. DOMAIN t = 1..Cardinality(E) /\ \A i \in 1..Cardinality(E) : t[i] \in E
    BY <1>11 DEF Lists
  <2>2. \A g \in E : \E i \in 1..Cardinality(E) : t[i] = g
    BY <1>11 DEF Lists
  <2> QED
    BY <2>1, <2>2 DEF ToSet
<1> QED
  BY <1>2, <1>3, <1>4, <1>12

\* Two columns are missing together no more often than either.
LEMMA TogetherIsFewer ==
  ASSUME NEW data \in Files, NEW p \in CoMissing(data, Missing(data, 0)),
         NEW f \in ToSet(Missing(data, 0)), NEW i \in {1, 2}, f.subject = p.subject[i]
  PROVE  p.missing_together <= f.missing
<1> DEFINE Both(a, b) == {r \in Rows(data) : Hole(data, a, r) /\ Hole(data, b, r)}
           H == HolesOf(data[f.subject])
<1>1. PICK a, b : p = [subject |-> <<a, b>>, missing_together |-> Cardinality(Both(a, b))]
  BY DEF CoMissing
<1>2. f.subject = a \/ f.subject = b
  BY <1>1
<1>3. /\ f.subject \in DOMAIN data /\ f.missing = Cardinality(H)
  BY MissingIsListed
<1>4. /\ data[f.subject] \in Seq(Cell) /\ Len(data[f.subject]) = Len(data[1])
      /\ data # <<>> /\ data[1] \in Seq(Cell)
  <2>1. /\ data # <<>> /\ DOMAIN data = 1..Len(data) /\ data \in Seq(Seq(Cell))
        /\ \A c \in DOMAIN data : data[c] \in Seq(Cell) /\ Len(data[c]) = Len(data[1])
    BY FileIsColumns
  <2>2. 1 \in DOMAIN data
    BY <2>1, EmptySeq
  <2> QED
    BY <1>3, <2>1, <2>2
<1>5. Rows(data) = DOMAIN data[f.subject]
  BY <1>4 DEF Rows
<1>6. Both(a, b) \in SUBSET H
  BY <1>2, <1>5 DEF HolesOf, Hole
<1>7. IsFiniteSet(H)
  BY <1>4, HolesAreMissing
<1>8. p.missing_together = Cardinality(Both(a, b))
  BY <1>1
<1> HIDE DEF Both, H
<1>9. Cardinality(Both(a, b)) <= Cardinality(H)
  BY <1>6, <1>7, FS_Subset
<1> QED
  BY <1>3, <1>8, <1>9

\* The rows with one key, and the keys that several rows have.
Alike(R, K, r) == {q \in R : K[q] = K[r]}
Repeated(R, K) == {r \in R : Cardinality(Alike(R, K, r)) > 1}
Classes(R, K, rows) == {Alike(R, K, r) : r \in rows}
KeysOf(R, K) == {K[r] : r \in R}

LEMMA AlikeIsAClass ==
  ASSUME NEW R, IsFiniteSet(R), NEW K
  PROVE  /\ \A r \in R : /\ r \in Alike(R, K, r) /\ Alike(R, K, r) \in SUBSET R
                         /\ IsFiniteSet(Alike(R, K, r)) /\ Cardinality(Alike(R, K, r)) \in Nat \ {0}
                         /\ \A q \in Alike(R, K, r) : Alike(R, K, q) = Alike(R, K, r)
         /\ \A r \in R : r \notin Repeated(R, K) <=> Alike(R, K, r) = {r}
<1>1. ASSUME NEW r \in R
      PROVE  /\ r \in Alike(R, K, r) /\ Alike(R, K, r) \in SUBSET R
             /\ IsFiniteSet(Alike(R, K, r)) /\ Cardinality(Alike(R, K, r)) \in Nat \ {0}
             /\ \A q \in Alike(R, K, r) : Alike(R, K, q) = Alike(R, K, r)
  <2>1. r \in Alike(R, K, r) /\ Alike(R, K, r) \in SUBSET R
        /\ \A q \in Alike(R, K, r) : Alike(R, K, q) = Alike(R, K, r)
    BY DEF Alike
  <2>2. IsFiniteSet(Alike(R, K, r)) /\ Cardinality(Alike(R, K, r)) \in Nat
    BY <2>1, FS_Subset, FS_CardinalityType
  <2>3. Cardinality(Alike(R, K, r)) # 0
    BY <2>1, <2>2, FS_EmptySet
  <2> QED
    BY <2>1, <2>2, <2>3
<1>2. ASSUME NEW r \in R PROVE r \notin Repeated(R, K) <=> Alike(R, K, r) = {r}
  <2> DEFINE A == Alike(R, K, r)
  <2>1. r \in Repeated(R, K) <=> Cardinality(A) > 1
    BY DEF Repeated
  <2>2. r \in A /\ IsFiniteSet(A) /\ Cardinality(A) \in Nat \ {0}
    BY <1>1
  <2> HIDE DEF A
  <2>3. Cardinality({r}) = 1
    BY FS_Singleton
  <2>4. Cardinality({r}) = Cardinality(A) => {r} = A
    <3>1. {r} \in SUBSET A
      BY <2>2
    <3> QED
      BY <2>2, <3>1, FS_Subset
  <2>5. Cardinality(A) > 1 \/ Cardinality(A) = 1
    BY <2>2
  <2> QED
    BY <2>1, <2>3, <2>4, <2>5 DEF A
<1> QED
  BY <1>1, <1>2

\* Dropping all but one row of every class leaves as many rows as there are keys.
LEMMA ClassesAddUp ==
  ASSUME NEW R, IsFiniteSet(R), NEW K
  PROVE  LET kept == KeysOf(R, K)
             groups == Classes(R, K, Repeated(R, K))
         IN  /\ UNION groups = Repeated(R, K) /\ IsFiniteSet(groups)
             /\ Cardinality(groups) \in Nat /\ Cardinality(Repeated(R, K)) \in Nat
             /\ Cardinality(R) \in Nat /\ Cardinality(kept) \in Nat
             /\ Cardinality(R) - Cardinality(Repeated(R, K)) + Cardinality(groups)
                   = Cardinality(kept)
<1> DEFINE kept == KeysOf(R, K)
           U == Repeated(R, K)
           V == R \ U
           groups == Classes(R, K, U)
           single == Classes(R, K, V)
           all == Classes(R, K, R)
<1>1. U \in SUBSET R /\ U \cup V = R /\ U \cap V = {}
  BY DEF Repeated
<1>2. /\ \A r \in R : r \in Alike(R, K, r) /\ Alike(R, K, r) \in SUBSET R
      /\ \A r \in R : \A q \in Alike(R, K, r) : Alike(R, K, q) = Alike(R, K, r)
      /\ \A r \in R : r \notin U <=> Alike(R, K, r) = {r}
  BY AlikeIsAClass
<1> HIDE DEF U
<1>3. UNION groups = U
  <2>1. ASSUME NEW r \in U, NEW q \in Alike(R, K, r) PROVE q \in U
    <3>1. r \in R /\ q \in R /\ Alike(R, K, q) = Alike(R, K, r) /\ r \in Alike(R, K, r)
      BY <1>1, <1>2, <2>1
    <3> QED
      BY <1>2, <2>1, <3>1
  <2> QED
    BY <1>1, <1>2, <2>1 DEF Classes
<1>4. IsFiniteSet(kept) /\ IsFiniteSet(all) /\ Cardinality(all) = Cardinality(kept)
  <2> DEFINE f == [r \in R |-> K[r]]
             g == [k \in kept |-> {q \in R : K[q] = k}]
  <2>1. IsFiniteSet(kept)
    <3>1. f \in Surjection(R, kept)
      BY DEF Surjection, KeysOf
    <3> HIDE DEF f, kept
    <3> QED
      BY <3>1, FS_Surjection
  <2>2. \A r \in R : K[r] \in kept /\ g[K[r]] = Alike(R, K, r)
    BY DEF Alike, KeysOf
  <2>3. \A k \in kept : \E r \in R : k = K[r]
    BY DEF KeysOf
  <2>4. g = [k \in kept |-> g[k]]
    OBVIOUS
  <2> HIDE DEF g, kept
  <2>5. g \in [kept -> all]
    <3>1. \A k \in kept : g[k] \in all
      BY <2>2, <2>3 DEF Classes
    <3> QED
      BY <2>4, <3>1
  <2>6. \A j, k \in kept : g[j] = g[k] => j = k
    <3> SUFFICES ASSUME NEW j \in kept, NEW k \in kept, g[j] = g[k] PROVE j = k
      OBVIOUS
    <3>1. PICK r \in R : j = K[r]
      BY <2>3
    <3>2. PICK q \in R : k = K[q]
      BY <2>3
    <3>3. r \in Alike(R, K, q)
      BY <1>2, <2>2, <3>1, <3>2
    <3> QED
      BY <3>1, <3>2, <3>3 DEF Alike
  <2>7. \A z \in all : \E k \in kept : g[k] = z
    BY <2>2 DEF Classes
  <2> HIDE DEF all
  <2> QED
    BY <2>1, <2>5, <2>6, <2>7, MappedIsAsLarge
<1>5. /\ IsFiniteSet(U) /\ IsFiniteSet(V) /\ Cardinality(U) \in Nat /\ Cardinality(V) \in Nat
      /\ Cardinality(U) + Cardinality(V) = Cardinality(R)
  <2> HIDE DEF V
  <2> QED
    BY <1>1, PartsAddUp
<1>6. Cardinality(single) = Cardinality(V)
  <2> DEFINE f == [r \in V |-> Alike(R, K, r)]
  <2>1. \A r \in V : f[r] = {r}
    BY <1>2
  <2>2. f \in [V -> single]
    BY DEF Classes
  <2>3. \A z \in single : \E r \in V : f[r] = z
    BY DEF Classes
  <2> HIDE DEF f, single, V
  <2>4. \A r, q \in V : f[r] = f[q] => r = q
    BY <2>1
  <2> QED
    BY <1>5, <2>2, <2>3, <2>4, MappedIsAsLarge
<1>7. groups \cup single = all /\ groups \cap single = {}
  <2>1. groups \cup single = all
    BY <1>1 DEF Classes
  <2>2. ASSUME NEW z \in groups, z \in single PROVE FALSE
    <3>1. PICK r \in U : z = Alike(R, K, r)
      BY DEF Classes
    <3>2. PICK q \in V : z = Alike(R, K, q)
      BY <2>2 DEF Classes
    <3>3. z = {q} /\ r \in z
      BY <1>1, <1>2, <3>1, <3>2
    <3>4. r = q
      BY <3>3
    <3> QED
      BY <1>1, <3>1, <3>2, <3>4
  <2> QED
    BY <2>1, <2>2
<1> HIDE DEF groups, single, all, kept, V
<1>8. /\ IsFiniteSet(groups) /\ Cardinality(groups) \in Nat
      /\ Cardinality(groups) + Cardinality(single) = Cardinality(all)
  BY <1>4, <1>7, PartsAddUp
<1>9. Cardinality(R) \in Nat /\ Cardinality(kept) \in Nat
  BY <1>4, FS_CardinalityType
<1>10. Cardinality(R) - Cardinality(U) + Cardinality(groups) = Cardinality(kept)
  BY <1>4, <1>5, <1>6, <1>8, <1>9
<1> QED
  BY <1>3, <1>5, <1>8, <1>9, <1>10 DEF U, groups, kept

\* Every group of duplicates has two rows of its own.
LEMMA GroupsAreTwo ==
  ASSUME NEW R, IsFiniteSet(R), NEW K
  PROVE  Cardinality(Repeated(R, K)) >= 2 * Cardinality(Classes(R, K, Repeated(R, K)))
<1> DEFINE U == Repeated(R, K)
           groups == Classes(R, K, U)
           f == [z \in groups |-> CHOOSE x \in z : TRUE]
           g == [z \in groups |-> CHOOSE x \in z : x # f[z]]
           A == {f[z] : z \in groups}
           B == {g[z] : z \in groups}
<1>1. U \in SUBSET R
  BY DEF Repeated
<1>2. /\ \A r \in R : r \in Alike(R, K, r)
      /\ \A r \in R : \A q \in Alike(R, K, r) : Alike(R, K, q) = Alike(R, K, r)
      /\ \A r \in R : r \notin U <=> Alike(R, K, r) = {r}
  BY AlikeIsAClass
<1>3. UNION groups = U /\ IsFiniteSet(groups) /\ Cardinality(groups) \in Nat
      /\ Cardinality(U) \in Nat
  BY ClassesAddUp
<1>4. IsFiniteSet(U)
  BY <1>1, FS_Subset
<1> HIDE DEF U
<1>5. ASSUME NEW z \in groups
      PROVE  /\ \E x \in z : TRUE
             /\ \A x \in z : \E y \in z : y # x
             /\ \A x \in z : Alike(R, K, x) = z
  <2>1. PICK r \in U : z = Alike(R, K, r)
    BY DEF Classes
  <2>2. r \in R /\ z # {r} /\ r \in z
    BY <1>1, <1>2, <2>1
  <2>3. PICK q \in z : q # r
    BY <2>2
  <2>4. \A x \in z : Alike(R, K, x) = z
    BY <1>2, <2>1, <2>2
  <2> QED
    BY <2>2, <2>3, <2>4
<1> HIDE DEF groups
<1>6. ASSUME NEW z \in groups PROVE f[z] \in z /\ g[z] \in z /\ g[z] # f[z]
  <2>1. f[z] \in z
    BY <1>5
  <2>2. g[z] = CHOOSE x \in z : x # f[z]
    OBVIOUS
  <2> HIDE DEF f, g
  <2>3. g[z] \in z /\ g[z] # f[z]
    BY <1>5, <2>1, <2>2
  <2> QED
    BY <2>1, <2>3
<1>7. f = [z \in groups |-> f[z]] /\ g = [z \in groups |-> g[z]]
  OBVIOUS
<1> HIDE DEF f, g
<1>8. \A y, z \in groups : \A x \in y : x \in z => y = z
  <2> SUFFICES ASSUME NEW y \in groups, NEW z \in groups, NEW x \in y, x \in z PROVE y = z
    OBVIOUS
  <2>1. Alike(R, K, x) = y /\ Alike(R, K, x) = z
    BY <1>5
  <2> QED
    BY <2>1
<1>9. Cardinality(A) = Cardinality(groups) /\ IsFiniteSet(A)
  <2>1. f \in [groups -> A]
    BY <1>7
  <2>2. \A y, z \in groups : f[y] = f[z] => y = z
    BY <1>6, <1>8
  <2>3. \A x \in A : \E z \in groups : f[z] = x
    OBVIOUS
  <2> HIDE DEF A
  <2> QED
    BY <1>3, <2>1, <2>2, <2>3, MappedIsAsLarge
<1>10. Cardinality(B) = Cardinality(groups) /\ IsFiniteSet(B)
  <2>1. g \in [groups -> B]
    BY <1>7
  <2>2. \A y, z \in groups : g[y] = g[z] => y = z
    BY <1>6, <1>8
  <2>3. \A x \in B : \E z \in groups : g[z] = x
    OBVIOUS
  <2> HIDE DEF B
  <2> QED
    BY <1>3, <2>1, <2>2, <2>3, MappedIsAsLarge
<1>11. A \cap B = {}
  <2> SUFFICES ASSUME NEW y \in groups, NEW z \in groups, f[y] = g[z] PROVE FALSE
    OBVIOUS
  <2>1. y = z
    BY <1>6, <1>8
  <2> QED
    BY <1>6, <2>1
<1>12. A \cup B \in SUBSET U
  <2>1. \A z \in groups : f[z] \in U /\ g[z] \in U
    BY <1>3, <1>6
  <2> QED
    BY <2>1
<1> DEFINE C == A \cup B
<1> HIDE DEF A, B
<1>13. IsFiniteSet(C) /\ Cardinality(C) <= Cardinality(U)
  BY <1>4, <1>12, FS_Subset
<1>14. Cardinality(A) + Cardinality(B) = Cardinality(C)
  <2>1. A \cup B = C
    OBVIOUS
  <2> HIDE DEF C
  <2> QED
    BY <1>11, <1>13, <2>1, PartsAddUp
<1> HIDE DEF C
<1> QED
  BY <1>3, <1>9, <1>10, <1>13, <1>14, FS_CardinalityType DEF groups, U

\* The duplicates of a file, on any of its columns.
LEMMA DuplicatesAddUp ==
  ASSUME NEW data \in Files, NEW subset \in SUBSET DOMAIN data
  PROVE  LET d == Duplicates(data, subset)
             kept == {[c \in Keys(data, subset) |-> data[c][r]] : r \in Rows(data)}
         IN  /\ Cardinality(Rows(data)) - d.redundant_rows = Cardinality(kept)
             /\ d.duplicate_rows >= 2 * d.duplicate_groups
<1> DEFINE R == Rows(data)
           Key(r) == [c \in Keys(data, subset) |-> data[c][r]]
           K == [r \in R |-> Key(r)]
           kept == {Key(r) : r \in R}
           groups == Groups(data, subset)
           d == Duplicates(data, subset)
           U == Repeated(R, K)
<1>1. IsFiniteSet(R)
  <2>1. data # <<>> /\ data[1] \in Seq(Cell)
    <3>1. data \in Seq(Seq(Cell)) /\ data # <<>>
      BY FileIsColumns
    <3> QED
      BY <3>1
  <2>2. R = 1..Len(data[1]) /\ Len(data[1]) \in Nat
    BY <2>1 DEF Rows
  <2> QED
    BY <2>2, CountTo
<1>2. groups = Classes(R, K, U)
  <2>1. \A r \in R : K[r] = Key(r)
    OBVIOUS
  <2>2. \A r \in R : Alike(R, K, r) = {q \in R : Key(q) = Key(r)}
    <3> HIDE DEF K, Key
    <3> QED
      BY <2>1 DEF Alike
  <2>3. groups = {{q \in R : Key(q) = Key(r)} :
                  r \in {r \in R : Cardinality({q \in R : Key(q) = Key(r)}) > 1}}
    BY DEF Groups
  <2> HIDE DEF K, Key, R, groups
  <2>4. U = {r \in R : Cardinality({q \in R : Key(q) = Key(r)}) > 1}
    BY <2>2 DEF Repeated
  <2>5. U \in SUBSET R
    BY <2>4
  <2>6. groups = {{q \in R : Key(q) = Key(r)} : r \in U}
    BY <2>3, <2>4
  <2> HIDE DEF U
  <2> QED
    BY <2>2, <2>5, <2>6 DEF Classes
<1>3. kept = KeysOf(R, K)
  BY DEF KeysOf
<1>4. /\ d.duplicate_groups = Cardinality(groups)
      /\ d.duplicate_rows = Cardinality(UNION groups)
      /\ d.redundant_rows = Cardinality(UNION groups) - Cardinality(groups)
  BY DEF Duplicates, DuplicateReport
<1> HIDE DEF groups, d, K, R, kept
<1>5. /\ UNION groups = U
      /\ Cardinality(groups) \in Nat /\ Cardinality(U) \in Nat
      /\ Cardinality(R) \in Nat /\ Cardinality(kept) \in Nat
      /\ Cardinality(R) - Cardinality(U) + Cardinality(groups) = Cardinality(kept)
  <2> DEFINE k == KeysOf(R, K)
             g == Classes(R, K, U)
  <2>1. /\ UNION g = U
        /\ Cardinality(g) \in Nat /\ Cardinality(U) \in Nat
        /\ Cardinality(R) \in Nat /\ Cardinality(k) \in Nat
        /\ Cardinality(R) - Cardinality(U) + Cardinality(g) = Cardinality(k)
    BY <1>1, ClassesAddUp
  <2> HIDE DEF k, g
  <2>2. groups = g /\ kept = k
    BY <1>2, <1>3 DEF k, g
  <2> QED
    BY <2>1, <2>2
<1>6. Cardinality(U) >= 2 * Cardinality(groups)
  BY <1>1, <1>2, GroupsAreTwo
<1> HIDE DEF U
<1>7. Cardinality(R) - d.redundant_rows = Cardinality(kept)
  <2>1. d.redundant_rows = Cardinality(U) - Cardinality(groups)
    BY <1>4, <1>5
  <2> QED
    BY <1>5, <2>1
<1>8. d.duplicate_rows >= 2 * d.duplicate_groups
  BY <1>4, <1>5, <1>6
<1> QED
  BY <1>7, <1>8 DEF R, d, kept

\* What the sum over a set computes on the way: the sum over each of its parts.
SumsTo(S, f) ==
  f = [s \in SUBSET S |->
         IF s = {} THEN 0
         ELSE (CHOOSE x \in s : TRUE)[3] + f[s \ {CHOOSE x \in s : TRUE}]]

\* What is sorted into a set is as much as its elements say together.
LEMMA SumOfParts ==
  ASSUME NEW S, IsFiniteSet(S), NEW D, IsFiniteSet(D), NEW h \in [D -> S],
         \A x \in S : x[3] = Cardinality(Part(D, h, x))
  PROVE  MapThenSumSet(LAMBDA x : x[3], S) = Cardinality(D)
<1> DEFINE In(s) == {r \in D : h[r] \in s}
           g == [s \in SUBSET S |-> Cardinality(In(s))]
           iter[s \in SUBSET S] ==
              IF s = {} THEN 0
              ELSE (CHOOSE x \in s : TRUE)[3] + iter[s \ {CHOOSE x \in s : TRUE}]
<1>1. MapThenSumSet(LAMBDA x : x[3], S) = iter[S]
  BY DEF MapThenSumSet, MapThenFoldSet
<1>2. ASSUME NEW s \in SUBSET S, s # {}
      PROVE  g[s] = (CHOOSE x \in s : TRUE)[3] + g[s \ {CHOOSE x \in s : TRUE}]
  <2> DEFINE x == CHOOSE x \in s : TRUE
             A == Part(D, h, x)
             B == In(s \ {x})
             C == In(s)
  <2>1. x \in s
    BY <1>2
  <2>2. x[3] = Cardinality(A)
    <3> HIDE DEF x
    <3> QED
      BY <2>1
  <2>3. A \cup B = C /\ A \cap B = {} /\ C \in SUBSET D
    <3> HIDE DEF x
    <3> QED
      BY <2>1 DEF Part
  <2>4. g[s] = Cardinality(C) /\ g[s \ {x}] = Cardinality(B)
    <3>1. s \ {x} \in SUBSET S
      OBVIOUS
    <3> HIDE DEF In, x
    <3> QED
      BY <3>1
  <2>5. IsFiniteSet(C)
    BY <2>3, FS_Subset
  <2> HIDE DEF A, B, C, g
  <2>6. Cardinality(A) + Cardinality(B) = Cardinality(C)
    BY <2>3, <2>5, PartsAddUp
  <2>7. g[s] = x[3] + g[s \ {x}]
    BY <2>2, <2>4, <2>6
  <2> QED
    BY <2>7
<1>3. g[{}] = 0
  <2>1. In({}) = {} /\ {} \in SUBSET S
    OBVIOUS
  <2>2. g[{}] = Cardinality(In({}))
    BY <2>1
  <2>3. Cardinality({}) = 0
    BY FS_EmptySet
  <2> QED
    BY <2>1, <2>2, <2>3
<1>4. In(S) = D /\ g[S] = Cardinality(In(S))
  OBVIOUS
<1>5. g = [s \in SUBSET S |-> g[s]]
  OBVIOUS
<1> HIDE DEF g, In
<1>6. SumsTo(S, g)
  <2>1. \A s \in SUBSET S :
           g[s] = IF s = {} THEN 0
                  ELSE (CHOOSE x \in s : TRUE)[3] + g[s \ {CHOOSE x \in s : TRUE}]
    BY <1>2, <1>3
  <2> QED
    BY <1>5, <2>1 DEF SumsTo
<1>7. SumsTo(S, iter)
  <2>1. iter = CHOOSE f : SumsTo(S, f)
    BY DEF SumsTo
  <2> HIDE DEF iter
  <2> QED
    BY <1>6, <2>1
<1> HIDE DEF iter
<1> DEFINE Odd == {k \in Nat : \E s \in SUBSET S : Cardinality(s) = k /\ iter[s] # g[s]}
<1>8. Odd = {}
  <2> SUFFICES ASSUME Odd # {} PROVE FALSE
    OBVIOUS
  <2>1. PICK k \in Odd : \A l \in Odd : k <= l
    <3>1. Odd \in SUBSET Nat
      OBVIOUS
    <3> HIDE DEF Odd
    <3> QED
      BY <3>1, LeastNumber
  <2>2. PICK s \in SUBSET S : Cardinality(s) = k /\ iter[s] # g[s]
    BY <2>1
  <2>3. iter[{}] = 0
    BY <1>7 DEF SumsTo
  <2>4. s # {}
    BY <1>3, <2>2, <2>3
  <2> DEFINE x == CHOOSE x \in s : TRUE
             u == s \ {x}
  <2>5. x \in s
    BY <2>4
  <2>6. iter[s] = x[3] + iter[u] /\ g[s] = x[3] + g[u]
    BY <1>6, <1>7, <2>4 DEF SumsTo
  <2> HIDE DEF x
  <2>7. IsFiniteSet(s) /\ k \in Nat
    BY <2>1, FS_Subset
  <2>8. Cardinality(u) = k - 1 /\ IsFiniteSet(u) /\ u \in SUBSET S
    BY <2>2, <2>5, <2>7, FS_RemoveElement
  <2>9. Cardinality(u) \in Nat
    BY <2>8, FS_CardinalityType
  <2> HIDE DEF u
  <2>10. Cardinality(u) \notin Odd
    <3> HIDE DEF Odd
    <3> QED
      BY <2>1, <2>7, <2>8
  <2>11. iter[u] = g[u]
    BY <2>8, <2>9, <2>10
  <2> QED
    BY <2>2, <2>6, <2>11
<1>9. iter[S] = g[S]
  <2>1. Cardinality(S) \in Nat /\ S \in SUBSET S
    BY FS_CardinalityType
  <2> QED
    BY <1>8, <2>1
<1> QED
  BY <1>1, <1>4, <1>9

\* The values of a column among some rows, the commonest first.
ValuesAmong(data, c, rows) == {data[c][r].text : r \in rows}

LEMMA RankedIsListed ==
  ASSUME NEW data, NEW c, NEW rows, IsFiniteSet(rows), \A r \in rows : data[c][r].text \in Text
  PROVE  LET V == ValuesAmong(data, c, rows)
         IN  Lists(Ranked(data, c, rows), V) /\ IsFiniteSet(V)
<1> DEFINE V == ValuesAmong(data, c, rows)
           Many(v) == Cardinality({r \in rows : data[c][r].text = v})
           Before(t, u) == Many(t) > Many(u) \/ (Many(t) = Many(u) /\ Alphabetical(t, u))
           R == {p \in V \X V : Before(p[1], p[2])}
           t == Ranked(data, c, rows)
           n == Cardinality(V)
<1>1. IsFiniteSet(V)
  <2> DEFINE f == [r \in rows |-> data[c][r].text]
  <2>1. f \in Surjection(rows, V)
    BY DEF Surjection, ValuesAmong
  <2> HIDE DEF f, V
  <2> QED
    BY <2>1, FS_Surjection
<1>2. \A v \in V : Many(v) \in Nat
  <2> TAKE v \in V
  <2>1. {r \in rows : data[c][r].text = v} \in SUBSET rows
    OBVIOUS
  <2> QED
    BY <2>1, FS_Subset, FS_CardinalityType
<1>3. /\ \A v \in V : v.rank \in Int
      /\ \A v, w \in V : v.rank = w.rank => v = w
  <2>1. V \in SUBSET Text
    BY DEF ValuesAmong
  <2> QED
    BY <2>1, CellsAssumption
<1>4. \A v, w \in V : <<v, w>> \in R <=> Before(v, w)
  OBVIOUS
<1>5. StrictOrder(V, R)
  <2> HIDE DEF V, R, Many
  <2>1. \A v \in V : ~Before(v, v)
    BY <1>2, <1>3 DEF Alphabetical
  <2>2. \A u, v, w \in V : Before(u, v) /\ Before(v, w) => Before(u, w)
    BY <1>2, <1>3 DEF Alphabetical
  <2>3. \A v, w \in V : v = w \/ Before(v, w) \/ Before(w, v)
    BY <1>2, <1>3 DEF Alphabetical
  <2> HIDE DEF Before
  <2> QED
    BY <1>4, <2>1, <2>2, <2>3 DEF StrictOrder
<1>6. \A b \in V : Predecessors(V, R, b) = {a \in V : Before(a, b)}
  <2> HIDE DEF R, Before
  <2> QED
    BY <1>4 DEF Predecessors
<1>7. t = [i \in 1..n |-> CHOOSE b \in V : Cardinality({a \in V : Before(a, b)}) = i - 1]
  BY DEF Ranked, InOrder, ValuesAmong
<1>8. ASSUME NEW i \in 1..n PROVE t[i] \in V /\ Cardinality(Predecessors(V, R, t[i])) = i - 1
  <2>1. \E b \in V : Cardinality(Predecessors(V, R, b)) = i - 1
    <3> HIDE DEF V, R
    <3> QED
      BY <1>1, <1>5, PlaceIsTaken
  <2>2. \E b \in V : Cardinality({a \in V : Before(a, b)}) = i - 1
    <3> HIDE DEF V, R, Before
    <3> QED
      BY <1>6, <2>1
  <2>3. t[i] = CHOOSE b \in V : Cardinality({a \in V : Before(a, b)}) = i - 1
    <3> HIDE DEF t, V, Before
    <3> QED
      BY <1>7
  <2>4. t[i] \in V /\ Cardinality({a \in V : Before(a, t[i])}) = i - 1
    <3> HIDE DEF t, V, Before
    <3> QED
      BY <2>2, <2>3
  <2> HIDE DEF t, V, R, Before
  <2> QED
    BY <1>6, <2>4
<1>9. t = [i \in 1..n |-> t[i]]
  <2> HIDE DEF V, Before
  <2> QED
    BY <1>7
<1>10. Lists(t, V)
  <2> HIDE DEF t, V, R, Before
  <2>1. Ordered(t, V, R)
    BY <1>1, <1>5, <1>8, <1>9, PlacesAreOrdered DEF n
  <2> QED
    BY <2>1 DEF Ordered
<1> QED
  BY <1>1, <1>10

\* No level is left out only where there is room for all.
LEMMA LevelsAreKept ==
  ASSUME NEW V, NEW t, Lists(t, V), NEW limit \in Nat
  PROVE  LET kept == ToSet(AtMost(t, limit))
         IN  /\ kept \in SUBSET V
             /\ Above0(Len(t) - limit) = 0 <=> kept = V
<1> DEFINE n == Cardinality(V)
           m == Min({limit, n})
           top == AtMost(t, limit)
           kept == ToSet(top)
<1>1. n \in Nat /\ t \in [1..n -> V] /\ IsInjective(t) /\ \A x \in V : \E i \in 1..n : t[i] = x
  BY DEF Lists
<1> HIDE DEF n
<1>2. t \in Seq(V) /\ Len(t) = n
  BY <1>1
<1>3. m \in 0..n /\ m <= limit /\ (m = n \/ m = limit)
  BY <1>1, SmallerOfTwo
<1>4. top = SubSeq(t, 1, m)
  BY <1>2 DEF AtMost
<1> HIDE DEF top, m
<1>5. \A i \in 1..m : i \in 1..n /\ t[i] \in V
  BY <1>1, <1>3
<1>6. top \in Seq(V) /\ Len(top) = m /\ \A i \in 1..m : top[i] = t[i]
  BY <1>3, <1>4, <1>5, SubSeqProperties
<1>7. DOMAIN top = 1..m
  BY <1>6
<1>8. kept = {t[i] : i \in 1..m}
  BY <1>6, <1>7 DEF ToSet
<1> HIDE DEF kept
<1>9. kept \in SUBSET V
  BY <1>5, <1>8
<1>10. Above0(n - limit) = 0 <=> n <= limit
  <2> DEFINE d == n - limit
  <2>1. d \in Int /\ (d <= 0 <=> n <= limit)
    BY <1>1
  <2> HIDE DEF d
  <2>2. Max({0, d}) = IF 0 <= d THEN d ELSE 0
    BY <2>1, MaxOfTwo
  <2>3. Max({0, d}) = 0 <=> d <= 0
    BY <2>1, <2>2
  <2> QED
    BY <2>1, <2>3 DEF Above0, d
<1>11. ASSUME n <= limit PROVE kept = V
  <2>1. m = n
    BY <1>1, <1>3, <1>11
  <2> QED
    BY <1>1, <1>8, <1>9, <2>1
<1>12. ASSUME ~(n <= limit) PROVE kept # V
  <2>1. m + 1 \in 1..n /\ m + 1 \notin 1..m
    BY <1>1, <1>3, <1>12
  <2>2. t[m + 1] \in V
    BY <1>1, <2>1
  <2>3. ASSUME t[m + 1] \in kept PROVE FALSE
    <3>1. PICK i \in 1..m : t[i] = t[m + 1]
      BY <1>8, <2>3
    <3>2. i = m + 1
      BY <1>1, <1>5, <2>1, <3>1 DEF IsInjective
    <3> QED
      BY <2>1, <3>2
  <2> QED
    BY <2>2, <2>3
<1> QED
  BY <1>2, <1>9, <1>10, <1>11, <1>12 DEF kept, top

\* The rows of a cell, the cells as triples, and the rows that some cell counts.
Meeting(data, a, b, t, u) ==
  {r \in Filled(data, a, b) : data[a][r].text \in {t} /\ data[b][r].text \in {u}}
Triples(cells) == {<<x.row, x.column, x.count>> : x \in cells}
Counted(data, a, b, across, down) ==
  {r \in Filled(data, a, b) : data[a][r].text \in down /\ data[b][r].text \in across}

\* The cells of a crosstab count every row whose two values are both kept, once.
LEMMA CellsAddUp ==
  ASSUME NEW data, NEW a, NEW b, IsFiniteSet(Filled(data, a, b)),
         NEW across, IsFiniteSet(across), NEW down, IsFiniteSet(down)
  PROVE  MapThenSumSet(LAMBDA x : x[3], Triples(Counts(data, a, b, across, down)))
            = Cardinality(Counted(data, a, b, across, down))
<1> DEFINE cells == Counts(data, a, b, across, down)
           S == Triples(cells)
           n(t, u) == Cardinality(Meeting(data, a, b, t, u))
           D == Counted(data, a, b, across, down)
           h == [r \in D |-> <<data[a][r].text, data[b][r].text,
                               n(data[a][r].text, data[b][r].text)>>]
           At(t, u) == {r \in Filled(data, a, b) : data[a][r].text \in t /\ data[b][r].text \in u}
           k(t, u) == Cardinality(At(t, u))
           Made(t, u) ==
             [row |-> t, column |-> u, count |-> k({t}, {u}),
              row_share |-> Share(k({t}, {u}), k({t}, across)),
              column_share |-> Share(k({t}, {u}), k(down, {u})),
              total_share |-> Share(k({t}, {u}), k(down, across))]
<1>0. cells = {Made(t, u) : t \in down, u \in across}
  BY DEF Counts
<1>11. \A t, u : k({t}, {u}) = n(t, u)
  BY DEF Meeting
<1> HIDE DEF cells, n, k, At
<1>12. \A t, u : Made(t, u).row = t /\ Made(t, u).column = u /\ Made(t, u).count = n(t, u)
  BY <1>11
<1> HIDE DEF Made
<1>1. ASSUME NEW x \in cells
      PROVE  \E t \in down, u \in across : x.row = t /\ x.column = u /\ x.count = n(t, u)
  BY <1>0, <1>12
<1>2. ASSUME NEW t \in down, NEW u \in across
      PROVE  \E x \in cells : x.row = t /\ x.column = u /\ x.count = n(t, u)
  BY <1>0, <1>12
<1>3. \A x \in S : \E t \in down, u \in across : x = <<t, u, n(t, u)>>
  BY <1>1 DEF Triples
<1>4. \A t \in down, u \in across : <<t, u, n(t, u)>> \in S
  BY <1>2 DEF Triples
<1> HIDE DEF S
<1>5. IsFiniteSet(S)
  <2> DEFINE f == [x \in S |-> <<x[1], x[2]>>]
             P == down \X across
  <2>1. f \in [S -> P]
    BY <1>3
  <2>2. \A x, y \in S : f[x] = f[y] => x = y
    <3> SUFFICES ASSUME NEW x \in S, NEW y \in S, f[x] = f[y] PROVE x = y
      OBVIOUS
    <3>1. x[1] = y[1] /\ x[2] = y[2]
      OBVIOUS
    <3>2. x = <<x[1], x[2], n(x[1], x[2])>> /\ y = <<y[1], y[2], n(y[1], y[2])>>
      BY <1>3
    <3> QED
      BY <3>1, <3>2
  <2>3. IsFiniteSet(P)
    BY FS_Product
  <2> HIDE DEF f, P
  <2>4. f \in Injection(S, P)
    BY <2>1, <2>2 DEF Injection, IsInjective
  <2> QED
    BY <2>3, <2>4, FS_Injection
<1>6. IsFiniteSet(D)
  <2>1. D \in SUBSET Filled(data, a, b)
    BY DEF Counted
  <2> QED
    BY <2>1, FS_Subset
<1>7. \A r \in D : data[a][r].text \in down /\ data[b][r].text \in across
  BY DEF Counted
<1>8. h \in [D -> S]
  <2>1. \A r \in D : h[r] \in S
    BY <1>4, <1>7
  <2>2. h = [r \in D |-> h[r]]
    OBVIOUS
  <2> HIDE DEF h, D
  <2> QED
    BY <2>1, <2>2
<1>9. ASSUME NEW x \in S PROVE x[3] = Cardinality(Part(D, h, x))
  <2>1. PICK t \in down, u \in across : x = <<t, u, n(t, u)>>
    BY <1>3
  <2>2. \A r \in D : h[r] = x <=> data[a][r].text = t /\ data[b][r].text = u
    <3>1. \A r \in D : h[r] = <<data[a][r].text, data[b][r].text,
                                n(data[a][r].text, data[b][r].text)>>
      OBVIOUS
    <3> HIDE DEF h, D
    <3> QED
      BY <2>1, <3>1
  <2> HIDE DEF h
  <2>3. Part(D, h, x) = Meeting(data, a, b, t, u)
    BY <2>2 DEF Part, Counted, Meeting
  <2>4. x[3] = n(t, u)
    BY <2>1
  <2> QED
    BY <2>3, <2>4 DEF n
<1> HIDE DEF h, D
<1>10. MapThenSumSet(LAMBDA x : x[3], S) = Cardinality(D)
  BY <1>5, <1>6, <1>8, <1>9, SumOfParts
<1> QED
  BY <1>10 DEF S, D, cells

\* A crosstab's cells, incomplete rows and omitted levels are all the rows.
LEMMA CrosstabAddsUp ==
  ASSUME NEW data \in Files, NEW types, NEW a \in DOMAIN data, NEW b \in DOMAIN data,
         Crosstab(data, types, a, b) # Refused
  PROVE  LET m == Crosstab(data, types, a, b)
             counted == MapThenSumSet(LAMBDA x : x[3], Triples(m.cells))
         IN  /\ counted + m.incomplete <= Cardinality(Rows(data))
             /\ (m.omitted_rows = 0 /\ m.omitted_columns = 0) <=>
                   counted + m.incomplete = Cardinality(Rows(data))
<1> DEFINE R == Rows(data)
           F == Filled(data, a, b)
           rows == Ranked(data, a, F)
           columns == Ranked(data, b, F)
           V == ValuesAmong(data, a, F)
           W == ValuesAmong(data, b, F)
           down == ToSet(AtMost(rows, MAX_LEVELS))
           across == ToSet(AtMost(columns, MAX_LEVELS))
           K == Counted(data, a, b, across, down)
           m == Crosstab(data, types, a, b)
           counted == MapThenSumSet(LAMBDA x : x[3], Triples(m.cells))
<1>1. /\ m.cells = Counts(data, a, b, across, down)
      /\ m.incomplete = Cardinality(R) - Cardinality(F)
      /\ m.omitted_rows = Above0(Len(rows) - MAX_LEVELS)
      /\ m.omitted_columns = Above0(Len(columns) - MAX_LEVELS)
  BY DEF Crosstab
<1>2. /\ data # <<>> /\ 1 \in DOMAIN data
      /\ \A c \in DOMAIN data : data[c] \in Seq(Cell) /\ Len(data[c]) = Len(data[1])
  <2>1. /\ data # <<>> /\ DOMAIN data = 1..Len(data) /\ data \in Seq(Seq(Cell))
        /\ \A c \in DOMAIN data : data[c] \in Seq(Cell) /\ Len(data[c]) = Len(data[1])
    BY FileIsColumns
  <2>2. 1 \in DOMAIN data
    BY <2>1, EmptySeq
  <2> QED
    BY <2>1, <2>2
<1>3. R = DOMAIN data[1] /\ R = DOMAIN data[a] /\ R = DOMAIN data[b]
  <2>1. data[a] \in Seq(Cell) /\ data[b] \in Seq(Cell) /\ data[1] \in Seq(Cell)
        /\ Len(data[a]) = Len(data[1]) /\ Len(data[b]) = Len(data[1])
    BY <1>2
  <2> QED
    BY <1>2, <2>1 DEF Rows
<1>4. IsFiniteSet(R) /\ Cardinality(R) \in Nat
  <2>1. data[1] \in Seq(Cell)
    BY <1>2
  <2> DEFINE z == data[1]
             n == Len(z)
  <2> HIDE DEF z
  <2>2. z \in Seq(Cell)
    BY <2>1 DEF z
  <2>3. DOMAIN z = 1..n /\ n \in Nat
    BY <2>2
  <2>4. R = 1..n
    BY <1>3, <2>3 DEF z
  <2> HIDE DEF n, R
  <2>5. IsFiniteSet(1..n) /\ Cardinality(1..n) = n
    BY <2>3, CountTo
  <2> QED
    BY <2>3, <2>4, <2>5
<1>5. F \in SUBSET R
  BY DEF Filled
<1>6. \A r \in F : data[a][r].text \in Text /\ data[b][r].text \in Text
  <2> SUFFICES ASSUME NEW r \in F PROVE data[a][r].text \in Text /\ data[b][r].text \in Text
    OBVIOUS
  <2>1. r \in HasValue(data[a]) /\ r \in HasValue(data[b])
    BY <1>3, <1>5 DEF HasValue, Filled, Hole
  <2> QED
    BY <1>2, <2>1, TextIsOfColumn
<1> HIDE DEF R, F, m
<1>7. IsFiniteSet(F) /\ Cardinality(F) \in Nat
  BY <1>4, <1>5, FS_Subset, FS_CardinalityType
<1>8. Lists(rows, V) /\ IsFiniteSet(V) /\ Lists(columns, W) /\ IsFiniteSet(W)
  BY <1>6, <1>7, RankedIsListed
<1>9. MAX_LEVELS \in Nat
  BY ReportsAssumption
<1>10. (\A r \in F : data[a][r].text \in V /\ data[b][r].text \in W)
       /\ (\A v \in V : \E r \in F : data[a][r].text = v)
       /\ (\A w \in W : \E r \in F : data[b][r].text = w)
  BY DEF ValuesAmong
<1> HIDE DEF rows, columns, V, W
<1>11. /\ down \in SUBSET V /\ (Above0(Len(rows) - MAX_LEVELS) = 0 <=> down = V)
       /\ across \in SUBSET W /\ (Above0(Len(columns) - MAX_LEVELS) = 0 <=> across = W)
  BY <1>8, <1>9, LevelsAreKept
<1> HIDE DEF down, across
<1>12. IsFiniteSet(down) /\ IsFiniteSet(across)
  BY <1>8, <1>11, FS_Subset
<1>13. counted = Cardinality(K)
  <2>1. IsFiniteSet(Filled(data, a, b))
    BY <1>7 DEF F
  <2>2. MapThenSumSet(LAMBDA x : x[3], Triples(Counts(data, a, b, across, down)))
           = Cardinality(Counted(data, a, b, across, down))
    BY <1>12, <2>1, CellsAddUp
  <2> QED
    BY <1>1, <2>2
<1>14. K \in SUBSET F /\ (\A r \in F : r \in K <=> data[a][r].text \in down
                                                    /\ data[b][r].text \in across)
  BY DEF Counted, F
<1>15. K = F <=> down = V /\ across = W
  <2> HIDE DEF K
  <2>1. down = V /\ across = W => K = F
    BY <1>10, <1>14
  <2>2. K = F => down = V /\ across = W
    BY <1>10, <1>11, <1>14
  <2> QED
    BY <2>1, <2>2
<1> HIDE DEF K, counted
<1>16. Cardinality(K) \in Nat /\ Cardinality(K) <= Cardinality(F)
       /\ (Cardinality(K) = Cardinality(F) <=> K = F)
  <2>1. IsFiniteSet(K) /\ Cardinality(K) <= Cardinality(F)
        /\ (Cardinality(K) = Cardinality(F) => K = F)
    BY <1>7, <1>14, FS_Subset
  <2> QED
    BY <2>1, FS_CardinalityType
<1>17. counted + m.incomplete <= Cardinality(R)
       /\ (counted + m.incomplete = Cardinality(R) <=> K = F)
  <2>1. counted + m.incomplete = Cardinality(K) + Cardinality(R) - Cardinality(F)
    BY <1>1, <1>4, <1>7, <1>13, <1>16
  <2> QED
    BY <1>4, <1>7, <1>16, <2>1
<1>18. (m.omitted_rows = 0 /\ m.omitted_columns = 0) <=> K = F
  BY <1>1, <1>11, <1>15
<1> QED
  BY <1>17, <1>18 DEF m, R, counted

\* A column that groups into a readable number of values has values.
LEMMA CleanHasValues ==
  ASSUME NEW data \in Files, NEW types, NEW limit,
         NEW c \in Cardinalities(data, types, limit).clean
  PROVE  c \in DOMAIN data /\ Trimmed(data[c]) # <<>>
<1> DEFINE column == data[c]
           P == {x \in ToSet(column) : Present(x)}
<1>1. c \in DOMAIN data /\ Cardinality(P) \in 2..limit
  BY DEF Cardinalities, Statistics, Scan
<1>2. column \in Seq(Cell)
  BY <1>1, FileIsColumns
<1>3. Cardinality(P) # 0
  BY <1>1
<1>4. P # {}
  <2> HIDE DEF P
  <2> QED
    BY <1>3, FS_EmptySet
<1>5. PICK i \in DOMAIN column : Present(column[i])
  BY <1>4 DEF ToSet
<1>6. HasValue(column) # {} /\ HasValue(column) \in SUBSET DOMAIN column
  BY <1>5 DEF HasValue
<1>7. Len(Trimmed(column)) = Cardinality(HasValue(column)) /\ Trimmed(column) \in Seq(Text)
  BY <1>2, TrimmedIsTexts
<1>8. IsFiniteSet(HasValue(column))
  BY <1>2, <1>6, PlacesAreFinite
<1>9. Len(Trimmed(column)) # 0
  BY <1>6, <1>7, <1>8, FS_EmptySet
<1> HIDE DEF column
<1>10. Trimmed(column) # <<>>
  BY <1>7, <1>9, EmptySeq
<1> QED
  BY <1>1, <1>10 DEF column

LEMMA ReportsHold == IInv => ReportsAddUp
<1> SUFFICES ASSUME IInv, file # <<>> PROVE ReportsAddUp
  BY DEF ReportsAddUp
<1> DEFINE holes == Missing(file, 0)
<1>1. /\ Typed /\ file \in Files /\ contract.types \in [DOMAIN file -> LogicalType]
  BY DEF IInv, Typed
<1>2. \A c \in DOMAIN file : file[c] \in Seq(Cell) /\ contract.types[c] \in LogicalType
  BY <1>1, FileIsColumns
<1>3. ASSUME NEW c \in DOMAIN file
      PROVE  (\E panel \in Panels(c) : panel.completeness.present < Len(file[c]))
                <=> Cardinality(HolesOf(file[c])) > 0
  <2> DEFINE panel == Panel(file[c], contract.types[c])
  <2>1. panel.completeness.present = Len(Trimmed(file[c]))
    BY <1>2, PanelShows
  <2>2. Panels(c) = {panel}
    BY DEF Panels
  <2>3. /\ Len(Trimmed(file[c])) + Cardinality(HolesOf(file[c])) = Len(file[c])
        /\ Cardinality(HolesOf(file[c])) \in Nat /\ Len(file[c]) \in Nat
        /\ Len(Trimmed(file[c])) \in Nat
    BY <1>2, HolesAreMissing
  <2> HIDE DEF panel
  <2> QED
    BY <2>1, <2>2, <2>3
<1>4. {f.subject : f \in ToSet(holes)}
         = {c \in DOMAIN file : \E panel \in Panels(c) :
                panel.completeness.present < Len(file[c])}
  <2>1. /\ ToSet(holes) = Gaps(file)
        /\ \A g \in Gaps(file) : g.subject \in DOMAIN file /\ g = Gap(file, g.subject)
        /\ \A c \in DOMAIN file : Gap(file, c).missing = Cardinality(HolesOf(file[c]))
        /\ \A c \in DOMAIN file :
              Cardinality(HolesOf(file[c])) > 0 => Gap(file, c) \in Gaps(file)
    BY <1>1, MissingIsListed
  <2>2. \A g \in Gaps(file) : g.missing > 0
    BY DEF Gaps
  <2>3. \A c : Gap(file, c).subject = c
    BY DEF Gap
  <2> DEFINE C == {c \in DOMAIN file : Cardinality(HolesOf(file[c])) > 0}
  <2>4. {f.subject : f \in Gaps(file)} = C
    BY <2>1, <2>2, <2>3
  <2>5. C = {c \in DOMAIN file : \E panel \in Panels(c) :
                panel.completeness.present < Len(file[c])}
    BY <1>3
  <2> HIDE DEF holes, C
  <2> QED
    BY <2>1, <2>4, <2>5
<1>5. \A p \in CoMissing(file, holes), f \in ToSet(holes) :
         (\E i \in {1, 2} : f.subject = p.subject[i]) => p.missing_together <= f.missing
  BY <1>1, TogetherIsFewer
<1>6. \A subset \in SUBSET DOMAIN file :
         LET d == Duplicates(file, subset)
             kept == {[c \in Keys(file, subset) |-> file[c][r]] : r \in Rows(file)}
         IN /\ Cardinality(Rows(file)) - d.redundant_rows = Cardinality(kept)
            /\ d.duplicate_rows >= 2 * d.duplicate_groups
  BY <1>1, DuplicatesAddUp
<1>7. \A a, b \in DOMAIN file :
         LET m == Crosstab(file, contract.types, a, b)
             counted == MapThenSumSet(LAMBDA x : x[3], Triples(m.cells))
         IN m # Refused =>
            /\ counted + m.incomplete <= Cardinality(Rows(file))
            /\ (m.omitted_rows = 0 /\ m.omitted_columns = 0) <=>
                  counted + m.incomplete = Cardinality(Rows(file))
  BY <1>1, CrosstabAddsUp
<1>8. \A c \in Cardinalities(file, contract.types, MAX_LEVELS).clean : Valued(c)
  BY <1>1, CleanHasValues DEF Valued
<1> QED
  BY <1>4, <1>5, <1>6, <1>7, <1>8 DEF ReportsAddUp, Triples

(* The reports over several columns account for the rows, for files of any *)
(* size, every set of columns and every limit on levels and pairs.         *)
THEOREM ReportsAreComplete == Spec => []ReportsAddUp
<1>1. IInv => ReportsAddUp
  BY ReportsHold
<1> QED
  BY <1>1, InductiveInvariant, PTL
=============================================================================
